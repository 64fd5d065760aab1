-------------------------- MODULE TaskListsProofs ---------------------------
(***************************************************************************)
(* Theorems about TaskLists, for every set of users, teams and tasks, any  *)
(* lists asked for by any number of requests, and every time to live.      *)
(***************************************************************************)
EXTENDS TaskLists, FiniteSetTheorems, WellFoundedInduction, TLAPS

Label == {"idle"} \cup ListCalls

-----------------------------------------------------------------------------
(* The inductive invariant.                                                 *)

\* Creation times follow each other: there are at least as many tasks as the
\* latest of them says.
Existing == {k \in Task : tasks[k] # None}
Dense    == \A k \in Existing : tasks[k].created <= Cardinality(Existing)

\* Among n tasks there are enough for a list and for the pages before it.
Roomy(items, n, skipped) ==
    /\ IsFiniteSet(items) /\ skipped \in Nat
    /\ items # {} => skipped + Cardinality(items) <= n

TeamSize(t) == Cardinality(TasksOf(t))

\* What a list may show of what it was asked for.
Fits(items, a, per) ==
    /\ \A i \in items : Matches(i.row, a)
    /\ \A i, j \in items : i.task = j.task => i = j
    /\ Cardinality(items) <= per

\* How many tasks the page of a key, or of a request, skips.
Skipped(key) == (key.page - 1) * key.per
ToSkip(a)    == Offset(a.page, a.per)

\* A cached list is one of its key, and what it has aged by it has lost of its
\* time to live, but for the time of the request that filled it.
EntryOK(key) ==
    cache[key] # None =>
        /\ Fits(cache[key].items, key, key.per)
        /\ Roomy(cache[key].items, TeamSize(key.team), Skipped(key))
        /\ cache[key].age + cache[key].left <= TTL + Span

\* The calls of a handler that has its items.
HasRead == {"tasks.Count(hit)", "tasks.Count", "cache.Set", "reply"}

\* A handler has admitted its caller before it reads, its items fit what it was
\* asked for, and those from the database are no older than it is itself.
SlotOK(s) ==
    /\ pc[s] # "idle" => req[s].user \in User /\ req[s].asked \in Asked
    /\ pc[s] \notin {"idle", "members.IsMember"} => IsMember(req[s].asked.team, req[s].user)
    /\ pc[s] \in HasRead => /\ Fits(found[s].items, req[s].asked, NormalPer(req[s].asked.per))
                            /\ Roomy(found[s].items, TeamSize(req[s].asked.team),
                                     ToSkip(req[s].asked))
                            /\ age[s] < TTL + Span + life[s]
    /\ pc[s] \in {"tasks.Count", "cache.Set"} => age[s] <= life[s]
    /\ pc[s] \notin HasRead => age[s] = 0

Caching == \A key \in Keys : EntryOK(key)
Serving == \A s \in Slot : SlotOK(s)

IInv == TypeOK /\ Dense /\ Caching /\ Serving

-----------------------------------------------------------------------------
(* Pages, sets of tasks and ages.                                           *)

LEMMA MinAndMax ==
    ASSUME NEW a \in Nat, NEW b \in Nat
    PROVE  /\ Min({a, b}) = IF a <= b THEN a ELSE b
           /\ Max({a, b}) = IF a <= b THEN b ELSE a
<1>1. Min({a, b}) = IF a <= b THEN a ELSE b
  BY DEF Min
<1>2. Max({a, b}) = IF a <= b THEN b ELSE a
  BY DEF Max
<1> QED
  BY <1>1, <1>2

\* A set of natural numbers with a bound has a largest element.
LEMMA LargestOf ==
    ASSUME NEW n \in Nat, NEW S \in SUBSET (0..n), S # {}
    PROVE  Max(S) \in S /\ \A j \in S : Max(S) >= j
<1> DEFINE T == {n - j : j \in S}
<1>1. T \subseteq Nat /\ T # {}
  <2>1. \A j \in S : n - j \in Nat
    OBVIOUS
  <2> QED
    BY <2>1
<1>2. PICK x \in T : \A y \in T : <<y, x>> \notin OpToRel(<, Nat)
  BY <1>1, NatLessThanWellFounded, WFMin
<1>3. PICK m \in S : x = n - m
  OBVIOUS
<1>4. ASSUME NEW j \in S PROVE m >= j
  <2>1. n - j \in T /\ n - j \in Nat /\ x \in Nat
    BY <1>1
  <2>2. ~(n - j < x)
    BY <1>2, <2>1 DEF OpToRel
  <2> QED
    BY <1>3, <2>2
<1> QED
  BY <1>4 DEF Max

LEMMA Sizes ==
    /\ Cardinality(Task) \in Nat
    /\ \A S \in SUBSET Task : /\ IsFiniteSet(S) /\ Cardinality(S) \in Nat
                              /\ Cardinality(S) <= Cardinality(Task)
BY TaskListsAssumption, FS_Subset, FS_CardinalityType

LEMMA PerIsNat == \A per \in Nat : NormalPer(per) \in Nat
BY PagingAssumption, MinAndMax DEF NormalPer

LEMMA OlderIsOlder ==
    /\ MaxAge \in Nat
    /\ \A a \in 0..MaxAge : Older(a) \in 0..MaxAge /\ Older(a) <= a + 1
<1>1. MaxAge \in Nat
  BY TaskListsAssumption DEF MaxAge
<1>2. ASSUME NEW a \in 0..MaxAge PROVE Older(a) \in 0..MaxAge /\ Older(a) <= a + 1
  <2>1. a + 1 \in Nat
    OBVIOUS
  <2>2. Older(a) = IF a + 1 <= MaxAge THEN a + 1 ELSE MaxAge
    BY <1>1, <2>1, MinAndMax DEF Older
  <2> QED
    BY <1>1, <2>2
<1> QED
  BY <1>1, <1>2

\* The tasks a list selects: one item each.
LEMMA SelectedItems ==
    ASSUME TypeOK, NEW a
    PROVE  /\ Selected(a) \in SUBSET Item /\ IsFiniteSet(Selected(a))
           /\ Cardinality(Selected(a)) \in 0..Cardinality(Task)
           /\ \A i \in Selected(a) : Matches(i.row, a)
           /\ \A i, j \in Selected(a) : i.task = j.task => i = j
<1> DEFINE S    == {k \in Task : tasks[k] # None /\ Matches(tasks[k], a)}
           f(k) == [task |-> k, row |-> tasks[k]]
<1>1. Selected(a) = {f(k) : k \in S}
  BY DEF Selected
<1>2. S \in SUBSET Task /\ IsFiniteSet(S) /\ Cardinality(S) \in Nat /\ Cardinality(S) <= Cardinality(Task)
  BY Sizes
<1>3. \A k \in S : f(k) \in Item /\ f(k).task = k /\ Matches(f(k).row, a)
  BY DEF TypeOK, Item
<1>4. PICK g \in [S -> Selected(a)] : \A k \in S : g[k] = f(k)
  <2>1. [k \in S |-> f(k)] \in [S -> Selected(a)]
    BY <1>1
  <2> QED
    BY <2>1
<1>5. g \in Surjection(S, Selected(a))
  <2> HIDE DEF S
  <2>1. \A i \in Selected(a) : \E k \in S : g[k] = i
    BY <1>1, <1>4
  <2> QED
    BY <2>1 DEF Surjection
<1>6. IsFiniteSet(Selected(a)) /\ Cardinality(Selected(a)) <= Cardinality(S)
  BY <1>2, <1>5, FS_Surjection
<1>7. Cardinality(Selected(a)) \in Nat
  BY <1>6, FS_CardinalityType
<1>8. Cardinality(Selected(a)) \in 0..Cardinality(Task)
  BY <1>2, <1>6, <1>7, Sizes
<1> HIDE DEF S
<1>9. \A i \in Selected(a) : i \in Item /\ Matches(i.row, a)
  BY <1>1, <1>3
<1>10. \A i, j \in Selected(a) : i.task = j.task => i = j
  BY <1>1, <1>3
<1> QED
  BY <1>6, <1>8, <1>9, <1>10

\* The tasks of a team do not get fewer.
Growing == \A t : TeamSize(t)' \in Nat /\ TeamSize(t) <= TeamSize(t)'

LEMMA TeamSizes ==
    ASSUME NEW t
    PROVE  /\ TasksOf(t) \in SUBSET Task /\ IsFiniteSet(TasksOf(t))
           /\ TeamSize(t) \in Nat
BY Sizes DEF TasksOf, TeamSize

LEMMA SameTasks ==
    ASSUME tasks' = tasks
    PROVE  Growing /\ \A t : TeamSize(t)' = TeamSize(t)
<1>1. ASSUME NEW t PROVE TeamSize(t)' = TeamSize(t)
  BY DEF TeamSize, TasksOf
<1> QED
  BY <1>1, TeamSizes DEF Growing

LEMMA StillRoom ==
    ASSUME Growing, NEW items, NEW t, NEW skipped, Roomy(items, TeamSize(t), skipped)
    PROVE  Roomy(items, TeamSize(t)', skipped)
<1>1. skipped \in Nat /\ Cardinality(items) \in Nat
  BY FS_CardinalityType DEF Roomy
<1>2. TeamSize(t) \in Nat /\ TeamSize(t)' \in Nat /\ TeamSize(t) <= TeamSize(t)'
  BY TeamSizes DEF Growing
<1> QED
  BY <1>1, <1>2 DEF Roomy

\* Whatever page the database answers fits the request.
LEMMA AnswersFit ==
    ASSUME TypeOK, NEW a \in Asked, NEW p \in Answers(a)
    PROVE  /\ p \in SUBSET Item /\ Fits(p, a, NormalPer(a.per))
           /\ Roomy(p, TeamSize(a.team), ToSkip(a))
<1> DEFINE rows    == Selected(a)
           n       == Cardinality(rows)
           first   == Offset(a.page, a.per)
           size    == NormalPer(a.per)
           skipped == Min({first, n})
<1>1. a.page \in Nat /\ a.per \in Nat
  BY TaskListsAssumption
<1>2. size \in Nat /\ n \in Nat
  BY <1>1, PerIsNat, SelectedItems, Sizes
<1>3. first \in Nat
  <2>1. NormalPage(a.page) - 1 \in Nat
    BY <1>1 DEF NormalPage
  <2> HIDE DEF size
  <2>2. \A x, y \in Nat : x * y \in Nat
    OBVIOUS
  <2> QED
    BY <1>2, <2>1, <2>2 DEF Offset, size
<1>4. p \in SUBSET rows /\ Cardinality(p) = Min({size, n - skipped})
  BY DEF Answers, PagesOf
<1>5. /\ Selected(a) \in SUBSET Item /\ IsFiniteSet(p)
       /\ n <= Cardinality(TasksOf(a.team))
  <2> DEFINE f == [i \in Selected(a) |-> i.task]
  <2>1. f \in Injection(Selected(a), TasksOf(a.team))
    <3>1. \A i \in Selected(a) : i.task \in TasksOf(a.team)
      BY DEF Selected, TasksOf, Matches
    <3>2. \A i \in Selected(a) : f[i] = i.task
      OBVIOUS
    <3>3. \A i, j \in Selected(a) : i.task = j.task => i = j
      BY SelectedItems
    <3>4. f \in [Selected(a) -> TasksOf(a.team)]
      BY <3>1
    <3> HIDE DEF f
    <3> QED
      BY <3>2, <3>3, <3>4 DEF Injection, IsInjective
  <2>2. Cardinality(Selected(a)) <= Cardinality(TasksOf(a.team))
    BY <2>1, TeamSizes, FS_Injection
  <2> QED
    BY <1>4, <2>2, SelectedItems, FS_Subset
<1> HIDE DEF first, size, n
<1>6. skipped = IF first <= n THEN first ELSE n
  BY <1>2, <1>3, MinAndMax
<1>7. n - skipped \in Nat
  BY <1>2, <1>3, <1>6
<1> HIDE DEF skipped
<1>8. Cardinality(p) <= size
  BY <1>2, <1>4, <1>7, MinAndMax
<1>9. /\ \A i \in p : Matches(i.row, a)
      /\ \A i, j \in p : i.task = j.task => i = j
  BY <1>4, SelectedItems
<1>10. p # {} => first + Cardinality(p) <= Cardinality(TasksOf(a.team))
  <2> SUFFICES ASSUME p # {} PROVE first + Cardinality(p) <= Cardinality(TasksOf(a.team))
    OBVIOUS
  <2>1. Cardinality(p) \in Nat /\ Cardinality(p) # 0
    BY <1>5, FS_CardinalityType, FS_EmptySet
  <2>2. Cardinality(p) <= n - skipped
    BY <1>2, <1>4, <1>7, MinAndMax
  <2>3. Cardinality(TasksOf(a.team)) \in Nat
    BY TeamSizes DEF TeamSize
  <2> QED
    BY <1>2, <1>3, <1>6, <1>5, <2>1, <2>2, <2>3
<1>11. Roomy(p, TeamSize(a.team), ToSkip(a))
  BY <1>3, <1>10, <1>5 DEF Roomy, TeamSize, ToSkip, first
<1> QED
  BY <1>4, <1>8, <1>9, <1>11, SelectedItems DEF Fits, size

\* What fits a request fits the key it is kept under, and the other way round.
LEMMA KeyFits ==
    ASSUME NEW a \in Asked, NEW items
    PROVE  /\ Key(a) \in Keys
           /\ Fits(items, Key(a), Key(a).per) <=> Fits(items, a, NormalPer(a.per))
           /\ Key(a).team = a.team /\ Skipped(Key(a)) = ToSkip(a)
<1>1. /\ Key(a).team = a.team /\ Key(a).status = a.status /\ Key(a).assignee = a.assignee
      /\ Key(a).per = NormalPer(a.per) /\ Key(a).page = NormalPage(a.page)
  BY DEF Key
<1>2. \A row : Matches(row, Key(a)) <=> Matches(row, a)
  BY <1>1 DEF Matches
<1> QED
  BY <1>1, <1>2 DEF Keys, Fits, Skipped, ToSkip, Offset

-----------------------------------------------------------------------------
(* A step of one handler.                                                   *)

Request == [user : User \cup {None}, asked : Asked \cup {None}]

\* All a step can do to the local state of the handler in a slot.
Becomes(s, call, r, f, l, a) ==
    /\ pc' = [pc EXCEPT ![s] = call] /\ req' = [req EXCEPT ![s] = r]
    /\ found' = [found EXCEPT ![s] = f]
    /\ life' = [life EXCEPT ![s] = l] /\ age' = [age EXCEPT ![s] = a]

LEMMA BecomesTyped ==
    ASSUME TypeOK, NEW s \in Slot, NEW call \in Label, NEW r \in Request, NEW f \in Found,
           NEW l \in 0..Span, NEW a \in 0..MaxAge, Becomes(s, call, r, f, l, a)
    PROVE  /\ pc' \in [Slot -> Label] /\ req' \in [Slot -> Request] /\ found' \in [Slot -> Found]
           /\ life' \in [Slot -> 0..Span] /\ age' \in [Slot -> 0..MaxAge]
           /\ pc'[s] = call /\ req'[s] = r /\ found'[s] = f /\ life'[s] = l /\ age'[s] = a
           /\ \A o \in Slot \ {s} : /\ pc'[o] = pc[o] /\ req'[o] = req[o] /\ found'[o] = found[o]
                                    /\ life'[o] = life[o] /\ age'[o] = age[o]
BY DEF TypeOK, Label, Request, Becomes

LEMMA Typed ==
    ASSUME IInv, NEW s \in Slot
    PROVE  /\ TypeOK /\ SlotOK(s)
           /\ pc[s] \in Label /\ req[s] \in Request /\ found[s] \in Found
           /\ life[s] \in 0..Span /\ age[s] \in 0..MaxAge
           /\ life[s] \in Nat /\ age[s] \in Nat
<1>1. TypeOK /\ SlotOK(s)
  BY DEF IInv, Serving
<1>2. /\ pc[s] \in Label /\ req[s] \in Request /\ found[s] \in Found
      /\ life[s] \in 0..Span /\ age[s] \in 0..MaxAge
  BY <1>1 DEF TypeOK, Label, Request
<1> QED
  BY <1>1, <1>2

LEMMA SlotStays ==
    ASSUME NEW o \in Slot, SlotOK(o), members \subseteq members', Growing,
           pc'[o] = pc[o], req'[o] = req[o], found'[o] = found[o],
           life'[o] = life[o], age'[o] = age[o]
    PROVE  SlotOK(o)'
<1>1. pc[o] \in HasRead =>
        Roomy(found'[o].items, TeamSize(req[o].asked.team)', ToSkip(req'[o].asked))
  <2> SUFFICES ASSUME pc[o] \in HasRead
               PROVE  Roomy(found[o].items, TeamSize(req[o].asked.team)', ToSkip(req[o].asked))
    OBVIOUS
  <2>1. PICK items, t, skipped :
          /\ items = found[o].items /\ t = req[o].asked.team /\ skipped = ToSkip(req[o].asked)
    OBVIOUS
  <2>2. Roomy(items, TeamSize(t), skipped)
    BY <2>1 DEF SlotOK
  <2>3. Roomy(items, TeamSize(t)', skipped)
    BY <2>2, StillRoom
  <2> QED
    BY <2>1, <2>3
<1> QED
  BY <1>1 DEF SlotOK, IsMember, Fits, Matches, HasRead

LEMMA HandlerKeeps ==
    ASSUME IInv, NEW s \in Slot, NEW call \in Label, NEW r \in Request, NEW f \in Found,
           NEW l \in 0..Span, NEW a \in 0..MaxAge, Becomes(s, call, r, f, l, a),
           UNCHANGED <<members, tasks, writes>>,
           cache' \in [Keys -> Entry \cup {None}], Caching', SlotOK(s)'
    PROVE  IInv'
<1>1. TypeOK
  BY DEF IInv
<1>2. TypeOK'
  BY <1>1, BecomesTyped DEF TypeOK, Label, Request
<1>3. Dense'
  BY DEF IInv, Dense, Existing
<1>4. ASSUME NEW o \in Slot \ {s} PROVE SlotOK(o)'
  <2>1. SlotOK(o)
    BY DEF IInv, Serving
  <2>2. /\ pc'[o] = pc[o] /\ req'[o] = req[o] /\ found'[o] = found[o]
        /\ life'[o] = life[o] /\ age'[o] = age[o]
    BY <1>1, BecomesTyped
  <2> QED
    BY <2>1, <2>2, SlotStays, SameTasks
<1>5. Serving'
  BY <1>4 DEF Serving
<1> QED
  BY <1>2, <1>3, <1>5 DEF IInv

\* What a cached list says stays true while tasks are added to the team.
LEMMA EntryStays ==
    ASSUME NEW key \in Keys, EntryOK(key), Growing, NEW old \in Nat, NEW new \in Nat,
           cache'[key] # None => /\ cache[key] # None /\ cache'[key].items = cache[key].items
                                 /\ cache[key].age + cache[key].left = old
                                 /\ cache'[key].age + cache'[key].left = new /\ new <= old
    PROVE  EntryOK(key)'
<1> SUFFICES ASSUME cache'[key] # None PROVE EntryOK(key)'
  BY DEF EntryOK
<1>1. PICK items, t, skipped :
        items = cache[key].items /\ t = key.team /\ skipped = Skipped(key)
  OBVIOUS
<1>2. Roomy(items, TeamSize(t), skipped) /\ Fits(items, key, key.per) /\ old <= TTL + Span
  BY <1>1 DEF EntryOK
<1>3. Roomy(items, TeamSize(t)', skipped)
  BY <1>2, StillRoom
<1>4. new <= TTL + Span
  BY <1>2, TaskListsAssumption
<1>5. Skipped(key)' = Skipped(key) /\ TeamSize(key.team)' = TeamSize(t)'
  BY <1>1 DEF Skipped
<1> QED
  BY <1>1, <1>2, <1>3, <1>4, <1>5 DEF EntryOK, Fits, Matches

LEMMA EntriesStay ==
    ASSUME IInv, UNCHANGED cache, Growing
    PROVE  cache' \in [Keys -> Entry \cup {None}] /\ Caching'
<1>1. ASSUME NEW key \in Keys PROVE EntryOK(key)'
  <2>1. EntryOK(key)
    BY DEF IInv, Caching
  <2>2. CASE cache[key] = None
    BY <2>2 DEF EntryOK
  <2>3. CASE cache[key] # None
    <3>1. cache[key] \in Entry
      BY <2>3 DEF IInv, TypeOK
    <3>2. cache[key].age + cache[key].left \in Nat
      BY <3>1, OlderIsOlder, TaskListsAssumption DEF Entry
    <3> QED
      BY <2>1, <3>2, EntryStays
  <2> QED
    BY <2>2, <2>3
<1> QED
  BY <1>1 DEF IInv, TypeOK, Caching

LEMMA CacheStays ==
    ASSUME IInv, UNCHANGED <<tasks, cache>>
    PROVE  cache' \in [Keys -> Entry \cup {None}] /\ Caching'
BY EntriesStay, SameTasks

\* A handler step leaves the tasks alone, and with them what a page may show.
LEMMA PageStays ==
    ASSUME UNCHANGED tasks, NEW s \in Slot, NEW items, NEW a,
           Roomy(items, TeamSize(a.team), ToSkip(a)), found'[s].items = items, req'[s].asked = a
    PROVE  Roomy(found[s].items, TeamSize(req[s].asked.team), ToSkip(req[s].asked))'
<1>1. TeamSize(req[s].asked.team)' = TeamSize(a.team)
  BY DEF TeamSize, TasksOf
<1>2. ToSkip(req[s].asked)' = ToSkip(a)
  BY DEF ToSkip
<1> QED
  BY <1>1, <1>2

LEMMA RestTyped ==
    NoReq \in Request /\ Nothing \in Found /\ 0 \in 0..Span /\ 0 \in 0..MaxAge /\ "idle" \in Label
BY TaskListsAssumption, Sizes, OlderIsOlder DEF NoReq, Request, Nothing, Found, Label

LEMMA FinishKeeps ==
    ASSUME IInv, NEW s \in Slot, Finish(s)
    PROVE  IInv'
<1>1. Becomes(s, "idle", NoReq, Nothing, 0, 0) /\ UNCHANGED <<members, tasks, writes, cache>>
  BY DEF Finish, Becomes, KeepAll
<1>2. pc'[s] = "idle" /\ age'[s] = 0
  BY <1>1, RestTyped, BecomesTyped DEF IInv
<1>3. SlotOK(s)'
  BY <1>2 DEF SlotOK, HasRead
<1> QED
  BY <1>1, <1>3, RestTyped, CacheStays, HandlerKeeps

LEMMA CallListKeeps ==
    ASSUME IInv, NEW s \in Slot, NEW u \in User, NEW a \in Asked, CallList(s, u, a)
    PROVE  IInv'
<1> DEFINE r == [user |-> u, asked |-> a]
<1>1. r \in Request /\ r.user = u /\ r.asked = a /\ "members.IsMember" \in Label
  BY DEF Request, Label, ListCalls
<1>2. /\ Becomes(s, "members.IsMember", r, found[s], life[s], age[s])
      /\ UNCHANGED <<members, tasks, writes, cache>> /\ pc[s] = "idle"
  BY Typed DEF CallList, Becomes, KeepAll, TypeOK
<1> HIDE DEF r
<1>3. pc'[s] = "members.IsMember" /\ req'[s] = r /\ age'[s] = age[s]
  BY <1>1, <1>2, Typed, BecomesTyped
<1>4. age[s] = 0
  BY <1>2, Typed DEF SlotOK, HasRead
<1>5. SlotOK(s)'
  BY <1>1, <1>3, <1>4 DEF SlotOK, HasRead
<1> QED
  BY <1>1, <1>2, <1>5, Typed, CacheStays, HandlerKeeps

LEMMA CallerIsMemberKeeps ==
    ASSUME IInv, NEW s \in Slot, CallerIsMember(s)
    PROVE  IInv'
<1>1. CASE Finish(s)
  BY <1>1, FinishKeeps
<1>2. CASE /\ pc[s] = "members.IsMember" /\ IsMember(req[s].asked.team, req[s].user)
           /\ Goto(s, "cache.Get") /\ UNCHANGED <<found, age>> /\ KeepAll
  <2>1. /\ Becomes(s, "cache.Get", req[s], found[s], life[s], age[s])
        /\ UNCHANGED <<members, tasks, writes, cache>>
    BY <1>2, Typed DEF Goto, Becomes, KeepAll, TypeOK
  <2>2. "cache.Get" \in Label
    BY DEF Label, ListCalls
  <2>3. /\ pc'[s] = "cache.Get" /\ req'[s] = req[s] /\ age'[s] = age[s]
    BY <2>1, <2>2, Typed, BecomesTyped
  <2>4. age[s] = 0 /\ req[s].user \in User /\ req[s].asked \in Asked
    BY <1>2, Typed DEF SlotOK, HasRead
  <2>5. SlotOK(s)'
    BY <1>2, <2>1, <2>3, <2>4 DEF SlotOK, HasRead, IsMember
  <2> QED
    BY <2>1, <2>2, <2>5, Typed, CacheStays, HandlerKeeps
<1> QED
  BY <1>1, <1>2 DEF CallerIsMember

LEMMA CacheGetKeeps ==
    ASSUME IInv, NEW s \in Slot, CacheGet(s)
    PROVE  IInv'
<1>1. pc[s] = "cache.Get" /\ UNCHANGED <<members, tasks, writes, cache>>
  BY DEF CacheGet, KeepAll
<1>2. /\ age[s] = 0 /\ req[s].user \in User /\ req[s].asked \in Asked
      /\ IsMember(req[s].asked.team, req[s].user)
  BY <1>1, Typed DEF SlotOK, HasRead
<1>3. PICK key \in Keys : key = Key(req[s].asked)
  BY <1>2 DEF Keys
<1>4. CASE Goto(s, "tasks.List") /\ UNCHANGED <<found, age>>
  <2>1. Becomes(s, "tasks.List", req[s], found[s], life[s], age[s])
    BY <1>4, Typed DEF Goto, Becomes, TypeOK
  <2>2. "tasks.List" \in Label
    BY DEF Label, ListCalls
  <2>3. pc'[s] = "tasks.List" /\ req'[s] = req[s] /\ age'[s] = age[s]
    BY <2>1, <2>2, Typed, BecomesTyped
  <2>4. SlotOK(s)'
    BY <1>1, <1>2, <2>3 DEF SlotOK, HasRead, IsMember
  <2> QED
    BY <1>1, <2>1, <2>2, <2>4, Typed, CacheStays, HandlerKeeps
<1>5. CASE /\ cache[key] # None
           /\ found' = [found EXCEPT ![s].items = cache[key].items]
           /\ age' = [age EXCEPT ![s] = cache[key].age]
           /\ Goto(s, "tasks.Count(hit)")
  <2> DEFINE f == [found[s] EXCEPT !.items = cache[key].items]
             a == cache[key].age
  <2>1. cache[key] \in Entry
    BY <1>5, Typed DEF TypeOK
  <2>2. f \in Found /\ f.items = cache[key].items /\ a \in 0..MaxAge /\ cache[key].left \in 1..TTL
    BY <2>1, Typed DEF Found, Entry
  <2>3. Becomes(s, "tasks.Count(hit)", req[s], f, life[s], a)
    BY <1>5, Typed DEF Goto, Becomes, TypeOK
  <2>4. "tasks.Count(hit)" \in Label
    BY DEF Label, ListCalls
  <2>5. /\ Fits(cache[key].items, key, key.per) /\ a + cache[key].left <= TTL + Span
    BY <1>5 DEF IInv, Caching, EntryOK
  <2>6. Fits(f.items, req[s].asked, NormalPer(req[s].asked.per))
    BY <1>2, <1>3, <2>2, <2>5, KeyFits
  <2>7. Roomy(f.items, TeamSize(req[s].asked.team), ToSkip(req[s].asked))
    BY <1>2, <1>3, <1>5, <2>2, KeyFits DEF IInv, Caching, EntryOK
  <2> HIDE DEF f, a
  <2>8. /\ pc'[s] = "tasks.Count(hit)" /\ req'[s] = req[s] /\ found'[s] = f
        /\ life'[s] = life[s] /\ age'[s] = a
    BY <2>2, <2>3, <2>4, Typed, BecomesTyped
  <2>9. a < TTL + Span + life[s]
    BY <2>2, <2>5, Typed, TaskListsAssumption, OlderIsOlder
  <2>10. Roomy(found[s].items, TeamSize(req[s].asked.team), ToSkip(req[s].asked))'
    BY <1>1, <2>8, <2>7, PageStays
  <2>11. SlotOK(s)'
    BY <1>1, <1>2, <2>6, <2>8, <2>9, <2>10 DEF SlotOK, HasRead, IsMember, Fits, Matches
  <2> QED
    BY <1>1, <2>2, <2>3, <2>4, <2>11, Typed, CacheStays, HandlerKeeps
<1> QED
  BY <1>3, <1>4, <1>5 DEF CacheGet

LEMMA ListKeeps ==
    ASSUME IInv, NEW s \in Slot, List(s)
    PROVE  IInv'
<1>1. pc[s] = "tasks.List" /\ UNCHANGED <<members, tasks, writes, cache>>
  BY DEF List, KeepAll
<1>2. /\ age[s] = 0 /\ req[s].user \in User /\ req[s].asked \in Asked
      /\ IsMember(req[s].asked.team, req[s].user)
  BY <1>1, Typed DEF SlotOK, HasRead
<1>3. PICK p \in Answers(req[s].asked) : found' = [found EXCEPT ![s].items = p]
  BY DEF List
<1>4. /\ p \in SUBSET Item /\ Fits(p, req[s].asked, NormalPer(req[s].asked.per))
      /\ Roomy(p, TeamSize(req[s].asked.team), ToSkip(req[s].asked))
  BY <1>2, Typed, AnswersFit
<1> DEFINE f == [found[s] EXCEPT !.items = p]
<1>5. f \in Found /\ f.items = p
  BY <1>4, Typed DEF Found
<1>6. Becomes(s, "tasks.Count", req[s], f, life[s], age[s])
  BY <1>3, Typed DEF List, Goto, Becomes, TypeOK
<1> HIDE DEF f
<1>7. "tasks.Count" \in Label
  BY DEF Label, ListCalls
<1>8. /\ pc'[s] = "tasks.Count" /\ req'[s] = req[s] /\ found'[s] = f
      /\ life'[s] = life[s] /\ age'[s] = age[s]
  BY <1>5, <1>6, <1>7, Typed, BecomesTyped
<1>9. age[s] <= life[s] /\ age[s] < TTL + Span + life[s]
  BY <1>2, Typed, TaskListsAssumption
<1>10. Roomy(found[s].items, TeamSize(req[s].asked.team), ToSkip(req[s].asked))'
  BY <1>1, <1>4, <1>5, <1>8, PageStays
<1>11. SlotOK(s)'
  BY <1>1, <1>2, <1>4, <1>5, <1>8, <1>9, <1>10 DEF SlotOK, HasRead, IsMember, Fits, Matches
<1> QED
  BY <1>1, <1>5, <1>6, <1>7, <1>11, Typed, CacheStays, HandlerKeeps

LEMMA CountKeeps ==
    ASSUME IInv, NEW s \in Slot, Count(s)
    PROVE  IInv'
<1> DEFINE n    == Cardinality(Selected(req[s].asked))
           f    == [found[s] EXCEPT !.total = n]
           call == IF pc[s] = "tasks.Count" THEN "cache.Set" ELSE "reply"
<1>1. /\ pc[s] \in {"tasks.Count", "tasks.Count(hit)"}
      /\ UNCHANGED <<members, tasks, writes, cache>>
  BY DEF Count, KeepAll
<1>2. n \in 0..Cardinality(Task)
  BY Typed, SelectedItems
<1> HIDE DEF n
<1>3. f \in Found /\ f.items = found[s].items
  BY <1>2, Typed DEF Found
<1>4. Becomes(s, call, req[s], f, life[s], age[s])
  BY Typed DEF Count, Goto, Becomes, TypeOK, n
<1> HIDE DEF f
<1>5. call \in Label /\ call \in {"cache.Set", "reply"} /\ (call = "cache.Set" => pc[s] = "tasks.Count")
  BY DEF Label, ListCalls
<1> HIDE DEF call
<1>6. /\ pc'[s] = call /\ req'[s] = req[s] /\ found'[s] = f
      /\ life'[s] = life[s] /\ age'[s] = age[s]
  BY <1>3, <1>4, <1>5, Typed, BecomesTyped
<1>7. Roomy(found[s].items, TeamSize(req[s].asked.team), ToSkip(req[s].asked))
  BY <1>1, Typed DEF SlotOK, HasRead
<1>8. Roomy(found[s].items, TeamSize(req[s].asked.team), ToSkip(req[s].asked))'
  BY <1>1, <1>3, <1>6, <1>7, PageStays
<1>9. SlotOK(s)'
  BY <1>1, <1>3, <1>5, <1>6, <1>8, Typed DEF SlotOK, HasRead, IsMember, Fits, Matches
<1> QED
  BY <1>1, <1>3, <1>4, <1>5, <1>9, Typed, CacheStays, HandlerKeeps

LEMMA CacheSetKeeps ==
    ASSUME IInv, NEW s \in Slot, CacheSet(s)
    PROVE  IInv'
<1>1. pc[s] = "cache.Set" /\ UNCHANGED <<members, tasks, writes>>
  BY DEF CacheSet
<1>2. /\ req[s].asked \in Asked /\ age[s] <= life[s]
      /\ Fits(found[s].items, req[s].asked, NormalPer(req[s].asked.per))
      /\ Roomy(found[s].items, TeamSize(req[s].asked.team), ToSkip(req[s].asked))
  BY <1>1, Typed DEF SlotOK, HasRead
<1>3. PICK key \in Keys : key = Key(req[s].asked)
  BY <1>2 DEF Keys
<1>4. cache' \in [Keys -> Entry \cup {None}] /\ Caching'
  <2>1. CASE UNCHANGED cache
    BY <1>1, <2>1, CacheStays
  <2> DEFINE e == [items |-> found[s].items, left |-> TTL, age |-> age[s]]
  <2>2. CASE cache' = [cache EXCEPT ![key] = e]
    <3>1. e \in Entry /\ e.items = found[s].items /\ e.left = TTL /\ e.age = age[s]
      BY Typed, TaskListsAssumption DEF Entry, Found
    <3> HIDE DEF e
    <3>2. /\ cache' \in [Keys -> Entry \cup {None}] /\ cache'[key] = e
          /\ \A k \in Keys \ {key} : cache'[k] = cache[k]
      BY <2>2, <3>1, Typed DEF TypeOK
    <3>3. Fits(e.items, key, key.per)
      BY <1>2, <1>3, <3>1, KeyFits
    <3>4. e.age + e.left <= TTL + Span
      BY <1>2, <3>1, Typed, TaskListsAssumption
    <3>5. Roomy(e.items, TeamSize(key.team), Skipped(key))
      BY <1>2, <1>3, <3>1, KeyFits
    <3>6. \A k \in Keys : TeamSize(k.team)' = TeamSize(k.team) /\ Skipped(k)' = Skipped(k)
      BY <1>1 DEF TeamSize, TasksOf, Skipped
    <3>7. EntryOK(key)'
      BY <3>2, <3>3, <3>4, <3>5, <3>6 DEF EntryOK, Fits, Matches
    <3>8. ASSUME NEW k \in Keys \ {key} PROVE EntryOK(k)'
      BY <3>2, <3>6 DEF EntryOK, Fits, Matches, IInv, Caching
    <3> QED
      BY <3>2, <3>7, <3>8 DEF Caching
  <2> QED
    BY <1>3, <2>1, <2>2 DEF CacheSet
<1>5. Becomes(s, "reply", req[s], found[s], life[s], age[s])
  BY Typed DEF CacheSet, Goto, Becomes, TypeOK
<1>6. "reply" \in Label
  BY DEF Label, ListCalls
<1>7. /\ pc'[s] = "reply" /\ req'[s] = req[s] /\ found'[s] = found[s]
      /\ life'[s] = life[s] /\ age'[s] = age[s]
  BY <1>5, <1>6, Typed, BecomesTyped
<1>8. Roomy(found[s].items, TeamSize(req[s].asked.team), ToSkip(req[s].asked))'
  BY <1>1, <1>2, <1>7, PageStays
<1>9. SlotOK(s)'
  BY <1>1, <1>7, <1>8, Typed DEF SlotOK, HasRead, IsMember, Fits, Matches
<1> QED
  BY <1>1, <1>4, <1>5, <1>6, <1>9, Typed, HandlerKeeps

-----------------------------------------------------------------------------
(* Redis, time and the other requests.                                      *)

LEMMA TickKeeps ==
    ASSUME IInv, Tick
    PROVE  IInv'
<1>1. TypeOK /\ UNCHANGED <<members, tasks, writes, pc, req, found>>
  BY DEF IInv, Tick
<1>2. ASSUME NEW key \in Keys, cache'[key] # None
      PROVE  /\ cache[key] \in Entry /\ cache[key] # None
             /\ cache'[key] \in Entry /\ cache'[key].items = cache[key].items
             /\ cache'[key].age + cache'[key].left <= cache[key].age + cache[key].left
  <2> DEFINE e == cache[key]
  <2>1. /\ e # None /\ e.left # 1
        /\ cache'[key] = [e EXCEPT !.left = @ - 1, !.age = Older(@)]
    BY <1>2 DEF Tick
  <2>2. e \in Entry
    BY <1>1, <2>1 DEF TypeOK
  <2>3. e.left - 1 \in 1..TTL /\ Older(e.age) \in 0..MaxAge /\ Older(e.age) <= e.age + 1
    BY <2>1, <2>2, TaskListsAssumption, OlderIsOlder DEF Entry
  <2>4. /\ cache'[key] \in Entry /\ cache'[key].items = e.items
        /\ cache'[key].left = e.left - 1 /\ cache'[key].age = Older(e.age)
    BY <2>1, <2>2, <2>3 DEF Entry
  <2>5. e.left \in Nat /\ e.age \in Nat /\ Older(e.age) \in Nat
    BY <2>2, <2>3 DEF Entry
  <2> QED
    BY <2>1, <2>2, <2>3, <2>4, <2>5
<1>3. cache' \in [Keys -> Entry \cup {None}]
  <2>1. DOMAIN cache' = Keys /\ cache' = [k \in Keys |-> cache'[k]]
    BY DEF Tick
  <2> QED
    BY <1>2, <2>1
<1>4. Caching'
  <2>1. ASSUME NEW key \in Keys, cache'[key] # None
        PROVE  EntryOK(key)'
    <3>1. EntryOK(key) /\ Growing
      BY <1>1, SameTasks DEF IInv, Caching
    <3>2. /\ cache[key].age + cache[key].left \in Nat
          /\ cache'[key].age + cache'[key].left \in Nat
      BY <1>2, <2>1, TaskListsAssumption DEF Entry
    <3> QED
      BY <1>2, <2>1, <3>1, <3>2, EntryStays
  <2>2. ASSUME NEW key \in Keys, cache'[key] = None
        PROVE  EntryOK(key)'
    BY <2>2 DEF EntryOK
  <2> QED
    BY <2>1, <2>2 DEF Caching
<1>5. ASSUME NEW s \in Slot
      PROVE  /\ life'[s] \in 0..Span /\ age'[s] \in 0..MaxAge
             /\ pc[s] \in HasRead => life'[s] = life[s] + 1 /\ age'[s] <= age[s] + 1
             /\ pc[s] \notin HasRead => age'[s] = age[s]
  <2>1. life[s] < Span /\ life[s] \in 0..Span /\ age[s] \in 0..MaxAge /\ Span \in Nat
    BY Typed, TaskListsAssumption DEF Tick
  <2>2. /\ life'[s] = IF pc[s] = "idle" THEN 0 ELSE life[s] + 1
        /\ age'[s] = IF pc[s] \in HasRead THEN Older(age[s]) ELSE age[s]
    BY DEF Tick, HasRead
  <2>3. Older(age[s]) \in 0..MaxAge /\ Older(age[s]) <= age[s] + 1
    BY <2>1, OlderIsOlder
  <2> QED
    BY <2>1, <2>2, <2>3 DEF HasRead
<1>6. life' \in [Slot -> 0..Span] /\ age' \in [Slot -> 0..MaxAge]
  <2>1. life' = [s \in Slot |-> life'[s]] /\ age' = [s \in Slot |-> age'[s]]
    BY DEF Tick
  <2> QED
    BY <1>5, <2>1
<1>7. ASSUME NEW s \in Slot PROVE SlotOK(s)'
  <2>1. SlotOK(s) /\ life[s] \in Nat /\ age[s] \in Nat
    BY Typed
  <2>2. life'[s] \in Nat /\ age'[s] \in Nat /\ TTL \in Nat /\ Span \in Nat
    BY <1>5, TaskListsAssumption
  <2>3. pc[s] \in HasRead => age'[s] < TTL + Span + life'[s]
    BY <1>5, <2>1, <2>2 DEF SlotOK
  <2>4. pc[s] \in {"tasks.Count", "cache.Set"} => age'[s] <= life'[s]
    BY <1>5, <2>1, <2>2 DEF SlotOK, HasRead
  <2>5. pc[s] \notin HasRead => age'[s] = 0
    BY <1>5, <2>1 DEF SlotOK
  <2>6. pc[s] \in HasRead =>
          Roomy(found[s].items, TeamSize(req[s].asked.team), ToSkip(req[s].asked))'
    BY <1>1, <2>1, PageStays DEF SlotOK
  <2> QED
    BY <1>1, <2>1, <2>3, <2>4, <2>5, <2>6 DEF SlotOK, IsMember, Fits, Matches
<1>8. TypeOK'
  BY <1>1, <1>3, <1>6 DEF TypeOK
<1>9. Dense'
  BY <1>1 DEF IInv, Dense, Existing
<1> QED
  BY <1>4, <1>7, <1>8, <1>9 DEF IInv, Serving

LEMMA CacheLosesKeeps ==
    ASSUME IInv, NEW k \in Keys, CacheLoses(k)
    PROVE  IInv'
<1>1. TypeOK /\ UNCHANGED <<members, tasks, writes, pc, req, found, life, age>>
  BY DEF IInv, CacheLoses, local
<1>2. /\ cache' \in [Keys -> Entry \cup {None}]
      /\ \A key \in Keys : cache'[key] # None => cache'[key] = cache[key]
  BY <1>1 DEF CacheLoses, TypeOK
<1>3. Caching'
  <2>1. \A key \in Keys : TeamSize(key.team)' = TeamSize(key.team) /\ Skipped(key)' = Skipped(key)
    BY <1>1 DEF TeamSize, TasksOf, Skipped
  <2> QED
    BY <1>2, <2>1 DEF IInv, Caching, EntryOK, Fits, Matches
<1>4. TypeOK' /\ Dense'
  BY <1>1, <1>2 DEF TypeOK, IInv, Dense, Existing
<1>5. Serving'
  BY <1>1, SlotStays, SameTasks DEF IInv, Serving
<1> QED
  BY <1>3, <1>4, <1>5 DEF IInv

\* Whatever leaves cache and handlers alone.
LEMMA ElsewhereKeeps ==
    ASSUME IInv, UNCHANGED <<cache, local>>, members \subseteq members',
           members' \subseteq [team : Team, user : User],
           tasks' \in [Task -> Row \cup {None}], writes' \in 0..MaxWrites, Dense', Growing
    PROVE  IInv'
<1>1. TypeOK /\ UNCHANGED <<cache, pc, req, found, life, age>>
  BY DEF IInv, local
<1>2. TypeOK'
  BY <1>1 DEF TypeOK
<1>3. Caching'
  BY <1>1, EntriesStay
<1>4. Serving'
  BY <1>1, SlotStays DEF IInv, Serving
<1> QED
  BY <1>2, <1>3, <1>4 DEF IInv

LEMMA MembersAddKeeps ==
    ASSUME IInv, NEW t \in Team, NEW u \in User, MembersAdd(t, u)
    PROVE  IInv'
<1>1. UNCHANGED <<tasks, writes, cache, local>> /\ members \subseteq members'
  BY DEF MembersAdd
<1>2. members' \subseteq [team : Team, user : User]
  BY DEF MembersAdd, IInv, TypeOK
<1>3. Dense' /\ tasks' \in [Task -> Row \cup {None}] /\ writes' \in 0..MaxWrites
  BY <1>1 DEF IInv, TypeOK, Dense, Existing
<1> QED
  BY <1>1, <1>2, <1>3, SameTasks, ElsewhereKeeps

\* A task that is changed stays in its team, and one that is added joins one.
LEMMA TeamsGrow ==
    ASSUME \A t : TasksOf(t) \subseteq TasksOf(t)'
    PROVE  Growing
<1>1. ASSUME NEW t PROVE TeamSize(t)' \in Nat /\ TeamSize(t) <= TeamSize(t)'
  <2>1. TasksOf(t)' \in SUBSET Task
    BY DEF TasksOf
  <2>2. IsFiniteSet(TasksOf(t)') /\ Cardinality(TasksOf(t)') \in Nat
    BY <2>1, Sizes
  <2>3. Cardinality(TasksOf(t)) <= Cardinality(TasksOf(t)')
    BY <2>2, FS_Subset
  <2> QED
    BY <2>2, <2>3 DEF TeamSize
<1> QED
  BY <1>1 DEF Growing

\* The latest creation time there is.
LEMMA LatestIsBounded ==
    ASSUME IInv
    PROVE  Latest \in 0..Cardinality(Existing) /\ \A k \in Existing : tasks[k].created <= Latest
<1> DEFINE S == {0} \cup {tasks[k].created : k \in Existing}
           n == Cardinality(Existing)
<1>1. n \in Nat
  <2>1. Existing \in SUBSET Task
    BY DEF Existing
  <2> QED
    BY <2>1, Sizes
<1>2. \A k \in Existing : tasks[k].created \in Nat /\ tasks[k].created <= n
  BY Sizes DEF IInv, TypeOK, Row, Existing, Dense
<1> HIDE DEF n
<1>3. S \in SUBSET (0..n) /\ S # {}
  BY <1>1, <1>2
<1>4. Latest = Max(S)
  BY DEF Latest, Existing
<1>5. Max(S) \in S /\ \A j \in S : Max(S) >= j
  BY <1>1, <1>3, LargestOf
<1>6. \A k \in Existing : tasks[k].created \in S
  OBVIOUS
<1> HIDE DEF S
<1>7. Latest \in 0..n
  BY <1>3, <1>4, <1>5
<1> QED
  BY <1>1, <1>2, <1>4, <1>5, <1>6, <1>7 DEF n

LEMMA TaskWriteKeeps ==
    ASSUME IInv, NEW k \in Task, NEW st \in Status, NEW u \in User \cup {None}, TaskWrite(k, st, u)
    PROVE  IInv'
<1>1. TypeOK /\ UNCHANGED <<members, cache, local>>
  BY DEF IInv, TaskWrite
<1>2. writes' \in 0..MaxWrites
  BY <1>1, TaskListsAssumption DEF TypeOK, TaskWrite
<1>3. Existing \in SUBSET Task /\ IsFiniteSet(Existing) /\ Cardinality(Existing) \in Nat
  BY Sizes DEF Existing
<1>4. CASE /\ tasks[k] # None
           /\ tasks' = [tasks EXCEPT ![k].status = st, ![k].assignee = u]
  <2>1. tasks[k] \in Row
    BY <1>1, <1>4 DEF TypeOK
  <2> DEFINE row == [tasks[k] EXCEPT !.status = st, !.assignee = u]
  <2>2. row \in Row /\ row.created = tasks[k].created
    BY <2>1 DEF Row
  <2>3. tasks' = [tasks EXCEPT ![k] = row]
    BY <1>1, <1>4, <2>1 DEF TypeOK, Row
  <2> HIDE DEF row
  <2>4. /\ tasks' \in [Task -> Row \cup {None}] /\ tasks'[k] = row
        /\ \A j \in Task \ {k} : tasks'[j] = tasks[j]
    BY <1>1, <2>2, <2>3 DEF TypeOK
  <2>5. Existing' = Existing
    BY <1>4, <2>2, <2>4, RowAssumption DEF Existing
  <2>6. \A j \in Existing : tasks'[j].created = tasks[j].created
    BY <2>2, <2>4 DEF Existing
  <2>7. Dense'
    BY <2>5, <2>6 DEF IInv, Dense
  <2>8. row.team = tasks[k].team /\ row # None
    BY <2>1, <2>2, RowAssumption DEF row, Row
  <2>9. ASSUME NEW t PROVE TasksOf(t) \subseteq TasksOf(t)'
    BY <2>4, <2>8 DEF TasksOf
  <2> QED
    BY <1>1, <1>2, <2>4, <2>7, <2>9, TeamsGrow, ElsewhereKeeps DEF TypeOK
<1>5. ASSUME tasks[k] = None, NEW t \in Team, NEW c \in {Max({1, Latest}), Latest + 1},
             tasks' = [tasks EXCEPT ![k] = [team |-> t, status |-> st, assignee |-> u, created |-> c]]
      PROVE  IInv'
  <2> DEFINE n   == Cardinality(Existing)
             row == [team |-> t, status |-> st, assignee |-> u, created |-> c]
  <2>1. Latest \in 0..n /\ Latest \in Nat /\ 1 \in Nat
    BY <1>3, LatestIsBounded
  <2>2. Max({1, Latest}) = IF 1 <= Latest THEN Latest ELSE 1
    BY <2>1, MinAndMax
  <2>3. c \in 1..(n + 1)
    BY <1>3, <1>5, <2>1, <2>2
  <2>4. IsFiniteSet(Existing \cup {k}) /\ Cardinality(Existing \cup {k}) = n + 1
    BY <1>3, <1>5, FS_AddElement DEF Existing
  <2>5. n + 1 <= Cardinality(Task)
    <3>1. Existing \cup {k} \in SUBSET Task
      BY <1>3
    <3> QED
      BY <2>4, <3>1, Sizes
  <2> HIDE DEF n
  <2>6. n \in Nat /\ c \in 1..Cardinality(Task)
    BY <1>3, <2>3, <2>5, Sizes DEF n
  <2>7. row \in Row /\ row.created = c
    BY <2>6 DEF Row
  <2> HIDE DEF row
  <2>8. /\ tasks' \in [Task -> Row \cup {None}] /\ tasks'[k] = row
        /\ \A j \in Task \ {k} : tasks'[j] = tasks[j]
    BY <1>1, <1>5, <2>7 DEF TypeOK, row
  <2>9. Existing' = Existing \cup {k} /\ k \notin Existing
    BY <1>5, <2>7, <2>8, RowAssumption DEF Existing
  <2>10. \A j \in Existing : tasks[j].created \in Nat /\ tasks[j].created <= n
    BY <1>1, Sizes DEF TypeOK, Row, Existing, IInv, Dense, n
  <2>11. ASSUME NEW j \in Existing' PROVE tasks'[j].created <= n + 1
    <3>1. CASE j = k
      BY <2>3, <2>6, <2>7, <2>8, <3>1
    <3>2. CASE j # k
      <4>1. j \in Existing /\ tasks'[j] = tasks[j]
        BY <2>8, <2>9, <3>2 DEF Existing
      <4> QED
        BY <2>6, <2>10, <4>1
    <3> QED
      BY <3>1, <3>2
  <2>12. Dense'
    BY <2>4, <2>9, <2>11 DEF Dense
  <2>13. ASSUME NEW z PROVE TasksOf(z) \subseteq TasksOf(z)'
    BY <1>5, <2>8 DEF TasksOf
  <2> QED
    BY <1>1, <1>2, <2>8, <2>12, <2>13, TeamsGrow, ElsewhereKeeps DEF TypeOK
<1> QED
  BY <1>4, <1>5 DEF TaskWrite

-----------------------------------------------------------------------------
(* Every step.                                                              *)

LEMMA InvStarts == Init => IInv
<1> SUFFICES ASSUME Init PROVE IInv
  OBVIOUS
<1>1. TypeOK
  BY RestTyped, TaskListsAssumption DEF Init, TypeOK, Request
<1>2. Dense /\ Caching
  BY DEF Init, Dense, Existing, Caching, EntryOK
<1>3. Serving
  BY DEF Init, Serving, SlotOK, HasRead
<1> QED
  BY <1>1, <1>2, <1>3 DEF IInv

LEMMA InvSteps == IInv /\ [Next]_vars => IInv'
<1> SUFFICES ASSUME IInv, [Next]_vars PROVE IInv'
  OBVIOUS
<1>1. CASE UNCHANGED vars
  <2>1. /\ UNCHANGED <<cache, local>> /\ members' = members /\ tasks' = tasks /\ writes' = writes
    BY <1>1 DEF vars
  <2>2. Dense' /\ TypeOK
    BY <2>1 DEF IInv, Dense, Existing
  <2> QED
    BY <2>1, <2>2, SameTasks, ElsewhereKeeps DEF TypeOK
<1>2. ASSUME NEW s \in Slot, Call(s) \/ Step(s) \/ DatabaseFails(s) PROVE IInv'
  <2>1. CASE Call(s)
    BY <2>1, CallListKeeps DEF Call
  <2>2. CASE DatabaseFails(s) \/ Reply(s)
    BY <2>2, FinishKeeps DEF DatabaseFails, Reply
  <2> QED
    BY <1>2, <2>1, <2>2, CallerIsMemberKeeps, CacheGetKeeps, ListKeeps, CountKeeps,
       CacheSetKeeps DEF Step
<1>3. ASSUME NEW k \in Keys, CacheLoses(k) PROVE IInv'
  BY <1>3, CacheLosesKeeps
<1>4. ASSUME NEW t \in Team, NEW u \in User, MembersAdd(t, u) PROVE IInv'
  BY <1>4, MembersAddKeeps
<1>5. ASSUME NEW k \in Task, NEW st \in Status, NEW u \in User \cup {None}, TaskWrite(k, st, u)
      PROVE  IInv'
  BY <1>5, TaskWriteKeeps
<1> QED
  BY <1>1, <1>2, <1>3, <1>4, <1>5, TickKeeps DEF Next

LEMMA InvHolds == Spec => []IInv
BY InvStarts, InvSteps, PTL DEF Spec

-----------------------------------------------------------------------------
(* Theorems.                                                                *)

\* Whoever's request put a list into the cache, the reply fits the request it
\* is given to, and its caller is in the team.
THEOREM ListsFitRequests == Spec => []RepliesMatchRequests
<1>1. ASSUME IInv, NEW s \in Slot, Replying(s)
      PROVE  /\ IsMember(req[s].asked.team, req[s].user)
             /\ Fits(found[s].items, req[s].asked, NormalPer(req[s].asked.per))
             /\ Roomy(found[s].items, TeamSize(req[s].asked.team), ToSkip(req[s].asked))
  <2>1. pc[s] = "reply" /\ SlotOK(s)
    BY <1>1, Typed DEF Replying
  <2> QED
    BY <2>1 DEF SlotOK, HasRead
<1>2. IInv => RepliesMatchRequests
  BY <1>1 DEF RepliesMatchRequests, Fits, Roomy, TeamSize, ToSkip
<1> QED
  BY <1>2, InvHolds, PTL

\* No chain of hits and refills keeps a list alive: a reply is younger than the
\* time to live and the time of two requests together.
THEOREM StalenessIsBounded == Spec => []BoundedStaleness
<1>1. ASSUME IInv, NEW s \in Slot, Replying(s) PROVE age[s] < MaxAge
  <2>1. age[s] < TTL + Span + life[s] /\ life[s] \in 0..Span /\ age[s] \in Nat
    BY <1>1, Typed DEF Replying, SlotOK, HasRead
  <2> QED
    BY <2>1, TaskListsAssumption DEF MaxAge
<1>2. IInv => BoundedStaleness
  BY <1>1 DEF BoundedStaleness, IInv
<1> QED
  BY <1>2, InvHolds, PTL
=============================================================================
