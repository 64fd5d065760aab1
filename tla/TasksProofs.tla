---------------------------- MODULE TasksProofs ----------------------------
(***************************************************************************)
(* Theorems about Tasks, for every set of users, teams, tasks, bodies and  *)
(* concurrent requests, every size of the pool and every bound.            *)
(***************************************************************************)
EXTENDS TasksInvariant, SequenceTheorems, FiniteSetTheorems, WellFoundedInduction, TLAPS

Label == {"idle"} \cup CreateCalls \cup UpdateCalls \cup HistoryCalls

-----------------------------------------------------------------------------
(* Fields, rows and entries.                                                *)

LEMMA RestTyped == /\ NoReq \in Request /\ NoTx \in Writes
                   /\ NoList \in [entries : Seq(Entry), before : 0..MaxEdits]
<1>1. <<>> \in Seq(Entry) /\ 0 \in 0..MaxEdits
  BY TasksAssumption
<1> QED
  BY <1>1 DEF NoReq, NoTx, NoList, Request, Writes

LEMMA BodyTyped ==
    ASSUME NEW d \in Draft \cup Patch, NEW f \in Field
    PROVE  d[f] \in Value
BY DEF Value

LEMMA BlankTyped == /\ Blank \in Fields
                    /\ Blank["assignee_id"] = None /\ Blank["status"] = "todo"
<1>1. None \in Value /\ "todo" \in Value
  BY DEF Value, Status
<1> QED
  BY <1>1 DEF Blank, Fields, Field

LEMMA MergeTyped ==
    ASSUME NEW old \in Fields, NEW d \in Draft \cup Patch
    PROVE  /\ Merge(old, d) \in Fields
           /\ \A f \in Field : /\ d[f] # None => Merge(old, d)[f] = d[f]
                               /\ d[f] = None => Merge(old, d)[f] = old[f]
BY BodyTyped DEF Merge, Fields

LEMMA CompletedTyped ==
    ASSUME NEW fields \in Fields, NEW now \in Time
    PROVE  CompletedAt(fields, now) \in Time \cup {None}
BY DEF CompletedAt

\* An entry lists the fields an edit changed, and only those.
LEMMA DiffTyped ==
    ASSUME NEW old \in Fields, NEW new \in Fields
    PROVE  /\ Diff(old, new) \in [Field -> Change \cup {None}]
           /\ \A f \in Field :
                 /\ Diff(old, new)[f] # None <=> old[f] # new[f]
                 /\ Diff(old, new)[f] # None =>
                       Diff(old, new)[f].from = old[f] /\ Diff(old, new)[f].to = new[f]
<1>1. ASSUME NEW f \in Field
      PROVE  /\ [from |-> old[f], to |-> new[f]] \in Change
             /\ [from |-> old[f], to |-> new[f]] # None
  BY NoneAssumption DEF Fields, Change
<1> QED
  BY <1>1 DEF Diff

-----------------------------------------------------------------------------
(* Replaying a history.                                                     *)

\* ValueAt, of any history over any fields.
Replay(b, h, f, k) ==
    LET edits == {j \in 1..k : h[j].changes[f] # None}
    IN  IF edits = {} THEN b[f] ELSE h[Max(edits)].changes[f].to

LEMMA ReplayIsValueAt ==
    ASSUME NEW t, NEW f, NEW k
    PROVE  ValueAt(t, f, k) = Replay(born[t], history[t], f, k)
BY DEF ValueAt, Replay

LEMMA ReplayNothing ==
    ASSUME NEW b, NEW h, NEW f
    PROVE  Replay(b, h, f, 0) = b[f]
<1>1. {j \in 1..0 : h[j].changes[f] # None} = {}
  OBVIOUS
<1> QED
  BY <1>1 DEF Replay

\* One more entry gives the field its value if it lists the field.
LEMMA ReplayStep ==
    ASSUME NEW b, NEW h, NEW f, NEW k \in Nat
    PROVE  Replay(b, h, f, k + 1) = IF h[k + 1].changes[f] # None
                                    THEN h[k + 1].changes[f].to ELSE Replay(b, h, f, k)
<1> DEFINE edits == {j \in 1..k : h[j].changes[f] # None}
           more  == {j \in 1..(k + 1) : h[j].changes[f] # None}
<1>1. CASE h[k + 1].changes[f] # None
  <2>1. k + 1 \in more /\ \A j \in more : j \in Nat /\ j <= k + 1
    BY <1>1
  <2>2. Max(more) = k + 1
    BY <2>1 DEF Max
  <2> QED
    BY <1>1, <2>1, <2>2 DEF Replay
<1>2. CASE h[k + 1].changes[f] = None
  <2>1. more = edits
    BY <1>2
  <2> QED
    BY <1>2, <2>1 DEF Replay
<1> QED
  BY <1>1, <1>2

\* A set of natural numbers with a bound has a largest element.
LEMMA LargestOf ==
    ASSUME NEW k \in Nat, NEW S \in SUBSET (1..k), S # {}
    PROVE  Max(S) \in S /\ \A j \in S : Max(S) >= j
<1> DEFINE T == {k - j : j \in S}
<1>1. T \subseteq Nat /\ T # {}
  <2>1. \A j \in S : k - j \in Nat
    OBVIOUS
  <2> QED
    BY <2>1
<1>2. PICK x \in T : \A y \in T : <<y, x>> \notin OpToRel(<, Nat)
  BY <1>1, NatLessThanWellFounded, WFMin
<1>3. PICK m \in S : x = k - m
  OBVIOUS
<1>4. ASSUME NEW j \in S PROVE m >= j
  <2>1. k - j \in T /\ k - j \in Nat /\ x \in Nat
    BY <1>1
  <2>2. ~(k - j < x)
    BY <1>2, <2>1 DEF OpToRel
  <2> QED
    BY <1>3, <2>2
<1> QED
  BY <1>4 DEF Max

\* What comes after does not matter.
LEMMA ReplayPrefix ==
    ASSUME NEW b, NEW h \in Seq(Entry), NEW e \in Entry, NEW f, NEW k \in 0..Len(h)
    PROVE  Replay(b, Append(h, e), f, k) = Replay(b, h, f, k)
<1> DEFINE edits == {j \in 1..k : h[j].changes[f] # None}
<1>1. \A j \in 1..k : Append(h, e)[j] = h[j]
  OBVIOUS
<1>2. {j \in 1..k : Append(h, e)[j].changes[f] # None} = edits
  BY <1>1
<1>3. CASE edits = {}
  BY <1>2, <1>3 DEF Replay
<1>4. CASE edits # {}
  <2>1. Max(edits) \in edits
    <3>1. k \in Nat /\ edits \in SUBSET (1..k)
      OBVIOUS
    <3> QED
      BY <1>4, <3>1, LargestOf
  <2> QED
    BY <1>1, <1>2, <1>4, <2>1 DEF Replay
<1> QED
  BY <1>3, <1>4

-----------------------------------------------------------------------------
(* Reading a history.                                                       *)

\* More positions a..b than values c..d, and the values are all different.
Crowd(p, a, b, c, d) ==
    /\ a \in Nat /\ b \in Nat /\ c \in Nat /\ d \in Int
    /\ a <= b /\ d - c < b - a /\ c <= d + 1
    /\ \A i \in a..b : p[i] \in c..d
    /\ \A i, j \in a..b : i < j => p[i] # p[j]

LEMMA Crowded == ASSUME NEW p, NEW a, NEW b, NEW c, NEW d PROVE ~Crowd(p, a, b, c, d)
<1> SUFFICES ASSUME a \in Nat, b \in Nat, c \in Nat, d \in Int,
                    a <= b, d - c < b - a, c <= d + 1,
                    \A i \in a..b : p[i] \in c..d,
                    \A i, j \in a..b : i < j => p[i] # p[j]
             PROVE  FALSE
  BY DEF Crowd
<1>1. IsFiniteSet(a..b) /\ Cardinality(a..b) = b - a + 1
  BY FS_Interval
<1>2. IsFiniteSet(c..d) /\ Cardinality(c..d) = d - c + 1
  <2>1. c \in Int
    OBVIOUS
  <2>2. IsFiniteSet(c..d) /\ Cardinality(c..d) = IF c > d THEN 0 ELSE d - c + 1
    BY <2>1, FS_Interval
  <2> QED
    BY <2>2
<1>3. Cardinality(c..d) < Cardinality(a..b)
  BY <1>1, <1>2
<1> DEFINE q == [i \in a..b |-> p[i]]
<1>4. q \in [a..b -> c..d]
  OBVIOUS
<1> HIDE DEF q
<1>5. PICK x, y \in a..b : x # y /\ q[x] = q[y]
  <2> DEFINE S == a..b   T == c..d
  <2>1. IsFiniteSet(S) /\ IsFiniteSet(T) /\ Cardinality(T) < Cardinality(S) /\ q \in [S -> T]
    BY <1>1, <1>2, <1>3, <1>4
  <2> HIDE DEF S, T
  <2>2. \E x, y \in S : x # y /\ q[x] = q[y]
    BY <2>1, FS_PigeonHole
  <2> QED
    BY <2>2 DEF S
<1>6. x < y \/ y < x
  BY <1>5
<1> QED
  BY <1>5, <1>6 DEF q

\* The times at[1..n] rise; the positions p[1..n] are all different.
Rising(at, n)  == \A i, j \in 1..n : i <= j => at[i] <= at[j]
Distinct(p, n) == \A i, j \in 1..n : i < j => p[i] # p[j]

\* Sorting the entries of a history by their times, when they already are in
\* that order, moves entries only within one time.  Were the k-th answered of
\* a later time than the k-th entry, the entries answered from there on would
\* all come from behind the k-th, where there is one too few of them; and were
\* it of an earlier time, those answered up to there from before it.
LEMMA SortingKeepsTimes ==
    ASSUME NEW n \in Nat, NEW at \in [1..n -> Nat], NEW p \in [1..n -> 1..n],
           Rising(at, n), Rising([i \in 1..n |-> at[p[i]]], n), Distinct(p, n),
           NEW k \in 1..n
    PROVE  at[p[k]] = at[k]
<1>1. ASSUME NEW i \in 1..n
      PROVE  p[i] \in 1..n /\ at[p[i]] \in Nat /\ at[i] \in Nat
  OBVIOUS
<1>2. ASSUME NEW i \in 1..n, NEW j \in 1..n, i <= j
      PROVE  at[p[i]] <= at[p[j]]
  BY <1>2 DEF Rising
<1>3. ASSUME NEW i \in 1..n, NEW j \in 1..n, at[i] < at[j]
      PROVE  i < j
  <2>1. ~(j <= i)
    <3>1. j <= i => at[j] <= at[i]
      BY DEF Rising
    <3> QED
      BY <1>1, <1>3, <3>1
  <2> QED
    BY <2>1
<1>4. ASSUME at[k] < at[p[k]] PROVE FALSE
  <2>1. ASSUME NEW i \in k..n PROVE p[i] \in (k + 1)..n
    <3>1. i \in 1..n /\ k <= i
      OBVIOUS
    <3>2. at[p[k]] <= at[p[i]]
      BY <1>2, <3>1
    <3>3. p[i] \in 1..n /\ at[p[i]] \in Nat /\ at[p[k]] \in Nat /\ at[k] \in Nat
      BY <1>1, <3>1
    <3>4. at[k] < at[p[i]]
      BY <1>4, <3>2, <3>3
    <3>5. k < p[i]
      BY <1>3, <3>3, <3>4
    <3> QED
      BY <3>3, <3>5
  <2>2. \A i, j \in k..n : i < j => p[i] # p[j]
    BY DEF Distinct
  <2>3. /\ k \in Nat /\ k + 1 \in Nat /\ n \in Int
        /\ k <= n /\ n - (k + 1) < n - k /\ k + 1 <= n + 1
    OBVIOUS
  <2>4. Crowd(p, k, n, k + 1, n)
    BY <2>1, <2>2, <2>3 DEF Crowd
  <2> QED
    BY <2>4, Crowded
<1>5. ASSUME at[p[k]] < at[k] PROVE FALSE
  <2>1. ASSUME NEW i \in 1..k PROVE p[i] \in 1..(k - 1)
    <3>1. i \in 1..n /\ i <= k
      OBVIOUS
    <3>2. at[p[i]] <= at[p[k]]
      BY <1>2, <3>1
    <3>3. p[i] \in 1..n /\ at[p[i]] \in Nat /\ at[p[k]] \in Nat /\ at[k] \in Nat
      BY <1>1, <3>1
    <3>4. at[p[i]] < at[k]
      <4> DEFINE x == at[p[i]]   y == at[p[k]]   z == at[k]
      <4>1. x \in Nat /\ y \in Nat /\ z \in Nat /\ x <= y /\ y < z
        BY <1>5, <3>2, <3>3
      <4> HIDE DEF x, y, z
      <4>2. x < z
        BY <4>1
      <4> QED
        BY <4>2 DEF x, z
    <3>5. p[i] < k
      BY <1>3, <3>3, <3>4
    <3> QED
      BY <3>3, <3>5
  <2>2. \A i, j \in 1..k : i < j => p[i] # p[j]
    BY DEF Distinct
  <2>3. /\ 1 \in Nat /\ k \in Nat /\ k - 1 \in Int
        /\ 1 <= k /\ (k - 1) - 1 < k - 1 /\ 1 <= (k - 1) + 1
    OBVIOUS
  <2>4. Crowd(p, 1, k, 1, k - 1)
    BY <2>1, <2>2, <2>3 DEF Crowd
  <2> QED
    BY <2>4, Crowded
<1>6. at[p[k]] \in Nat /\ at[k] \in Nat
  BY <1>1
<1> QED
  BY <1>4, <1>5, <1>6

LEMMA OrderedIsTold ==
    ASSUME NEW h \in Seq(Entry),
           \A j, k \in 1..Len(h) : j < k => h[j].at <= h[k].at,
           NEW entries \in Ordered(h)
    PROVE  entries \in Seq(Entry) /\ Len(entries) = Len(h) /\ Told(entries, h)
<1> DEFINE n == Len(h)
<1>1. PICK p \in [1..n -> 1..n] :
        /\ \A i, j \in 1..n : i < j => p[i] # p[j] /\ h[p[i]].at <= h[p[j]].at
        /\ entries = [k \in 1..n |-> h[p[k]]]
  BY DEF Ordered
<1>2. entries \in Seq(Entry) /\ Len(entries) = n
  <2>1. n \in Nat /\ \A k \in 1..n : h[p[k]] \in Entry
    OBVIOUS
  <2> QED
    BY <1>1, <2>1
<1>3. \A k \in 1..n : h[p[k]].at = h[k].at
  <2> DEFINE at == [j \in 1..n |-> h[j].at]
  <2>1. ASSUME NEW j \in 1..n PROVE p[j] \in 1..n /\ h[j].at \in Nat
    <3>1. h[j] \in Entry
      OBVIOUS
    <3> QED
      BY <3>1, TasksAssumption DEF Entry, Time
  <2>2. n \in Nat /\ at \in [1..n -> Nat]
    BY <2>1
  <2>3. Rising(at, n)
    <3>1. ASSUME NEW i \in 1..n, NEW j \in 1..n, i <= j PROVE h[i].at <= h[j].at
      <4>1. h[i].at \in Nat
        BY <2>1
      <4> QED
        BY <3>1, <4>1
    <3> QED
      BY <3>1 DEF Rising
  <2>4. Rising([i \in 1..n |-> at[p[i]]], n) /\ Distinct(p, n)
    <3>1. ASSUME NEW i \in 1..n, NEW j \in 1..n, i <= j PROVE h[p[i]].at <= h[p[j]].at
      <4>1. h[p[i]].at \in Nat
        BY <2>1
      <4> QED
        BY <1>1, <3>1, <4>1
    <3>2. \A i \in 1..n : at[p[i]] = h[p[i]].at
      BY <2>1
    <3> QED
      BY <1>1, <3>1, <3>2 DEF Rising, Distinct
  <2> HIDE DEF n, at
  <2>5. \A k \in 1..n : at[p[k]] = at[k]
    BY <2>2, <2>3, <2>4, SortingKeepsTimes
  <2> QED
    BY <2>1, <2>5 DEF at
<1>4. \A k \in 1..n : /\ entries[k] = h[p[k]]
                      /\ \A j \in 1..n : j < k => p[j] # p[k]
                      /\ h[p[k]].at = h[k].at
  BY <1>1, <1>3
<1> QED
  BY <1>2, <1>4 DEF Told

\* Only as many entries of the history matter as were answered.
LEMMA ToldAgree ==
    ASSUME NEW entries, NEW g, NEW h, \A k \in 1..Len(entries) : g[k] = h[k],
           Told(entries, g)
    PROVE  Told(entries, h)
<1> PICK p \in [1..Len(entries) -> 1..Len(entries)] : \A k \in 1..Len(entries) :
        /\ entries[k] = g[p[k]]
        /\ \A j \in 1..Len(entries) : j < k => p[j] # p[k]
        /\ g[p[k]].at = g[k].at
  BY DEF Told
<1>1. \A k \in 1..Len(entries) : p[k] \in 1..Len(entries)
  OBVIOUS
<1>2. \A k \in 1..Len(entries) :
        /\ entries[k] = h[p[k]]
        /\ \A j \in 1..Len(entries) : j < k => p[j] # p[k]
        /\ h[p[k]].at = h[k].at
  BY <1>1
<1> QED
  BY <1>2 DEF Told

\* An answer stays true while entries are added.
LEMMA ToldPrefix ==
    ASSUME NEW h \in Seq(Entry), NEW e \in Entry, NEW entries \in Seq(Entry),
           Len(entries) <= Len(h), Told(entries, h)
    PROVE  Told(entries, Append(h, e))
<1>1. \A k \in 1..Len(entries) : h[k] = Append(h, e)[k]
  OBVIOUS
<1> QED
  BY <1>1, ToldAgree

\* The same, of the first entries alone.
LEMMA ToldOfFirst ==
    ASSUME NEW h \in Seq(Entry), NEW entries \in Seq(Entry), Len(entries) <= Len(h)
    PROVE  Told(entries, SubSeq(h, 1, Len(entries))) <=> Told(entries, h)
<1>1. \A k \in 1..Len(entries) : SubSeq(h, 1, Len(entries))[k] = h[k]
  OBVIOUS
<1> QED
  BY <1>1, ToldAgree

-----------------------------------------------------------------------------
(* What a step leaves of the handlers it is not a step of.                  *)

Undisturbed(o) ==
    /\ pc'[o] = pc[o] /\ req'[o] = req[o] /\ current'[o] = current[o]
    /\ tx'[o] = tx[o] /\ listed'[o] = listed[o]

\* Members, tasks and entries are only added.
Grow ==
    /\ members \subseteq members' /\ clock <= clock'
    /\ \A t \in Task :
         /\ history'[t] = history[t] \/ \E e \in Entry : history'[t] = Append(history[t], e)
         /\ tasks[t] # None => /\ tasks'[t] # None /\ tasks'[t].team = tasks[t].team
                               /\ born'[t] = born[t]

\* The task a handler creates or holds is left alone.
Spared(o) ==
    /\ Creating(o) => tasks'[req[o].task] = None
    /\ Holding(o) => tasks'[req[o].task] = tasks[req[o].task]

LEMMA EntriesStay ==
    ASSUME TypeOK, Grow, NEW t \in Task
    PROVE  /\ history[t] \in Seq(Entry) /\ history'[t] \in Seq(Entry)
           /\ Len(history[t]) <= Len(history'[t])
           /\ \A k \in 1..Len(history[t]) : history'[t][k] = history[t][k]
           /\ \A entries \in Seq(Entry) :
                 Len(entries) <= Len(history[t]) /\ Told(entries, history[t]) =>
                     Told(entries, history'[t])
<1>1. history[t] \in Seq(Entry)
  BY DEF TypeOK
<1>2. CASE history'[t] = history[t]
  BY <1>1, <1>2
<1>3. ASSUME NEW e \in Entry, history'[t] = Append(history[t], e)
      PROVE  /\ history'[t] \in Seq(Entry) /\ Len(history[t]) <= Len(history'[t])
             /\ \A k \in 1..Len(history[t]) : history'[t][k] = history[t][k]
             /\ \A entries \in Seq(Entry) :
                   Len(entries) <= Len(history[t]) /\ Told(entries, history[t]) =>
                       Told(entries, history'[t])
  <2>1. /\ history'[t] \in Seq(Entry) /\ Len(history[t]) <= Len(history'[t])
        /\ \A k \in 1..Len(history[t]) : history'[t][k] = history[t][k]
    BY <1>1, <1>3
  <2>2. \A entries \in Seq(Entry) :
            Len(entries) <= Len(history[t]) /\ Told(entries, history[t]) =>
                Told(entries, history'[t])
    BY <1>1, <1>3, ToldPrefix
  <2> QED
    BY <2>1, <2>2
<1> QED
  BY <1>1, <1>2, <1>3 DEF Grow

\* What the fields were after an edit stays what they were.
LEMMA ValuesStay ==
    ASSUME TypeOK, Grow, NEW t \in Task, tasks[t] # None,
           NEW f, NEW k \in 0..Len(history[t])
    PROVE  ValueAt(t, f, k)' = ValueAt(t, f, k)
<1>1. history[t] \in Seq(Entry) /\ born'[t] = born[t]
  BY DEF TypeOK, Grow
<1>2. ValueAt(t, f, k)' = Replay(born'[t], history'[t], f, k)
  BY DEF ValueAt, Replay
<1>3. ValueAt(t, f, k) = Replay(born[t], history[t], f, k)
  BY ReplayIsValueAt
<1>4. CASE history'[t] = history[t]
  BY <1>1, <1>2, <1>3, <1>4
<1>5. ASSUME NEW e \in Entry, history'[t] = Append(history[t], e)
      PROVE  ValueAt(t, f, k)' = ValueAt(t, f, k)
  BY <1>1, <1>2, <1>3, <1>5, ReplayPrefix
<1> QED
  BY <1>4, <1>5 DEF Grow

LEMMA OthersStay ==
    ASSUME Inv, TypeOK', Grow, NEW o \in Slot, Undisturbed(o), Spared(o)
    PROVE  SlotOK(o)'
<1>1. /\ SlotOK(o) /\ TypeOK
      /\ Arguments(o) /\ CreateKnows(o) /\ LockHeld(o) /\ UpdateKnows(o)
      /\ HistoryKnows(o) /\ ReplyTrue(o) /\ HistoryTold(o)
  BY DEF Inv, SlotsInv, SlotOK
<1>2. pc'[o] = pc[o] /\ req'[o] = req[o] /\ current'[o] = current[o]
      /\ tx'[o] = tx[o] /\ listed'[o] = listed[o]
  BY DEF Undisturbed
<1>3. Arguments(o)'
  BY <1>1, <1>2 DEF Arguments
<1>4. \A team, u : IsMember(team, u) => IsMember(team, u)'
  BY DEF Grow, IsMember
<1>5. req[o].op # "none" => req[o].task \in Task
  BY <1>1 DEF Arguments, NoReq
<1>6. Creating(o)' = Creating(o) /\ Holding(o)' = Holding(o)
  BY <1>2 DEF Creating, Holding
<1>7. CreateKnows(o)'
  <2>1. req[o].op = "Create" => (tasks'[req[o].task] = None <=> pc[o] # "reply")
    BY <1>1, <1>5 DEF CreateKnows, Grow, Spared, Creating
  <2> QED
    BY <1>1, <1>2, <1>4, <2>1 DEF CreateKnows, AssigneeKnown
<1>8. LockHeld(o)'
  BY <1>1, <1>2, <1>6 DEF LockHeld
<1>9. UpdateKnows(o)'
  <2>1. SUFFICES ASSUME Holding(o) PROVE UpdateKnows(o)'
    BY <1>6 DEF UpdateKnows
  <2>2. tasks'[req[o].task] = tasks[req[o].task]
    BY <2>1 DEF Spared
  <2>3. AssigneeKnown(o, current[o].team) => AssigneeKnown(o, current[o].team)'
    BY <1>2, <1>4 DEF AssigneeKnown
  <2>4. Written(o) => Written(o)'
    <3>1. clock \in Nat /\ clock' \in Nat /\ clock <= clock' /\ \A now \in Time : now \in Nat
      BY <1>1, TasksAssumption DEF TypeOK, Time, Grow
    <3> QED
      BY <1>2, <3>1 DEF Written
  <2>5. Recorded(o) => Recorded(o)'
    BY <1>2 DEF Recorded
  <2> QED
    BY <1>1, <1>2, <2>1, <2>2, <2>3, <2>4, <2>5 DEF UpdateKnows, AssigneeKnown
<1>10. HistoryKnows(o)'
  <2>1. SUFFICES ASSUME req[o].op = "History" PROVE HistoryKnows(o)'
    BY <1>2 DEF HistoryKnows
  <2>2. req[o].task \in Task
    BY <1>5, <2>1
  <2>3. listed[o].before \in Nat
    BY <1>1, TasksAssumption DEF TypeOK
  <2>4. Len(history[req[o].task]) <= Len(history'[req[o].task])
        /\ Len(history[req[o].task]) \in Nat /\ Len(history'[req[o].task]) \in Nat
    BY <1>1, <2>2, EntriesStay
  <2>5. listed[o].before <= Len(history'[req[o].task])
    BY <1>1, <2>1, <2>3, <2>4 DEF HistoryKnows
  <2> QED
    BY <1>1, <1>2, <1>4, <2>1, <2>2, <2>5 DEF HistoryKnows, Grow
<1>11. ReplyTrue(o)'
  <2>1. SUFFICES ASSUME pc[o] = "reply", req[o].op # "History" PROVE ReplyTrue(o)'
    BY <1>2 DEF ReplyTrue
  <2>2. PICK t \in Task : t = req[o].task /\ req[o].op \in {"Create", "Update"}
    BY <1>1, <2>1 DEF Arguments, NoReq
  <2>3. tasks[t] # None
    <3>1. CASE req[o].op = "Create"
      BY <1>1, <2>1, <2>2, <3>1 DEF CreateKnows
    <3>2. CASE req[o].op = "Update"
      <4>1. history[t] # <<>>
        BY <1>1, <2>1, <2>2, <3>2 DEF ReplyTrue
      <4> QED
        BY <2>2, <4>1 DEF Inv, RowsInv, RowOK, Unwritten
    <3> QED
      BY <2>2, <3>1, <3>2
  <2>4. born'[t] = born[t]
    BY <2>2, <2>3 DEF Grow
  <2>5. req[o].op = "Update" => \E k \in 1..Len(history'[t]) :
            history'[t][k].by = req[o].user
            /\ \A f \in Field : current[o].fields[f] = ValueAt(t, f, k)'
    <3>1. SUFFICES ASSUME req[o].op = "Update" PROVE <2>5!2
      OBVIOUS
    <3>2. PICK k \in 1..Len(history[t]) :
            history[t][k].by = req[o].user
            /\ \A f \in Field : current[o].fields[f] = ValueAt(t, f, k)
      BY <1>1, <2>1, <2>2, <3>1 DEF ReplyTrue
    <3>3. Len(history[t]) \in Nat /\ Len(history'[t]) \in Nat
          /\ Len(history[t]) <= Len(history'[t]) /\ history'[t][k] = history[t][k]
      BY <1>1, <2>2, EntriesStay
    <3>4. k \in 1..Len(history'[t]) /\ k \in 0..Len(history[t])
      BY <3>3
    <3>5. \A f \in Field : ValueAt(t, f, k)' = ValueAt(t, f, k)
      BY <1>1, <2>2, <2>3, <3>4, ValuesStay
    <3> QED
      BY <3>2, <3>3, <3>4, <3>5
  <2> QED
    BY <1>1, <1>2, <2>1, <2>2, <2>4, <2>5 DEF ReplyTrue
<1>12. HistoryTold(o)'
  <2>1. SUFFICES ASSUME req[o].op = "History", pc[o] = "reply" PROVE HistoryTold(o)'
    BY <1>2 DEF HistoryTold, At
  <2> DEFINE entries == listed[o].entries   t == req[o].task
  <2>2. t \in Task
    BY <1>5, <2>1
  <2>3. /\ listed[o].before <= Len(entries) /\ Len(entries) <= Len(history[t])
        /\ Told(entries, history[t])
    BY <1>1, <2>1 DEF HistoryTold, At
  <2>4. entries \in Seq(Entry)
    BY <1>1 DEF TypeOK
  <2> HIDE DEF entries, t
  <2>5. /\ Len(history[t]) <= Len(history'[t]) /\ Told(entries, history'[t])
        /\ Len(history[t]) \in Nat /\ Len(history'[t]) \in Nat
    BY <1>1, <2>2, <2>3, <2>4, EntriesStay
  <2>6. Len(entries) <= Len(history'[t])
    BY <2>3, <2>4, <2>5
  <2> QED
    BY <1>2, <2>3, <2>5, <2>6 DEF HistoryTold, entries, t
<1> QED
  BY <1>3, <1>7, <1>8, <1>9, <1>10, <1>11, <1>12 DEF SlotOK

-----------------------------------------------------------------------------
(* A step of one handler.                                                   *)

\* All a step can do to the local state of the handler in a slot.
Becomes(s, call, r, c, x, l) ==
    /\ pc' = [pc EXCEPT ![s] = call] /\ req' = [req EXCEPT ![s] = r]
    /\ current' = [current EXCEPT ![s] = c] /\ tx' = [tx EXCEPT ![s] = x]
    /\ listed' = [listed EXCEPT ![s] = l]

Listing == [entries : Seq(Entry), before : 0..MaxEdits]

LEMMA SlotTyped ==
    ASSUME TypeOK, NEW s \in Slot
    PROVE  /\ pc[s] \in Label /\ req[s] \in Request /\ current[s] \in Row \cup {None}
           /\ tx[s] \in Writes /\ listed[s] \in Listing
           /\ Becomes(s, pc[s], req[s], current[s], tx[s], listed[s]) <=> UNCHANGED local
BY DEF TypeOK, Label, Listing, Becomes, local

LEMMA BecomesTyped ==
    ASSUME TypeOK, NEW s \in Slot, NEW call \in Label, NEW r \in Request,
           NEW c \in Row \cup {None}, NEW x \in Writes, NEW l \in Listing,
           Becomes(s, call, r, c, x, l)
    PROVE  /\ pc' \in [Slot -> Label] /\ req' \in [Slot -> Request]
           /\ current' \in [Slot -> Row \cup {None}] /\ tx' \in [Slot -> Writes]
           /\ listed' \in [Slot -> Listing]
           /\ pc'[s] = call /\ req'[s] = r /\ current'[s] = c /\ tx'[s] = x /\ listed'[s] = l
           /\ \A o \in Slot \ {s} : Undisturbed(o)
BY DEF TypeOK, Label, Listing, Becomes, Undisturbed

\* The other handlers' part of the invariant, and that of any pair of them.
LEMMA SlotsStep ==
    ASSUME Inv, TypeOK', Grow, NEW s \in Slot, SlotOK(s)',
           \A o \in Slot \ {s} :
               /\ Undisturbed(o) /\ Spared(o)
               /\ Creating(s)' /\ Creating(o) => req'[s].task # req[o].task
               /\ Holding(s)' /\ Holding(o) => req'[s].task # req[o].task
    PROVE  SlotsInv'
<1>1. \A o \in Slot : SlotOK(o)'
  BY OthersStay
<1>2. \A o \in Slot \ {s} : Creating(o)' = Creating(o) /\ Holding(o)' = Holding(o)
                            /\ req'[o] = req[o]
  BY DEF Undisturbed, Creating, Holding
<1>3. ASSUME NEW o \in Slot, NEW q \in Slot \ {o} PROVE Apart(o, q)'
  <2>1. Apart(o, q)
    BY DEF Inv, SlotsInv
  <2>2. CASE o = s
    BY <1>2, <2>2 DEF Apart
  <2>3. CASE q = s
    BY <1>2, <2>3 DEF Apart
  <2>4. CASE o # s /\ q # s
    BY <1>2, <2>1, <2>4 DEF Apart
  <2> QED
    BY <2>2, <2>3, <2>4
<1> QED
  BY <1>1, <1>3 DEF SlotsInv

LEMMA NothingGrows ==
    ASSUME TypeOK, UNCHANGED <<clock, tables>>
    PROVE  Grow
BY TasksAssumption DEF Grow, TypeOK, tables, Time

LEMMA RowsStay ==
    ASSUME RowsInv, UNCHANGED <<clock, tables>>
    PROVE  RowsInv'
<1>1. clock' = clock /\ members' = members /\ tasks' = tasks /\ history' = history
      /\ born' = born /\ doneSince' = doneSince
  BY DEF tables
<1>2. \A t, f, k : ValueAt(t, f, k)' = ValueAt(t, f, k)
  BY <1>1 DEF ValueAt
<1> QED
  BY <1>1, <1>2 DEF RowsInv, RowOK, Unwritten, Timely, Replayed, Dated, AssigneeValid, IsMember

LEMMA EditingFinite ==
    ASSUME NEW t
    PROVE  IsFiniteSet(Editing(t)) /\ Cardinality(Editing(t)) \in Nat
BY SlotAssumption, FS_Subset, FS_CardinalityType DEF Editing

\* No task has another update in flight, or another entry.
LEMMA BoundedStays ==
    ASSUME TypeOK, Bounded, UNCHANGED history, \A t \in Task : Editing(t)' \subseteq Editing(t)
    PROVE  Bounded'
<1> SUFFICES ASSUME NEW t \in Task
             PROVE  Len(history[t]) + Cardinality(Editing(t)') <= MaxEdits
  BY DEF Bounded
<1>1. Len(history[t]) \in Nat /\ Len(history[t]) + Cardinality(Editing(t)) <= MaxEdits
  BY DEF TypeOK, Bounded
<1>2. /\ Cardinality(Editing(t)') <= Cardinality(Editing(t))
      /\ Cardinality(Editing(t)') \in Nat /\ Cardinality(Editing(t)) \in Nat
  BY EditingFinite, FS_Subset, FS_CardinalityType
<1> QED
  BY <1>1, <1>2, TasksAssumption

\* A step of one handler that leaves the tables alone.
LEMMA QuietStep ==
    ASSUME Inv, NEW s \in Slot, NEW call \in Label, NEW r \in Request,
           NEW c \in Row \cup {None}, NEW x \in Writes, NEW l \in Listing,
           Becomes(s, call, r, c, x, l), UNCHANGED <<clock, tables>>,
           SlotOK(s)', Bounded',
           \A o \in Slot \ {s} :
               /\ Creating(s)' /\ Creating(o) => req'[s].task # req[o].task
               /\ Holding(s)' /\ Holding(o) => req'[s].task # req[o].task
    PROVE  Inv'
<1>1. TypeOK'
  BY BecomesTyped DEF Inv, TypeOK, tables, Label, Listing
<1>2. Grow /\ RowsInv'
  BY NothingGrows, RowsStay DEF Inv
<1>3. ASSUME NEW o \in Slot \ {s} PROVE Undisturbed(o) /\ Spared(o)
  <2>1. Undisturbed(o)
    BY BecomesTyped DEF Inv
  <2>2. tasks' = tasks /\ SlotOK(o)
    BY DEF tables, Inv, SlotsInv
  <2> QED
    BY <2>1, <2>2 DEF Spared, SlotOK, CreateKnows, Creating
<1>4. SlotsInv'
  BY <1>1, <1>2, <1>3, SlotsStep
<1> QED
  BY <1>1, <1>2, <1>4 DEF Inv

\* The handler goes on with its request, or is done with it: it is no Create,
\* Update in flight or holder of a lock that it was not before.
LEMMA SameRequest ==
    ASSUME Inv, NEW s \in Slot, NEW call \in Label, NEW r \in Request,
           NEW c \in Row \cup {None}, NEW x \in Writes, NEW l \in Listing,
           Becomes(s, call, r, c, x, l), UNCHANGED <<clock, tables>>,
           SlotOK(s)',
           r.op = "none" \/ (r.op = req[s].op /\ r.task = req[s].task /\ pc[s] # "reply"),
           Holding(s)' => Holding(s)
    PROVE  Inv'
<1>1. pc'[s] = call /\ req'[s] = r /\ \A o \in Slot \ {s} : Undisturbed(o)
  BY BecomesTyped DEF Inv
<1>2. ASSUME NEW t \in Task PROVE Editing(t)' \subseteq Editing(t)
  BY <1>1 DEF Editing, Undisturbed
<1>3. Bounded'
  BY <1>2, BoundedStays DEF Inv, tables
<1>4. ASSUME NEW o \in Slot \ {s}
      PROVE  /\ Creating(s)' /\ Creating(o) => req'[s].task # req[o].task
             /\ Holding(s)' /\ Holding(o) => req'[s].task # req[o].task
  <2>1. Apart(s, o)
    BY DEF Inv, SlotsInv
  <2>2. Creating(s)' => Creating(s) /\ r.task = req[s].task
    BY <1>1 DEF Creating
  <2>3. Holding(s)' => Holding(s) /\ r.task = req[s].task
    BY <1>1 DEF Holding
  <2> QED
    BY <1>1, <2>1, <2>2, <2>3 DEF Apart
<1> QED
  BY <1>3, <1>4, QuietStep

LEMMA AtRest ==
    ASSUME NEW s \in Slot, pc'[s] = "idle", req'[s] = NoReq, tx'[s] = NoTx, listed'[s] = NoList
    PROVE  SlotOK(s)'
BY DEF SlotOK, Arguments, CreateKnows, LockHeld, UpdateKnows, Holding, HistoryKnows, ReplyTrue,
       HistoryTold, At, NoReq, NoTx

\* A handler returns.
LEMMA FinishKeeps ==
    ASSUME Inv, NEW s \in Slot, Finish(s), UNCHANGED <<clock, tables>>
    PROVE  Inv'
<1>1. Becomes(s, "idle", NoReq, None, NoTx, NoList)
  BY DEF Finish, Becomes
<1>2. "idle" \in Label /\ None \in Row \cup {None} /\ NoList \in Listing
  BY RestTyped DEF Label, Listing
<1>3. pc'[s] = "idle" /\ req'[s] = NoReq /\ tx'[s] = NoTx /\ listed'[s] = NoList
  BY <1>1, <1>2, RestTyped, BecomesTyped DEF Inv
<1>4. SlotOK(s)' /\ ~Holding(s)' /\ NoReq.op = "none"
  BY <1>3, AtRest DEF Holding, NoReq
<1> QED
  BY <1>1, <1>2, <1>4, RestTyped, SameRequest

\* A handler goes on to another call, with what it has.
LEMMA GotoKeeps ==
    ASSUME Inv, NEW s \in Slot, NEW call \in Label, Goto(s, call),
           UNCHANGED <<clock, tables, current, tx>>, pc[s] # "reply",
           SlotOK(s)', Holding(s)' => Holding(s)
    PROVE  Inv'
<1>1. Becomes(s, call, req[s], current[s], tx[s], listed[s])
  BY DEF Goto, Becomes, Inv, TypeOK
<1>2. /\ req[s] \in Request /\ current[s] \in Row \cup {None}
      /\ tx[s] \in Writes /\ listed[s] \in Listing
  BY SlotTyped DEF Inv
<1> QED
  BY <1>1, <1>2, SameRequest

LEMMA CallerIsMemberKeeps ==
    ASSUME Inv, NEW s \in Slot, CallerIsMember(s)
    PROVE  Inv'
<1> DEFINE call == IF req[s].op = "History" THEN "history.ListByTask"
                   ELSE IF req[s].patch["assignee_id"] # None
                   THEN "members.IsMember(assignee)" ELSE "tasks.Create"
<1>1. SlotOK(s) /\ TypeOK /\ pc[s] = "members.IsMember"
  BY DEF Inv, SlotsInv, CallerIsMember
<1>2. CASE Finish(s) /\ UNCHANGED <<clock, tables>>
  BY <1>2, FinishKeeps
<1>3. CASE /\ IsMember(req[s].team, req[s].user) /\ Goto(s, call)
           /\ UNCHANGED <<clock, tables, current, tx>>
  <2>1. /\ pc'[s] = call /\ UNCHANGED <<clock, tables, req, current, tx, listed>>
    BY <1>1, <1>3 DEF Goto, TypeOK
  <2>2. req[s].op \in {"Create", "History"}
    BY <1>1 DEF SlotOK, Arguments, UpdateCalls
  <2>3. call \in Label /\ Arguments(s)'
    BY <1>1, <2>1, <2>2 DEF SlotOK, Arguments, Label, CreateCalls, HistoryCalls
  <2>4. CreateKnows(s)' /\ HistoryKnows(s)'
    BY <1>1, <1>3, <2>1, <2>2 DEF SlotOK, CreateKnows, HistoryKnows, tables, IsMember, AssigneeKnown
  <2>5. ~Holding(s) /\ ~Holding(s)' /\ LockHeld(s)' /\ UpdateKnows(s)'
    BY <1>1, <2>1, <2>2 DEF SlotOK, LockHeld, UpdateKnows, Holding
  <2>6. ReplyTrue(s)' /\ HistoryTold(s)'
    BY <2>1 DEF ReplyTrue, HistoryTold, At
  <2>7. SlotOK(s)'
    BY <2>3, <2>4, <2>5, <2>6 DEF SlotOK
  <2> HIDE DEF call
  <2> QED
    BY <1>1, <1>3, <2>3, <2>5, <2>7, GotoKeeps
<1> QED
  BY <1>2, <1>3 DEF CallerIsMember, Check

LEMMA AssigneeIsMemberKeeps ==
    ASSUME Inv, NEW s \in Slot, AssigneeIsMember(s)
    PROVE  Inv'
<1> DEFINE call == IF req[s].op = "Create" THEN "tasks.Create" ELSE "tasks.Update"
<1>1. SlotOK(s) /\ TypeOK /\ pc[s] = "members.IsMember(assignee)"
  BY DEF Inv, SlotsInv, AssigneeIsMember
<1>2. CASE Finish(s) /\ UNCHANGED <<clock, tables>>
  BY <1>2, FinishKeeps
<1>3. CASE /\ IsMember(TeamOf(s), req[s].patch["assignee_id"]) /\ Goto(s, call)
           /\ UNCHANGED <<clock, tables, current, tx>>
  <2>1. /\ pc'[s] = call /\ UNCHANGED <<clock, tables, req, current, tx, listed>>
    BY <1>1, <1>3 DEF Goto, TypeOK
  <2>2. req[s].op \in {"Create", "Update"}
    BY <1>1 DEF SlotOK, Arguments, HistoryCalls
  <2>3. call \in Label /\ Arguments(s)'
    BY <1>1, <2>1, <2>2 DEF SlotOK, Arguments, Label, CreateCalls, UpdateCalls
  <2>4. CreateKnows(s)' /\ HistoryKnows(s)'
    BY <1>1, <1>3, <2>1, <2>2
    DEF SlotOK, CreateKnows, HistoryKnows, tables, IsMember, AssigneeKnown, TeamOf
  <2>5. Holding(s)' = Holding(s) /\ LockHeld(s)'
    BY <1>1, <2>1, <2>2 DEF SlotOK, LockHeld, Holding
  <2>6. UpdateKnows(s)'
    <3>1. SUFFICES ASSUME Holding(s) PROVE UpdateKnows(s)'
      BY <2>5 DEF UpdateKnows
    <3>2. req[s].op = "Update" /\ call = "tasks.Update" /\ TeamOf(s) = current[s].team
      BY <3>1 DEF Holding, TeamOf
    <3>3. AssigneeKnown(s, current[s].team)'
      BY <1>3, <2>1, <3>2 DEF AssigneeKnown, IsMember, tables
    <3> QED
      BY <1>1, <2>1, <3>1, <3>2, <3>3 DEF SlotOK, UpdateKnows, tables
  <2>7. ReplyTrue(s)' /\ HistoryTold(s)'
    BY <2>1 DEF ReplyTrue, HistoryTold, At
  <2>8. SlotOK(s)'
    BY <2>3, <2>4, <2>5, <2>6, <2>7 DEF SlotOK
  <2> HIDE DEF call
  <2> QED
    BY <1>1, <1>3, <2>3, <2>5, <2>8, GotoKeeps
<1> QED
  BY <1>2, <1>3 DEF AssigneeIsMember, Check

LEMMA BeginTxKeeps ==
    ASSUME Inv, NEW s \in Slot, BeginTx(s)
    PROVE  Inv'
<1> DEFINE call == "tasks.GetForUpdate"
           x == [open |-> TRUE, lock |-> None, row |-> None, entry |-> None]
<1>1. SlotOK(s) /\ TypeOK /\ pc[s] = "db.BeginTx" /\ req[s].op = "Update"
  BY DEF Inv, SlotsInv, BeginTx, At
<1>2. call \in Label /\ x \in Writes /\ x.lock = None
  BY DEF Label, UpdateCalls, Writes
<1> HIDE DEF x
<1>3. Becomes(s, call, req[s], current[s], x, listed[s])
  BY <1>1 DEF BeginTx, Goto, Becomes, TypeOK, x
<1>4. /\ req[s] \in Request /\ current[s] \in Row \cup {None}
      /\ tx[s] \in Writes /\ listed[s] \in Listing
  BY <1>1, SlotTyped
<1>5. pc'[s] = call /\ req'[s] = req[s] /\ tx'[s] = x
  BY <1>1, <1>2, <1>3, <1>4, BecomesTyped
<1>6. SlotOK(s)' /\ ~Holding(s)'
  BY <1>1, <1>2, <1>5 DEF SlotOK, Arguments, CreateKnows, LockHeld, UpdateKnows, Holding,
                          HistoryKnows, ReplyTrue, HistoryTold, At, UpdateCalls
<1>7. UNCHANGED <<clock, tables>>
  BY DEF BeginTx
<1> HIDE DEF call
<1> QED
  BY <1>1, <1>2, <1>3, <1>4, <1>6, <1>7, SameRequest

\* The lock was free, so that no other handler holds the row read.
LEMMA GetForUpdateKeeps ==
    ASSUME Inv, NEW s \in Slot, GetForUpdate(s)
    PROVE  Inv'
<1> DEFINE t == req[s].task
           call == IF req[s].patch["assignee_id"] # None
                   THEN "members.IsMember(assignee)" ELSE "tasks.Update"
           x == [open |-> TRUE, lock |-> t, row |-> None, entry |-> None]
<1>1. SlotOK(s) /\ TypeOK /\ Bounded /\ pc[s] = "tasks.GetForUpdate" /\ req[s].op = "Update"
  BY DEF Inv, SlotsInv, GetForUpdate, At
<1>2. CASE Finish(s) /\ UNCHANGED <<clock, tables>>
  BY <1>2, FinishKeeps
<1>3. CASE /\ tasks[t] # None /\ tasks[t].creator = req[s].user
           /\ Load(s, tasks[t]) /\ Lock(s) /\ UNCHANGED <<clock, tables>>
  <2>1. t \in Task /\ req[s].user \in User /\ req[s].patch \in Patch /\ tasks[t] \in Row \cup {None}
    BY <1>1 DEF SlotOK, Arguments, NoReq, TypeOK
  <2>2. call \in Label /\ x \in Writes /\ x.lock = t
    BY <2>1 DEF Label, UpdateCalls, Writes
  <2>3. req[s] \in Request /\ listed[s] \in Listing
    BY <1>1, SlotTyped
  <2>4. Becomes(s, call, req[s], tasks[t], x, listed[s])
    BY <1>1, <1>3 DEF Load, Lock, Goto, Becomes, TypeOK
  <2> HIDE DEF call, x
  <2>5. /\ pc'[s] = call /\ req'[s] = req[s] /\ tx'[s] = x /\ current'[s] = tasks[t]
        /\ \A o \in Slot \ {s} : Undisturbed(o)
    BY <1>1, <2>1, <2>2, <2>3, <2>4, BecomesTyped
  <2>6. call \in {"members.IsMember(assignee)", "tasks.Update"}
        /\ (call # "members.IsMember(assignee)" => req[s].patch["assignee_id"] = None)
    BY DEF call
  <2>7. UNCHANGED <<clock, tables>>
    BY <1>3
  <2>8. Arguments(s)'
    BY <1>1, <2>1, <2>5, <2>6 DEF Arguments, UpdateCalls
  <2>9. LockHeld(s)' /\ Holding(s)'
    BY <1>1, <2>2, <2>5, <2>6 DEF LockHeld, Holding
  <2>10. UpdateKnows(s)'
    BY <1>1, <1>3, <2>5, <2>6, <2>7 DEF UpdateKnows, AssigneeKnown, tables
  <2>11. SlotOK(s)'
    BY <1>1, <2>5, <2>6, <2>8, <2>9, <2>10
    DEF SlotOK, CreateKnows, HistoryKnows, ReplyTrue, HistoryTold, At
  <2>12. ASSUME NEW u \in Task PROVE Editing(u)' \subseteq Editing(u)
    BY <1>1, <2>5, <2>6 DEF Editing, Undisturbed
  <2>13. Bounded'
    BY <1>1, <2>7, <2>12, BoundedStays DEF tables
  <2>14. ASSUME NEW o \in Slot \ {s}, Holding(o) PROVE req[o].task # t
    <3>1. tx[o].lock = req[o].task
      BY <2>14 DEF Inv, SlotsInv, SlotOK, LockHeld
    <3>2. tx[o].lock # t
      BY DEF GetForUpdate, RowLocked
    <3> QED
      BY <3>1, <3>2
  <2>15. ~Creating(s)'
    BY <1>1, <2>5 DEF Creating
  <2>16. \A o \in Slot \ {s} :
            /\ Creating(s)' /\ Creating(o) => req'[s].task # req[o].task
            /\ Holding(s)' /\ Holding(o) => req'[s].task # req[o].task
    BY <2>5, <2>14, <2>15
  <2> HIDE DEF t
  <2> QED
    BY <2>1, <2>2, <2>3, <2>4, <2>7, <2>11, <2>13, <2>16, QuietStep
<1> QED
  BY <1>2, <1>3 DEF GetForUpdate

LEMMA TasksUpdateKeeps ==
    ASSUME Inv, NEW s \in Slot, TasksUpdate(s)
    PROVE  Inv'
<1> DEFINE new == Merge(current[s].fields, req[s].patch)
           row == [team |-> current[s].team, creator |-> current[s].creator, fields |-> new,
                   updated |-> clock, completed |-> CompletedAt(new, clock)]
           x == [open |-> TRUE, lock |-> tx[s].lock, row |-> row, entry |-> None]
<1>1. SlotOK(s) /\ TypeOK /\ pc[s] = "tasks.Update" /\ req[s].op = "Update" /\ Holding(s)
  BY DEF Inv, SlotsInv, TasksUpdate, At, Holding
<1>2. /\ req[s] \in Request /\ current[s] \in Row \cup {None}
      /\ tx[s] \in Writes /\ listed[s] \in Listing
  BY <1>1, SlotTyped
<1>3. current[s] \in Row /\ current[s].updated <= clock /\ clock \in Time
  <2>1. req[s].task \in Task /\ current[s] = tasks[req[s].task] /\ current[s] # None
    BY <1>1 DEF SlotOK, Arguments, NoReq, UpdateKnows
  <2>2. current[s].updated <= clock
    BY <2>1 DEF Inv, RowsInv, RowOK, Timely
  <2> QED
    BY <1>1, <1>2, <2>1, <2>2 DEF TypeOK
<1>4. row \in Row
  <2>1. current[s].fields \in Fields /\ req[s].patch \in Draft \cup Patch
    BY <1>1, <1>3 DEF SlotOK, Arguments, NoReq, Row
  <2>2. new \in Fields
    BY <2>1, MergeTyped
  <2>3. CompletedAt(new, clock) \in Time \cup {None}
    BY <1>3, <2>2, CompletedTyped
  <2> QED
    BY <1>3, <2>2, <2>3 DEF Row
<1>5. x \in Writes /\ x.lock = tx[s].lock /\ x.row = row
  BY <1>2, <1>4 DEF Writes
<1>6. "history.Add" \in Label
  BY DEF Label, UpdateCalls
<1>7. Becomes(s, "history.Add", req[s], current[s], x, listed[s]) /\ UNCHANGED <<clock, tables>>
  BY <1>1 DEF TasksUpdate, Goto, Becomes, TypeOK
<1> HIDE DEF x
<1>8. /\ pc'[s] = "history.Add" /\ req'[s] = req[s] /\ tx'[s] = x /\ current'[s] = current[s]
      /\ clock' = clock /\ tasks' = tasks
  BY <1>1, <1>2, <1>5, <1>6, <1>7, BecomesTyped DEF tables
<1>9. Written(s)'
  <2>1. tx'[s].row = row /\ row.updated = clock /\ tx'[s].row.updated = clock
    BY <1>5, <1>8
  <2>2. clock \in Time /\ current[s].updated <= clock /\ clock <= clock
    BY <1>3, TasksAssumption DEF Time
  <2> QED
    BY <1>8, <2>1, <2>2 DEF Written
<1> HIDE DEF row
<1>10. Arguments(s)' /\ LockHeld(s)' /\ Holding(s)'
  BY <1>1, <1>5, <1>8 DEF SlotOK, Arguments, LockHeld, Holding, UpdateCalls
<1>11. UpdateKnows(s)'
  BY <1>1, <1>7, <1>8, <1>9 DEF SlotOK, UpdateKnows, AssigneeKnown, IsMember, tables
<1>12. SlotOK(s)'
  BY <1>1, <1>8, <1>10, <1>11 DEF SlotOK, CreateKnows, HistoryKnows, ReplyTrue, HistoryTold, At
<1> QED
  BY <1>1, <1>2, <1>5, <1>6, <1>7, <1>12, SameRequest

LEMMA HistoryAddKeeps ==
    ASSUME Inv, NEW s \in Slot, HistoryAdd(s)
    PROVE  Inv'
<1> DEFINE entry == [by |-> req[s].user, at |-> tx[s].row.updated,
                     changes |-> Diff(current[s].fields, tx[s].row.fields)]
           x == [open |-> TRUE, lock |-> tx[s].lock, row |-> tx[s].row, entry |-> entry]
<1>1. SlotOK(s) /\ TypeOK /\ pc[s] = "history.Add" /\ req[s].op = "Update" /\ Holding(s)
  BY DEF Inv, SlotsInv, HistoryAdd, Record, At, Holding
<1>2. /\ req[s] \in Request /\ current[s] \in Row \cup {None}
      /\ tx[s] \in Writes /\ listed[s] \in Listing
  BY <1>1, SlotTyped
<1>3. current[s] \in Row /\ req[s].user \in User /\ req[s].patch \in Draft \cup Patch
  BY <1>1, <1>2 DEF SlotOK, Arguments, NoReq, UpdateKnows
<1>4. Written(s)
  BY <1>1 DEF SlotOK, UpdateKnows
<1>5. entry \in Entry
  <2>1. current[s].fields \in Fields
    BY <1>3 DEF Row
  <2>2. Merge(current[s].fields, req[s].patch) \in Fields
    BY <1>3, <2>1, MergeTyped
  <2>3. tx[s].row.fields \in Fields /\ tx[s].row.updated \in Time
    BY <1>4, <2>2 DEF Written
  <2>4. Diff(current[s].fields, tx[s].row.fields) \in [Field -> Change \cup {None}]
    BY <2>1, <2>3, DiffTyped
  <2> QED
    BY <1>3, <2>3, <2>4 DEF Entry
<1>6. x \in Writes /\ x.lock = tx[s].lock /\ x.row = tx[s].row /\ x.entry = entry
  BY <1>2, <1>5 DEF Writes
<1>7. "tx.Commit" \in Label
  BY DEF Label, UpdateCalls
<1>8. Becomes(s, "tx.Commit", req[s], current[s], x, listed[s]) /\ UNCHANGED <<clock, tables>>
  BY <1>1 DEF HistoryAdd, Record, Goto, Becomes, TypeOK
<1> HIDE DEF x
<1>9. /\ pc'[s] = "tx.Commit" /\ req'[s] = req[s] /\ tx'[s] = x /\ current'[s] = current[s]
      /\ clock' = clock /\ tasks' = tasks
  BY <1>1, <1>2, <1>6, <1>7, <1>8, BecomesTyped DEF tables
<1>10. Written(s)'
  BY <1>4, <1>6, <1>9 DEF Written
<1>11. Recorded(s)'
  BY <1>6, <1>9 DEF Recorded
<1> HIDE DEF entry
<1>12. Arguments(s)' /\ LockHeld(s)' /\ Holding(s)'
  BY <1>1, <1>6, <1>9 DEF SlotOK, Arguments, LockHeld, Holding, UpdateCalls
<1>13. UpdateKnows(s)'
  BY <1>1, <1>8, <1>9, <1>10, <1>11 DEF SlotOK, UpdateKnows, AssigneeKnown, IsMember, tables
<1>14. SlotOK(s)'
  BY <1>1, <1>9, <1>12, <1>13 DEF SlotOK, CreateKnows, HistoryKnows, ReplyTrue, HistoryTold, At
<1> QED
  BY <1>1, <1>2, <1>6, <1>7, <1>8, <1>14, SameRequest

LEMMA GetTeamIDKeeps ==
    ASSUME Inv, NEW s \in Slot, GetTeamID(s)
    PROVE  Inv'
<1> DEFINE t == req[s].task
           r == [req[s] EXCEPT !.team = tasks[t].team]
<1>1. SlotOK(s) /\ TypeOK /\ pc[s] = "tasks.GetTeamID" /\ req[s].op = "History"
  BY DEF Inv, SlotsInv, GetTeamID, At
<1>2. CASE Finish(s) /\ UNCHANGED <<clock, tables>>
  BY <1>2, FinishKeeps
<1>3. CASE /\ tasks[t] # None
           /\ pc' = [pc EXCEPT ![s] = "members.IsMember"]
           /\ req' = [req EXCEPT ![s].team = tasks[t].team]
           /\ UNCHANGED <<current, tx, listed>> /\ UNCHANGED <<clock, tables>>
  <2>1. /\ req[s] \in Request /\ current[s] \in Row \cup {None}
        /\ tx[s] \in Writes /\ listed[s] \in Listing
    BY <1>1, SlotTyped
  <2>2. t \in Task /\ tasks[t] \in Row /\ tasks[t].team \in Team
    BY <1>1, <1>3 DEF SlotOK, Arguments, NoReq, TypeOK, Row
  <2>3. r \in Request /\ r.op = "History" /\ r.user = req[s].user /\ r.task = t
        /\ r.team = tasks[t].team
    BY <1>1, <2>1, <2>2 DEF Request
  <2>4. Becomes(s, "members.IsMember", r, current[s], tx[s], listed[s])
    BY <1>1, <1>3, <2>1 DEF Becomes, TypeOK
  <2>5. "members.IsMember" \in Label
    BY DEF Label, CreateCalls
  <2> HIDE DEF r
  <2>6. /\ pc'[s] = "members.IsMember" /\ req'[s] = r /\ UNCHANGED <<tx, listed, tasks, history>>
    BY <1>1, <1>3, <2>1, <2>3, <2>4, <2>5, BecomesTyped DEF tables
  <2>7. SlotOK(s)' /\ ~Holding(s)'
    BY <1>1, <1>3, <2>2, <2>3, <2>6 DEF SlotOK, Arguments, CreateKnows, LockHeld, UpdateKnows,
                                        Holding, HistoryKnows, ReplyTrue, HistoryTold, At, HistoryCalls
  <2> QED
    BY <1>1, <1>3, <2>1, <2>3, <2>4, <2>5, <2>7, SameRequest
<1> QED
  BY <1>2, <1>3 DEF GetTeamID

LEMMA ListByTaskKeeps ==
    ASSUME Inv, NEW s \in Slot, ListByTask(s)
    PROVE  Inv'
<1>1. SlotOK(s) /\ TypeOK /\ pc[s] = "history.ListByTask" /\ req[s].op = "History"
  BY DEF Inv, SlotsInv, ListByTask, At
<1>2. PICK t \in Task : t = req[s].task /\ tasks[t] # None
  BY <1>1 DEF SlotOK, Arguments, NoReq, HistoryKnows
<1>3. PICK entries \in Ordered(history[t]) : listed' = [listed EXCEPT ![s].entries = entries]
  BY <1>2 DEF ListByTask
<1> DEFINE l == [listed[s] EXCEPT !.entries = entries]
<1>4. /\ req[s] \in Request /\ current[s] \in Row \cup {None}
      /\ tx[s] \in Writes /\ listed[s] \in Listing
  BY <1>1, SlotTyped
<1>5. entries \in Seq(Entry) /\ Len(entries) = Len(history[t]) /\ Told(entries, history[t])
  <2>1. history[t] \in Seq(Entry)
    BY <1>1 DEF TypeOK
  <2>2. \A j, k \in 1..Len(history[t]) : j < k => history[t][j].at <= history[t][k].at
    BY <1>2 DEF Inv, RowsInv, RowOK, Timely
  <2> QED
    BY <2>1, <2>2, OrderedIsTold
<1>6. l \in Listing /\ l.entries = entries /\ l.before = listed[s].before
  BY <1>4, <1>5 DEF Listing
<1>7. Becomes(s, "reply", req[s], current[s], tx[s], l) /\ UNCHANGED <<clock, tables>>
  BY <1>1, <1>3 DEF ListByTask, Becomes, TypeOK
<1>8. "reply" \in Label
  BY DEF Label, CreateCalls
<1> HIDE DEF l
<1>9. /\ pc'[s] = "reply" /\ listed'[s] = l /\ UNCHANGED <<req, tx, tasks, history, members>>
  <2>1. pc'[s] = "reply" /\ listed'[s] = l
    BY <1>1, <1>7 DEF Becomes, TypeOK
  <2>2. UNCHANGED <<req, tx, tasks, history, members>>
    BY DEF ListByTask, tables
  <2> QED
    BY <2>1, <2>2
<1>10. HistoryTold(s)'
  <2>1. listed[s].before <= Len(history[t]) /\ Len(history[t]) \in Nat
    BY <1>1, <1>2 DEF SlotOK, HistoryKnows, TypeOK
  <2>2. listed'[s].before <= Len(listed'[s].entries) /\ Len(listed'[s].entries) <= Len(history[t])
    BY <1>5, <1>6, <1>9, <2>1
  <2> QED
    BY <1>2, <1>5, <1>6, <1>9, <2>2 DEF HistoryTold
<1>11. SlotOK(s)' /\ ~Holding(s)'
  BY <1>1, <1>6, <1>9, <1>10 DEF SlotOK, Arguments, CreateKnows, LockHeld, UpdateKnows,
                                 Holding, HistoryKnows, ReplyTrue, IsMember, HistoryCalls
<1> QED
  BY <1>1, <1>4, <1>6, <1>7, <1>8, <1>11, SameRequest

-----------------------------------------------------------------------------
(* A request arrives.                                                       *)

\* What an arriving request finds and leaves in its slot.
LEMMA ArriveTyped ==
    ASSUME Inv, NEW s \in Slot, NEW call \in Label, NEW request \in Request,
           Arrive(s, call, request), request.op = "History" => request.task \in Task
    PROVE  \E l \in Listing :
             /\ Becomes(s, call, request, current[s], tx[s], l)
             /\ current[s] \in Row \cup {None} /\ tx[s] \in Writes /\ tx[s].lock = None
             /\ pc'[s] = call /\ req'[s] = request /\ tx'[s] = tx[s] /\ listed'[s] = l
             /\ \A o \in Slot \ {s} : Undisturbed(o)
             /\ request.op = "History" => l.before = Len(history[request.task])
             /\ UNCHANGED <<clock, tables>>
<1> DEFINE n == IF request.op = "History" THEN Len(history[request.task]) ELSE 0
           l == [listed[s] EXCEPT !.before = n]
<1>1. TypeOK /\ pc[s] = "idle" /\ Arguments(s)
  BY DEF Inv, SlotsInv, SlotOK, Arrive
<1>2. tx[s] = NoTx /\ listed[s] = NoList
  BY <1>1 DEF Arguments, CreateCalls, UpdateCalls, HistoryCalls
<1>3. n \in 0..MaxEdits
  <2>1. CASE request.op = "History"
    <3>1. /\ Len(history[request.task]) + Cardinality(Editing(request.task)) <= MaxEdits
          /\ Len(history[request.task]) \in Nat
      BY <1>1, <2>1 DEF Inv, Bounded, TypeOK
    <3>2. Cardinality(Editing(request.task)) \in Nat
      BY EditingFinite
    <3> QED
      BY <2>1, <3>1, <3>2, TasksAssumption
  <2>2. CASE request.op # "History"
    BY <2>2, TasksAssumption
  <2> QED
    BY <2>1, <2>2
<1>4. /\ current[s] \in Row \cup {None} /\ tx[s] \in Writes /\ listed[s] \in Listing
  BY <1>1, SlotTyped
<1> HIDE DEF n
<1>5. l \in Listing /\ l.before = n
  BY <1>3, <1>4 DEF Listing
<1>6. Becomes(s, call, request, current[s], tx[s], l)
  BY <1>1 DEF Arrive, Becomes, TypeOK, n
<1> HIDE DEF l
<1>7. /\ pc'[s] = call /\ req'[s] = request /\ tx'[s] = tx[s] /\ listed'[s] = l
      /\ \A o \in Slot \ {s} : Undisturbed(o)
  BY <1>1, <1>4, <1>5, <1>6, BecomesTyped
<1>8. UNCHANGED <<clock, tables>> /\ tx[s].lock = None
  BY <1>2 DEF Arrive, NoTx
<1> QED
  BY <1>4, <1>5, <1>6, <1>7, <1>8 DEF n

LEMMA CallCreateKeeps ==
    ASSUME Inv, NEW s \in Slot, NEW u \in User, NEW team \in Team, NEW draft \in Draft,
           CallCreate(s, u, team, draft)
    PROVE  Inv'
<1>1. PICK t \in FreshTask :
        Arrive(s, "members.IsMember",
               [op |-> "Create", user |-> u, team |-> team, task |-> t, patch |-> draft])
  BY DEF CallCreate
<1> DEFINE r == [op |-> "Create", user |-> u, team |-> team, task |-> t, patch |-> draft]
<1>2. t \in Task /\ tasks[t] = None /\ \A o \in Slot : req[o].task # t
  BY DEF FreshTask
<1>3. r \in Request /\ r.op = "Create" /\ r.user = u /\ r.team = team /\ r.task = t /\ r.patch = draft
  BY <1>2 DEF Request
<1>4. "members.IsMember" \in Label
  BY DEF Label, CreateCalls
<1>5. Arrive(s, "members.IsMember", r)
  BY <1>1
<1> HIDE DEF r
<1>6. PICK l \in Listing :
         /\ Becomes(s, "members.IsMember", r, current[s], tx[s], l)
         /\ current[s] \in Row \cup {None} /\ tx[s] \in Writes /\ tx[s].lock = None
         /\ pc'[s] = "members.IsMember" /\ req'[s] = r /\ tx'[s] = tx[s] /\ listed'[s] = l
         /\ \A o \in Slot \ {s} : Undisturbed(o)
         /\ UNCHANGED <<clock, tables>>
  BY <1>3, <1>4, <1>5, ArriveTyped
<1>7. SlotOK(s)' /\ ~Holding(s)'
  BY <1>2, <1>3, <1>6 DEF SlotOK, Arguments, CreateKnows, LockHeld, UpdateKnows, Holding,
                          HistoryKnows, ReplyTrue, HistoryTold, At, CreateCalls, tables
<1>8. Bounded'
  <2>1. \A v \in Task : Editing(v)' \subseteq Editing(v)
    BY <1>3, <1>6 DEF Editing, Undisturbed
  <2> QED
    BY <1>6, <2>1, BoundedStays DEF Inv, tables
<1> QED
  BY <1>2, <1>3, <1>4, <1>6, <1>7, <1>8, QuietStep

LEMMA CallUpdateKeeps ==
    ASSUME Inv, NEW s \in Slot, NEW u \in User, NEW t \in Task, NEW patch \in Patch,
           CallUpdate(s, u, t, patch)
    PROVE  Inv'
<1> DEFINE r == [op |-> "Update", user |-> u, team |-> None, task |-> t, patch |-> patch]
<1>1. r \in Request /\ r.op = "Update" /\ r.user = u /\ r.task = t /\ r.patch = patch
  BY DEF Request
<1>2. "db.BeginTx" \in Label
  BY DEF Label, UpdateCalls
<1>3. Arrive(s, "db.BeginTx", r)
  BY DEF CallUpdate
<1> HIDE DEF r
<1>4. PICK l \in Listing :
         /\ Becomes(s, "db.BeginTx", r, current[s], tx[s], l)
         /\ current[s] \in Row \cup {None} /\ tx[s] \in Writes /\ tx[s].lock = None
         /\ pc'[s] = "db.BeginTx" /\ req'[s] = r /\ tx'[s] = tx[s] /\ listed'[s] = l
         /\ \A o \in Slot \ {s} : Undisturbed(o)
         /\ UNCHANGED <<clock, tables>>
  BY <1>1, <1>2, <1>3, ArriveTyped
<1>5. SlotOK(s)' /\ ~Holding(s)' /\ ~Creating(s)'
  BY <1>1, <1>4 DEF SlotOK, Arguments, CreateKnows, LockHeld, UpdateKnows, Holding, Creating,
                    HistoryKnows, ReplyTrue, HistoryTold, At, UpdateCalls
<1>6. Bounded'
  <2> DEFINE flight == {o \in Slot : At(o, "Update", pc[o]) /\ req[o].task = t}
  <2>1. Len(history[t]) + Cardinality(flight) < MaxEdits /\ Len(history[t]) \in Nat
    BY DEF CallUpdate, Inv, TypeOK
  <2>2. s \notin flight
    <3>1. pc[s] = "idle" /\ Arguments(s)
      BY DEF Arrive, CallUpdate, Inv, SlotsInv, SlotOK
    <3> QED
      BY <3>1 DEF Arguments, At, UpdateCalls, NoReq
  <2>3. Editing(t)' \subseteq flight \cup {s}
    BY <1>4 DEF Editing, Undisturbed, At
  <2>4. IsFiniteSet(flight) /\ Cardinality(flight) \in Nat
    BY SlotAssumption, FS_Subset, FS_CardinalityType
  <2> HIDE DEF flight
  <2>5. IsFiniteSet(flight \cup {s}) /\ Cardinality(flight \cup {s}) = Cardinality(flight) + 1
    BY <2>2, <2>4, FS_AddElement
  <2>6. Cardinality(Editing(t)') <= Cardinality(flight) + 1 /\ Cardinality(Editing(t)') \in Nat
    BY <2>3, <2>5, FS_Subset, FS_CardinalityType
  <2>7. Len(history'[t]) + Cardinality(Editing(t)') <= MaxEdits
    BY <1>4, <2>1, <2>4, <2>6, TasksAssumption DEF tables
  <2>8. ASSUME NEW v \in Task, v # t PROVE Len(history'[v]) + Cardinality(Editing(v)') <= MaxEdits
    <3>1. Editing(v)' \subseteq Editing(v)
      BY <1>1, <1>4, <2>8 DEF Editing, Undisturbed
    <3>2. /\ Cardinality(Editing(v)') <= Cardinality(Editing(v))
          /\ Cardinality(Editing(v)') \in Nat /\ Cardinality(Editing(v)) \in Nat
      BY <3>1, EditingFinite, FS_Subset, FS_CardinalityType
    <3>3. Len(history[v]) \in Nat /\ Len(history[v]) + Cardinality(Editing(v)) <= MaxEdits
      BY DEF Inv, TypeOK, Bounded
    <3> QED
      BY <1>4, <3>2, <3>3, TasksAssumption DEF tables
  <2> QED
    BY <2>7, <2>8 DEF Bounded
<1> QED
  BY <1>1, <1>2, <1>4, <1>5, <1>6, QuietStep

LEMMA CallHistoryKeeps ==
    ASSUME Inv, NEW s \in Slot, NEW u \in User, NEW t \in Task, CallHistory(s, u, t)
    PROVE  Inv'
<1> DEFINE r == [op |-> "History", user |-> u, team |-> None, task |-> t, patch |-> None]
<1>1. r \in Request /\ r.op = "History" /\ r.user = u /\ r.task = t
  BY DEF Request
<1>2. "tasks.GetTeamID" \in Label
  BY DEF Label, HistoryCalls
<1>3. Arrive(s, "tasks.GetTeamID", r)
  BY DEF CallHistory
<1> HIDE DEF r
<1>4. PICK l \in Listing :
         /\ Becomes(s, "tasks.GetTeamID", r, current[s], tx[s], l)
         /\ current[s] \in Row \cup {None} /\ tx[s] \in Writes /\ tx[s].lock = None
         /\ pc'[s] = "tasks.GetTeamID" /\ req'[s] = r /\ tx'[s] = tx[s] /\ listed'[s] = l
         /\ \A o \in Slot \ {s} : Undisturbed(o)
         /\ l.before = Len(history[t])
         /\ UNCHANGED <<clock, tables>>
  BY <1>1, <1>2, <1>3, ArriveTyped
<1>5. l.before <= Len(history[t])
  BY <1>4 DEF Inv, TypeOK
<1>6. SlotOK(s)' /\ ~Holding(s)' /\ ~Creating(s)'
  BY <1>1, <1>4, <1>5 DEF SlotOK, Arguments, CreateKnows, LockHeld, UpdateKnows, Holding, Creating,
                          HistoryKnows, ReplyTrue, HistoryTold, At, HistoryCalls, tables
<1>7. Bounded'
  <2>1. \A v \in Task : Editing(v)' \subseteq Editing(v)
    BY <1>1, <1>4 DEF Editing, Undisturbed
  <2> QED
    BY <1>4, <2>1, BoundedStays DEF Inv, tables
<1> QED
  BY <1>1, <1>2, <1>4, <1>6, <1>7, QuietStep

-----------------------------------------------------------------------------
(* The tables change.                                                       *)

\* What holds of a row, its history and the history variables goes on holding
\* of them while the clock and the members grow.
LEMMA RowStays ==
    ASSUME TypeOK, TypeOK', NEW t \in Task, RowOK(t),
           members \subseteq members', clock <= clock',
           tasks'[t] = tasks[t], history'[t] = history[t],
           born'[t] = born[t], doneSince'[t] = doneSince[t]
    PROVE  RowOK(t)'
<1>1. CASE tasks[t] = None
  BY <1>1 DEF RowOK, Unwritten
<1>2. CASE tasks[t] # None
  <2>1. Timely(t) /\ Replayed(t) /\ Dated(t) /\ AssigneeValid(t)
    BY <1>2 DEF RowOK
  <2>2. Timely(t)'
    <3>1. tasks[t].updated \in Nat /\ clock \in Nat /\ clock' \in Nat
      BY <1>2, TasksAssumption DEF TypeOK, Row, Time
    <3> QED
      BY <2>1, <3>1 DEF Timely
  <2>3. \A f, k : ValueAt(t, f, k)' = ValueAt(t, f, k)
    BY DEF ValueAt
  <2>4. Replayed(t)' /\ Dated(t)' /\ AssigneeValid(t)'
    BY <2>1, <2>3 DEF Replayed, Dated, AssigneeValid, IsMember
  <2> QED
    BY <1>2, <2>2, <2>4 DEF RowOK
<1> QED
  BY <1>1, <1>2

\* Time passes, or a member joins.
LEMMA WorldKeeps ==
    ASSUME Inv, TypeOK', members \subseteq members', clock <= clock',
           UNCHANGED <<tasks, history, born, doneSince, local>>
    PROVE  Inv'
<1>1. Grow
  BY DEF Grow
<1>2. RowsInv'
  <2>1. ASSUME NEW t \in Task PROVE RowOK(t)'
    BY RowStays DEF Inv, RowsInv
  <2> QED
    BY <2>1 DEF RowsInv
<1>3. Bounded'
  BY BoundedStays DEF Inv, Editing, local
<1>4. ASSUME NEW s \in Slot PROVE SlotOK(s)'
  <2>1. SlotOK(s)
    BY DEF Inv, SlotsInv
  <2>2. Undisturbed(s) /\ Spared(s)
    BY <2>1 DEF Undisturbed, local, Spared, SlotOK, CreateKnows, Creating
  <2> QED
    BY <1>1, <2>2, OthersStay
<1>5. \A s \in Slot : \A o \in Slot \ {s} : Apart(s, o)'
  BY DEF Inv, SlotsInv, Apart, Creating, Holding, local
<1> QED
  BY <1>2, <1>3, <1>4, <1>5 DEF Inv, SlotsInv

LEMMA TickKeeps ==
    ASSUME Inv, Tick
    PROVE  Inv'
<1>1. clock' \in Time /\ clock <= clock'
  BY TasksAssumption DEF Tick, Inv, TypeOK, Time
<1>2. UNCHANGED <<members, tasks, history, born, doneSince, local>>
  BY DEF Tick, tables
<1>3. TypeOK'
  BY <1>1, <1>2 DEF Inv, TypeOK, local
<1> QED
  BY <1>1, <1>2, <1>3, WorldKeeps

LEMMA MembersAddKeeps ==
    ASSUME Inv, NEW team \in Team, NEW u \in User, MembersAdd(team, u)
    PROVE  Inv'
<1>1. clock <= clock'
  BY TasksAssumption DEF MembersAdd, Inv, TypeOK, Time
<1>2. members \subseteq members' /\ UNCHANGED <<clock, tasks, history, born, doneSince, local>>
  BY DEF MembersAdd
<1>3. members' \subseteq [team : Team, user : User]
  BY DEF MembersAdd, Inv, TypeOK
<1>4. TypeOK'
  BY <1>2, <1>3 DEF Inv, TypeOK, local
<1> QED
  BY <1>1, <1>2, <1>4, WorldKeeps

LEMMA CrashKeeps ==
    ASSUME Inv, Crash
    PROVE  Inv'
<1>1. \A s \in Slot : pc'[s] = "idle" /\ req'[s] = NoReq /\ tx'[s] = NoTx /\ listed'[s] = NoList
  BY DEF Crash
<1>2. TypeOK'
  BY RestTyped DEF Inv, TypeOK, Crash, tables
<1>3. RowsInv'
  BY RowsStay DEF Inv, Crash
<1>4. Bounded'
  <2>1. \A t \in Task : Editing(t)' \subseteq Editing(t)
    BY <1>1 DEF Editing, NoReq
  <2> QED
    BY <2>1, BoundedStays DEF Inv, Crash, tables
<1>5. \A s \in Slot : SlotOK(s)'
  BY <1>1, AtRest
<1>6. \A s \in Slot : \A o \in Slot \ {s} : Apart(s, o)'
  BY <1>1 DEF Apart, Creating, Holding, NoReq
<1> QED
  BY <1>2, <1>3, <1>4, <1>5, <1>6 DEF Inv, SlotsInv

\* A step that writes the task of one handler, which then has the answer or
\* returns.
LEMMA WriteStep ==
    ASSUME Inv, NEW s \in Slot, NEW t \in Task, t = req[s].task, TypeOK', Grow,
           \A o \in Slot \ {s} : Undisturbed(o),
           Creating(s) \/ Holding(s),
           \A u \in Task \ {t} : /\ tasks'[u] = tasks[u] /\ history'[u] = history[u]
                                 /\ born'[u] = born[u] /\ doneSince'[u] = doneSince[u],
           Creating(s) => UNCHANGED history, Holding(s) => Len(history'[t]) = Len(history[t]) + 1,
           RowOK(t)', SlotOK(s)', pc'[s] \in {"reply", "idle"}
    PROVE  Inv'
<1>1. RowsInv'
  <2>1. ASSUME NEW u \in Task \ {t} PROVE RowOK(u)'
    BY RowStays DEF Inv, RowsInv, Grow
  <2> QED
    BY <2>1 DEF RowsInv
<1>2. ~Creating(s)' /\ ~Holding(s)' /\ \A u \in Task : s \notin Editing(u)'
  <2>1. req'[s].op # "none" => pc'[s] = "reply"
    BY DEF SlotOK, Arguments, CreateCalls, UpdateCalls, HistoryCalls, NoReq
  <2> QED
    BY <2>1 DEF Creating, Holding, Editing
<1>3. ASSUME NEW o \in Slot \ {s} PROVE Spared(o)
  <2>1. SlotOK(o) /\ Apart(s, o) /\ SlotOK(s) /\ Apart(o, s)
    BY DEF Inv, SlotsInv
  <2>2. Creating(o) => tasks[req[o].task] = None /\ req[o].task \in Task
    BY <2>1 DEF SlotOK, CreateKnows, Creating, Arguments, NoReq
  <2>3. Holding(o) => tasks[req[o].task] # None /\ req[o].task \in Task
    BY <2>1 DEF SlotOK, UpdateKnows, Holding, Arguments, NoReq
  <2>4. IF Creating(s) THEN tasks[t] = None ELSE tasks[t] # None
    BY <2>1 DEF SlotOK, CreateKnows, Creating, UpdateKnows
  <2>5. (Creating(o) \/ Holding(o)) => req[o].task # t
    BY <2>1, <2>2, <2>3, <2>4 DEF Apart
  <2> QED
    BY <2>2, <2>3, <2>5 DEF Spared
<1>4. SlotsInv'
  BY <1>2, <1>3, SlotsStep
<1>5. Bounded'
  <2>1. \A u \in Task : Editing(u)' \subseteq Editing(u)
    BY <1>2, <1>3 DEF Editing, Undisturbed
  <2>2. CASE Creating(s)
    BY <2>1, <2>2, BoundedStays DEF Inv
  <2>3. CASE Holding(s)
    <3>1. ASSUME NEW u \in Task PROVE Len(history'[u]) + Cardinality(Editing(u)') <= MaxEdits
      <4>1. /\ Cardinality(Editing(u)') <= Cardinality(Editing(u))
            /\ Cardinality(Editing(u)') \in Nat /\ Cardinality(Editing(u)) \in Nat
        BY <2>1, EditingFinite, FS_Subset, FS_CardinalityType
      <4>2. Len(history[u]) \in Nat /\ Len(history[u]) + Cardinality(Editing(u)) <= MaxEdits
        BY DEF Inv, TypeOK, Bounded
      <4>3. CASE u # t
        BY <4>1, <4>2, <4>3, TasksAssumption
      <4>4. CASE u = t
        <5>1. s \in Editing(t) /\ Editing(t)' \subseteq Editing(t) \ {s}
          BY <1>2, <2>1, <2>3 DEF Holding, Editing
        <5>2. /\ IsFiniteSet(Editing(t) \ {s})
              /\ Cardinality(Editing(t) \ {s}) = Cardinality(Editing(t)) - 1
          BY <5>1, EditingFinite, FS_RemoveElement
        <5>3. Cardinality(Editing(t)') <= Cardinality(Editing(t)) - 1
          BY <5>1, <5>2, FS_Subset
        <5> QED
          BY <2>3, <4>1, <4>2, <4>4, <5>3, TasksAssumption
      <4> QED
        BY <4>3, <4>4
    <3> QED
      BY <3>1 DEF Bounded
  <2> QED
    BY <2>2, <2>3
<1> QED
  BY <1>1, <1>4, <1>5 DEF Inv

-----------------------------------------------------------------------------
(* A task is created.                                                       *)

Inserted(s) ==
    [team |-> req[s].team, creator |-> req[s].user, fields |-> Merge(Blank, req[s].patch),
     updated |-> clock, completed |-> CompletedAt(Merge(Blank, req[s].patch), clock)]

LEMMA InsertTyped ==
    ASSUME Inv, NEW s \in Slot, InsertTask(s)
    PROVE  /\ req[s].task \in Task /\ tasks[req[s].task] = None /\ Creating(s)
           /\ Merge(Blank, req[s].patch) \in Fields
           /\ \A f \in Field : req[s].patch[f] \in {None, Merge(Blank, req[s].patch)[f]}
           /\ Merge(Blank, req[s].patch)["assignee_id"] # None =>
                 IsMember(req[s].team, Merge(Blank, req[s].patch)["assignee_id"])
           /\ Inserted(s) \in Row /\ Inserted(s) # None
           /\ history[req[s].task] = <<>> /\ doneSince[req[s].task] = None
           /\ clock \in Time /\ clock \in Nat
           /\ IsMember(req[s].team, req[s].user)
<1>1. SlotOK(s) /\ TypeOK /\ pc[s] = "tasks.Create" /\ req[s].op = "Create"
  BY DEF Inv, SlotsInv, InsertTask, At
<1>2. /\ req[s].task \in Task /\ req[s].team \in Team /\ req[s].user \in User
      /\ req[s].patch \in Draft
  BY <1>1 DEF SlotOK, Arguments, NoReq
<1>3. tasks[req[s].task] = None /\ Creating(s) /\ AssigneeKnown(s, req[s].team)
      /\ IsMember(req[s].team, req[s].user)
  BY <1>1 DEF SlotOK, CreateKnows, Creating
<1>4. history[req[s].task] = <<>> /\ doneSince[req[s].task] = None
  BY <1>2, <1>3 DEF Inv, RowsInv, RowOK, Unwritten
<1>5. Merge(Blank, req[s].patch) \in Fields
      /\ \A f \in Field : /\ req[s].patch[f] # None => Merge(Blank, req[s].patch)[f] = req[s].patch[f]
                          /\ req[s].patch[f] = None => Merge(Blank, req[s].patch)[f] = Blank[f]
  BY <1>2, BlankTyped, MergeTyped
<1>6. "assignee_id" \in Field
  BY DEF Field
<1>7. Merge(Blank, req[s].patch)["assignee_id"] # None =>
         IsMember(req[s].team, Merge(Blank, req[s].patch)["assignee_id"])
  BY <1>3, <1>5, <1>6, BlankTyped DEF AssigneeKnown
<1>8. clock \in Time /\ clock \in Nat
  BY <1>1, TasksAssumption DEF TypeOK, Time
<1>9. CompletedAt(Merge(Blank, req[s].patch), clock) \in Time \cup {None}
  BY <1>5, <1>8, CompletedTyped
<1>10. Inserted(s) \in Row /\ Inserted(s) # None
  BY <1>2, <1>5, <1>8, <1>9, NoneAssumption DEF Inserted, Row
<1> QED
  BY <1>2, <1>3, <1>4, <1>5, <1>7, <1>8, <1>10

LEMMA InsertTables ==
    ASSUME Inv, NEW s \in Slot, NEW t \in Task, t = req[s].task, InsertTask(s)
    PROVE  /\ tasks' = [tasks EXCEPT ![t] = Inserted(s)]
           /\ born' = [born EXCEPT ![t] = Merge(Blank, req[s].patch)]
           /\ tasks'[t] = Inserted(s) /\ born'[t] = Merge(Blank, req[s].patch)
           /\ UNCHANGED <<clock, members, history>>
           /\ tasks' \in [Task -> Row \cup {None}] /\ born' \in [Task -> Fields \cup {None}]
           /\ doneSince' \in [Task -> Time \cup {None}]
           /\ \A u \in Task \ {t} : /\ tasks'[u] = tasks[u] /\ history'[u] = history[u]
                                    /\ born'[u] = born[u] /\ doneSince'[u] = doneSince[u]
           /\ Grow
           /\ RowOK(t)'
<1> DEFINE new == Merge(Blank, req[s].patch)
<1>1. /\ tasks[t] = None /\ new \in Fields /\ Inserted(s) \in Row /\ Inserted(s) # None
      /\ history[t] = <<>> /\ doneSince[t] = None /\ clock \in Time /\ clock \in Nat
      /\ new["assignee_id"] # None => IsMember(req[s].team, new["assignee_id"])
  BY InsertTyped
<1>2. /\ Inserted(s).team = req[s].team /\ Inserted(s).fields = new
      /\ Inserted(s).updated = clock /\ Inserted(s).completed = CompletedAt(new, clock)
  BY DEF Inserted
<1>3. /\ tasks' = [tasks EXCEPT ![t] = Inserted(s)] /\ born' = [born EXCEPT ![t] = new]
      /\ UNCHANGED <<clock, members, history>> /\ Remember(t, Inserted(s))
  BY DEF InsertTask, Inserted
<1> HIDE DEF new
<1>4. TypeOK
  BY DEF Inv
<1>5. /\ tasks' \in [Task -> Row \cup {None}] /\ born' \in [Task -> Fields \cup {None}]
      /\ tasks'[t] = Inserted(s) /\ born'[t] = new
      /\ \A u \in Task \ {t} : /\ tasks'[u] = tasks[u] /\ history'[u] = history[u]
                               /\ born'[u] = born[u]
  BY <1>1, <1>3, <1>4 DEF TypeOK
<1>6. doneSince' = [doneSince EXCEPT ![t] = IF new["status"] = "done" THEN clock ELSE None]
  BY <1>1, <1>2, <1>3, <1>4 DEF Remember, TypeOK, CompletedAt
<1>7. /\ doneSince' \in [Task -> Time \cup {None}]
      /\ doneSince'[t] = IF new["status"] = "done" THEN clock ELSE None
      /\ \A u \in Task \ {t} : doneSince'[u] = doneSince[u]
  BY <1>1, <1>4, <1>6 DEF TypeOK
<1>8. Grow
  BY <1>1, <1>3, <1>5 DEF Grow
<1>9. RowOK(t)'
  <2>1. Timely(t)'
    BY <1>1, <1>2, <1>3, <1>5 DEF Timely
  <2>2. Replayed(t)'
    <3>1. ASSUME NEW f \in Field PROVE ValueAt(t, f, 0)' = new[f]
      <4>1. ValueAt(t, f, 0)' = Replay(born'[t], history'[t], f, 0)
        BY DEF ValueAt, Replay
      <4> QED
        BY <1>5, <4>1, ReplayNothing
    <3>2. history'[t] = <<>> /\ Len(history'[t]) = 0
      BY <1>1, <1>3
    <3> QED
      BY <1>2, <1>5, <3>1, <3>2 DEF Replayed
  <2>3. Dated(t)'
    BY <1>1, <1>2, <1>3, <1>5, <1>7, NoneAssumption DEF Dated
  <2>4. AssigneeValid(t)'
    BY <1>1, <1>2, <1>3, <1>5 DEF AssigneeValid, IsMember
  <2> QED
    BY <1>1, <1>5, <2>1, <2>2, <2>3, <2>4 DEF RowOK
<1> QED
  BY <1>3, <1>5, <1>7, <1>8, <1>9 DEF new

LEMMA TasksCreateKeeps ==
    ASSUME Inv, NEW s \in Slot, TasksCreate(s)
    PROVE  Inv'
<1>1. SlotOK(s) /\ TypeOK /\ pc[s] = "tasks.Create" /\ req[s].op = "Create" /\ InsertTask(s)
  BY DEF Inv, SlotsInv, TasksCreate, InsertTask, At
<1>2. PICK t \in Task : t = req[s].task
  BY InsertTyped, <1>1
<1>3. /\ tasks'[t] = Inserted(s) /\ born'[t] = Merge(Blank, req[s].patch)
      /\ UNCHANGED <<clock, members, history>>
      /\ tasks' \in [Task -> Row \cup {None}] /\ born' \in [Task -> Fields \cup {None}]
      /\ doneSince' \in [Task -> Time \cup {None}]
      /\ \A u \in Task \ {t} : /\ tasks'[u] = tasks[u] /\ history'[u] = history[u]
                               /\ born'[u] = born[u] /\ doneSince'[u] = doneSince[u]
      /\ Grow
      /\ RowOK(t)'
  BY <1>1, <1>2, InsertTables
<1>4. /\ Inserted(s) \in Row /\ Inserted(s) # None /\ Creating(s)
      /\ \A f \in Field : req[s].patch[f] \in {None, Merge(Blank, req[s].patch)[f]}
      /\ IsMember(req[s].team, req[s].user)
  BY <1>1, InsertTyped
<1>5. /\ req[s] \in Request /\ tx[s] \in Writes /\ listed[s] \in Listing /\ "reply" \in Label
  BY <1>1, SlotTyped DEF Label, CreateCalls
<1>6. Becomes(s, "reply", req[s], Inserted(s), tx[s], listed[s])
  BY <1>1, <1>2, <1>3 DEF TasksCreate, Goto, Becomes, TypeOK
<1>7. /\ pc' \in [Slot -> Label] /\ req' \in [Slot -> Request]
      /\ current' \in [Slot -> Row \cup {None}] /\ tx' \in [Slot -> Writes]
      /\ listed' \in [Slot -> Listing]
      /\ pc'[s] = "reply" /\ req'[s] = req[s] /\ current'[s] = Inserted(s) /\ tx'[s] = tx[s]
      /\ listed'[s] = listed[s]
      /\ \A o \in Slot \ {s} : Undisturbed(o)
  BY <1>1, <1>4, <1>5, <1>6, BecomesTyped
<1>8. TypeOK'
  BY <1>1, <1>3, <1>7 DEF TypeOK, Label, Listing
<1>9. ReplyTrue(s)'
  <2>1. current'[s].fields = Merge(Blank, req[s].patch)
    BY <1>7 DEF Inserted
  <2> QED
    BY <1>1, <1>2, <1>3, <1>4, <1>7, <2>1 DEF ReplyTrue
<1>10. SlotOK(s)'
  BY <1>1, <1>2, <1>3, <1>4, <1>7, <1>9 DEF SlotOK, Arguments, CreateKnows, LockHeld, UpdateKnows,
        Holding, HistoryKnows, HistoryTold, At, IsMember, CreateCalls
<1>11. Holding(s) => Len(history'[t]) = Len(history[t]) + 1
  BY <1>1 DEF Holding
<1> QED
  BY <1>2, <1>3, <1>4, <1>7, <1>8, <1>10, <1>11, WriteStep

LEMMA TasksCreateUnheardKeeps ==
    ASSUME Inv, NEW s \in Slot, TasksCreateUnheard(s)
    PROVE  Inv'
<1>1. TypeOK /\ InsertTask(s) /\ Finish(s) /\ req[s].op = "Create"
  BY DEF Inv, TasksCreateUnheard, InsertTask, At
<1>2. PICK t \in Task : t = req[s].task /\ Creating(s)
  BY InsertTyped, <1>1
<1>3. /\ UNCHANGED <<clock, members, history>>
      /\ tasks' \in [Task -> Row \cup {None}] /\ born' \in [Task -> Fields \cup {None}]
      /\ doneSince' \in [Task -> Time \cup {None}]
      /\ \A u \in Task \ {t} : /\ tasks'[u] = tasks[u] /\ history'[u] = history[u]
                               /\ born'[u] = born[u] /\ doneSince'[u] = doneSince[u]
      /\ Grow
      /\ RowOK(t)'
  BY <1>1, <1>2, InsertTables
<1>4. Becomes(s, "idle", NoReq, None, NoTx, NoList)
  BY <1>1 DEF Finish, Becomes
<1>5. "idle" \in Label /\ None \in Row \cup {None} /\ NoList \in Listing
  BY RestTyped DEF Label, Listing
<1>6. /\ pc' \in [Slot -> Label] /\ req' \in [Slot -> Request]
      /\ current' \in [Slot -> Row \cup {None}] /\ tx' \in [Slot -> Writes]
      /\ listed' \in [Slot -> Listing]
      /\ pc'[s] = "idle" /\ req'[s] = NoReq /\ tx'[s] = NoTx /\ listed'[s] = NoList
      /\ \A o \in Slot \ {s} : Undisturbed(o)
  BY <1>1, <1>4, <1>5, RestTyped, BecomesTyped
<1>7. TypeOK'
  BY <1>1, <1>3, <1>6 DEF TypeOK, Label, Listing
<1>8. SlotOK(s)'
  BY <1>6, AtRest
<1>9. Holding(s) => Len(history'[t]) = Len(history[t]) + 1
  BY <1>1 DEF Holding
<1> QED
  BY <1>2, <1>3, <1>6, <1>7, <1>8, <1>9, WriteStep

-----------------------------------------------------------------------------
(* An update is committed.                                                  *)

LEMMA ApplyTyped ==
    ASSUME Inv, NEW s \in Slot, Apply(s)
    PROVE  LET old == tasks[req[s].task]
               new == Merge(old.fields, req[s].patch)
               row == tx[s].row
               now == row.updated
           IN  /\ req[s].task \in Task /\ req[s].user \in User /\ req[s].patch \in Patch
               /\ Holding(s) /\ current[s] = old
               /\ old \in Row /\ old # None /\ old.creator = req[s].user
               /\ old.fields \in Fields /\ new \in Fields
               /\ \A f \in Field : /\ req[s].patch[f] # None => new[f] = req[s].patch[f]
                                   /\ req[s].patch[f] = None => new[f] = old.fields[f]
               /\ AssigneeKnown(s, old.team)
               /\ now \in Time /\ now \in Nat /\ clock \in Nat /\ old.updated \in Nat
               /\ old.updated <= now /\ now <= clock
               /\ row = [team |-> old.team, creator |-> old.creator, fields |-> new,
                         updated |-> now, completed |-> CompletedAt(new, now)]
               /\ row.team = old.team /\ row.fields = new /\ row.completed = CompletedAt(new, now)
               /\ row \in Row /\ row # None
               /\ tx[s].entry.by = req[s].user /\ tx[s].entry.at = now
               /\ tx[s].entry.changes = Diff(old.fields, new)
               /\ tx[s].entry = [by |-> req[s].user, at |-> now, changes |-> Diff(old.fields, new)]
               /\ tx[s].entry \in Entry
<1> DEFINE old == tasks[req[s].task]
           new == Merge(old.fields, req[s].patch)
           row == tx[s].row
           now == row.updated
<1>1. SlotOK(s) /\ TypeOK /\ pc[s] = "tx.Commit" /\ req[s].op = "Update" /\ Holding(s)
  BY DEF Inv, SlotsInv, Apply, At, Holding
<1>2. /\ req[s].task \in Task /\ req[s].user \in User
      /\ req[s].patch \in Patch /\ req[s].patch \in Draft \cup Patch
  BY <1>1 DEF SlotOK, Arguments, NoReq
<1>3. /\ old # None /\ current[s] = old /\ old.creator = req[s].user
      /\ AssigneeKnown(s, old.team) /\ Written(s) /\ Recorded(s)
  BY <1>1 DEF SlotOK, UpdateKnows
<1>4. old \in Row
  BY <1>1, <1>2, <1>3 DEF TypeOK
<1>5. old.fields \in Fields /\ old.team \in Team /\ old.creator \in User /\ old.updated \in Time
  BY <1>4 DEF Row
<1>6. /\ new \in Fields
      /\ \A f \in Field : /\ req[s].patch[f] # None => new[f] = req[s].patch[f]
                          /\ req[s].patch[f] = None => new[f] = old.fields[f]
  BY <1>2, <1>5, MergeTyped
<1>7. /\ now \in Time /\ old.updated <= now /\ now <= clock
      /\ row = [team |-> old.team, creator |-> old.creator, fields |-> new,
                updated |-> now, completed |-> CompletedAt(new, now)]
  BY <1>3 DEF Written
<1>8. row.team = old.team /\ row.fields = new /\ row.completed = CompletedAt(new, now)
  <2> HIDE DEF new, now, row, old
  <2> QED
    BY <1>7
<1>9. tx[s].entry = [by |-> req[s].user, at |-> now, changes |-> Diff(old.fields, new)]
  BY <1>3, <1>8 DEF Recorded
<1> HIDE DEF old, new, now, row
<1>10. row \in Row /\ row # None
  <2>1. CompletedAt(new, now) \in Time \cup {None}
    BY <1>6, <1>7, CompletedTyped
  <2> QED
    BY <1>5, <1>6, <1>7, <2>1, NoneAssumption DEF Row
<1>11. tx[s].entry \in Entry
  <2>1. Diff(old.fields, new) \in [Field -> Change \cup {None}]
    BY <1>5, <1>6, DiffTyped
  <2> QED
    BY <1>2, <1>7, <1>9, <2>1 DEF Entry
<1>12. now \in Nat /\ clock \in Nat /\ old.updated \in Nat
  BY <1>1, <1>5, <1>7, TasksAssumption DEF TypeOK, Time
<1>13. /\ tx[s].entry.by = req[s].user /\ tx[s].entry.at = now
       /\ tx[s].entry.changes = Diff(old.fields, new)
  BY <1>9
<1> QED
  BY <1>13, <1>1, <1>2, <1>3, <1>4, <1>5, <1>6, <1>7, <1>8, <1>9, <1>10, <1>11, <1>12 DEF old, new, now, row

\* Replaying h over b gives the fields, and every `from' what it finds.
Explains(b, h, fields) ==
    \A f \in Field :
        /\ fields[f] = Replay(b, h, f, Len(h))
        /\ \A k \in 1..Len(h) : h[k].changes[f] # None =>
              h[k].changes[f].from = Replay(b, h, f, k - 1)

\* It goes on doing so with the entry of an edit.
LEMMA ReplayedAgain ==
    ASSUME NEW b, NEW h \in Seq(Entry), NEW e \in Entry, NEW old \in Fields, NEW new \in Fields,
           e.changes = Diff(old, new), Explains(b, h, old)
    PROVE  Explains(b, Append(h, e), new)
<1> SUFFICES ASSUME NEW f \in Field
             PROVE  /\ new[f] = Replay(b, Append(h, e), f, Len(h) + 1)
                    /\ \A k \in 1..(Len(h) + 1) : Append(h, e)[k].changes[f] # None =>
                          Append(h, e)[k].changes[f].from = Replay(b, Append(h, e), f, k - 1)
  <2>1. Len(Append(h, e)) = Len(h) + 1
    OBVIOUS
  <2> QED
    BY <2>1 DEF Explains
<1> DEFINE n == Len(h)   g == Append(h, e)
<1>1. n \in Nat /\ g[n + 1] = e /\ \A k \in 1..n : g[k] = h[k]
  OBVIOUS
<1>2. old[f] = Replay(b, h, f, n)
  BY DEF Explains
<1>3. \A k \in 1..n : h[k].changes[f] # None => h[k].changes[f].from = Replay(b, h, f, k - 1)
  BY DEF Explains
<1>4. /\ e.changes[f] # None <=> old[f] # new[f]
      /\ e.changes[f] # None => e.changes[f].from = old[f] /\ e.changes[f].to = new[f]
  BY DiffTyped
<1>5. ASSUME NEW k \in 0..n PROVE Replay(b, g, f, k) = Replay(b, h, f, k)
  BY ReplayPrefix
<1> HIDE DEF n, g
<1>6. Replay(b, g, f, n) = old[f]
  BY <1>1, <1>2, <1>5
<1>7. Replay(b, g, f, n + 1) = IF e.changes[f] # None THEN e.changes[f].to ELSE old[f]
  BY <1>1, <1>6, ReplayStep
<1>8. new[f] = Replay(b, g, f, n + 1)
  BY <1>4, <1>7
<1>9. ASSUME NEW k \in 1..(n + 1), g[k].changes[f] # None
      PROVE  g[k].changes[f].from = Replay(b, g, f, k - 1)
  <2>1. CASE k = n + 1
    <3>1. k - 1 = n /\ g[k] = e
      BY <1>1, <2>1
    <3> QED
      BY <1>4, <1>6, <1>9, <3>1
  <2>2. CASE k \in 1..n
    <3>1. k - 1 \in 0..n /\ g[k] = h[k]
      BY <1>1, <2>2
    <3>2. Replay(b, g, f, k - 1) = Replay(b, h, f, k - 1)
      BY <1>5, <3>1
    <3> QED
      BY <1>3, <1>9, <2>2, <3>1, <3>2
  <2> QED
    BY <1>1, <2>1, <2>2
<1> QED
  BY <1>8, <1>9 DEF n, g

LEMMA ApplyTables ==
    ASSUME Inv, NEW s \in Slot, NEW t \in Task, t = req[s].task, Apply(s)
    PROVE  /\ tasks' = [tasks EXCEPT ![t] = tx[s].row]
           /\ history' = [history EXCEPT ![t] = Append(@, tx[s].entry)]
           /\ tasks'[t] = tx[s].row /\ history'[t] = Append(history[t], tx[s].entry)
           /\ UNCHANGED <<clock, members, born>>
           /\ tasks' \in [Task -> Row \cup {None}] /\ history' \in [Task -> Seq(Entry)]
           /\ doneSince' \in [Task -> Time \cup {None}]
           /\ \A u \in Task \ {t} : /\ tasks'[u] = tasks[u] /\ history'[u] = history[u]
                                    /\ born'[u] = born[u] /\ doneSince'[u] = doneSince[u]
           /\ Len(history'[t]) = Len(history[t]) + 1 /\ Len(history[t]) \in Nat
           /\ history'[t][Len(history'[t])] = tx[s].entry
           /\ Grow
           /\ RowOK(t)'
<1> DEFINE old == tasks[t]
           new == Merge(old.fields, req[s].patch)
           row == tx[s].row
           now == row.updated
           e == tx[s].entry
<1>1. /\ now \in Time /\ now \in Nat /\ clock \in Nat /\ old.updated \in Nat
      /\ old.updated <= now /\ now <= clock
  BY ApplyTyped
<1>2. /\ old \in Row /\ old # None /\ old.fields \in Fields /\ new \in Fields
      /\ row \in Row /\ row # None /\ e \in Entry
  BY ApplyTyped
<1>3. /\ row.team = old.team /\ row.fields = new /\ row.updated = now
      /\ row.completed = CompletedAt(new, now)
      /\ e.at = now /\ e.changes = Diff(old.fields, new)
  BY ApplyTyped
<1>4. /\ \A f \in Field : /\ req[s].patch[f] # None => new[f] = req[s].patch[f]
                          /\ req[s].patch[f] = None => new[f] = old.fields[f]
      /\ AssigneeKnown(s, old.team)
  BY ApplyTyped
<1>5. TypeOK /\ Timely(t) /\ Replayed(t) /\ Dated(t) /\ AssigneeValid(t)
  BY <1>2 DEF Inv, RowsInv, RowOK
<1> HIDE DEF new, row, now, e
<1>6. /\ tasks' = [tasks EXCEPT ![t] = row] /\ history' = [history EXCEPT ![t] = Append(@, e)]
      /\ clock' = clock /\ members' = members /\ born' = born /\ Remember(t, row)
  BY DEF Apply, row, e
<1>7. history[t] \in Seq(Entry) /\ Len(history[t]) \in Nat
  BY <1>5 DEF TypeOK
<1>8. /\ tasks'[t] = row /\ history'[t] = Append(history[t], e)
      /\ \A u \in Task \ {t} : /\ tasks'[u] = tasks[u] /\ history'[u] = history[u]
                               /\ born'[u] = born[u]
  BY <1>5, <1>6 DEF TypeOK
<1>9. tasks' \in [Task -> Row \cup {None}] /\ history' \in [Task -> Seq(Entry)]
  <2>1. Append(history[t], e) \in Seq(Entry)
    BY <1>2, <1>7
  <2> QED
    BY <1>2, <1>5, <1>6, <2>1 DEF TypeOK
<1>10. /\ Len(history'[t]) = Len(history[t]) + 1
       /\ history'[t][Len(history'[t])] = e
       /\ \A k \in 1..Len(history[t]) : history'[t][k] = history[t][k]
  BY <1>2, <1>7, <1>8
<1>11. doneSince[t] \in Time \cup {None}
  BY <1>5 DEF TypeOK
<1>12. doneSince' = [doneSince EXCEPT ![t] = IF new["status"] # "done" THEN None
                                             ELSE IF doneSince[t] # None THEN doneSince[t] ELSE now]
  BY <1>3, <1>5, <1>6 DEF Remember, CompletedAt, TypeOK
<1>13. /\ doneSince' \in [Task -> Time \cup {None}]
       /\ doneSince'[t] = IF new["status"] # "done" THEN None
                          ELSE IF doneSince[t] # None THEN doneSince[t] ELSE now
       /\ \A u \in Task \ {t} : doneSince'[u] = doneSince[u]
  BY <1>1, <1>5, <1>11, <1>12 DEF TypeOK
<1>14. Grow
  <2>1. clock <= clock' /\ members \subseteq members'
    <3>1. clock <= clock
      BY <1>1
    <3> QED
      BY <1>6, <3>1
  <2>2. ASSUME NEW u \in Task
        PROVE  /\ history'[u] = history[u] \/ \E x \in Entry : history'[u] = Append(history[u], x)
               /\ tasks[u] # None => /\ tasks'[u] # None /\ tasks'[u].team = tasks[u].team
                                     /\ born'[u] = born[u]
    BY <1>2, <1>3, <1>6, <1>8
  <2> QED
    BY <2>1, <2>2 DEF Grow
<1>15. Timely(t)'
  <2>1. ASSUME NEW k \in 1..Len(history[t]) PROVE history[t][k].at <= now
    <3>1. history[t][k] \in Entry
      BY <1>7
    <3>2. history[t][k].at \in Nat
      BY <3>1, TasksAssumption DEF Entry, Time
    <3>3. history[t][k].at <= old.updated
      BY <1>5 DEF Timely
    <3> HIDE DEF old
    <3> QED
      BY <1>1, <3>2, <3>3
  <2>2. ASSUME NEW k \in 1..Len(history'[t])
        PROVE  k = Len(history'[t]) \/ k \in 1..Len(history[t])
    <3> DEFINE n == Len(history[t])
    <3>1. n \in Nat /\ k \in 1..(n + 1)
      BY <1>7, <1>10
    <3> HIDE DEF n
    <3>2. k = n + 1 \/ k \in 1..n
      BY <3>1
    <3> QED
      BY <1>10, <3>2 DEF n
  <2>3. ASSUME NEW k \in 1..Len(history'[t]) PROVE history'[t][k].at <= now
    <3>1. now <= now
      BY <1>1
    <3>2. CASE k = Len(history'[t])
      BY <1>3, <1>10, <3>1, <3>2
    <3>3. CASE k \in 1..Len(history[t])
      BY <1>10, <2>1, <3>3
    <3> QED
      BY <2>2, <3>2, <3>3
  <2>4. ASSUME NEW j \in 1..Len(history'[t]), NEW k \in 1..Len(history'[t]), j < k
        PROVE  history'[t][j].at <= history'[t][k].at
    <3>1. CASE k = Len(history'[t])
      <4>1. history'[t][k].at = now
        BY <1>3, <1>10, <3>1
      <4> QED
        BY <2>3, <4>1
    <3>2. CASE k \in 1..Len(history[t])
      <4>1. j \in 1..Len(history[t])
        BY <1>7, <2>4, <3>2
      <4>2. history[t][j].at <= history[t][k].at
        BY <1>5, <2>4, <3>2, <4>1 DEF Timely
      <4> QED
        BY <1>10, <3>2, <4>1, <4>2
    <3> QED
      BY <2>2, <3>1, <3>2
  <2>5. tasks'[t].updated = now /\ now <= clock'
    BY <1>1, <1>3, <1>6, <1>8
  <2> QED
    BY <2>3, <2>4, <2>5 DEF Timely
<1>16. Replayed(t)'
  <2> DEFINE b == born[t]   h == history[t]
  <2>1. \A f, k : ValueAt(t, f, k) = Replay(b, h, f, k)
    BY ReplayIsValueAt
  <2>2. \A f, k : ValueAt(t, f, k)' = Replay(b, Append(h, e), f, k)
    <3>1. \A f, k : ValueAt(t, f, k)' = Replay(born'[t], history'[t], f, k)
      BY DEF ValueAt, Replay
    <3> QED
      BY <1>6, <1>8, <3>1
  <2>3. Explains(b, h, old.fields)
    BY <1>5, <2>1 DEF Replayed, Explains
  <2>4. /\ h \in Seq(Entry) /\ e \in Entry /\ old.fields \in Fields /\ new \in Fields
        /\ e.changes = Diff(old.fields, new)
        /\ history'[t] = Append(h, e) /\ tasks'[t].fields = new
    BY <1>2, <1>3, <1>7, <1>8
  <2> HIDE DEF b, h
  <2>5. Explains(b, Append(h, e), new)
    BY <2>3, <2>4, ReplayedAgain
  <2> QED
    BY <2>2, <2>4, <2>5 DEF Replayed, Explains
<1>17. Dated(t)'
  <2>1. /\ tasks'[t].completed = CompletedAt(new, now) /\ tasks'[t].fields = new
        /\ tasks'[t].updated = now
    BY <1>3, <1>8
  <2>2. CASE new["status"] = "done"
    <3>1. ASSUME doneSince[t] # None PROVE doneSince[t] <= now
      <4>1. doneSince[t] \in Nat
        BY <1>11, <3>1, TasksAssumption DEF Time
      <4>2. doneSince[t] <= old.updated
        BY <1>5, <3>1 DEF Dated
      <4> HIDE DEF old
      <4> QED
        BY <1>1, <4>1, <4>2
    <3>2. now # None /\ now <= now
      BY <1>1, NoneAssumption
    <3>3. doneSince'[t] # None /\ doneSince'[t] <= now
      BY <1>13, <2>2, <3>1, <3>2
    <3> QED
      BY <2>1, <2>2, <3>3 DEF Dated
  <2>3. CASE new["status"] # "done"
    BY <1>13, <2>1, <2>3 DEF Dated
  <2> QED
    BY <2>2, <2>3
<1>18. AssigneeValid(t)'
  <2>1. "assignee_id" \in Field
    BY DEF Field
  <2>2. new["assignee_id"] # None => IsMember(old.team, new["assignee_id"])
    BY <1>4, <1>5, <2>1 DEF AssigneeValid, AssigneeKnown
  <2> QED
    BY <1>3, <1>6, <1>8, <2>2 DEF AssigneeValid, IsMember
<1>19. RowOK(t)'
  BY <1>2, <1>8, <1>15, <1>16, <1>17, <1>18 DEF RowOK
<1> QED
  BY <1>6, <1>7, <1>8, <1>9, <1>10, <1>13, <1>14, <1>19 DEF row, e

LEMMA CommitKeeps ==
    ASSUME Inv, NEW s \in Slot, Commit(s)
    PROVE  Inv'
<1>1. SlotOK(s) /\ TypeOK /\ pc[s] = "tx.Commit" /\ req[s].op = "Update" /\ Apply(s)
  BY DEF Inv, SlotsInv, Commit, Apply, At
<1>2. PICK t \in Task :
        /\ t = req[s].task /\ Holding(s) /\ req[s].user \in User /\ req[s].patch \in Patch
        /\ tx[s].row \in Row /\ tx[s].row.fields = Merge(tasks[t].fields, req[s].patch)
        /\ tx[s].entry.by = req[s].user
        /\ \A f \in Field : req[s].patch[f] # None => tx[s].row.fields[f] = req[s].patch[f]
  BY <1>1, ApplyTyped
<1>3. /\ tasks'[t] = tx[s].row
      /\ UNCHANGED <<clock, members, born>>
      /\ tasks' \in [Task -> Row \cup {None}] /\ history' \in [Task -> Seq(Entry)]
      /\ doneSince' \in [Task -> Time \cup {None}]
      /\ \A u \in Task \ {t} : /\ tasks'[u] = tasks[u] /\ history'[u] = history[u]
                               /\ born'[u] = born[u] /\ doneSince'[u] = doneSince[u]
      /\ Len(history'[t]) = Len(history[t]) + 1 /\ Len(history[t]) \in Nat
      /\ history'[t][Len(history'[t])] = tx[s].entry
      /\ Grow
      /\ RowOK(t)'
  BY <1>1, <1>2, ApplyTables
<1>4. req[s] \in Request /\ listed[s] \in Listing /\ "reply" \in Label
  BY <1>1, SlotTyped DEF Label, CreateCalls
<1>5. Becomes(s, "reply", req[s], tx[s].row, NoTx, listed[s])
  BY <1>1 DEF Commit, Goto, Becomes, TypeOK
<1>6. /\ pc' \in [Slot -> Label] /\ req' \in [Slot -> Request]
      /\ current' \in [Slot -> Row \cup {None}] /\ tx' \in [Slot -> Writes]
      /\ listed' \in [Slot -> Listing]
      /\ pc'[s] = "reply" /\ req'[s] = req[s] /\ current'[s] = tx[s].row /\ tx'[s] = NoTx
      /\ listed'[s] = listed[s]
      /\ \A o \in Slot \ {s} : Undisturbed(o)
  BY <1>1, <1>2, <1>4, <1>5, RestTyped, BecomesTyped
<1>7. TypeOK'
  BY <1>1, <1>3, <1>6 DEF TypeOK, Label, Listing
<1>8. ReplyTrue(s)'
  <2>1. \A f \in Field : req[s].patch[f] \in {None, tx[s].row.fields[f]}
    BY <1>2
  <2>2. PICK k \in 1..Len(history'[t]) : k = Len(history'[t])
    <3>1. Len(history'[t]) \in 1..Len(history'[t])
      BY <1>3
    <3> QED
      BY <3>1
  <2>3. history'[t][k].by = req[s].user
    BY <1>2, <1>3, <2>2
  <2>4. \A f \in Field : tx[s].row.fields[f] = ValueAt(t, f, k)'
    <3>1. tasks'[t] # None
      BY <1>2, <1>3, NoneAssumption
    <3> QED
      BY <1>3, <2>2, <3>1 DEF RowOK, Replayed
  <2> QED
    BY <1>1, <1>2, <1>6, <2>1, <2>3, <2>4 DEF ReplyTrue
<1>9. SlotOK(s)'
  BY <1>1, <1>2, <1>6, <1>8 DEF SlotOK, Arguments, CreateKnows, LockHeld, UpdateKnows,
        Holding, HistoryKnows, HistoryTold, At, UpdateCalls, NoTx
<1>10. ~Creating(s)
  BY <1>1 DEF Creating
<1> QED
  BY <1>2, <1>3, <1>6, <1>7, <1>9, <1>10, WriteStep

LEMMA CommitUnheardKeeps ==
    ASSUME Inv, NEW s \in Slot, CommitUnheard(s)
    PROVE  Inv'
<1>1. TypeOK /\ Apply(s) /\ Finish(s) /\ req[s].op = "Update"
  BY DEF Inv, CommitUnheard, Apply, At
<1>2. PICK t \in Task : t = req[s].task /\ Holding(s)
  BY <1>1, ApplyTyped
<1>3. /\ UNCHANGED <<clock, members, born>>
      /\ tasks' \in [Task -> Row \cup {None}] /\ history' \in [Task -> Seq(Entry)]
      /\ doneSince' \in [Task -> Time \cup {None}]
      /\ \A u \in Task \ {t} : /\ tasks'[u] = tasks[u] /\ history'[u] = history[u]
                               /\ born'[u] = born[u] /\ doneSince'[u] = doneSince[u]
      /\ Len(history'[t]) = Len(history[t]) + 1
      /\ Grow
      /\ RowOK(t)'
  BY <1>1, <1>2, ApplyTables
<1>4. Becomes(s, "idle", NoReq, None, NoTx, NoList)
  BY <1>1 DEF Finish, Becomes
<1>5. "idle" \in Label /\ None \in Row \cup {None} /\ NoList \in Listing
  BY RestTyped DEF Label, Listing
<1>6. /\ pc' \in [Slot -> Label] /\ req' \in [Slot -> Request]
      /\ current' \in [Slot -> Row \cup {None}] /\ tx' \in [Slot -> Writes]
      /\ listed' \in [Slot -> Listing]
      /\ pc'[s] = "idle" /\ req'[s] = NoReq /\ tx'[s] = NoTx /\ listed'[s] = NoList
      /\ \A o \in Slot \ {s} : Undisturbed(o)
  BY <1>1, <1>4, <1>5, RestTyped, BecomesTyped
<1>7. TypeOK'
  BY <1>1, <1>3, <1>6 DEF TypeOK, Label, Listing
<1>8. SlotOK(s)'
  BY <1>6, AtRest
<1>9. ~Creating(s)
  BY <1>1 DEF Creating
<1> QED
  BY <1>2, <1>3, <1>6, <1>7, <1>8, <1>9, WriteStep

-----------------------------------------------------------------------------
(* The invariant holds.                                                     *)

LEMMA InvInitially == Init => Inv
<1> SUFFICES ASSUME Init PROVE Inv
  OBVIOUS
<1>1. TypeOK
  BY RestTyped, TasksAssumption DEF Init, TypeOK, Time
<1>2. \A t \in Task : RowOK(t)
  BY DEF Init, RowOK, Unwritten
<1>3. Bounded
  <2>1. ASSUME NEW t \in Task PROVE Len(history[t]) + Cardinality(Editing(t)) <= MaxEdits
    <3>1. Editing(t) = {}
      BY DEF Init, Editing, NoReq
    <3>2. Cardinality(Editing(t)) = 0 /\ Len(history[t]) = 0
      BY <3>1, FS_EmptySet DEF Init
    <3> QED
      BY <3>2, TasksAssumption
  <2> QED
    BY <2>1 DEF Bounded
<1>4. SlotsInv
  BY DEF Init, SlotsInv, SlotOK, Arguments, CreateKnows, LockHeld, UpdateKnows, Holding, HistoryKnows,
         ReplyTrue, HistoryTold, At, Apart, Creating, NoReq, NoTx
<1> QED
  BY <1>1, <1>2, <1>3, <1>4 DEF Inv, RowsInv

LEMMA InvInductive == Inv /\ [Next]_vars => Inv'
<1> SUFFICES ASSUME Inv, [Next]_vars PROVE Inv'
  OBVIOUS
<1>1. ASSUME NEW s \in Slot, Call(s) PROVE Inv'
  BY <1>1, CallCreateKeeps, CallUpdateKeeps, CallHistoryKeeps DEF Call
<1>2. ASSUME NEW s \in Slot, Wait(s) PROVE Inv'
  BY <1>2, CallerIsMemberKeeps, AssigneeIsMemberKeeps, TasksCreateKeeps, BeginTxKeeps,
     GetForUpdateKeeps, GetTeamIDKeeps, ListByTaskKeeps DEF Wait
<1>3. ASSUME NEW s \in Slot, Reply(s) \/ DatabaseFails(s) PROVE Inv'
  BY <1>3, FinishKeeps DEF Reply, DatabaseFails
<1>4. ASSUME NEW s \in Slot, Step(s) PROVE Inv'
  BY <1>3, <1>4, TasksUpdateKeeps, HistoryAddKeeps, CommitKeeps DEF Step
<1>5. ASSUME NEW s \in Slot, Fault(s) PROVE Inv'
  BY <1>3, <1>5, TasksCreateUnheardKeeps, CommitUnheardKeeps DEF Fault
<1>6. ASSUME NEW team \in Team, NEW u \in User, MembersAdd(team, u) PROVE Inv'
  BY <1>6, MembersAddKeeps
<1>7. CASE Tick
  BY <1>7, TickKeeps
<1>8. CASE Crash
  BY <1>8, CrashKeeps
<1>9. CASE UNCHANGED vars
  <2>1. UNCHANGED <<clock, members, tasks, history, born, doneSince, local>>
    BY <1>9 DEF vars, tables
  <2>2. TypeOK' /\ clock <= clock'
    BY <2>1, TasksAssumption DEF Inv, TypeOK, Time, local
  <2>3. members \subseteq members'
    BY <2>1
  <2> QED
    BY <2>1, <2>2, <2>3, WorldKeeps
<1> QED
  BY <1>1, <1>2, <1>4, <1>5, <1>6, <1>7, <1>8, <1>9 DEF Next

\* Tasks, history and handlers go on fitting together.
THEOREM InvHolds == Spec => []Inv
<1> QED
  BY InvInitially, InvInductive, PTL DEF Spec

-----------------------------------------------------------------------------
(* What the runs check.                                                     *)

\* Replaying a task's history over the task as it was created gives the row,
\* however many handlers edit it at once and whichever of them fail: no edit
\* is lost, and none is recorded that was not made.
THEOREM NoEditIsLost == Spec => []HistoryReplaysToRow
<1>1. Inv => HistoryReplaysToRow
  BY DEF Inv, RowsInv, RowOK, Replayed, HistoryReplaysToRow
<1> QED
  BY <1>1, InvHolds, PTL

\* A Create or an Update answered 200 returns a version the database had, with
\* the request's values in it.
THEOREM TruthfulReplies == Spec => []OkReplyIsTrue
<1>1. Inv => OkReplyIsTrue
  BY DEF Inv, SlotsInv, SlotOK, ReplyTrue, OkReplyIsTrue
<1> QED
  BY <1>1, InvHolds, PTL

\* No row has an assignee outside its team, though the membership is looked up
\* before the write.
THEOREM ValidAssignees == Spec => []NoInvalidAssignees
<1>1. Inv => NoInvalidAssignees
  BY DEF Inv, RowsInv, RowOK, AssigneeValid, NoInvalidAssignees, InvalidAssignees
<1> QED
  BY <1>1, InvHolds, PTL

\* completed_at is set on the done tasks alone, and to no moment before the
\* task became done.
THEOREM DatedTasks == Spec => []DoneIsDated
<1>1. Inv => DoneIsDated
  <2> SUFFICES ASSUME Inv, NEW t \in Task, tasks[t] # None
               PROVE  IF tasks[t].fields["status"] = "done"
                      THEN doneSince[t] # None /\ doneSince[t] <= tasks[t].completed
                                               /\ tasks[t].completed <= clock
                      ELSE tasks[t].completed = None
    BY DEF DoneIsDated
  <2>1. Timely(t) /\ Dated(t)
    BY DEF Inv, RowsInv, RowOK
  <2> QED
    BY <2>1 DEF Timely, Dated, CompletedAt
<1> QED
  BY <1>1, InvHolds, PTL

\* A history goes to a member, leaves nothing out that was committed before it
\* was asked for, and tells it in the order it was made.
THEOREM HistoryInOrder == Spec => []HistoryIsToldInOrder
<1>1. Inv => HistoryIsToldInOrder
  <2> SUFFICES ASSUME Inv, NEW s \in Slot, At(s, "History", "reply")
               PROVE  LET t == req[s].task
                          n == Len(listed[s].entries)
                          h == SubSeq(history[t], 1, n)
                      IN  /\ IsMember(tasks[t].team, req[s].user)
                          /\ listed[s].before <= n /\ n <= Len(history[t])
                          /\ Told(listed[s].entries, h)
    BY DEF HistoryIsToldInOrder, Told
  <2>1. SlotOK(s) /\ TypeOK
    BY DEF Inv, SlotsInv
  <2>2. PICK t \in Task : t = req[s].task
    BY <2>1 DEF SlotOK, Arguments, At, NoReq
  <2> DEFINE entries == listed[s].entries
  <2>3. IsMember(tasks[t].team, req[s].user)
    BY <2>1, <2>2 DEF SlotOK, HistoryKnows, At
  <2>4. listed[s].before <= Len(entries) /\ Len(entries) <= Len(history[t]) /\ Told(entries, history[t])
    BY <2>1, <2>2 DEF SlotOK, HistoryTold
  <2>5. history[t] \in Seq(Entry) /\ entries \in Seq(Entry)
    BY <2>1 DEF TypeOK
  <2> HIDE DEF entries
  <2>6. Told(entries, SubSeq(history[t], 1, Len(entries)))
    BY <2>4, <2>5, ToldOfFirst
  <2> QED
    BY <2>2, <2>3, <2>4, <2>6 DEF entries
<1> QED
  BY <1>1, InvHolds, PTL

-----------------------------------------------------------------------------
(* The rows obey the atomic promise.                                        *)

LEMMA SameWords ==
    /\ \A fields, patch : Promise!Merge(fields, patch) = Merge(fields, patch)
    /\ \A old, new : Promise!Diff(old, new) = Diff(old, new)
    /\ \A fields, now : Promise!Completed(fields, now) = CompletedAt(fields, now)
    /\ \A team, u : Promise!Member(team, u) = IsMember(team, u)
    /\ Promise!Blank = Blank
BY DEF Promise!Merge, Merge, Promise!Diff, Diff, Promise!Completed, CompletedAt, Promise!Member,
       IsMember, Promise!Blank, Blank, Promise!Field, Field

\* The INSERT of a Create is the creation of a task.
LEMMA InsertIsCreateTask ==
    ASSUME Inv, NEW s \in Slot, InsertTask(s)
    PROVE  Promise!Next
<1>1. PICK t \in Task : t = req[s].task
  BY InsertTyped
<1>2. req[s].team \in Team /\ req[s].user \in User /\ req[s].patch \in Draft
  BY DEF InsertTask, At, Inv, SlotsInv, SlotOK, Arguments, NoReq
<1>3. /\ tasks[t] = None /\ IsMember(req[s].team, req[s].user)
      /\ Merge(Blank, req[s].patch)["assignee_id"] # None =>
            IsMember(req[s].team, Merge(Blank, req[s].patch)["assignee_id"])
  BY <1>1, InsertTyped
<1>4. tasks' = [tasks EXCEPT ![t] = Inserted(s)] /\ UNCHANGED <<clock, members, history>>
  BY <1>1, InsertTables
<1>5. Promise!CreateTask(t, req[s].team, req[s].user, req[s].patch)
  BY <1>3, <1>4, SameWords DEF Promise!CreateTask, Inserted
<1> QED
  BY <1>2, <1>5 DEF Promise!Next

LEMMA EditedRow ==
    ASSUME NEW old \in Row, NEW new, NEW now, NEW done
    PROVE  [[[old EXCEPT !.fields = new] EXCEPT !.updated = now] EXCEPT !.completed = done]
             = [team |-> old.team, creator |-> old.creator, fields |-> new,
                updated |-> now, completed |-> done]
<1> DEFINE r1 == [old EXCEPT !.fields = new]
           r2 == [r1 EXCEPT !.updated = now]
           r3 == [r2 EXCEPT !.completed = done]
<1>1. r1 = [team |-> old.team, creator |-> old.creator, fields |-> new,
            updated |-> old.updated, completed |-> old.completed]
  BY DEF Row
<1> HIDE DEF r1
<1>2. r2 = [team |-> old.team, creator |-> old.creator, fields |-> new,
            updated |-> now, completed |-> old.completed]
  BY <1>1
<1> HIDE DEF r2
<1>3. r3 = [team |-> old.team, creator |-> old.creator, fields |-> new,
            updated |-> now, completed |-> done]
  BY <1>2
<1> QED
  BY <1>3 DEF r1, r2, r3

\* The commit of an Update is one edit of the task, by its creator, to the row
\* that the edit before it left.
LEMMA ApplyIsEditTask ==
    ASSUME Inv, NEW s \in Slot, Apply(s)
    PROVE  Promise!Next
<1>1. PICK t \in Task : t = req[s].task
  BY ApplyTyped
<1> DEFINE old == tasks[t]
           new == Merge(old.fields, req[s].patch)
           now == tx[s].row.updated
<1>2. req[s].user \in User /\ req[s].patch \in Patch
  BY <1>1, ApplyTyped
<1>3. old \in Row /\ old # None /\ old.creator = req[s].user /\ AssigneeKnown(s, old.team)
  BY <1>1, ApplyTyped
<1>4. now \in 0..clock /\ old.updated <= now /\ now <= clock
  <2>1. now \in Nat /\ clock \in Nat /\ old.updated <= now /\ now <= clock
    BY <1>1, ApplyTyped
  <2> HIDE DEF now
  <2> QED
    BY <2>1
<1>5. tx[s].row = [team |-> old.team, creator |-> old.creator, fields |-> new,
                   updated |-> now, completed |-> CompletedAt(new, now)]
  BY <1>1, ApplyTyped
<1>6. tx[s].entry = [by |-> req[s].user, at |-> now, changes |-> Diff(old.fields, new)]
  BY <1>1, ApplyTyped
<1>7. /\ tasks' = [tasks EXCEPT ![t] = tx[s].row]
      /\ history' = [history EXCEPT ![t] = Append(@, tx[s].entry)]
      /\ UNCHANGED <<clock, members>>
  BY <1>1, ApplyTables
<1> HIDE DEF new, now
<1>8. tasks' = [tasks EXCEPT ![t].fields = new, ![t].updated = now,
                             ![t].completed = CompletedAt(new, now)]
  <2>1. tx[s].row = [[[old EXCEPT !.fields = new] EXCEPT !.updated = now]
                        EXCEPT !.completed = CompletedAt(new, now)]
    <3> DEFINE done == CompletedAt(new, now)
    <3>1. tx[s].row = [team |-> old.team, creator |-> old.creator, fields |-> new,
                       updated |-> now, completed |-> done]
      BY <1>5
    <3> HIDE DEF done, old
    <3>2. [[[old EXCEPT !.fields = new] EXCEPT !.updated = now] EXCEPT !.completed = done]
            = [team |-> old.team, creator |-> old.creator, fields |-> new,
               updated |-> now, completed |-> done]
      <4>1. old \in Row
        BY <1>3
      <4> QED
        BY <4>1, EditedRow, Zenon
    <3> QED
      BY <3>1, <3>2, Zenon DEF done
  <2>2. tasks \in [Task -> Row \cup {None}]
    BY DEF Inv, TypeOK
  <2> QED
    BY <1>7, <2>1, <2>2
<1>9. Promise!EditTask(t, req[s].user, req[s].patch, now)
  BY <1>3, <1>4, <1>6, <1>7, <1>8, SameWords DEF Promise!EditTask, AssigneeKnown, new
<1> QED
  BY <1>2, <1>4, <1>9 DEF Promise!Next

\* Every step of the handlers is one step of the promise or none: the rows of
\* tasks and task_history go from one atomic edit to the next.
THEOREM TasksImplementTaskStore == Spec => ImplementsTaskStore
<1>1. Init => Promise!Init
  BY DEF Init, Promise!Init
<1>2. Inv /\ [Next]_vars => [Promise!Next]_(Promise!state)
  <2> SUFFICES ASSUME Inv, [Next]_vars PROVE Promise!Next \/ UNCHANGED <<clock, members, tasks, history>>
    BY DEF Promise!state
  <2>1. ASSUME NEW s \in Slot, Call(s) PROVE UNCHANGED <<clock, members, tasks, history>>
    BY <2>1 DEF Call, CallCreate, CallUpdate, CallHistory, Arrive, tables
  <2>2. ASSUME NEW s \in Slot, Wait(s)
        PROVE  InsertTask(s) \/ UNCHANGED <<clock, members, tasks, history>>
    BY <2>2 DEF Wait, CallerIsMember, AssigneeIsMember, Check, TasksCreate, BeginTx, GetForUpdate,
                GetTeamID, ListByTask, tables
  <2>3. ASSUME NEW s \in Slot, Step(s)
        PROVE  Apply(s) \/ UNCHANGED <<clock, members, tasks, history>>
    BY <2>3 DEF Step, TasksUpdate, HistoryAdd, Record, Commit, Reply, tables
  <2>4. ASSUME NEW s \in Slot, Fault(s)
        PROVE  InsertTask(s) \/ Apply(s) \/ UNCHANGED <<clock, members, tasks, history>>
    BY <2>4 DEF Fault, TasksCreateUnheard, CommitUnheard, DatabaseFails, tables
  <2>5. ASSUME NEW team \in Team, NEW u \in User, MembersAdd(team, u) PROVE Promise!Next
    BY <2>5 DEF MembersAdd, Promise!Next, Promise!UserJoins
  <2>6. CASE Tick
    BY <2>6 DEF Tick, tables, Promise!Next, Promise!ClockTicks
  <2>7. CASE Crash \/ UNCHANGED vars
    BY <2>7 DEF Crash, vars, tables
  <2> QED
    BY <2>1, <2>2, <2>3, <2>4, <2>5, <2>6, <2>7, InsertIsCreateTask, ApplyIsEditTask DEF Next
<1> QED
  BY <1>1, <1>2, InvHolds, PTL DEF Spec, ImplementsTaskStore, Promise!Spec
=============================================================================
