---------------------------- MODULE ServerProofs ----------------------------
(***************************************************************************)
(* Theorems about Server and its rate limiter, for every number of         *)
(* requests in flight, users and addresses, every limit and period.        *)
(***************************************************************************)
EXTENDS Server, FiniteSetTheorems, TLAPS

-----------------------------------------------------------------------------
(* The inductive invariant.                                                 *)

\* What got through was counted, and is no more than the limit.
CountsAreTrue ==
    \A k \in Key : passes[k] <= window[k].count /\ passes[k] <= Limit

\* The scripts that may still run for the requests of user u that are counted
\* in its window: one per request in flight and try it has left.
Left(u) ==
    {x \in Slot \X (0..MaxResends) :
        /\ pc[x[1]] = "limiter" /\ counted[x[1]]
        /\ req[x[1]].user = u /\ sent[x[1]] <= x[2]}

\* No user's counter is higher, nor can the requests that are counted bring it
\* higher, than their tries allow.
Budgeted ==
    \A u \in User :
        /\ IsFiniteSet(Left(u))
        /\ asks[u] <= Limit =>
               window[u].count + Cardinality(Left(u)) <= (MaxResends + 1) * asks[u]

\* Only a request that is at the limiter is counted.
CountedThere == \A s \in Slot : counted[s] => pc[s] = "limiter"

\* What is open, and who is served, at each point of the process's life.
LifeIsOrdered ==
    /\ main \in {"mysql.Open", "return", "exited"} => handles = {}
    /\ main \in {"redis.New", "db.Close"} => handles = {"db"}
    /\ main \in (Boot \ {"mysql.Open", "redis.New"}) \cup {"serve", "server.Shutdown", "redis.Close"} =>
           handles = {"db", "redis"}
    /\ main \in Boot \cup {"exited"} => Busy = {} /\ listener = "none"
    /\ main \in Stop => listener # "listening"
    /\ main \in Stop \ {"server.Shutdown"} => Busy = {} \/ expired

IInv == TypeOK /\ CountsAreTrue /\ Budgeted /\ CountedThere /\ LifeIsOrdered

-----------------------------------------------------------------------------
(* The limiter.                                                             *)
LEMMA KeyTyped ==
    ASSUME NEW r \in Request
    PROVE  KeyOf(r) \in Key /\ (r.user # NoUser <=> r.user \in User)
                           /\ (r.user # NoUser => KeyOf(r) = r.user)
BY RateLimitAssumption DEF KeyOf, Request, Key

\* A counter that is incremented stays a counter, one higher up to the cap.
LEMMA IncrementedTyped ==
    ASSUME LimiterTypeOK, NEW k \in Key
    PROVE  /\ Incremented(window[k]) \in [count : 1..Many, left : 1..Period]
           /\ Incremented(window[k]).count = OneMore(window[k].count)
           /\ window[k].count \in 0..Many
<1>1. window[k] \in {NoCount} \cup [count : 1..Many, left : 1..Period]
  BY DEF LimiterTypeOK
<1>2. window[k].count \in 0..Many /\ (window[k].count # 0 => window[k].left \in 1..Period)
  BY <1>1, RateLimitAssumption DEF NoCount, Many
<1>3. OneMore(window[k].count) \in 1..Many
  BY <1>2, RateLimitAssumption DEF OneMore, Many
<1> QED
  BY <1>2, <1>3, RateLimitAssumption DEF Incremented

\* Counting keeps the counters typed and true.
LEMMA CountKeeps ==
    ASSUME LimiterTypeOK, CountsAreTrue, NEW r \in Request,
           NEW again \in BOOLEAN, NEW through \in BOOLEAN,
           through => ~Reached(Incremented(window[KeyOf(r)])),
           Count(r, again, through)
    PROVE  LimiterTypeOK' /\ CountsAreTrue'
<1> DEFINE k == KeyOf(r)
           n == Incremented(window[k])
<1>1. k \in Key /\ (r.user # NoUser => r.user \in User)
  BY KeyTyped
<1>2. /\ n \in [count : 1..Many, left : 1..Period]
      /\ n.count = OneMore(window[k].count)
      /\ window[k].count \in 0..Many
  BY <1>1, IncrementedTyped
<1>3. /\ window' = [window EXCEPT ![k] = n]
      /\ asks' = IF again \/ r.user = NoUser THEN asks
                 ELSE [asks EXCEPT ![r.user] = OneMore(asks[r.user])]
      /\ passes' = IF through THEN [passes EXCEPT ![k] = OneMore(passes[k])] ELSE passes
  BY DEF Count
<1>4. /\ asks \in [User -> 0..Many] /\ passes \in [Key -> 0..Many]
      /\ window \in [Key -> {NoCount} \cup [count : 1..Many, left : 1..Period]]
      /\ passes[k] <= window[k].count /\ passes[k] <= Limit
  BY <1>1 DEF LimiterTypeOK, CountsAreTrue
<1>5. /\ \A c \in 0..Many : OneMore(c) \in 0..Many
      /\ passes[k] <= OneMore(window[k].count)
  BY <1>1, <1>2, <1>4, RateLimitAssumption DEF OneMore, Many
<1>6. through => /\ OneMore(passes[k]) <= OneMore(window[k].count)
                 /\ OneMore(passes[k]) <= Limit
  BY <1>1, <1>2, <1>4, RateLimitAssumption DEF OneMore, Many, Reached
<1> HIDE DEF k, n
<1>7. window' \in [Key -> {NoCount} \cup [count : 1..Many, left : 1..Period]]
  BY <1>1, <1>2, <1>3, <1>4
<1>8. asks' \in [User -> 0..Many]
  <2>1. CASE again \/ r.user = NoUser
    BY <2>1, <1>3, <1>4
  <2>2. CASE ~(again \/ r.user = NoUser)
    <3>1. OneMore(asks[r.user]) \in 0..Many
      BY <2>2, <1>1, <1>4, <1>5
    <3> QED
      BY <2>2, <3>1, <1>3, <1>4
  <2> QED
    BY <2>1, <2>2
<1>9. passes' \in [Key -> 0..Many]
  <2>1. OneMore(passes[k]) \in 0..Many
    BY <1>1, <1>4, <1>5
  <2> QED
    BY <2>1, <1>3, <1>4
<1>10. CountsAreTrue'
  <2> SUFFICES ASSUME NEW q \in Key
               PROVE  passes'[q] <= window'[q].count /\ passes'[q] <= Limit
    BY DEF CountsAreTrue
  <2>1. CASE q = k
    BY <2>1, <1>2, <1>3, <1>4, <1>5, <1>6
  <2>2. CASE q # k
    BY <2>2, <1>3, <1>4 DEF CountsAreTrue
  <2> QED
    BY <2>1, <2>2
<1> QED
  BY <1>7, <1>8, <1>9, <1>10 DEF LimiterTypeOK

\* So does time: a counter goes, and with it what it has counted.
LEMMA AgeKeeps ==
    ASSUME LimiterTypeOK, CountsAreTrue, Age
    PROVE  /\ LimiterTypeOK' /\ CountsAreTrue'
           /\ \A k \in Key : window'[k].count = IF k \in Ending THEN 0 ELSE window[k].count
<1> DEFINE counter == {NoCount} \cup [count : 1..Many, left : 1..Period]
<1>1. ASSUME NEW k \in Key
      PROVE  /\ Aged(window[k]) \in counter
             /\ window[k].left = 1 => Aged(window[k]).count = 0
             /\ window[k].left # 1 => Aged(window[k]).count = window[k].count
  <2>1. window[k] \in counter
    BY DEF LimiterTypeOK
  <2>2. CASE window[k] = NoCount
    BY <2>2 DEF NoCount, Aged
  <2>3. CASE window[k] \in [count : 1..Many, left : 1..Period]
    <3>1. CASE window[k].left = 1
      BY <3>1 DEF Aged, NoCount
    <3>2. CASE window[k].left # 1
      <4>1. window[k].left - 1 \in 1..Period
        BY <2>3, <3>2, RateLimitAssumption
      <4>2. Aged(window[k]) = [window[k] EXCEPT !.left = window[k].left - 1]
        BY <2>3, <3>2, RateLimitAssumption DEF Aged
      <4> QED
        BY <2>3, <3>2, <4>1, <4>2
    <3> QED
      BY <3>1, <3>2
  <2> QED
    BY <2>1, <2>2, <2>3
<1> HIDE DEF counter
<1>2. LimiterTypeOK'
  <2>1. window' \in [Key -> counter]
    BY <1>1 DEF Age
  <2>2. asks' \in [User -> 0..Many] /\ passes' \in [Key -> 0..Many]
    BY RateLimitAssumption DEF Age, LimiterTypeOK, Many
  <2> QED
    BY <2>1, <2>2 DEF LimiterTypeOK, counter
<1>3. ASSUME NEW k \in Key
      PROVE  window'[k].count = IF k \in Ending THEN 0 ELSE window[k].count
  BY <1>1 DEF Age, Ending
<1>4. CountsAreTrue'
  <2> SUFFICES ASSUME NEW k \in Key
               PROVE  passes'[k] <= window'[k].count /\ passes'[k] <= Limit
    BY DEF CountsAreTrue
  <2>1. passes'[k] = IF k \in Ending THEN 0 ELSE passes[k]
    BY DEF Age
  <2>2. passes[k] <= window[k].count /\ passes[k] <= Limit
    BY DEF CountsAreTrue
  <2> QED
    BY <2>1, <2>2, <1>3, RateLimitAssumption
<1> QED
  BY <1>2, <1>3, <1>4

-----------------------------------------------------------------------------
(* The tries of the Redis client.                                           *)

\* A request has no more tries than are left of MaxResends + 1.
LEMMA TriesBounded ==
    ASSUME NEW s, NEW i \in 1..(MaxResends + 1)
    PROVE  /\ IsFiniteSet({s} \X (i..MaxResends))
           /\ Cardinality({s} \X (i..MaxResends)) <= MaxResends
<1> DEFINE I == i..MaxResends
           T == {s} \X I
           f == [j \in I |-> <<s, j>>]
<1>1. IsFiniteSet(I) /\ Cardinality(I) <= MaxResends
  <2>1. i \in Int /\ MaxResends \in Int /\ MaxResends \in Nat /\ i >= 1
    BY ServerAssumption
  <2>2. /\ IsFiniteSet(i..MaxResends)
        /\ Cardinality(i..MaxResends) = IF i > MaxResends THEN 0 ELSE MaxResends - i + 1
    BY <2>1, FS_Interval
  <2> QED
    BY <2>1, <2>2
<1>2. f \in [I -> T] /\ \A t \in T : \E j \in I : f[j] = t
  OBVIOUS
<1>3. f \in Surjection(I, T)
  BY <1>2 DEF Surjection
<1> HIDE DEF I, T, f
<1>4. IsFiniteSet(T) /\ Cardinality(T) <= Cardinality(I)
  BY <1>1, <1>3, FS_Surjection
<1>5. Cardinality(T) \in Nat /\ Cardinality(I) \in Nat
  BY <1>1, <1>4, FS_CardinalityType
<1>6. IsFiniteSet(T) /\ Cardinality(T) <= MaxResends
  BY <1>1, <1>4, <1>5, ServerAssumption
<1> QED
  BY <1>6 DEF T, I

\* The budget of a user whose tries only become fewer is kept.
LEMMA FewerTries ==
    ASSUME NEW u \in User, Budgeted, LimiterTypeOK, Left(u)' \subseteq Left(u),
           window'[u].count <= window[u].count, window'[u].count \in Nat, asks'[u] = asks[u]
    PROVE  /\ IsFiniteSet(Left(u)')
           /\ asks'[u] <= Limit =>
                 window'[u].count + Cardinality(Left(u)') <= (MaxResends + 1) * asks'[u]
<1> PICK L : L = Left(u)
  OBVIOUS
<1> PICK M : M = Left(u)'
  OBVIOUS
<1>1. IsFiniteSet(L) /\ M \in SUBSET L
  BY DEF Budgeted
<1>2. IsFiniteSet(M) /\ Cardinality(M) <= Cardinality(L)
  BY <1>1, FS_Subset
<1>3. Cardinality(L) \in Nat /\ Cardinality(M) \in Nat
  BY <1>1, <1>2, FS_CardinalityType
<1>4. window[u].count \in Nat /\ asks[u] \in Nat
  BY IncrementedTyped, RateLimitAssumption DEF LimiterTypeOK, Key, Many
<1>5. asks[u] <= Limit => window[u].count + Cardinality(L) <= (MaxResends + 1) * asks[u]
  BY DEF Budgeted
<1>6. (MaxResends + 1) * asks[u] \in Nat
  BY <1>4, ServerAssumption
<1>7. asks'[u] <= Limit =>
        window'[u].count + Cardinality(M) <= (MaxResends + 1) * asks'[u]
  BY <1>2, <1>3, <1>4, <1>5, <1>6
<1> QED
  BY <1>2, <1>7

LEMMA BudgetKept ==
    ASSUME Budgeted, LimiterTypeOK, UNCHANGED limiter,
           \A u \in User : Left(u)' \subseteq Left(u)
    PROVE  Budgeted'
<1> SUFFICES ASSUME NEW u \in User
             PROVE  /\ IsFiniteSet(Left(u)')
                    /\ asks'[u] <= Limit =>
                          window'[u].count + Cardinality(Left(u)') <= (MaxResends + 1) * asks'[u]
  BY DEF Budgeted
<1>1. window' = window /\ asks' = asks
  BY DEF limiter
<1>2. window[u].count \in Nat
  BY IncrementedTyped, RateLimitAssumption DEF Key, Many
<1>3. window'[u].count <= window[u].count /\ window'[u].count \in Nat /\ asks'[u] = asks[u]
  BY <1>1, <1>2
<1> QED
  BY <1>3, FewerTries

\* The budget of one request more.
LEMMA OneRequestMore ==
    ASSUME NEW m \in Nat, NEW a \in Nat
    PROVE  (m + 1) * (a + 1) = (m + 1) * a + m + 1
OBVIOUS

LEMMA MoreThanOnce ==
    ASSUME NEW m \in Nat, NEW a \in Nat
    PROVE  a * (m + 1) >= a
<1>1. a * (m + 1) = a * m + a /\ a * m \in Nat
  OBVIOUS
<1> QED
  BY <1>1

\* A run of the script keeps the budget of whoever it runs for: the first run
\* for a request brings its MaxResends + 1 tries with it, each later one was
\* among the tries that were left.
LEMMA ScriptKeepsBudget ==
    ASSUME IInv, NEW s \in Slot, pc[s] = "limiter", NEW through \in BOOLEAN,
           Count(req[s], counted[s], through),
           \A o \in Slot \ {s} : /\ pc'[o] = pc[o] /\ req'[o] = req[o]
                                 /\ counted'[o] = counted[o] /\ sent'[o] = sent[o],
           \/ pc'[s] # "limiter"
           \/ /\ sent[s] < MaxResends /\ sent'[s] = sent[s] + 1
              /\ req'[s] = req[s]
    PROVE  Budgeted'
<1> SUFFICES ASSUME NEW u \in User
             PROVE  /\ IsFiniteSet(Left(u)')
                    /\ asks'[u] <= Limit =>
                          window'[u].count + Cardinality(Left(u)') <= (MaxResends + 1) * asks'[u]
  BY DEF Budgeted
<1>1. LimiterTypeOK /\ Budgeted /\ req[s] \in Request /\ sent[s] \in 0..MaxResends
  BY DEF IInv, TypeOK
<1>2. u \in Key /\ window \in [Key -> {NoCount} \cup [count : 1..Many, left : 1..Period]]
      /\ asks \in [User -> 0..Many]
  BY <1>1 DEF LimiterTypeOK, Key
<1>3. window[u].count \in Nat /\ Incremented(window[u]).count = OneMore(window[u].count)
  BY <1>1, <1>2, IncrementedTyped, RateLimitAssumption DEF Many
<1>4. CASE req[s].user # u
  <2>1. KeyOf(req[s]) # u
    BY <1>1, <1>4, RateLimitAssumption DEF KeyOf, Request
  <2>2. window'[u] = window[u] /\ asks'[u] = asks[u]
    BY <1>2, <1>4, <2>1 DEF Count
  <2>3. Left(u)' \subseteq Left(u)
    BY <1>4 DEF Left
  <2> QED
    BY <1>1, <1>3, <2>2, <2>3, FewerTries
<1>5. CASE req[s].user = u
  <2>1. KeyOf(req[s]) = u /\ req[s].user # NoUser
    BY <1>5, RateLimitAssumption DEF KeyOf
  <2>2. window'[u].count = OneMore(window[u].count)
    BY <1>2, <1>3, <2>1 DEF Count
  <2>3. asks'[u] = IF counted[s] THEN asks[u] ELSE OneMore(asks[u])
    BY <1>2, <1>5, <2>1 DEF Count
  <2> PICK L : L = Left(u)
    OBVIOUS
  <2> PICK M : M = Left(u)'
    OBVIOUS
  <2>4. /\ IsFiniteSet(L) /\ Cardinality(L) \in Nat
        /\ asks[u] <= Limit => window[u].count + Cardinality(L) <= (MaxResends + 1) * asks[u]
    BY <1>1, FS_CardinalityType DEF Budgeted
  <2>5. CASE counted[s]
    <3>1. <<s, sent[s]>> \in L
      BY <1>1, <1>5, <2>5 DEF Left
    <3>2. M \subseteq L \ {<<s, sent[s]>>}
      BY <1>1, <1>5, <2>5 DEF Left
    <3>3. /\ IsFiniteSet(L \ {<<s, sent[s]>>})
          /\ Cardinality(L \ {<<s, sent[s]>>}) = Cardinality(L) - 1
      BY <2>4, <3>1, FS_RemoveElement
    <3>4. IsFiniteSet(M) /\ Cardinality(M) <= Cardinality(L) - 1
      BY <3>2, <3>3, FS_Subset
    <3>5. Cardinality(M) \in Nat
      BY <3>4, FS_CardinalityType
    <3>6. window'[u].count <= window[u].count + 1 /\ window'[u].count \in Nat
      BY <1>3, <2>2, RateLimitAssumption DEF OneMore, Many
    <3>7. asks'[u] = asks[u] /\ asks[u] \in Nat /\ (MaxResends + 1) * asks[u] \in Nat
      BY <1>2, <2>3, <2>5, ServerAssumption
    <3>8. asks'[u] <= Limit =>
            window'[u].count + Cardinality(M) <= (MaxResends + 1) * asks'[u]
      BY <1>3, <2>4, <3>4, <3>5, <3>6, <3>7
    <3> QED
      BY <3>4, <3>8
  <2>6. CASE ~counted[s]
    <3> PICK T : T = {s} \X ((sent[s] + 1)..MaxResends)
      OBVIOUS
    <3>1. IsFiniteSet(T) /\ Cardinality(T) <= MaxResends
      <4>1. sent[s] + 1 \in 1..(MaxResends + 1)
        BY <1>1, ServerAssumption
      <4> QED
        BY <4>1, TriesBounded
    <3>2. M \subseteq L \cup T
      BY <1>1, <2>6 DEF Left
    <3>3. /\ IsFiniteSet(L \cup T)
          /\ Cardinality(L \cup T) = Cardinality(L) + Cardinality(T) - Cardinality(L \cap T)
      BY <2>4, <3>1, FS_Union
    <3>4. IsFiniteSet(L \cap T)
      BY <2>4, FS_Intersection
    <3>5. Cardinality(L \cap T) \in Nat /\ Cardinality(T) \in Nat
      BY <3>1, <3>4, FS_CardinalityType
    <3>6. IsFiniteSet(M) /\ Cardinality(M) <= Cardinality(L \cup T)
      BY <3>2, <3>3, FS_Subset
    <3>7. Cardinality(M) \in Nat
      BY <3>6, FS_CardinalityType
    <3>8. Cardinality(M) <= Cardinality(L) + MaxResends
      BY <2>4, <3>1, <3>3, <3>5, <3>6, <3>7, ServerAssumption
    <3>9. window'[u].count <= window[u].count + 1 /\ window'[u].count \in Nat
      BY <1>3, <2>2, RateLimitAssumption DEF OneMore, Many
    <3>10. /\ asks[u] \in Nat
           /\ asks'[u] <= Limit => asks[u] <= Limit /\ asks'[u] = asks[u] + 1
      BY <1>2, <2>3, <2>6, RateLimitAssumption DEF OneMore, Many
    <3>11. (MaxResends + 1) * (asks[u] + 1) = (MaxResends + 1) * asks[u] + MaxResends + 1
      BY <3>10, OneRequestMore, ServerAssumption
    <3>12. (MaxResends + 1) * asks[u] \in Nat
      BY <3>10, ServerAssumption
    <3>13. asks'[u] <= Limit =>
            window'[u].count + Cardinality(M) <= (MaxResends + 1) * asks'[u]
      <4> SUFFICES ASSUME asks'[u] <= Limit
                   PROVE  window'[u].count + Cardinality(M) <= (MaxResends + 1) * asks'[u]
        OBVIOUS
      <4>1. (MaxResends + 1) * asks'[u] = (MaxResends + 1) * asks[u] + MaxResends + 1
        BY <3>10, <3>11
      <4>2. window[u].count + Cardinality(L) <= (MaxResends + 1) * asks[u]
        BY <2>4, <3>10
      <4> QED
        BY <1>3, <2>4, <3>7, <3>8, <3>9, <3>12, <4>1, <4>2, ServerAssumption
    <3> QED
      BY <3>6, <3>13
  <2> QED
    BY <2>5, <2>6
<1> QED
  BY <1>4, <1>5

\* Time takes the counts, the requests counted and their tries together.
LEMMA TickKeepsBudget ==
    ASSUME IInv, Tick
    PROVE  Budgeted'
<1> SUFFICES ASSUME NEW u \in User
             PROVE  /\ IsFiniteSet(Left(u)')
                    /\ asks'[u] <= Limit =>
                          window'[u].count + Cardinality(Left(u)') <= (MaxResends + 1) * asks'[u]
  BY DEF Budgeted
<1>1. LimiterTypeOK /\ Budgeted /\ CountsAreTrue /\ Age /\ u \in Key
  BY DEF IInv, TypeOK, Tick, Key
<1>2. window'[u].count = IF u \in Ending THEN 0 ELSE window[u].count
  BY <1>1, AgeKeeps
<1>3. asks'[u] = IF u \in Ending THEN 0 ELSE asks[u]
  BY <1>1 DEF Age
<1>4. CASE u \in Ending
  <2>1. Left(u)' = {}
    <3> SUFFICES ASSUME NEW s \in Slot, counted'[s], req'[s].user = u PROVE FALSE
      BY DEF Left
    <3>1. KeyOf(req[s]) \notin Ending /\ req[s].user = u
      BY DEF Tick
    <3> QED
      BY <3>1, <1>4, RateLimitAssumption DEF KeyOf
  <2>2. window'[u].count = 0 /\ asks'[u] = 0
    BY <1>2, <1>3, <1>4
  <2>3. IsFiniteSet(Left(u)') /\ Cardinality(Left(u)') = 0
    BY <2>1, FS_EmptySet
  <2> QED
    BY <2>2, <2>3, ServerAssumption
<1>5. CASE u \notin Ending
  <2>1. Left(u)' \subseteq Left(u)
    BY DEF Tick, Left
  <2>2. window[u].count \in Nat
    BY <1>1, IncrementedTyped, RateLimitAssumption DEF Many
  <2> QED
    BY <1>1, <1>2, <1>3, <1>5, <2>1, <2>2, FewerTries
<1> QED
  BY <1>4, <1>5

-----------------------------------------------------------------------------
(* The steps.                                                               *)

LEMMA RestTyped == NoRequest \in Request
BY RateLimitAssumption DEF NoRequest, Request

\* app.New goes from call to call, and each early return closes what is open.
LEMMA BootInOrder ==
    ASSUME NEW call \in Boot
    PROVE  /\ After(call) \in (Boot \ {"mysql.Open"}) \cup {"serve"}
           /\ call = "mysql.Open" <=> After(call) = "redis.New"
           /\ call = "httpserver.New" <=> After(call) = "serve"
           /\ ClosedBy(call) = CASE call = "mysql.Open" -> {}
                                [] call = "redis.New"  -> {"db"}
                                [] OTHER -> {"redis", "db"}
<1>1. /\ After(call) \in (Boot \ {"mysql.Open"}) \cup {"serve"}
      /\ call = "mysql.Open" <=> After(call) = "redis.New"
      /\ call = "httpserver.New" <=> After(call) = "serve"
  BY DEF Boot, After
<1>2. ClosedBy(call) = CASE call = "mysql.Open" -> {}
                         [] call = "redis.New"  -> {"db"}
                         [] OTHER -> {"redis", "db"}
  BY DEF Boot, ClosedBy
<1> QED
  BY <1>1, <1>2

\* While limiter and requests stay as they are, so does what is counted.
LEMMA IdleKeepsCounts ==
    ASSUME IInv, UNCHANGED <<request, limiter>>
    PROVE  CountsAreTrue' /\ Budgeted' /\ CountedThere'
<1>1. CountsAreTrue' /\ CountedThere'
  BY DEF IInv, CountsAreTrue, CountedThere, request, limiter
<1>2. \A u \in User : Left(u)' \subseteq Left(u)
  BY DEF Left, request
<1>3. Budgeted /\ LimiterTypeOK
  BY DEF IInv, TypeOK
<1> QED
  BY <1>1, <1>2, <1>3, BudgetKept

\* The end of the process, however it comes, puts everything to rest.
LEMMA ExitsKeeps ==
    ASSUME IInv, NEW with \in {"0", "1", "killed"}, Exits(with), handles' = {}
    PROVE  IInv'
<1>1. TypeOK'
  <2>1. 0 \in 0..MaxResends
    BY ServerAssumption
  <2>2. sent' \in [Slot -> 0..MaxResends] /\ counted' \in [Slot -> BOOLEAN]
    BY <2>1 DEF Exits
  <2> QED
    BY <2>2, RestTyped DEF IInv, TypeOK, Exits, limiter, LimiterTypeOK
<1>2. CountsAreTrue' /\ CountedThere'
  BY DEF IInv, CountsAreTrue, CountedThere, Exits, limiter
<1>3. LifeIsOrdered'
  BY DEF Exits, LifeIsOrdered, Busy, Boot, Stop
<1>4. Budgeted'
  <2>1. \A u \in User : Left(u)' \subseteq Left(u)
    BY DEF Exits, Left
  <2>2. Budgeted /\ LimiterTypeOK /\ UNCHANGED limiter
    BY DEF IInv, TypeOK, Exits
  <2> QED
    BY <2>1, <2>2, BudgetKept
<1> QED
  BY <1>1, <1>2, <1>3, <1>4 DEF IInv

\* A step of the process alone leaves requests and limiter as they were.
LEMMA ProcessKeeps ==
    ASSUME IInv, NothingElse, LifeIsOrdered', code' = code,
           main' \in Boot \cup {"serve"} \cup Stop,
           main # "exited" \/ code = "none",
           handles' \subseteq {"db", "redis"},
           listener' \in {"none", "starting", "listening", "failed", "closed"},
           signalled' \in BOOLEAN, expired' \in BOOLEAN
    PROVE  IInv'
<1>1. main' # "exited"
  BY DEF Boot, Stop
<1>2. TypeOK'
  BY <1>1 DEF IInv, TypeOK, NothingElse, request, limiter, LimiterTypeOK
<1>3. CountsAreTrue' /\ Budgeted' /\ CountedThere'
  BY IdleKeepsCounts DEF NothingElse
<1> QED
  BY <1>2, <1>3 DEF IInv

\* What main does keeps the invariant.
LEMMA MainKeeps ==
    ASSUME IInv, Main
    PROVE  IInv'
<1>1. CASE NewGoesOn
  <2>1. /\ main \in Boot /\ main' = After(main)
        /\ handles' = handles \cup Opens(main)
        /\ main # "httpserver.New" => listener' = listener
        /\ main = "httpserver.New" => listener' = "starting"
        /\ UNCHANGED <<code, signalled, expired, pc>>
        /\ NothingElse
    BY <1>1 DEF NewGoesOn, NothingElse, request
  <2>2. /\ main' \in (Boot \ {"mysql.Open"}) \cup {"serve"}
        /\ main = "mysql.Open" <=> main' = "redis.New"
        /\ main = "httpserver.New" <=> main' = "serve"
    BY <2>1, BootInOrder
  <2>3. Busy' = {} /\ (main' # "serve" => listener' = "none")
    BY <2>1, <2>2 DEF IInv, LifeIsOrdered, Busy
  <2>4. handles' = IF main' = "redis.New" THEN {"db"} ELSE {"db", "redis"}
    BY <2>1, <2>2 DEF IInv, LifeIsOrdered, Opens, Boot
  <2>5. LifeIsOrdered'
    BY <2>2, <2>3, <2>4 DEF LifeIsOrdered, Boot, Stop
  <2>6. main' # "exited" /\ main # "exited" /\ listener' \in {"none", "starting"}
    BY <2>1, <2>2, <2>3 DEF Boot
  <2> QED
    BY <2>1, <2>2, <2>4, <2>5, <2>6, ProcessKeeps DEF IInv, TypeOK
<1>2. CASE NewFails
  <2>1. handles' = {}
    BY <1>2, BootInOrder DEF NewFails, IInv, LifeIsOrdered, Boot
  <2> QED
    BY <1>2, <2>1, ExitsKeeps DEF NewFails
<1> USE DEF Boot, Stop
<1>3. CASE BeginShutdown
  <2>1. LifeIsOrdered'
    BY <1>3 DEF BeginShutdown, NothingElse, request, IInv, LifeIsOrdered, Busy
  <2> QED
    BY <1>3, <2>1, ProcessKeeps DEF BeginShutdown, IInv, TypeOK
<1>4. CASE ShutdownReturns
  <2>1. LifeIsOrdered'
    BY <1>4 DEF ShutdownReturns, NothingElse, request, IInv, LifeIsOrdered, Busy
  <2> QED
    BY <1>4, <2>1, ProcessKeeps DEF ShutdownReturns, IInv, TypeOK
<1>5. CASE CloseRedis
  <2>1. LifeIsOrdered'
    BY <1>5 DEF CloseRedis, Closed, NothingElse, request, IInv, LifeIsOrdered, Busy
  <2> QED
    BY <1>5, <2>1, ProcessKeeps DEF CloseRedis, Closed, IInv, TypeOK
<1>6. CASE CloseDB
  <2>1. LifeIsOrdered'
    BY <1>6 DEF CloseDB, Closed, NothingElse, request, IInv, LifeIsOrdered, Busy
  <2> QED
    BY <1>6, <2>1, ProcessKeeps DEF CloseDB, Closed, IInv, TypeOK
<1>7. CASE Return
  BY <1>7, ExitsKeeps DEF Return, IInv, LifeIsOrdered
<1> QED
  BY <1>1, <1>2, <1>3, <1>4, <1>5, <1>6, <1>7 DEF Main

\* What happens to the process keeps it: signals, the timer, its death and
\* its return, the server goroutine.
LEMMA EventsKeep ==
    ASSUME IInv, Signal \/ Deadline \/ Killed \/ Restart \/ Listen \/ ServeFails
    PROVE  IInv'
<1> USE DEF Boot, Stop
<1>1. CASE Signal
  <2>1. LifeIsOrdered'
    BY <1>1 DEF Signal, NothingElse, request, IInv, LifeIsOrdered, Busy
  <2> QED
    BY <1>1, <2>1, ProcessKeeps DEF Signal, IInv, TypeOK
<1>2. CASE Deadline
  <2>1. LifeIsOrdered'
    BY <1>2 DEF Deadline, NothingElse, request, IInv, LifeIsOrdered, Busy
  <2> QED
    BY <1>2, <2>1, ProcessKeeps DEF Deadline, IInv, TypeOK
<1>3. CASE Killed
  BY <1>3, ExitsKeeps DEF Killed
<1>4. CASE Restart
  <2>1. LifeIsOrdered'
    BY <1>4 DEF Restart, NothingElse, request, IInv, LifeIsOrdered, Busy
  <2>2. TypeOK'
    BY <1>4 DEF Restart, IInv, TypeOK, NothingElse, request, limiter, LimiterTypeOK
  <2>3. CountsAreTrue' /\ Budgeted' /\ CountedThere'
    BY <1>4, IdleKeepsCounts DEF Restart, NothingElse
  <2> QED
    BY <2>1, <2>2, <2>3 DEF IInv
<1>5. CASE Listen
  <2>1. main \in Stop => listener' # "listening"
    BY <1>5 DEF Listen
  <2>2. LifeIsOrdered'
    BY <1>5, <2>1 DEF Listen, NothingElse, request, IInv, LifeIsOrdered, Busy
  <2>3. main # "exited" /\ main' = main
    BY <1>5 DEF Listen, IInv, LifeIsOrdered
  <2>4. listener' \in {"listening", "failed", "closed"}
    BY <1>5 DEF Listen
  <2> QED
    BY <1>5, <2>2, <2>3, <2>4, ProcessKeeps DEF Listen, IInv, TypeOK
<1>6. CASE ServeFails
  <2>1. LifeIsOrdered'
    BY <1>6 DEF ServeFails, NothingElse, request, IInv, LifeIsOrdered, Busy
  <2>2. main # "exited" /\ main' = main
    BY <1>6 DEF ServeFails, IInv, LifeIsOrdered
  <2> QED
    BY <1>6, <2>1, <2>2, ProcessKeeps DEF ServeFails, IInv, TypeOK
<1> QED
  BY <1>1, <1>2, <1>3, <1>4, <1>5, <1>6

\* A request in flight that goes on in flight leaves the process ordered.
LEMMA StillBusy ==
    ASSUME IInv, UNCHANGED process, \A s \in Slot : pc'[s] # "idle" => pc[s] # "idle"
    PROVE  LifeIsOrdered'
<1>1. Busy' \subseteq Busy
  BY DEF Busy
<1>2. UNCHANGED <<main, handles, listener, expired>>
  BY DEF process
<1> QED
  BY <1>1, <1>2 DEF LifeIsOrdered, IInv

\* Whatever the limiter answers, the request leaves it in order, if its counting
\* was.
LEMMA LeaveKeeps ==
    ASSUME IInv, NEW s \in Slot, NEW next \in {"limited", "answer"}, pc[s] = "limiter",
           Leave(s, next), LimiterTypeOK', CountsAreTrue', Budgeted'
    PROVE  IInv'
<1>1. LifeIsOrdered'
  BY StillBusy DEF Leave, IInv, TypeOK
<1>2. TypeOK'
  BY RestTyped, ServerAssumption DEF Leave, IInv, TypeOK, process
<1>3. CountedThere'
  BY DEF Leave, IInv, TypeOK, CountedThere
<1> QED
  BY <1>1, <1>2, <1>3 DEF IInv

\* What a request does keeps the invariant.
LEMMA RequestsKeep ==
    ASSUME IInv, NEW s \in Slot,
           Accept(s) \/ Resend(s) \/ Limited(s) \/ RedisFails(s) \/ Reply(s)
    PROVE  IInv'
<1>1. /\ LimiterTypeOK /\ CountsAreTrue /\ Budgeted /\ CountedThere
      /\ req[s] \in Request /\ counted[s] \in BOOLEAN
      /\ pc \in [Slot -> {"idle", "limiter", "limited", "answer"}]
      /\ req \in [Slot -> Request] /\ sent \in [Slot -> 0..MaxResends]
      /\ counted \in [Slot -> BOOLEAN]
  BY DEF IInv, TypeOK
<1>2. ASSUME UNCHANGED limiter PROVE LimiterTypeOK' /\ CountsAreTrue'
  BY <1>1, <1>2 DEF limiter, LimiterTypeOK, CountsAreTrue
<1>3. CASE Accept(s)
  <2>1. UNCHANGED <<main, code, handles, listener, signalled, expired, sent, counted>>
    BY <1>3 DEF Accept, process
  <2>2. \/ main \in {"serve", "server.Shutdown"}
        \/ main \in Stop /\ expired
    BY <1>3 DEF Accept, KeptAlive, IInv, TypeOK, LifeIsOrdered, Boot, Stop
  <2>3. LifeIsOrdered'
    BY <2>1, <2>2 DEF IInv, LifeIsOrdered, Boot, Stop
  <2>4. LimiterTypeOK' /\ CountsAreTrue'
    BY <1>2, <1>3 DEF Accept
  <2>5. TypeOK'
    BY <1>3, <2>1, <2>4 DEF Accept, IInv, TypeOK
  <2>6. ~counted[s]
    BY <1>1, <1>3 DEF Accept, CountedThere
  <2>7. CountedThere'
    BY <1>1, <1>3, <2>1, <2>6 DEF Accept, CountedThere
  <2>8. \A u \in User : Left(u)' \subseteq Left(u)
    BY <1>1, <1>3, <2>1, <2>6 DEF Accept, Left
  <2>9. Budgeted'
    BY <1>1, <1>3, <2>8, BudgetKept DEF Accept
  <2> QED
    BY <2>3, <2>4, <2>5, <2>7, <2>9 DEF IInv
<1>4. CASE Resend(s)
  <2>1. /\ pc[s] = "limiter" /\ sent[s] < MaxResends
        /\ sent' = [sent EXCEPT ![s] = sent[s] + 1]
        /\ counted' \in {counted, [counted EXCEPT ![s] = req[s].user # NoUser]}
        /\ UNCHANGED <<process, pc, req>>
    BY <1>4 DEF Resend
  <2>2. LifeIsOrdered'
    BY <2>1, StillBusy
  <2>3. CountedThere'
    BY <1>1, <2>1 DEF CountedThere
  <2>4. sent' \in [Slot -> 0..MaxResends] /\ counted' \in [Slot -> BOOLEAN]
    <3>1. sent[s] + 1 \in 0..MaxResends
      BY <1>1, <2>1, ServerAssumption
    <3>2. (req[s].user # NoUser) \in BOOLEAN
      OBVIOUS
    <3> QED
      BY <1>1, <2>1, <3>1, <3>2
  <2>5. LimiterTypeOK' /\ CountsAreTrue' /\ Budgeted'
    <3>1. CASE Count(req[s], counted[s], FALSE) /\ counted' = [counted EXCEPT ![s] = req[s].user # NoUser]
      <4>1. LimiterTypeOK' /\ CountsAreTrue'
        BY <1>1, <3>1, CountKeeps
      <4>2. /\ sent'[s] = sent[s] + 1 /\ req'[s] = req[s]
            /\ \A o \in Slot \ {s} : /\ pc'[o] = pc[o] /\ req'[o] = req[o]
                                     /\ counted'[o] = counted[o] /\ sent'[o] = sent[o]
        BY <1>1, <2>1, <3>1
      <4>3. Budgeted'
        BY <2>1, <3>1, <4>2, ScriptKeepsBudget
      <4> QED
        BY <4>1, <4>3
    <3>2. CASE UNCHANGED <<counted, limiter>>
      <4>1. \A u \in User : Left(u)' \subseteq Left(u)
        BY <1>1, <2>1, <3>2 DEF Left
      <4> QED
        BY <1>1, <1>2, <3>2, <4>1, BudgetKept
    <3> QED
      BY <1>4, <3>1, <3>2 DEF Resend
  <2>6. TypeOK'
    BY <2>1, <2>4, <2>5 DEF IInv, TypeOK, process
  <2> QED
    BY <2>2, <2>3, <2>5, <2>6 DEF IInv
<1>5. CASE Limited(s)
  <2> DEFINE reached == Reached(Incremented(window[KeyOf(req[s])]))
             next == IF reached THEN "limited" ELSE "answer"
  <2>1. Count(req[s], counted[s], ~reached) /\ pc[s] = "limiter" /\ Leave(s, next)
    BY <1>5 DEF Limited
  <2>2. LimiterTypeOK' /\ CountsAreTrue'
    BY <1>1, <2>1, CountKeeps
  <2>3. next \in {"limited", "answer"} /\ (~reached) \in BOOLEAN
    OBVIOUS
  <2>4. /\ pc'[s] # "limiter"
        /\ \A o \in Slot \ {s} : /\ pc'[o] = pc[o] /\ req'[o] = req[o]
                                 /\ counted'[o] = counted[o] /\ sent'[o] = sent[o]
    BY <1>1, <2>1, <2>3 DEF Leave
  <2> HIDE DEF reached, next
  <2>5. Budgeted'
    BY <2>1, <2>3, <2>4, ScriptKeepsBudget
  <2> QED
    BY <2>1, <2>2, <2>3, <2>5, LeaveKeeps
<1>6. CASE RedisFails(s)
  <2>1. pc[s] = "limiter" /\ Leave(s, "answer")
    BY <1>6 DEF RedisFails
  <2>2. CASE Count(req[s], counted[s], FALSE)
    <3>1. LimiterTypeOK' /\ CountsAreTrue'
      BY <1>1, <2>2, CountKeeps
    <3>2. Budgeted'
      BY <1>1, <2>1, <2>2, ScriptKeepsBudget DEF Leave
    <3> QED
      BY <2>1, <3>1, <3>2, LeaveKeeps
  <2>3. CASE UNCHANGED limiter
    <3>1. \A u \in User : Left(u)' \subseteq Left(u)
      BY <1>1, <2>1 DEF Leave, Left
    <3>2. LimiterTypeOK' /\ CountsAreTrue' /\ Budgeted'
      BY <1>1, <1>2, <2>3, <3>1, BudgetKept
    <3> QED
      BY <2>1, <3>2, LeaveKeeps
  <2> QED
    BY <1>6, <2>2, <2>3 DEF RedisFails
<1>7. CASE Reply(s)
  <2>1. /\ pc[s] \in {"limited", "answer"} /\ pc' = [pc EXCEPT ![s] = "idle"]
        /\ UNCHANGED <<process, req, sent, counted, limiter>>
    BY <1>7 DEF Reply
  <2>2. LimiterTypeOK' /\ CountsAreTrue'
    BY <1>2, <2>1
  <2>3. LifeIsOrdered'
    BY <1>1, <2>1, StillBusy
  <2>4. TypeOK'
    BY <2>1, <2>2 DEF IInv, TypeOK, process
  <2>5. CountedThere'
    BY <1>1, <2>1 DEF CountedThere
  <2>6. \A u \in User : Left(u)' \subseteq Left(u)
    BY <1>1, <2>1 DEF Left
  <2>7. Budgeted'
    BY <1>1, <2>1, <2>6, BudgetKept
  <2> QED
    BY <2>2, <2>3, <2>4, <2>5, <2>7 DEF IInv
<1> QED
  BY <1>3, <1>4, <1>5, <1>6, <1>7

-----------------------------------------------------------------------------
(* The theorems.                                                            *)

LEMMA InitHolds == Init => IInv
<1> SUFFICES ASSUME Init PROVE IInv
  OBVIOUS
<1>1. LimiterTypeOK
  BY RateLimitAssumption DEF Init, LimiterInit, LimiterTypeOK, NoCount, Many
<1>2. TypeOK
  <2>1. 0 \in 0..MaxResends
    BY ServerAssumption
  <2>2. sent \in [Slot -> 0..MaxResends] /\ counted \in [Slot -> BOOLEAN]
    BY <2>1 DEF Init
  <2> QED
    BY <1>1, <2>2, RestTyped DEF Init, TypeOK, Boot
<1>3. CountsAreTrue /\ CountedThere
  BY RateLimitAssumption DEF Init, LimiterInit, CountsAreTrue, CountedThere, NoCount
<1>4. LifeIsOrdered
  BY DEF Init, LifeIsOrdered, Busy, Boot, Stop
<1>5. Budgeted
  <2> SUFFICES ASSUME NEW u \in User
               PROVE  /\ IsFiniteSet(Left(u))
                      /\ window[u].count + Cardinality(Left(u)) <= (MaxResends + 1) * asks[u]
    BY DEF Budgeted
  <2>1. Left(u) = {} /\ window[u].count = 0 /\ asks[u] = 0
    BY DEF Init, LimiterInit, Left, NoCount, Key
  <2> QED
    BY <2>1, FS_EmptySet, ServerAssumption
<1> QED
  BY <1>2, <1>3, <1>4, <1>5 DEF IInv

LEMMA StepKeeps == IInv /\ [Next]_vars => IInv'
<1> SUFFICES ASSUME IInv, [Next]_vars PROVE IInv'
  OBVIOUS
<1>1. CASE Main
  BY <1>1, MainKeeps
<1>2. CASE Signal \/ Deadline \/ Killed \/ Restart \/ Listen \/ ServeFails
  BY <1>2, EventsKeep
<1>3. ASSUME NEW s \in Slot,
             Accept(s) \/ Resend(s) \/ Limited(s) \/ RedisFails(s) \/ Reply(s)
      PROVE  IInv'
  BY <1>3, RequestsKeep
<1>4. CASE Tick
  <2>1. LimiterTypeOK' /\ CountsAreTrue'
    BY <1>4, AgeKeeps DEF Tick, IInv, TypeOK
  <2>2. Budgeted'
    BY <1>4, TickKeepsBudget
  <2>3. CountedThere'
    BY <1>4 DEF Tick, IInv, CountedThere
  <2>4. LifeIsOrdered'
    BY <1>4 DEF Tick, process, IInv, LifeIsOrdered, Busy
  <2>5. counted' \in [Slot -> BOOLEAN]
    BY <1>4 DEF Tick, IInv, TypeOK
  <2>6. TypeOK'
    BY <1>4, <2>1, <2>5 DEF Tick, process, IInv, TypeOK
  <2> QED
    BY <2>1, <2>2, <2>3, <2>4, <2>6 DEF IInv
<1>5. CASE UNCHANGED vars
  <2>1. UNCHANGED <<process, request, limiter>>
    BY <1>5 DEF vars
  <2>2. CountsAreTrue' /\ Budgeted' /\ CountedThere'
    BY <2>1, IdleKeepsCounts
  <2>3. TypeOK' /\ LifeIsOrdered'
    BY <2>1 DEF process, request, limiter, IInv, TypeOK, LimiterTypeOK, LifeIsOrdered, Busy
  <2> QED
    BY <2>2, <2>3 DEF IInv
<1> QED
  BY <1>1, <1>2, <1>3, <1>4, <1>5 DEF Next

LEMMA Inductive == Spec => []IInv
BY InitHolds, StepKeeps, PTL DEF Spec

\* The process, its requests and the limiter's counters are well typed.
THEOREM ServerTypeCorrect == Spec => []TypeOK
<1>1. IInv => TypeOK
  BY DEF IInv
<1> QED
  BY <1>1, Inductive, PTL

\* No more than Limit requests get through under one key in the life of its
\* counter, for every limit, period and number of retries, whatever fails and
\* however often the process is killed and started again.
THEOREM LimitHolds == Spec => []PassesWithinLimit
<1>1. IInv => PassesWithinLimit
  BY DEF IInv, CountsAreTrue, PassesWithinLimit
<1> QED
  BY <1>1, Inductive, PTL

\* However many requests are in flight, Redis and the database are closed
\* after the last of them or after the deadline; and where app.New or main ends,
\* nothing is left open.
THEOREM ClientsOutliveRequests == Spec => []ServedByOpenClients
<1>1. IInv => ServedByOpenClients
  BY DEF IInv, LifeIsOrdered, ServedByOpenClients, Stop
<1> QED
  BY <1>1, Inductive, PTL

\* Every counter and every retry being accounted for, a user who is refused has
\* made more than Limit/(MaxResends + 1) requests in its window itself.
THEOREM RefusalsHaveCause == Spec => RefusedForCause
<1>1. IInv /\ [Next]_vars =>
        [\A s \in Slot :
            pc'[s] = "limited" /\ pc[s] # "limited" /\ req[s].user # NoUser =>
                asks'[req[s].user] * (MaxResends + 1) > Limit]_vars
  <2> SUFFICES ASSUME IInv, Next, NEW s \in Slot,
                      pc'[s] = "limited", pc[s] # "limited", req[s].user # NoUser
               PROVE  asks'[req[s].user] * (MaxResends + 1) > Limit
    OBVIOUS
  <2> PICK u : u = req[s].user
    OBVIOUS
  <2>1. /\ pc \in [Slot -> {"idle", "limiter", "limited", "answer"}]
        /\ LimiterTypeOK /\ CountsAreTrue /\ req[s] \in Request /\ counted[s] \in BOOLEAN
    BY DEF IInv, TypeOK
  <2>2. pc' # pc
    OBVIOUS
  <2>3. ~(\E with \in {"0", "1", "killed"} : Exits(with))
    BY DEF Exits
  <2>4. ~Main
    BY <2>2, <2>3 DEF Main, NewGoesOn, NewFails, BeginShutdown, ShutdownReturns,
       CloseRedis, CloseDB, Closed, Return, NothingElse, request
  <2>5. ~(Signal \/ Deadline \/ Killed \/ Restart \/ Listen \/ ServeFails \/ Tick)
    BY <2>2, <2>3 DEF Signal, Deadline, Killed, Restart, Listen, ServeFails, Tick,
       NothingElse, request
  <2>6. ASSUME NEW o \in Slot, Accept(o) \/ Resend(o) \/ RedisFails(o) \/ Reply(o)
        PROVE  FALSE
    BY <2>1, <2>2, <2>6 DEF Accept, Resend, RedisFails, Leave, Reply
  <2>7. PICK o \in Slot : Limited(o)
    BY <2>4, <2>5, <2>6 DEF Next
  <2>8. o = s /\ Reached(Incremented(window[KeyOf(req[s])]))
    BY <2>1, <2>7 DEF Limited, Leave
  <2>9. /\ u \in User /\ KeyOf(req[s]) = u /\ u \in Key
    BY <2>1, KeyTyped DEF Key
  <2>10. \E through \in BOOLEAN : Count(req[s], counted[s], through)
    BY <2>7, <2>8 DEF Limited, Reached
  <2>11. window'[u].count > Limit
    BY <2>1, <2>8, <2>9, <2>10 DEF Count, Reached, LimiterTypeOK
  <2>12. TypeOK' /\ Budgeted'
    BY StepKeeps DEF IInv
  <2> PICK n : n = Cardinality(Left(u)')
    OBVIOUS
  <2>13. n \in Nat
    BY <2>9, <2>12, FS_CardinalityType DEF Budgeted
  <2> PICK a : a = asks'[u]
    OBVIOUS
  <2> PICK w : w = window'[u].count
    OBVIOUS
  <2>14. a \in Nat /\ w \in Nat
    <3>1. /\ asks' \in [User -> 0..Many]
          /\ window' \in [Key -> {NoCount} \cup [count : 1..Many, left : 1..Period]]
      BY <2>12 DEF TypeOK, LimiterTypeOK
    <3> QED
      BY <2>9, <3>1, RateLimitAssumption DEF Many, NoCount
  <2>15. a <= Limit => w + n <= (MaxResends + 1) * a
    BY <2>9, <2>12 DEF Budgeted
  <2>16. a * (MaxResends + 1) > Limit
    <3>1. (MaxResends + 1) * a = a * (MaxResends + 1) /\ (MaxResends + 1) * a \in Nat
      BY <2>14, ServerAssumption
    <3>2. CASE a <= Limit
      BY <3>1, <3>2, <2>11, <2>13, <2>14, <2>15, RateLimitAssumption
    <3>3. CASE a > Limit
      <4>1. a * (MaxResends + 1) >= a
        BY <2>14, MoreThanOnce, ServerAssumption
      <4> QED
        BY <3>1, <3>3, <4>1, <2>14, RateLimitAssumption
    <3> QED
      BY <3>2, <3>3, <2>14, RateLimitAssumption
  <2> QED
    BY <2>16
<1> QED
  BY <1>1, Inductive, PTL DEF Spec, RefusedForCause
=============================================================================
