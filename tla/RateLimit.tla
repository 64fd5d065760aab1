----------------------------- MODULE RateLimit -----------------------------
(***************************************************************************)
(* The rate limiter: a counter in Redis per signed-in user, or per address *)
(* that a request without a user claims to come from; the counter expires  *)
(* a Period after the first count (internal/pkg/http/middlewares/          *)
(* ratelimit.go over ulule/limiter).                                       *)
(*                                                                         *)
(* Counting and setting the expiry are one script in Redis.  Server is the *)
(* process that sends it, and its Redis client sends it again when the     *)
(* answer is lost: one request may be counted several times.  Redis keeps  *)
(* its counters when it restarts: it appends them to a file                *)
(* (deployments/docker-compose.yml).                                       *)
(***************************************************************************)
EXTENDS Naturals

CONSTANTS
    User,      \* ids of signed-in users
    Address,   \* what c.ClientIP() may say
    NoUser,    \* the user of a request without a valid token
    Limit,     \* rateLimitPerMinute
    Period     \* the life of a counter, in ticks

ASSUME RateLimitAssumption ==
    /\ User \cap Address = {}
    /\ NoUser \notin User /\ Address # {}
    /\ Limit \in Nat \ {0} /\ Period \in Nat \ {0}

VARIABLES
    window,    \* Redis: each key's counter and the ticks it has left
    asks,      \* history variable: the requests each user has in its window
    passes     \* history variable: the requests let through under each key

limiter == <<window, asks, passes>>

Key == User \cup Address

\* Who a request is from: the user of its token, and the address it claims.
\* The engine trusts every proxy, so that is what X-Forwarded-For says, if the
\* request has one: an address is anybody's to name, a user is not.
Request == [user : User \cup {NoUser}, addr : Address]

Many    == Limit + 1     \* counts beyond it are not told apart
NoCount == [count |-> 0, left |-> 0]

LimiterTypeOK ==
    /\ window \in [Key -> {NoCount} \cup [count : 1..Many, left : 1..Period]]
    /\ asks \in [User -> 0..Many] /\ passes \in [Key -> 0..Many]

OneMore(n) == IF n < Many THEN n + 1 ELSE n

\* Variant: by address whoever asks.
KeyOfAddress(r) == r.addr

\* The key getter.
KeyOf(r) == IF r.user # NoUser THEN r.user ELSE r.addr

\* Variant: every request sets the expiry.
IncrementedAndRenewed(w) == [count |-> OneMore(w.count), left |-> Period]

\* Variant: the expiry is forgotten.
IncrementedForGood(w) == [w EXCEPT !.count = OneMore(@)]

\* The script: only the request that makes the counter sets its expiry.
Incremented(w) == [count |-> OneMore(w.count),
                   left |-> IF w.count = 0 THEN Period ELSE w.left]

Reached(w) == w.count > Limit

\* The script runs for request r.  again says that it has run for r before in
\* this window, through whether r goes on.
Count(r, again, through) ==
    /\ window' = [window EXCEPT ![KeyOf(r)] = Incremented(@)]
    /\ asks' = IF again \/ r.user = NoUser THEN asks
               ELSE [asks EXCEPT ![r.user] = OneMore(@)]
    /\ passes' = IF through THEN [passes EXCEPT ![KeyOf(r)] = OneMore(@)] ELSE passes

\* Time in Redis: a counter whose time is over is gone.
Aged(w) == CASE w.left = 0 -> w
             [] w.left = 1 -> NoCount
             [] OTHER -> [w EXCEPT !.left = @ - 1]

\* The keys whose window ends with this tick.
Ending == {k \in Key : window[k].left = 1}

Age ==
    /\ window' = [k \in Key |-> Aged(window[k])]
    /\ asks' = [u \in User |-> IF u \in Ending THEN 0 ELSE asks[u]]
    /\ passes' = [k \in Key |-> IF k \in Ending THEN 0 ELSE passes[k]]

LimiterInit ==
    /\ window = [k \in Key |-> NoCount]
    /\ asks = [u \in User |-> 0] /\ passes = [k \in Key |-> 0]
=============================================================================
