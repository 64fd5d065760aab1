------------------------------- MODULE Server -------------------------------
(***************************************************************************)
(* The life of the process (cmd/main.go, internal/app/app.go) and what it  *)
(* means to the requests in flight: what each early return of app.New      *)
(* closes, what a signal or a failed listener sets off, and how a request  *)
(* fares with the limiter when Redis and the database fail or are closed   *)
(* under it.                                                               *)
(*                                                                         *)
(* `main' names the call the main goroutine makes next, `pc' what each     *)
(* request does next.  The process may be killed at any point, and started *)
(* again; Redis, and with it the limiter, lives on.                        *)
(*                                                                         *)
(* The Redis client sends the limiter's script again when its answer is    *)
(* lost: three times, which is the default redis.New leaves in place, and  *)
(* the limiter starts over once if Redis has lost the script meanwhile;    *)
(* the last try of the first round has not run then, so MaxResends is 6.   *)
(* A script whose answer is lost ran before it was given up, or never      *)
(* runs.                                                                   *)
(***************************************************************************)
EXTENDS RateLimit, FiniteSets

CONSTANTS
    Slot,        \* requests in flight at once
    MaxResends   \* how often the limiter's script is run again for one request

ASSUME ServerAssumption == MaxResends \in Nat

VARIABLES
    main,        \* what the main goroutine does next
    code,        \* how the process ended, "none" while it runs
    handles,     \* the MySQL and Redis clients the process holds open
    listener,    \* the server goroutine and its listening socket
    signalled,   \* SIGINT or SIGTERM has reached signalCtx
    expired,     \* the ten seconds of shutdownCtx are over
    pc,          \* what each request does next, "idle" without one
    req,         \* who sent it
    sent,        \* how often the script has been sent again for it
    counted      \* history variable: it is among the requests counted in asks

process == <<main, code, handles, listener, signalled, expired>>
request == <<pc, req, sent, counted>>
vars    == <<process, request, limiter>>

\* The calls of app.New that may fail.
Boot == {"mysql.Open", "redis.New", "runMigrations", "buildAPIMiddlewares",
         "cache.NewTasksCache", "breaker.New", "auth.NewService", "teams.NewService",
         "tasks.NewService", "comments.NewService", "reports.NewService",
         "handler.New", "httpserver.New"}
Stop == {"server.Shutdown", "redis.Close", "db.Close", "return"}

NoRequest == [user |-> NoUser, addr |-> CHOOSE a \in Address : TRUE]

TypeOK ==
    /\ LimiterTypeOK
    /\ main \in Boot \cup {"serve"} \cup Stop \cup {"exited"}
    /\ code \in {"none", "0", "1", "killed"} /\ (code = "none" <=> main # "exited")
    /\ handles \subseteq {"db", "redis"}
    /\ listener \in {"none", "starting", "listening", "failed", "closed"}
    /\ signalled \in BOOLEAN /\ expired \in BOOLEAN
    /\ pc \in [Slot -> {"idle", "limiter", "limited", "answer"}]
    /\ req \in [Slot -> Request]
    /\ sent \in [Slot -> 0..MaxResends] /\ counted \in [Slot -> BOOLEAN]

Busy == {s \in Slot : pc[s] # "idle"}

-----------------------------------------------------------------------------
(* The main goroutine: app.New call by call, then main.                     *)

NothingElse == UNCHANGED <<request, limiter>>

\* The call after each of app.New; after the last, main watches for signals
\* and starts the goroutine that serves.
After(call) ==
    CASE call = "mysql.Open"          -> "redis.New"
      [] call = "redis.New"           -> "runMigrations"
      [] call = "runMigrations"       -> "buildAPIMiddlewares"
      [] call = "buildAPIMiddlewares" -> "cache.NewTasksCache"
      [] call = "cache.NewTasksCache" -> "breaker.New"
      [] call = "breaker.New"         -> "auth.NewService"
      [] call = "auth.NewService"     -> "teams.NewService"
      [] call = "teams.NewService"    -> "tasks.NewService"
      [] call = "tasks.NewService"    -> "comments.NewService"
      [] call = "comments.NewService" -> "reports.NewService"
      [] call = "reports.NewService"  -> "handler.New"
      [] call = "handler.New"         -> "httpserver.New"
      [] call = "httpserver.New"      -> "serve"

\* What each call opens, and leaves open only if it succeeds.
Opens(call) ==
    CASE call = "mysql.Open" -> {"db"}
      [] call = "redis.New"  -> {"redis"}
      [] OTHER -> {}

\* Variant: one early return forgets the database.
ClosedByAllButOne(call) ==
    CASE call = "mysql.Open"  -> {}
      [] call = "redis.New"   -> {"db"}
      [] call = "handler.New" -> {"redis"}
      [] OTHER -> {"redis", "db"}

\* The Close calls of the early return after each call.
ClosedBy(call) ==
    CASE call = "mysql.Open"          -> {}
      [] call = "redis.New"           -> {"db"}
      [] call = "runMigrations"       -> {"redis", "db"}
      [] call = "buildAPIMiddlewares" -> {"redis", "db"}
      [] call = "cache.NewTasksCache" -> {"redis", "db"}
      [] call = "breaker.New"         -> {"redis", "db"}
      [] call = "auth.NewService"     -> {"redis", "db"}
      [] call = "teams.NewService"    -> {"redis", "db"}
      [] call = "tasks.NewService"    -> {"redis", "db"}
      [] call = "comments.NewService" -> {"redis", "db"}
      [] call = "reports.NewService"  -> {"redis", "db"}
      [] call = "handler.New"         -> {"redis", "db"}
      [] call = "httpserver.New"      -> {"redis", "db"}

NewGoesOn ==
    /\ main \in Boot
    /\ main' = After(main)
    /\ handles' = handles \cup Opens(main)
    /\ listener' = IF main = "httpserver.New" THEN "starting" ELSE listener
    /\ UNCHANGED <<code, signalled, expired>>
    /\ NothingElse

Exits(with) ==
    /\ main' = "exited"
    /\ code' = with
    /\ listener' = "none"
    /\ signalled' = FALSE /\ expired' = FALSE
    /\ pc' = [s \in Slot |-> "idle"]
    /\ req' = [s \in Slot |-> NoRequest]
    /\ sent' = [s \in Slot |-> 0]
    /\ counted' = [s \in Slot |-> FALSE]
    /\ UNCHANGED limiter

\* A call of app.New fails, app.New returns early, and main exits.
NewFails ==
    /\ main \in Boot
    /\ handles' = handles \ ClosedBy(main)
    /\ Exits("1")

\* SIGINT or SIGTERM; one that comes later is swallowed.
Signal ==
    /\ main = "serve"
    /\ signalled' = TRUE
    /\ UNCHANGED <<main, code, handles, listener, expired>>
    /\ NothingElse

\* select, then shutdown: server.Shutdown closes the listening socket first.
BeginShutdown ==
    /\ main = "serve"
    /\ signalled \/ listener = "failed"
    /\ main' = "server.Shutdown"
    /\ listener' = IF listener = "starting" THEN listener ELSE "closed"
    /\ UNCHANGED <<code, handles, signalled, expired>>
    /\ NothingElse

\* Variant: a shutdown with a context that never ends.
DeadlineNever == FALSE /\ UNCHANGED vars

Deadline ==
    /\ main = "server.Shutdown"
    /\ expired' = TRUE
    /\ UNCHANGED <<main, code, handles, listener, signalled>>
    /\ NothingElse

\* Variant: Close in place of Shutdown, which waits for nobody.
ShutdownAtOnce ==
    /\ main = "server.Shutdown"
    /\ main' = "redis.Close"
    /\ UNCHANGED <<code, handles, listener, signalled, expired>>
    /\ NothingElse

ShutdownReturns ==
    /\ main = "server.Shutdown"
    /\ Busy = {} \/ expired
    /\ main' = "redis.Close"
    /\ UNCHANGED <<code, handles, listener, signalled, expired>>
    /\ NothingElse

Closed(call, next, handle) ==
    /\ main = call
    /\ main' = next
    /\ handles' = handles \ {handle}
    /\ UNCHANGED <<code, listener, signalled, expired>>
    /\ NothingElse

CloseRedis == Closed("redis.Close", "db.Close", "redis")
CloseDB    == Closed("db.Close", "return", "db")

\* main returns, and the requests that are left end with it.
Return ==
    /\ main = "return"
    /\ UNCHANGED handles
    /\ Exits("0")

\* SIGKILL at any point, or a signal before main watches for it.
Killed ==
    /\ main # "exited"
    /\ handles' = {}
    /\ Exits("killed")

Restart ==
    /\ main = "exited"
    /\ main' = "mysql.Open"
    /\ code' = "none"
    /\ UNCHANGED <<handles, listener, signalled, expired>>
    /\ NothingElse

-----------------------------------------------------------------------------
(* The goroutine that serves.                                               *)

\* ListenAndServe may come to run after Shutdown; then it returns at once.
Listen ==
    /\ listener = "starting"
    /\ listener' \in IF main = "serve" THEN {"listening", "failed"} ELSE {"closed"}
    /\ UNCHANGED <<main, code, handles, signalled, expired>>
    /\ NothingElse

\* The socket fails later: main is told, the requests go on.
ServeFails ==
    /\ listener = "listening"
    /\ listener' = "failed"
    /\ UNCHANGED <<main, code, handles, signalled, expired>>
    /\ NothingElse

-----------------------------------------------------------------------------
(* A request: the limiter, and the answer.                                  *)

\* A client that has a connection may send its next request on it after the
\* socket is closed, until Shutdown has closed the connections that are idle;
\* one that has run out of time has not.
KeptAlive ==
    /\ listener \in {"failed", "closed"}
    /\ main \in {"serve", "server.Shutdown"} \/ (main \in Stop /\ expired)

Accept(s) ==
    /\ listener = "listening" \/ KeptAlive
    /\ pc[s] = "idle"
    /\ \E r \in Request : req' = [req EXCEPT ![s] = r]
    /\ pc' = [pc EXCEPT ![s] = "limiter"]
    /\ UNCHANGED <<process, sent, counted, limiter>>

\* The limiter is done with the request, and so is its Redis client; from here
\* on nobody asks who it was from.
Leave(s, next) ==
    /\ pc' = [pc EXCEPT ![s] = next]
    /\ req' = [req EXCEPT ![s] = NoRequest]
    /\ sent' = [sent EXCEPT ![s] = 0]
    /\ counted' = [counted EXCEPT ![s] = FALSE]
    /\ UNCHANGED process

\* The answer of the script is lost, or it never reached Redis; the client
\* sends it again.
Resend(s) ==
    /\ pc[s] = "limiter"
    /\ "redis" \in handles
    /\ sent[s] < MaxResends
    /\ sent' = [sent EXCEPT ![s] = @ + 1]
    /\ \/ /\ Count(req[s], counted[s], FALSE)
          /\ counted' = [counted EXCEPT ![s] = req[s].user # NoUser]
       \/ UNCHANGED <<counted, limiter>>
    /\ UNCHANGED <<process, pc, req>>

\* The script is answered: the request that is one too many gets 429.
Limited(s) ==
    LET reached == Reached(Incremented(window[KeyOf(req[s])]))
    IN  /\ pc[s] = "limiter"
        /\ "redis" \in handles
        /\ Count(req[s], counted[s], ~reached)
        /\ Leave(s, IF reached THEN "limited" ELSE "answer")

\* Variant: a limiter that fails lets everybody through.
RedisFailsOpen(s) ==
    /\ pc[s] = "limiter"
    /\ UNCHANGED <<window, asks>>
    /\ passes' = [passes EXCEPT ![KeyOf(req[s])] = OneMore(@)]
    /\ Leave(s, "answer")

\* The Redis client gives up, at this try or because it is closed; the script
\* has run or not.
RedisFails(s) ==
    /\ pc[s] = "limiter"
    /\ \/ "redis" \in handles /\ Count(req[s], counted[s], FALSE)
       \/ UNCHANGED limiter
    /\ Leave(s, "answer")

\* The request is answered: by the middlewares and the handler behind the
\* limiter, with or without the database, or by the limiter's error handler.
Reply(s) ==
    /\ pc[s] \in {"limited", "answer"}
    /\ pc' = [pc EXCEPT ![s] = "idle"]
    /\ UNCHANGED <<process, req, sent, counted, limiter>>

\* Time in Redis; a request whose window ends is counted anew in the next.
Tick ==
    /\ Age
    /\ counted' = [s \in Slot |-> counted[s] /\ KeyOf(req[s]) \notin Ending]
    /\ UNCHANGED <<process, pc, req, sent>>

-----------------------------------------------------------------------------
Init ==
    /\ LimiterInit
    /\ main = "mysql.Open" /\ code = "none"
    /\ handles = {} /\ listener = "none"
    /\ signalled = FALSE /\ expired = FALSE
    /\ pc = [s \in Slot |-> "idle"]
    /\ req = [s \in Slot |-> NoRequest]
    /\ sent = [s \in Slot |-> 0] /\ counted = [s \in Slot |-> FALSE]

\* What main does of itself.
Main == \/ NewGoesOn \/ NewFails
        \/ BeginShutdown \/ ShutdownReturns \/ CloseRedis \/ CloseDB \/ Return

Next ==
    \/ Main
    \/ Signal \/ Deadline \/ Killed \/ Restart
    \/ Listen \/ ServeFails
    \/ \E s \in Slot :
         Accept(s) \/ Resend(s) \/ Limited(s) \/ RedisFails(s) \/ Reply(s)
    \/ Tick

Spec == Init /\ [][Next]_vars

\* The main goroutine runs, its timer fires and time passes.  Nothing is
\* assumed of the requests: a handler may hang for ever.
FairSpec == Spec /\ WF_vars(Main) /\ WF_vars(Deadline) /\ WF_vars(Tick)

-----------------------------------------------------------------------------
(* Properties.                                                              *)

\* Redis and the database are closed after the last request, or when the ten
\* seconds are over: a request in flight loses neither before.  And no
\* connection is accepted once they are about to go.  However the process ends
\* by itself, at whichever call app.New fails, after a signal or a listener that
\* failed, it has closed what it opened.
ServedByOpenClients ==
    /\ main = "exited" => handles = {}
    /\ main \in {"serve"} \cup Stop /\ handles # {"db", "redis"} => Busy = {} \/ expired
    /\ main \in Stop => listener # "listening"

\* In the life of a counter no more than Limit requests get through under its
\* key, though Redis fails, scripts are sent again, the process is killed or is
\* started again.  (A minute that begins in one window and ends in the next may
\* see twice as many.)
PassesWithinLimit == \A k \in Key : passes[k] <= Limit

\* A user who is answered 429 has, in the window that is running, made more
\* requests than Limit/(MaxResends + 1): neither strangers behind one address nor
\* requests of an earlier window count against a user, and the scripts the Redis
\* client repeats are all that does besides the requests themselves.  (Nothing of
\* the kind holds for requests without a user: an address is only claimed.)
RefusedForCause ==
    [][\A s \in Slot :
         pc'[s] = "limited" /\ pc[s] # "limited" /\ req[s].user # NoUser =>
             asks'[req[s].user] * (MaxResends + 1) > Limit]_vars

\* A key that is over the limit is let in again, though it goes on asking.
LimitedForAWhile == \A k \in Key : window[k].count > Limit ~> window[k].count = 0

\* A signal, or a listener that fails, ends the process, though requests hang.
StopsWhenTold == (signalled \/ listener = "failed") ~> main = "exited"
=============================================================================
