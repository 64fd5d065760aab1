# A verification development for the team and task service

The repository is an HTTP service in Go: users register and log in, found
teams, invite each other into them by mail, and keep tasks with a history,
comments and reports. Requests are served concurrently by goroutines, share a
MySQL database through a bounded connection pool, and share Redis (rate
limiter, cache of task lists) and a mailer behind a circuit breaker.

These TLA+ modules model the parts of the service where the order of steps
matters, TLC checks them on small instances, and TLAPS proves their
safety properties for instances of any size. `PROJECT.json` maps every definition to
the lines it models.

## 1. The system

| component | source | state | operations | what is hard |
|---|---|---|---|---|
| auth service | `internal/service/auth` | `users` | Register, Login | user row persists when the welcome mail fails; the role in a token is a snapshot |
| teams service | `internal/service/teams` | `teams`, `team_members`, `team_invites` | CreateTeam, ListTeams, Invite, AcceptInvite | checks outside the transaction that writes; one-time codes; mail after commit; lost answers |
| tasks service | `internal/service/tasks` | `tasks`, `task_history` | Create, List, Update, History | row lock, second connection inside a transaction, `completed_at`, list cache |
| comments service | `internal/service/comments` | `task_comments` | Create, List, Update, Delete | read-check-write without a transaction |
| reports service | `internal/service/reports` | none | TeamSummary, TopCreators, InvalidAssignees | joins that multiply or drop rows, time windows, ties |
| list cache | `internal/pkg/cache` | Redis keys with a TTL | Get, Set | never invalidated; slow readers |
| circuit breaker, mailer | `internal/pkg/breaker`, `internal/pkg/mailer` | counts, state; messages | Execute; Send | one breaker for all requests, closed / open / half-open; results that come late |
| rate limiter | `internal/pkg/http/middlewares`, `internal/pkg/redis` | Redis counter per user or claimed address | per request | fixed window, failing Redis, scripts sent again, tokens that expire |
| middlewares | `internal/app/middlewares` | none | JWT, RBAC, schema validation | stale role |
| application | `internal/app`, `cmd`, `internal/pkg/http` | handles, HTTP server | New, run, shutdown | cleanup on partial failure, shutdown order |
| configuration, logging, metrics, generated API | `internal/config`, `internal/pkg/logger`, `internal/api` | none | | no behaviour of their own |

Components interact by calls: a middleware chain (rate limiter, validation,
JWT, RBAC) leads to a handler, which calls one method of one service, which
makes a sequence of repository, cache and mailer calls. The services never call
each other; they meet in the tables. `team_members` is the hub: teams writes
it, tasks and comments check against it.

## 2. The plan

Order of work, most important first. "Done" is what this directory holds.

1. **Teams** (done): the teams service, and the abstract **Membership** it
   implements.
2. **Tasks** (done): Create, Update and History of the tasks service over the
   connection pool, and the abstract **TaskStore** they implement.
3. **Comments** and **Paging** (done): the comments service.
4. **TaskLists** (done): List of the tasks service with its Redis cache.
5. **Sessions** (done): registration, login, tokens, JWT and RBAC.
6. **Mail** (done): the counting of the circuit breaker, shared by concurrent
   senders.
7. **Reports** (done): the three queries over tables that change.
8. **RateLimit** and **Server** (done): the fixed window in Redis, and the
   process that asks it: start-up with the clean-up of each early return, shutdown
   against requests in flight, a Redis client that sends again what got no answer.
9. Proofs (done): the types, safety invariants and action properties of every
   component, and the two refinements (section 5).
10. Pagination on machine integers, where a huge page overflows (see the hazard
    at `repo/mysql/tasks.go:124`).

Modules compose by instance: `Promise == INSTANCE Membership WITH ...` in Teams,
`Promise == INSTANCE TaskStore` in Tasks; Comments and TaskLists extend Paging,
Server extends RateLimit.
What one module takes from another service is an environment action with the
guarantee that service's own module checks (`MembersAdd` in Tasks, Comments and
TaskLists; `Found` and `Join` in Sessions and Reports are the deeds of
Membership, `CreateTask`, `Close` and `Reopen` in Reports those of TaskStore).

## 3. How the modules read

A *slot* is a goroutine that serves one request at a time. `pc[s]` names the
call (`"members.Add"`, `"tx.Commit"`, ...) the handler in slot `s` makes next,
`"idle"` without a request, `"reply"` when it is about to answer 2xx. There is
one action per call, named as the method called, or as the question asked where
several handlers ask it (`CallerIsMember`). A statement outside a transaction
reads and writes the committed tables in one step. A statement inside a
transaction adds to `tx[s]`, holds the locks of the rows it wrote, and reaches
the tables at the commit. `Finish` is every return: it rolls an open
transaction back, as the deferred `tx.Rollback()` does. An action that ends in
the error branch of the code ends in `Finish`.

Between any two calls another slot may run, the process may die (`Crash`), a
statement may fail without effect (`DatabaseFails`: driver error, cancelled
context, lock wait timeout), and a committed write may be reported as an error
(`CommitUnheard`, `InvitesCreateUnheard`, `TasksCreateUnheard`, `Unheard` in
Comments, the second branch of `UsersCreate` in Sessions).

Constants such as `User`, `Code` or `Task` are the pools ids are drawn from;
the only bound a model needs beyond them is named: `MaxClock`, `MaxEdits`,
`MaxWrites`, `Span`, `MaxMails`, `MaxResends`, `MaxDay`, `MaxAssigned`, `MaxDone`. History
variables (`issued`, `uses`, `mailed`, `born`, `doneSince`, `since`, `gone`, `age`,
`welcomed`, `led`, `begun`, `failed`, `asks`, `counted`, `passes`, `byHand`) record what happened
for the properties and guard nothing, with two exceptions: `issued` and `gone` keep ids
from being drawn twice.

An operator commented *Variant* is a plausible mistake in the code at that
place: a guard dropped, a lock not taken, an error not looked at. Every checked
property has one that breaks it (`PROJECT.json`, "mutants"), so that no property
holds whatever the code does. Each module's `TypeOK` is checked, by itself or as
a conjunct of another invariant.

### Teams

| state | code |
|---|---|
| `account` | table `users` (id and email; addresses equal up to case are one mailbox) |
| `teams`, `members`, `invites` | the tables, with the primary key of `team_members` and the unique code of `team_invites` |
| `pc`, `req`, `tx` | the handlers: where they are, what they were asked and have read, what they have written and not committed |

`CreateTeam` is `TeamsCreate`, `MembersAdd`, `Commit`. `Invite` is
`TeamsExists`, `GetRole`, `FindIDByEmail`, `InviteeIsMember`, `InvitesCreate`,
`MailerSend`, none of it in a transaction. `AcceptInvite` asks three questions
outside its transaction (`GetByCode`, `GetEmailByID`, `AccepterIsMember`) and
then writes inside it (`MembersAdd`, `DeleteByCode`, `Commit`). The breaker is the
freedom of `MailerFails`. Two INSERTs of one key wait for each other
(`RowLocked`), as do two DELETEs of one code (`CodeLocked`); nothing else waits.

**Membership** is the same tables without any of this: four atomic deeds,
Register, Found, Offer, Join. The refinement maps `open` to the rows of
`team_invites` and `spent` to the codes with a committed accept.

### Tasks

`tasks`, `history` and `members` are tables, `current` the handler's copy of the
row, `tx` its connection, row lock and uncommitted row and history entry. A
transaction keeps one of the `MaxOpen` connections; every other query needs a
free one for its own step (`PoolFree`). `Update` is `BeginTx`, `GetForUpdate`
(which checks the creator), `AssigneeIsMember` when an assignee is named (on the
pool, while the transaction is open), `TasksUpdate`, `HistoryAdd`, `Commit`.
`Merge`, `Diff` and `CompletedAt` translate what the service computes of the
optional fields, the list of changes and `completed_at`. `clock` counts in units
of the report's window.

`History` is `GetTeamID`, `CallerIsMember` and `ListByTask`, which answers in any
of the orders ORDER BY `changed_at` allows: the column has seconds, and edits of
one second tie. The clock is one for all goroutines and does not run back; with
several instances that is an assumption about their hosts.

**TaskStore** is the rows alone: creating and editing in one step, an edit by the
creator, of the row the edit before it left.

### Comments

No transactions: Create and List ask `GetTeamID` and `CallerIsMember` first,
Update and Delete ask `Get` (comment, task and author in one question), and each
write is one statement by id. `since` collects the writes that took effect
since a request arrived, so that a reply can be compared with what happened
during the request. **Paging** has the normalisation of `page` and `per_page`
and the set of answers ORDER BY, LIMIT and OFFSET allow when sort keys are equal.

### TaskLists

`cache` is Redis: items under a key made of the normalised request, with the
ticks they have left. A hit takes the items from the cache and only the total
from the database; a miss, which an error of Redis counts as, reads both and
stores the items. No writer touches the cache. `age` is how long ago the items
of a request or an entry were what the database had.

### Sessions

`users` has email and password of each account, `tokens` what has been signed
and has not expired, with the role found at signing. `Register` stores the
account, then mails; `Login` finds the account, its highest role, and signs. A
guarded request takes user and role from a token, passes `Rbac`, and then the
check the service makes in the tables: `"admitted"` is where Teams or Tasks take
over, `"forbidden"` the 403 of the middleware. `led` remembers of a login whether
its account managed a team when the request arrived.

### Mail

`breaker` is gobreaker's state: the counts of the present generation and the
ticks until its expiry, which nothing but the next look at the breaker notices
(`CurrentState`). Execute is three steps of a sender: `Refuse` or `Admit` under
the breaker's lock, `Send` without it, `AfterRequest` under it again. gobreaker
numbers its generations and drops a result whose mail began in an earlier one;
`mine` says the same without numbers. `begun[n]` and `failed[n]` are a record of
the past that the breaker does not have: the mails let through, and the failures
reported, in the last `n` ticks, counted up to `MinRequests`. The configuration (`Lifetime`, `Refuses`,
`ReadyToTrip`) is this repository's; the rest of the breaker is the library,
modelled from its behaviour and marked external. `BreakerMailer` composes the
two the way the services do with `s.breaker.Execute(send)`. The bound
`MaxMails` stands on the mails of one generation.

### RateLimit and Server

`window` is the counter of each key in Redis with the time it has left. The
limiter's script counts, and sets the expiry of a counter it creates, in one
step (`Incremented`); what is counted under which key is `KeyOf`: the user, or,
for a request without one, the address. The engine trusts every proxy
(`gin.New` in `internal/pkg/http/server.go`), so the address is what the request
says it is: `Request` lets any request without a user name any of them. Redis
keeps its counters over a restart, as the deployment configures it.

`redis.New` leaves the client's retries at their default. A script whose answer
is lost is sent again (`Resend`), has run or not, and counts again if it runs:
`counted` remembers that the request is among those `asks` has of its user, so
that `asks` is the number of requests and `window` the number of times the script
ran. `MaxResends` is how many tries more than one the script can have run in: 6
in production, for go-redis sends a command four times, and the limiter starts
over once when Redis no longer knows the script, in which case the last try of
the first round has not run. A script whose answer is lost has run by the time
the client gives up, or never does.

In Server `main` is the next call of the main goroutine: through app.New, one
step per call that can fail (`Boot`, `After`), `serve`, and the calls of the
shutdown function. `ClosedBy` names the Close calls of each early return of
app.New, and `NewFails` closes those and no others. `handles` are the clients the
process holds open, `listener` the other goroutine and its socket. A request goes
through the limiter and is answered: with a 429 (`"limited"`), or by whatever
handles it behind the limiter, or by the limiter's error handler (`"answer"`).
`KeptAlive` are the requests that come on connections a client already has.
`Killed` and `Restart` may come at any point.

### Reports

A report is one SELECT, so it sees one state of the tables: each query is an
operator, built from the joins, conditions and groups of its text. `Joined`
pairs every member with every task, as the two LEFT JOINs do. `RowNumbers` and
`InOrder` give all the numberings and orders SQL allows among equals, and
`Grouped` is what the service makes of the rows: a list for each team, in the
order its rows come. Between reports the other
services found and join teams and create, close and reopen tasks; a row may
also come in by hand, with an assignee from outside the team, which is what the
third report is for. Days are the unit of the clock, and the service and MySQL
share it: the service writes UTC and the deployment's MySQL runs in UTC.

## 4. What the runs check

| run | instance | question |
|---|---|---|
| `teams_safety` | 2 slots, 3 users, 3 mailboxes, 2 teams, 1 code, fair (160 000 states) | do tables and replies agree, do the tables move by the deeds of Membership only, is every request answered |
| `tasks_safety` | 2 slots, 2 users, 1 task, 3 drafts, 3 patches, 2 edits, 3 connections, fair (242 000) | does the history explain the row and come out in order, is `completed_at` right, do rows move by TaskStore only, is every request answered with one connection to spare |
| `tasks_starved` | 2 slots, 2 tasks, 2 connections, fair | *violated*: nobody is answered |
| `tasks_done7d` | 1 slot, 2 edits, 2 clock ticks | *violated*: an old task counts as recently done |
| `comments_safety` | 2 slots, 2 users, 2 comments, 2 tasks (1 820 000) | who writes and sees what, is a reply true, is an undisturbed page exact |
| `tasklists_safety` | 2 slots, 2 users, 2 tasks, 2 pages of a list and another list (4 040 000) | does a shared cache mix up requests |
| `tasklists_fresh` | 2 slots, 1 list, TTL 2 ticks, fair (149 000) | how stale can a list be, does it get fresh |
| `sessions_safety` | 2 slots, 2 accounts, mailboxes, passwords and teams (877 000) | one account per mailbox, what tokens say, and whether a new login catches up |
| `sessions_stale_role` | 1 slot, 1 user, 1 team | *violated*: an owner is forbidden to invite |
| `mail` | 2 senders, 2 probes, trips at 3 mails, interval 2, timeout 1, fair (81 000) | does the breaker count right, trip and refuse for cause, and let mail flow again |
| `server` | 2 slots, 1 user, 1 address, limit 2, 1 resend, period 2, fair (358 000) | what start-up and shutdown leave open, whom the limiter refuses, does the process stop |
| `reports` | 3 users, 2 teams, 3 tasks, 3 days in months of 2, top 2 (1 830 000) | does each report say what the tables hold |

The properties, in words:

- Teams. `OneGrantPerCode`: a code admits at most once, however many handlers
  have read it. `SpentCodeMadeMember`: no interleaving, fault or crash burns a
  code. `MembersWereInvited`: nobody but a founder is in a team without an
  invitation to their own mailbox from somebody who runs the team.
  `EveryTeamHasItsOwner`: founding is all or nothing. `OkReplyIsTrue`: a 2xx
  agrees with the tables at that moment. `ImplementsMembership`.
  `EveryRequestIsAnswered`.
- Tasks. `HistoryReplaysToRow`: replaying the entries over the created task gives
  the row, and each entry starts from what the one before it left, so no update
  is lost. `NoInvalidAssignees`: no edit, in any order with others and with faults,
  leaves a task with somebody from outside its team. `HistoryIsToldInOrder`: a member who reads
  the history is told every edit committed before the request, in order up to
  edits of one moment, because `now` is taken under the row lock. `DoneIsDated`,
  `OkReplyIsTrue`, `ImplementsTaskStore`, `EveryRequestIsAnswered`.
- Comments. `AuthorsWrite`: although UPDATE and DELETE look at the id only, a
  comment is changed only on a request of its author that names its task.
  `DeletedForGood`: an edit racing a deletion brings nothing back.
  `OkReplyIsTrue`: a 2xx means that the write happened while the request ran, or
  that the comment was deleted under it. `UndisturbedListIsExact`: a page is shown
  to members only and, when nobody wrote meanwhile, is the right one.
- TaskLists. `RepliesMatchRequests`: a shared entry answers what was asked, page
  included, and whom it may. `BoundedStaleness`: items are younger
  than one TTL and the time of two requests, slow readers that overwrite newer
  lists included. `ListsConverge`: once writes stop, every list gets fresh.
- Sessions. `OneAccountPerMailbox`, `RegisteredCanLogin`, `TokensDoNotOverstate`
  (who is called owner or admin is so in some team), `LoginCatchesUp` (a login that
  begins after its user came to manage a team gets a role that opens the managers'
  route, whatever joins and registrations run beside it). That a guarded request
  gets nowhere without the role in the team at hand is `MembersWereInvited` of Teams.
- Mail. `CountsMatchMails`: each mail of a generation is counted once when it
  begins and once when it ends, and late results nowhere. `ProbesDecide`: the
  half-open breaker cannot refuse for ever, since one of its probes is on its
  way. `TripsForCause` and `RefusedForCause`: mail is shut off only for failures
  of the last interval, and refused only within a timeout of a failure or while a
  probe runs; both compare the breaker with `begun` and `failed`.
  `MailFlowsAgain`: when the mailer works for good, refusals end.
- Server. `ServedByOpenClients`: whichever call of app.New fails, its early return
  has closed the clients opened before it; later they are closed under no request
  before the deadline. `StopsWhenTold`: a signal or a failed listener ends the
  process though handlers hang. `PassesWithinLimit`: neither a failing Redis, nor
  scripts sent again, nor a restart lets more through than the limit.
  `RefusedForCause`: a user who is answered 429 has made more than
  `Limit / (MaxResends + 1)` requests in the window that is running, so neither
  neighbours behind an address nor requests of an earlier window count against
  them, and resending is all that can make the limit smaller than it says: down to
  15 requests instead of 101 when Redis answers none of them in time. Nothing like
  it holds for requests without a user, and nothing is claimed of them.
  `LimitedForAWhile`: asking on does not keep a key out.
- Reports. `SummaryIsExact`: each member and task is counted once and no team is
  missing, although the joins pair members with tasks. `CreatorsAreTheBusiest`:
  nobody busier is left out of a team's list, whatever the ties.
  `OnlyRowsByHandAreInvalid`: the third report never shows a task the service
  created.

### Bounds

Two slots give every race between two handlers at every pair of their calls;
each property speaks of one row and at most two handlers that compete for it.
Faults and crashes need no third slot: they may hit either one at any call.
Three users and mailboxes in Teams are an inviter, an addressee and a stranger;
two teams let a role in one be mistaken for a role in the other. One code is
enough for two handlers to compete for it (and one text for two edits of a
comment); that several codes do not disturb each other is proved (section 5),
not checked. Two edits of one task close and
reopen it, or race, with patches that overlap in a field, change nothing, or
assign. One comment on two tasks lets a request name the wrong one; two comments
give pages an order, and equal and different times. Three lists of one team,
each pair of which differs in the filter or the page only, are the cases a cache
key can get wrong. `Span` bounds
how long a request runs, which the code leaves to the client and the database:
`BoundedStaleness` is stated relative to it. `MaxAge` caps `age` at the first
value the property excludes. Symmetry is used over slots, ids and, where
nothing tells them apart, users, mailboxes and texts, and only in runs without
a liveness property.

Two senders are a probe and another probe, or a late result and a new mail;
three mails let the breaker trip with failures of two generations of senders.
One signed-in user and one address give the two keys one client can have, with
and without a token. With a limit of two and one resend a user can be refused at
the second request, when one of the two was counted twice, and not at the first;
the proofs hold for every limit and every number of resends. In Reports three users and three tasks fill a list
of two creators and leave one out, in every kind of tie; two teams with three
tasks let one team's numbering run into the other's; three days make two months
and an edge of the window. At most one task has an assignee (`MaxAssigned`) and
two are done (`MaxDone`), which is as many as one row of a report can confuse.

### Disagreements

- `tasks_starved`: `Update` (`service.go:238`) asks the pool for a second
  connection while its transaction keeps one. With as many updates naming an
  assignee in flight as connections, each waits for one of the others for ever:
  `database/sql` has no limit on that wait, so the only way out is that a client
  gives up. The specification of this run even lets lock waits time out.
- `tasks_done7d`: `completed_at` is set to the time of the edit whenever the
  resulting status is done, so a task done long ago and retitled today counts
  among those "done за 7 дней" of `api/openapi.yml:353`.
- `sessions_stale_role`: RBAC compares the role in the token, so the founder of
  a team is refused the invitation that `api/openapi.yml:107` gives owners until
  they log in again.

### Fairness

`FairSpec` of Teams and Tasks assumes weak fairness of every call that can be
made (a goroutine that can run is scheduled, the database executes what it is
sent) and strong fairness of the calls that wait: InnoDB grants row locks in
arrival order and `database/sql` serves requests for a connection in arrival
order, so a waiting call that is possible again and again is not passed over for
ever. TaskLists assumes that handlers go on and that time passes, Mail that a mail
handed to the mailer gets its answer and that time passes. Server assumes that
the main goroutine runs, that the timer of its shutdown fires and that time
passes, and nothing of its requests: a handler may hang for ever. Nothing is
assumed anywhere of clients, writers, faults, evictions or crashes.

## 5. What is proved

Every safety invariant, action property and refinement that a run checks is also
a theorem, for every value of the constants: any number of users, mailboxes,
teams, tasks, codes, pages, limits, times to live and concurrent requests. TLC
checked each inductive invariant on the instances of section 4 before it was
proved.

The assumptions are named in the modules, and TLC evaluates them on every run.

| assumption | says | justified by |
|---|---|---|
| `TeamsAssumption` | the seed account is a user with a mailbox | `migrations/data/0001_seed_admin.sql` |
| `TasksAssumption` | what requests carry: patches are of the fields of a task, a draft has a title; there is a connection | the schema's validator, the handlers |
| `SlotAssumption` (Tasks) | finitely many requests are in flight; needed because `MaxEdits` counts them | a server has finite memory |
| `SessionsAssumption`, `MailAssumption`, `RateLimitAssumption`, `ServerAssumption`, `PagingAssumption`, `ReportsAssumption` | times, limits and sizes are natural numbers, and not zero where zero would mean something else (no expiry, no limit); users and addresses are different keys | `configs/config.yml`, `internal/pkg/breaker`, the limiter's key |
| `CommentsAssumption`, `TaskListsAssumption` | the pools of comments and tasks are finite; needed to count a page | tables are finite |
| `AccountAssumption`, `NoneAssumption`, `RowAssumption` | NULL (`None`) is no row, number or change | SQL |

| theorem | module | statement |
|---|---|---|
| `TypeCorrect` | TeamsProofs | `Spec => []TypeOK` |
| `OneGrant` | TeamsProofs | `Spec => []OneGrantPerCode` |
| `SpentCodesMadeMembers` | TeamsProofs | `Spec => []SpentCodeMadeMember` |
| `MembersInvited` | TeamsProofs | `Spec => []MembersWereInvited` |
| `OwnersPresent` | TeamsProofs | `Spec => []EveryTeamHasItsOwner` |
| `RepliesTrue` | TeamsProofs | `Spec => []OkReplyIsTrue` |
| `TeamsImplementsMembership` | TeamsProofs | `Spec => ImplementsMembership` |
| `ServerTypeCorrect` | ServerProofs | `Spec => []TypeOK` |
| `LimitHolds` | ServerProofs | `Spec => []PassesWithinLimit` |
| `ClientsOutliveRequests` | ServerProofs | `Spec => []ServedByOpenClients` |
| `RefusalsHaveCause` | ServerProofs | `Spec => RefusedForCause` |
| `NoEditIsLost` | TasksProofs | `Spec => []HistoryReplaysToRow` |
| `TruthfulReplies` | TasksProofs | `Spec => []OkReplyIsTrue` |
| `ValidAssignees` | TasksProofs | `Spec => []NoInvalidAssignees` |
| `DatedTasks` | TasksProofs | `Spec => []DoneIsDated` |
| `HistoryInOrder` | TasksProofs | `Spec => []HistoryIsToldInOrder` |
| `TasksImplementTaskStore` | TasksProofs | `Spec => ImplementsTaskStore` |
| `NoneComesBack` | CommentsProofs | `Spec => []DeletedForGood` |
| `TruthfulReplies` | CommentsProofs | `Spec => []OkReplyIsTrue` |
| `ExactLists` | CommentsProofs | `Spec => []UndisturbedListIsExact` |
| `OnlyAuthorsWrite` | CommentsProofs | `Spec => AuthorsWrite` |
| `ListsFitRequests` | TaskListsProofs | `Spec => []RepliesMatchRequests` |
| `StalenessIsBounded` | TaskListsProofs | `Spec => []BoundedStaleness` |
| `OneAccount` | SessionsProofs | `Spec => []OneAccountPerMailbox` |
| `RegisteredLogin` | SessionsProofs | `Spec => []RegisteredCanLogin` |
| `TokensTrue` | SessionsProofs | `Spec => []TokensDoNotOverstate` |
| `LoginsCatchUp` | SessionsProofs | `Spec => []LoginCatchesUp` |
| `CountsAreRight` | MailProofs | `Spec => []CountsMatchMails` |
| `AProbeDecides` | MailProofs | `Spec => []ProbesDecide` |
| `TripsHaveCause` | MailProofs | `Spec => TripsForCause` |
| `RefusalsHaveCause` | MailProofs | `Spec => RefusedForCause` |
| `OnlyByHand` | ReportsProofs | `Spec => []OnlyRowsByHandAreInvalid` |
| `SummaryCountsOnce` | ReportsProofs | `Spec => SummaryIsExact` |
| `BusiestAreListed` | ReportsProofs | `Spec => CreatorsAreTheBusiest` |

What follows is the argument of each: the inductive invariant, and the step that
carries the weight.

### Teams

`TypeOK` is not inductive: a handler's arguments have a type that depends on how
far it is. `TypeInv` adds `Serving`, which ties `pc` to the operation and the
operation to its arguments.

The safety invariants are not inductive either, because they say nothing of the
handlers in flight. `Inv` (module TeamsInvariant) adds what each handler knows
and holds: `TxShape` (a transaction holds exactly what its handler has
written), `Admission` (past its INSERT a handler is the only one admitting that
user to that team), `AcceptKnows`, `InviteKnows`, `CreateKnows` (what the
questions asked so far have told, and that it stays true), and of the tables
`UniqueMailboxes`, `CodeLife` (a code is unissued, issued and unused, or used
once and gone) and `IssuedByManagers`.

The step that matters is the commit of AcceptInvite (`AcceptHoldsInvite`). The
invitation was read outside the transaction and may have been spent since. If it
had been, its addressee would be in the team; mailboxes are unique, so the
addressee is the caller; but the caller's INSERT succeeded, and `Admission` says
that nobody else can have admitted them since. So the invitation is still there,
and `DeleteByCode`, which does not look at the number of rows it deleted, did
delete it. The argument uses that nobody is ever removed from a team, which is
so in this code: with a removal, the primary key would no longer stand in for
the check that is missing.

The refinement follows from the same invariant: a commit of CreateTeam is Found,
one of AcceptInvite is Join, an INSERT of an invitation is Offer, and all other
calls are stutters.

### Server

The two bounds of the limiter are two different accounts of one counter. From
above: the requests of a window that passed under a key are no more than its
counter, and no more than the limit (`CountsAreTrue`). That is inductive by
itself, because a script that is sent again only raises the counter, and it
gives `PassesWithinLimit`. From below: a refusal must have a cause, and here the
resends of go-redis matter, since a request may raise the counter once for each
try it has. `Left(u)` is the set of scripts that may still run for the requests
of user u that are counted in its window: one for each try left to a request in
flight. While the user has asked no more than `Limit` times in the window,
`Budgeted` says that the counter and `Left(u)` together stay within
`(MaxResends + 1)` for each request asked. The try that runs a script moves one
unit from `Left(u)` to the counter, a request that is new in the window brings
its own `MaxResends + 1`, and a request that leaves takes what it has left with
it; `CountedThere` says that no request elsewhere has tries in the account. From
this follows `RefusedForCause`, for signed-in users: the key of anybody else is
an address the request itself claims, so no bound on what one client asked
follows from it.

`LifeIsOrdered` says at each call of the main goroutine which clients are open,
that no request runs before the listener does, and that past `server.Shutdown`
requests run only after the deadline. An early return of app.New is right when
its Close calls (`ClosedBy`) are all that is open at its call.

### Tasks

`Inv` (module TasksInvariant) says of each row that its history explains it
(`Replayed`), is in the order of its times (`Timely`) and dates it (`Dated`), and
of each handler what it knows at each call. The row lock is in `UpdateKnows` and
`Apart`: while an Update holds its row, the copy it read is the row, and no other
handler holds it; so what it merges, records and dates (`Written`, `Recorded`) is
made of the last committed edit when it commits. Without the lock (`GetUnlocked`, a mutant) two edits
race and the history no longer replays. `AssigneeKnown` survives from the
question to the write because nobody leaves a team. `now` is taken under the
lock and the clock does not run back, so entries are appended in the order of
their times, and what History returns is that order but for ties (`Told`, a
permutation within equal times). `Bounded` counts the updates in flight, since a
bound looked at when a request arrives has to hold when it commits.

The refinement is the same argument read as an action: the commit of an Update
is an edit, by the creator, of the row the edit before it left; the INSERT of
Create is a creation; all else is a stutter.

### Comments

The statements that write look at the id alone, so everything hangs on what the
SELECT before them told and on ids never being given out twice. `SlotsInv` says
for each handler that the comment it read was the caller's, on the task named,
and is so still or is gone (`Allowed`), that a Create's id is free (`IdIsFree`),
and that two Creates have different ids (`Apart`). `ListsExactly` is what makes
`UndisturbedListIsExact` inductive: as long as `since` holds no write to the
task, the items read are a page of the comments as they are. That a page is the
comments of its ranks when times differ is a fact of its own about OFFSET and
LIMIT (`PageHasRanks`), proved by counting: the oldest k rows are those with at
most k rows as old.

### TaskLists

`RepliesMatchRequests` needs that an entry fits its key and that the key holds
everything the query depends on (`Caching`, `Fits`); that the team can fill the
pages before the one shown (`Roomy`) stays true in the cache because tasks are
added and never removed. `Dense` bounds the numbers of the creation times. For `BoundedStaleness` the invariant adds up ages: an entry's
age and the life it has left are together at most `TTL + Span`, since it was at
most `Span` old when it was stored; a handler's items are at most as much older as
its own time running. So staleness does not grow from one refill to the next: a
refill takes its items from the database and never from the entry it replaces.

### Sessions

`Welcome` says that between its INSERT and its answer a registration is the only
one past that point for its mailbox, and that the account has the password it was
asked to have; with `WelcomedOnce` and `UniqueMailboxes` the unique key on `email` gives
`OneAccountPerMailbox`. `SignsTrueRoles` carries a role from the query to the
signature; it and `TokensDoNotOverstate` are inductive because roles are never
taken away in this code. What does change is that somebody gains a role that
their token does not have (run `sessions_stale_role`), and `Refreshing` follows a
new login until it has that role: the account found is the one that led the team,
since mailboxes are unique, and the roles read are no fewer than those it had.

### Mail

`Sound` says of a breaker with k mails of its generation on their way that its
requests are the successes, the failures and those k, and of a half-open one
that it has let through at most `MaxRequests`, none of which failed. A
half-open breaker that refuses has let through `MaxRequests` and has seen fewer
successes, so k > 0: `ProbesDecide`. `Backed` compares the breaker with the
history: what a closed breaker has counted, it has counted within the last
`Interval - left` ticks, and an open one was opened by a failure within the last
`Timeout - left`. That is why a trip has its cause in the last interval although
nothing resets the counts at the expiry itself, only the next look at them.

### Reports

Tasks with an assignee outside the team came by hand (`Assigned`), done tasks
have a date that is not in the future (`Dated`), and there are finitely many
tasks. The summary's exactness is that of the joins: the records of a product of
two sets that are not empty, as LEFT JOIN makes them, have exactly the elements
of each set in their fields (`JoinedMembers`, `JoinedTasks`), so that COUNT
DISTINCT counts each once. For the busiest creators, `FirstNumbers` shows that of
rows numbered 1, 2, ... those up to `TopN` are `TopN` or all, `SequenceOfAll` that
a list has each of them, and `CountedRows` that there is one row for each team
and creator; none of it depends on the numbering or order chosen among equals.

### Only model-checked

The liveness properties, which need fairness and ENABLED, out of this prover's
reach: `EveryRequestIsAnswered` (Teams, Tasks), `ListsConverge`, `MailFlowsAgain`,
`LimitedForAWhile`, `StopsWhenTold`. The three disagreements are
counterexamples and nothing to prove.

## 6. What is not modelled

- Schema validation, CORS, metrics, logging:
  they refuse or observe requests before a handler starts and change no table.
  CORS answers OPTIONS requests before the limiter; such requests are no part of
  Server.
- The migrations themselves, which goose applies; to Server they are a call that
  may fail, and their keys and seed account are part of the modules.
- The life and idle times of pooled connections, and the time Redis calls wait
  for one.
- Configuration and generated API code: no behaviour of their own. MySQL, Redis,
  `database/sql`, `net/http`, gobreaker and the limiter library are modelled from
  how the code uses them: autocommitted statements, locks on written rows, unique
  keys, entries with a time to live, generations of counts.
- In Teams and Sessions a mail is refused, sent, or sent and reported as failed at
  any time, which is more than Mail allows the breaker; they are not composed with
  Mail, whose counts would multiply their states and change none of their
  properties. Likewise a shutdown is a crash with requests in flight to them.
- Error wording, and the statuses of errors: `mapError` is a table without state,
  and a handler that returns an error ends in `Finish`, whatever the status.
- What is in front of the service in a deployment, and with it whose the address
  of a request without a user is.
- Passwords are compared, not hashed; tokens carry what they sign. Pages are small
  numbers: the overflow of a huge page is a hazard without a property.
