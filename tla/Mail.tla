-------------------------------- MODULE Mail --------------------------------
(***************************************************************************)
(* Mail behind the circuit breaker: Register and Invite hand their mail to *)
(* the one breaker of the process, which counts the results of them all    *)
(* (internal/pkg/breaker) and stands before the mailer (internal/pkg/      *)
(* mailer).                                                                *)
(*                                                                         *)
(* A sender is a goroutine with one mail.  The breaker's lock makes what   *)
(* it does before and after the mail one step each; the mail itself is     *)
(* sent in between, without the lock, while other senders go on.           *)
(*                                                                         *)
(* gobreaker numbers its generations and ignores a result that arrives in  *)
(* a later generation than its mail began in: `mine' says of each sender   *)
(* whether its mail began in the present one.                              *)
(***************************************************************************)
EXTENDS Naturals, FiniteSets, FiniteSetsExt

CONSTANTS
    Sender,       \* requests with a mail, in flight at once
    MaxRequests,  \* mails the half-open breaker lets through
    MinRequests,  \* defaultMinRequests: mails before the closed breaker may trip
    Interval,     \* ticks after which the closed breaker forgets its counts
    Timeout,      \* ticks after which the open breaker becomes half-open
    MaxMails      \* bound on the mails of one generation

ASSUME MailAssumption ==
    /\ MaxRequests \in Nat \ {0} /\ MinRequests \in Nat \ {0}
    /\ Interval \in Nat \ {0} /\ Timeout \in Nat \ {0} /\ MaxMails \in Nat

VARIABLES
    breaker,    \* state, counts and ticks until the expiry of the breaker
    up,         \* does the mailer deliver: MockMailer.err is nil
    pc,         \* what each sender does next, "idle" without a mail
    mine,       \* did its mail begin in the breaker's present generation
    result,     \* what became of its mail, "none" before it is known
    begun,      \* history variable: mails let through in the last tick, two ticks, ...
    failed      \* history variable: failures reported in as many

sender  == <<pc, mine, result>>
past    == <<begun, failed>>
vars    == <<breaker, up, sender, past>>

Span    == 1..Max({Interval, Timeout})   \* of ticks the history recalls
Breaker == [state : {"closed", "half-open", "open"}, requests : 0..MaxMails,
            successes : 0..MaxMails, failures : 0..MaxMails, streak : 0..MaxMails,
            left : 0..Max({Interval, Timeout})]

TypeOK ==
    /\ breaker \in Breaker
    /\ up \in BOOLEAN
    /\ pc \in [Sender -> {"idle", "send", "after", "reply"}]
    /\ mine \in [Sender -> BOOLEAN]
    /\ result \in [Sender -> {"none", "sent", "failed", "refused"}]
    /\ begun \in [Span -> 0..MinRequests] /\ failed \in [Span -> 0..MinRequests]

-----------------------------------------------------------------------------
(* The breaker's own operations.                                            *)

\* Variant: the two settings are mixed up.
LifetimeSwapped(state) == CASE state = "closed" -> Timeout
                            [] state = "open" -> Interval
                            [] state = "half-open" -> 0

Lifetime(state) == CASE state = "closed" -> Interval
                     [] state = "open" -> Timeout
                     [] state = "half-open" -> 0

\* toNewGeneration, in the given state.
Fresh(state) == [state |-> state, requests |-> 0, successes |-> 0, failures |-> 0,
                 streak |-> 0, left |-> Lifetime(state)]

\* Variant: the closed breaker never forgets (an Interval of zero).
ExpiredWhenOpen == breaker.state = "open" /\ breaker.left = 0

\* Nothing happens at the expiry itself: the next look at the breaker finds it.
Expired == breaker.state # "half-open" /\ breaker.left = 0

CurrentState ==
    IF ~Expired THEN breaker
    ELSE IF breaker.state = "closed" THEN Fresh("closed") ELSE Fresh("half-open")

ReadyToTrip(b) == b.requests >= MinRequests /\ 2 * b.failures >= b.requests

\* Variant: one probe too many.
RefusesLate(b) == b.state = "open" \/ (b.state = "half-open" /\ b.requests > MaxRequests)

Refuses(b) == b.state = "open" \/ (b.state = "half-open" /\ b.requests >= MaxRequests)

\* Variant: the probes have to be more than there can be.
OnSuccessNever(b) ==
    [b EXCEPT !.successes = @ + 1, !.streak = @ + 1]

OnSuccess(b) ==
    IF b.state = "half-open" /\ b.streak + 1 >= MaxRequests
    THEN Fresh("closed")
    ELSE [b EXCEPT !.successes = @ + 1, !.streak = @ + 1]

OnFailure(b) ==
    LET counted == [b EXCEPT !.failures = @ + 1, !.streak = 0]
    IN  IF b.state = "half-open" \/ ReadyToTrip(counted) THEN Fresh("open") ELSE counted

\* The breaker becomes b; with a new generation the mails on their way are late.
Become(b, new) ==
    /\ breaker' = b
    /\ mine' = IF new THEN [s \in Sender |-> FALSE] ELSE mine

-----------------------------------------------------------------------------
(* A sender's steps: Execute up to the mail, the mail, the rest of Execute. *)

\* The history counts no further than MinRequests.
AddTo(counts, yes) ==
    [n \in Span |-> IF yes THEN Min({counts[n] + 1, MinRequests}) ELSE counts[n]]

Refuse(s) ==
    /\ pc[s] = "idle"
    /\ Refuses(CurrentState)
    /\ Become(CurrentState, Expired)
    /\ pc' = [pc EXCEPT ![s] = "reply"]
    /\ result' = [result EXCEPT ![s] = "refused"]
    /\ UNCHANGED <<up, past>>

Admit(s) ==
    LET b == CurrentState
    IN  /\ pc[s] = "idle"
        /\ ~Refuses(b)
        /\ b.requests < MaxMails
        /\ breaker' = [b EXCEPT !.requests = @ + 1]
        /\ mine' = [o \in Sender |-> o = s \/ (mine[o] /\ ~Expired)]
        /\ pc' = [pc EXCEPT ![s] = "send"]
        /\ begun' = AddTo(begun, TRUE)
        /\ UNCHANGED <<up, result, failed>>

\* The mailer answers at once; the messages it keeps, nobody reads.
Send(s) ==
    /\ pc[s] = "send"
    /\ pc' = [pc EXCEPT ![s] = "after"]
    /\ result' = [result EXCEPT ![s] = IF up THEN "sent" ELSE "failed"]
    /\ UNCHANGED <<breaker, up, mine, past>>

\* Variant: a result counts whenever it comes.
AfterRequestAnytime(s) ==
    LET b == CurrentState
        after == IF result[s] = "sent" THEN OnSuccess(b) ELSE OnFailure(b)
    IN  /\ pc[s] = "after"
        /\ Become(after, Expired \/ after.state # b.state)
        /\ pc' = [pc EXCEPT ![s] = "reply"]
        /\ failed' = AddTo(failed, result[s] = "failed")
        /\ UNCHANGED <<up, result, begun>>

\* A result that comes in the generation its mail began in is counted.
AfterRequest(s) ==
    LET b == CurrentState
        counts == mine[s] /\ ~Expired
        after == IF ~counts THEN b
                 ELSE IF result[s] = "sent" THEN OnSuccess(b) ELSE OnFailure(b)
    IN  /\ pc[s] = "after"
        /\ Become(after, Expired \/ after.state # b.state)
        /\ pc' = [pc EXCEPT ![s] = "reply"]
        /\ failed' = AddTo(failed, result[s] = "failed")
        /\ UNCHANGED <<up, result, begun>>

Return(s) ==
    /\ pc[s] = "reply"
    /\ pc' = [pc EXCEPT ![s] = "idle"]
    /\ mine' = [mine EXCEPT ![s] = FALSE]
    /\ result' = [result EXCEPT ![s] = "none"]
    /\ UNCHANGED <<breaker, up, past>>

-----------------------------------------------------------------------------
(* The mailer and time.                                                     *)

MailerTurns ==
    /\ up' = ~up
    /\ UNCHANGED <<breaker, sender, past>>

Older(counts) == [n \in Span |-> IF n = 1 THEN 0 ELSE counts[n - 1]]

Tick ==
    /\ breaker' = [breaker EXCEPT !.left = IF @ = 0 THEN 0 ELSE @ - 1]
    /\ begun' = Older(begun)
    /\ failed' = Older(failed)
    /\ UNCHANGED <<up, sender>>

-----------------------------------------------------------------------------
Init ==
    /\ breaker = Fresh("closed")
    /\ up = TRUE
    /\ pc = [s \in Sender |-> "idle"]
    /\ mine = [s \in Sender |-> FALSE]
    /\ result = [s \in Sender |-> "none"]
    /\ begun = [n \in Span |-> 0] /\ failed = [n \in Span |-> 0]

Step(s) == Send(s) \/ AfterRequest(s) \/ Return(s)

Next ==
    \/ \E s \in Sender : Refuse(s) \/ Admit(s) \/ Step(s)
    \/ MailerTurns
    \/ Tick

Spec == Init /\ [][Next]_vars

\* A mail on its way gets its answer and time passes.  Nothing is assumed of
\* the requests, nor of the mailer.
FairSpec == Spec /\ WF_vars(Tick) /\ \A s \in Sender : WF_vars(Step(s))

-----------------------------------------------------------------------------
(* Properties.                                                              *)

InFlight == {s \in Sender : pc[s] \in {"send", "after"} /\ mine[s]}

\* The counts are those of the mails begun in the present generation, each
\* counted once when it begins and once when its result is in: results that
\* come late, from before a trip or an interval that is over, count nowhere.
\* (And the state stays well typed.)
CountsMatchMails ==
    /\ TypeOK
    /\ breaker.requests = breaker.successes + breaker.failures + Cardinality(InFlight)
    /\ breaker.streak <= breaker.successes

\* The half-open breaker lets a few probes through, and while it refuses
\* everybody else one of them is still on its way to decide: it cannot stay
\* half-open and refuse for ever.
ProbesDecide ==
    breaker.state = "half-open" =>
        /\ breaker.requests <= MaxRequests
        /\ breaker.failures = 0
        /\ breaker.requests = MaxRequests => InFlight # {}

\* Mail is shut off for everybody only for a cause of the last Interval: that
\* many mails, and failures of half of them, however old the breaker is.
TripsForCause ==
    [][breaker.state = "closed" /\ breaker'.state = "open" =>
         /\ begun'[Interval] >= MinRequests
         /\ 2 * failed'[Interval] >= MinRequests]_vars

\* A mail is refused only within Timeout of a failure, or while a probe is on
\* its way.
RefusedForCause ==
    [][\A s \in Sender : result[s] # "refused" /\ result'[s] = "refused" =>
         failed[Timeout] > 0 \/ InFlight # {}]_vars

\* Once the mailer works for good, mail flows again: from some moment on no
\* mail is refused, however many were refused before and whoever asks.
MailFlowsAgain ==
    <>[]up => <>[](\A s \in Sender : result[s] # "refused")
=============================================================================
