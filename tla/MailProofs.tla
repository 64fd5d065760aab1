----------------------------- MODULE MailProofs -----------------------------
(***************************************************************************)
(* Theorems about Mail, for every number of senders and all settings of    *)
(* the breaker.                                                            *)
(***************************************************************************)
EXTENDS Mail, FiniteSetTheorems, TLAPS

-----------------------------------------------------------------------------
(* The inductive invariant.                                                 *)

\* The history counts up to MinRequests: it says of x that there were as many.
AtLeast(x, count) == count >= x \/ count = MinRequests

\* A breaker with k mails of its generation on their way.
Sound(b, k) ==
    /\ b \in Breaker
    /\ b.requests = b.successes + b.failures + k
    /\ b.streak <= b.successes
    /\ b.left <= Lifetime(b.state)
    /\ b.state = "half-open" => /\ b.requests <= MaxRequests
                                /\ b.failures = 0
                                /\ b.streak = b.successes
                                /\ b.successes < MaxRequests
    /\ b.state = "open" => b.requests = 0

\* What the closed breaker has counted, it has counted since its generation
\* began; and since the breaker opened, or with it, there was a failure.
Backed(b, through, failures) ==
    b.left > 0 =>
        /\ b.state = "closed" =>
             \A n \in Span : n > Interval - b.left =>
                 AtLeast(b.requests, through[n]) /\ AtLeast(b.failures, failures[n])
        /\ b.state = "open" => \A n \in Span : n > Timeout - b.left => failures[n] > 0

Resulting == \A s \in Sender : pc[s] = "after" => result[s] \in {"sent", "failed"}

IInv ==
    /\ TypeOK
    /\ IsFiniteSet(InFlight)
    /\ Sound(breaker, Cardinality(InFlight))
    /\ Backed(breaker, begun, failed)
    /\ Resulting

-----------------------------------------------------------------------------
(* Settings, histories and new generations.                                 *)

LEMMA MinAndMax ==
    ASSUME NEW a \in Nat, NEW b \in Nat
    PROVE  /\ Min({a, b}) = IF a <= b THEN a ELSE b
           /\ Max({a, b}) = IF a <= b THEN b ELSE a
<1>1. Min({a, b}) = IF a <= b THEN a ELSE b
  BY DEF Min
<1>2. Max({a, b}) = IF a <= b THEN b ELSE a
  BY DEF Max
<1> QED
  BY <1>1, <1>2

LEMMA Settings ==
    /\ Max({Interval, Timeout}) \in Nat
    /\ Interval \in Span /\ Timeout \in Span
    /\ \A n \in Span : n \in Nat /\ n > 0 /\ (n # 1 => n - 1 \in Span)
    /\ \A state \in {"closed", "half-open", "open"} :
         Lifetime(state) \in 0..Max({Interval, Timeout})
<1>1. Interval \in Nat \ {0} /\ Timeout \in Nat \ {0}
  BY MailAssumption
<1> DEFINE m == Max({Interval, Timeout})
<1>2. m = IF Interval <= Timeout THEN Timeout ELSE Interval
  BY <1>1, MinAndMax
<1>3. Span = 1..m
  BY DEF Span
<1> HIDE DEF m
<1>4. m \in Nat /\ Interval \in 1..m /\ Timeout \in 1..m
  BY <1>1, <1>2
<1>5. \A n \in 1..m : n \in Nat /\ n > 0 /\ (n # 1 => n - 1 \in 1..m)
  BY <1>4
<1>6. \A state \in {"closed", "half-open", "open"} : Lifetime(state) \in 0..m
  <2>1. Lifetime("closed") = Interval /\ Lifetime("open") = Timeout /\ Lifetime("half-open") = 0
    BY DEF Lifetime
  <2> QED
    BY <1>4, <2>1
<1> QED
  BY <1>3, <1>4, <1>5, <1>6 DEF m

LEMMA AddToAdds ==
    ASSUME NEW counts \in [Span -> 0..MinRequests], NEW yes \in BOOLEAN
    PROVE  /\ AddTo(counts, yes) \in [Span -> 0..MinRequests]
           /\ \A n \in Span :
                /\ counts[n] > 0 \/ yes => AddTo(counts, yes)[n] > 0
                /\ \A x \in Nat : AtLeast(x, counts[n]) =>
                     AtLeast(IF yes THEN x + 1 ELSE x, AddTo(counts, yes)[n])
<1>1. MinRequests \in Nat \ {0}
  BY MailAssumption
<1>2. ASSUME NEW n \in Span
      PROVE  /\ counts[n] \in 0..MinRequests
             /\ AddTo(counts, yes)[n] =
                  IF yes THEN IF counts[n] + 1 <= MinRequests THEN counts[n] + 1 ELSE MinRequests
                  ELSE counts[n]
  <2>1. counts[n] \in 0..MinRequests /\ counts[n] + 1 \in Nat
    BY <1>1
  <2>2. Min({counts[n] + 1, MinRequests})
          = IF counts[n] + 1 <= MinRequests THEN counts[n] + 1 ELSE MinRequests
    BY <1>1, <2>1, MinAndMax
  <2> QED
    BY <2>1, <2>2 DEF AddTo
<1>3. AddTo(counts, yes) = [n \in Span |-> AddTo(counts, yes)[n]]
  BY DEF AddTo
<1>4. \A n \in Span : AddTo(counts, yes)[n] \in 0..MinRequests
  BY <1>1, <1>2
<1>5. \A n \in Span : counts[n] > 0 \/ yes => AddTo(counts, yes)[n] > 0
  BY <1>1, <1>2
<1>6. ASSUME NEW n \in Span, NEW x \in Nat, AtLeast(x, counts[n])
      PROVE  AtLeast(IF yes THEN x + 1 ELSE x, AddTo(counts, yes)[n])
  BY <1>1, <1>2, <1>6 DEF AtLeast
<1> QED
  BY <1>3, <1>4, <1>5, <1>6

\* More in the history backs a breaker as well.
LEMMA MoreBacks ==
    ASSUME NEW b \in Breaker, Backed(b, begun, failed), TypeOK,
           NEW x \in BOOLEAN, NEW y \in BOOLEAN
    PROVE  Backed(b, AddTo(begun, x), AddTo(failed, y))
<1>1. begun \in [Span -> 0..MinRequests] /\ failed \in [Span -> 0..MinRequests]
  BY DEF TypeOK
<1>2. b.requests \in Nat /\ b.failures \in Nat
  BY MailAssumption DEF Breaker
<1>3. \A n \in Span, c \in Nat : AtLeast(c + 1, AddTo(begun, x)[n]) => AtLeast(c, AddTo(begun, x)[n])
  BY <1>1, AddToAdds, MailAssumption DEF AtLeast
<1>4. \A n \in Span, c \in Nat : AtLeast(c + 1, AddTo(failed, y)[n]) => AtLeast(c, AddTo(failed, y)[n])
  BY <1>1, AddToAdds, MailAssumption DEF AtLeast
<1>5. ASSUME NEW n \in Span
      PROVE  /\ AtLeast(b.requests, begun[n]) => AtLeast(b.requests, AddTo(begun, x)[n])
             /\ AtLeast(b.failures, failed[n]) => AtLeast(b.failures, AddTo(failed, y)[n])
             /\ failed[n] > 0 => AddTo(failed, y)[n] > 0
  BY <1>1, <1>2, <1>3, <1>4, AddToAdds
<1> QED
  BY <1>5 DEF Backed

LEMMA FreshIsSound ==
    ASSUME NEW state \in {"closed", "half-open", "open"}
    PROVE  /\ Fresh(state) \in Breaker /\ Sound(Fresh(state), 0)
           /\ Fresh(state).state = state /\ Fresh(state).requests = 0
           /\ Fresh(state).left = Lifetime(state)
<1> DEFINE b == Fresh(state)
<1>1. /\ b.state = state /\ b.requests = 0 /\ b.successes = 0 /\ b.failures = 0
      /\ b.streak = 0 /\ b.left = Lifetime(state)
  BY DEF Fresh
<1>2. b \in Breaker
  BY Settings, MailAssumption DEF Fresh, Breaker
<1>3. Lifetime(state) <= Lifetime(state)
  BY Settings
<1> HIDE DEF b
<1>4. Sound(b, 0)
  BY <1>1, <1>2, <1>3, MailAssumption DEF Sound
<1> QED
  BY <1>1, <1>2, <1>4 DEF b

LEMMA FreshIsBacked ==
    ASSUME NEW state \in {"closed", "half-open", "open"},
           NEW through \in [Span -> 0..MinRequests], NEW failures \in [Span -> 0..MinRequests],
           state = "open" => \A n \in Span : failures[n] > 0
    PROVE  Backed(Fresh(state), through, failures)
<1> DEFINE b == Fresh(state)
<1>1. b.state = state /\ b.requests = 0 /\ b.failures = 0
  BY DEF Fresh
<1> HIDE DEF b
<1>2. \A n \in Span : AtLeast(0, through[n]) /\ AtLeast(0, failures[n])
  BY MailAssumption DEF AtLeast
<1>3. Backed(b, through, failures)
  BY <1>1, <1>2 DEF Backed
<1> QED
  BY <1>3 DEF b

\* The mails on their way in the generation a look at the breaker finds.
Flying == IF Expired THEN {} ELSE InFlight

LEMMA CurrentIsSound ==
    ASSUME IInv
    PROVE  /\ IsFiniteSet(Flying) /\ Cardinality(Flying) \in Nat
           /\ CurrentState \in Breaker
           /\ Sound(CurrentState, Cardinality(Flying))
           /\ Backed(CurrentState, begun, failed)
<1>1. begun \in [Span -> 0..MinRequests] /\ failed \in [Span -> 0..MinRequests] /\ breaker \in Breaker
  BY DEF IInv, TypeOK
<1>2. CASE Expired
  <2>1. PICK state \in {"closed", "half-open"} : CurrentState = Fresh(state)
    BY <1>2 DEF CurrentState
  <2>2. Flying = {} /\ IsFiniteSet(Flying) /\ Cardinality(Flying) = 0
    BY <1>2, FS_EmptySet DEF Flying
  <2> QED
    BY <1>1, <2>1, <2>2, FreshIsSound, FreshIsBacked
<1>3. CASE ~Expired
  <2>1. CurrentState = breaker /\ Flying = InFlight
    BY <1>3 DEF CurrentState, Flying
  <2> QED
    BY <1>1, <2>1, FS_CardinalityType DEF IInv
<1> QED
  BY <1>2, <1>3

-----------------------------------------------------------------------------
(* Every step.                                                              *)

LEMMA Keeps ==
    ASSUME TypeOK', Resulting', NEW b, b = breaker', NEW flight, flight = InFlight',
           IsFiniteSet(flight), Sound(b, Cardinality(flight)),
           NEW through, through = begun', NEW failures, failures = failed',
           Backed(b, through, failures)
    PROVE  IInv'
BY DEF IInv, Sound, Backed, AtLeast

LEMMA RefuseKeeps ==
    ASSUME IInv, NEW s \in Sender, Refuse(s)
    PROVE  IInv'
<1>1. /\ breaker' = CurrentState /\ mine' = IF Expired THEN [o \in Sender |-> FALSE] ELSE mine
      /\ pc[s] = "idle" /\ pc' = [pc EXCEPT ![s] = "reply"]
      /\ result' = [result EXCEPT ![s] = "refused"]
      /\ UNCHANGED <<up, begun, failed>>
  BY DEF Refuse, Become, past
<1>2. TypeOK
  BY DEF IInv
<1>3. TypeOK'
  BY <1>1, <1>2, CurrentIsSound DEF TypeOK
<1>4. InFlight' = Flying
  BY <1>1, <1>2 DEF InFlight, Flying, TypeOK
<1>5. Resulting'
  BY <1>1, <1>2 DEF IInv, Resulting, TypeOK
<1>6. begun' = begun /\ failed' = failed
  BY <1>1
<1> QED
  BY <1>1, <1>3, <1>4, <1>5, <1>6, CurrentIsSound, Keeps

LEMMA AdmitKeeps ==
    ASSUME IInv, NEW s \in Sender, Admit(s)
    PROVE  IInv'
<1> DEFINE b == CurrentState
           n == [b EXCEPT !.requests = @ + 1]
<1>1. /\ pc[s] = "idle" /\ ~Refuses(b) /\ b.requests < MaxMails
      /\ breaker' = n
      /\ mine' = [o \in Sender |-> o = s \/ (mine[o] /\ ~Expired)]
      /\ pc' = [pc EXCEPT ![s] = "send"]
      /\ begun' = AddTo(begun, TRUE)
      /\ UNCHANGED <<up, result, failed>>
  BY DEF Admit
<1>2. TypeOK /\ begun \in [Span -> 0..MinRequests] /\ failed \in [Span -> 0..MinRequests]
  BY DEF IInv, TypeOK
<1>3. /\ b \in Breaker /\ Sound(b, Cardinality(Flying)) /\ Backed(b, begun, failed)
      /\ IsFiniteSet(Flying) /\ Cardinality(Flying) \in Nat
  BY CurrentIsSound
<1> HIDE DEF b
<1>4. /\ n \in Breaker /\ n.requests = b.requests + 1 /\ n.state = b.state /\ n.left = b.left
      /\ n.successes = b.successes /\ n.failures = b.failures /\ n.streak = b.streak
  BY <1>1, <1>3, MailAssumption DEF Breaker
<1> HIDE DEF n
<1>5. /\ b.requests \in Nat /\ b.successes \in Nat /\ b.failures \in Nat /\ b.streak \in Nat
  BY <1>3, MailAssumption DEF Breaker
<1>6. Sound(n, Cardinality(Flying) + 1)
  <2>1. n.state = "half-open" => n.requests <= MaxRequests
    BY <1>1, <1>4, <1>5, MailAssumption DEF Refuses
  <2>2. n.state # "open"
    BY <1>1, <1>4 DEF Refuses
  <2> QED
    BY <1>3, <1>4, <1>5, <2>1, <2>2 DEF Sound
<1>7. Backed(n, AddTo(begun, TRUE), failed)
  <2>1. ASSUME NEW i \in Span, AtLeast(b.requests, begun[i])
        PROVE  AtLeast(n.requests, AddTo(begun, TRUE)[i])
    BY <1>2, <1>4, <1>5, <2>1, AddToAdds
  <2> QED
    BY <1>3, <1>4, <2>1 DEF Backed
<1>8. InFlight' = Flying \cup {s} /\ s \notin Flying
  BY <1>1, <1>2 DEF InFlight, Flying, TypeOK
<1>9. IsFiniteSet(Flying \cup {s}) /\ Cardinality(Flying \cup {s}) = Cardinality(Flying) + 1
  BY <1>3, <1>8, FS_AddElement
<1>10. begun' \in [Span -> 0..MinRequests]
  BY <1>1, <1>2, AddToAdds
<1>11. mine' \in [Sender -> BOOLEAN] /\ pc' \in [Sender -> {"idle", "send", "after", "reply"}]
  BY <1>1, <1>2 DEF TypeOK
<1>12. TypeOK'
  BY <1>1, <1>2, <1>4, <1>10, <1>11 DEF TypeOK
<1>13. Resulting'
  BY <1>1, <1>2 DEF IInv, Resulting, TypeOK
<1>14. breaker' = n /\ begun' = AddTo(begun, TRUE) /\ failed' = failed
  BY <1>1
<1>15. Sound(n, Cardinality(Flying \cup {s}))
  BY <1>6, <1>9
<1> QED
  BY <1>7, <1>8, <1>9, <1>12, <1>13, <1>14, <1>15, Keeps

\* Steps that leave the breaker and the mails on their way as they are.
LEMMA QuietKeeps ==
    ASSUME IInv, TypeOK', Resulting', UNCHANGED <<breaker, past>>, InFlight' = InFlight
    PROVE  IInv'
<1>1. breaker' = breaker /\ begun' = begun /\ failed' = failed
  BY DEF past
<1> QED
  BY <1>1, Keeps DEF IInv

LEMMA SendKeeps ==
    ASSUME IInv, NEW s \in Sender, Send(s)
    PROVE  IInv'
<1>1. TypeOK
  BY DEF IInv
<1>2. TypeOK'
  BY <1>1 DEF Send, TypeOK, past
<1>3. Resulting'
  BY <1>1 DEF Send, TypeOK, IInv, Resulting
<1>4. InFlight' = InFlight
  BY <1>1 DEF Send, TypeOK, InFlight
<1> QED
  BY <1>2, <1>3, <1>4, QuietKeeps DEF Send

LEMMA ReturnKeeps ==
    ASSUME IInv, NEW s \in Sender, Return(s)
    PROVE  IInv'
<1>1. TypeOK
  BY DEF IInv
<1>2. TypeOK'
  BY <1>1 DEF Return, TypeOK, past
<1>3. Resulting'
  BY <1>1 DEF Return, TypeOK, IInv, Resulting
<1>4. InFlight' = InFlight
  BY <1>1 DEF Return, TypeOK, InFlight
<1> QED
  BY <1>2, <1>3, <1>4, QuietKeeps DEF Return

LEMMA MailerTurnsKeeps ==
    ASSUME IInv, MailerTurns
    PROVE  IInv'
<1>1. TypeOK' /\ Resulting' /\ InFlight' = InFlight /\ UNCHANGED <<breaker, past>>
  BY DEF MailerTurns, IInv, TypeOK, Resulting, InFlight, sender, past
<1> QED
  BY <1>1, QuietKeeps

LEMMA TickKeeps ==
    ASSUME IInv, Tick
    PROVE  IInv'
<1> DEFINE b == breaker
           n == [b EXCEPT !.left = IF @ = 0 THEN 0 ELSE @ - 1]
<1>1. /\ breaker' = n /\ begun' = Older(begun) /\ failed' = Older(failed)
      /\ UNCHANGED <<up, pc, mine, result>>
  BY DEF Tick, sender
<1>2. /\ TypeOK /\ b \in Breaker /\ Sound(b, Cardinality(InFlight)) /\ Backed(b, begun, failed)
      /\ begun \in [Span -> 0..MinRequests] /\ failed \in [Span -> 0..MinRequests]
  BY DEF IInv, TypeOK
<1> HIDE DEF b
<1>3. /\ b.left \in Nat /\ b.left \in 0..Max({Interval, Timeout}) /\ Lifetime(b.state) \in Nat
      /\ b.state \in {"closed", "half-open", "open"}
  BY <1>2, Settings DEF Breaker
<1>4. /\ n.requests = b.requests /\ n.state = b.state
      /\ n.successes = b.successes /\ n.failures = b.failures /\ n.streak = b.streak
      /\ n.left = IF b.left = 0 THEN 0 ELSE b.left - 1
  BY <1>2 DEF Breaker
<1>5. n \in Breaker
  <2>1. n.left \in 0..Max({Interval, Timeout})
    BY <1>3, <1>4, Settings
  <2> QED
    BY <1>2, <1>4, <2>1 DEF Breaker
<1> HIDE DEF n
<1>6. Sound(n, Cardinality(InFlight))
  <2>1. n.left <= Lifetime(n.state)
    BY <1>2, <1>3, <1>4 DEF Sound
  <2> QED
    BY <1>2, <1>4, <1>5, <2>1 DEF Sound
<1>7. /\ Older(begun) \in [Span -> 0..MinRequests] /\ Older(failed) \in [Span -> 0..MinRequests]
      /\ \A i \in Span : i # 1 => Older(begun)[i] = begun[i - 1] /\ Older(failed)[i] = failed[i - 1]
  BY <1>2, Settings, MailAssumption DEF Older
<1>8. Backed(n, Older(begun), Older(failed))
  <2>1. SUFFICES ASSUME n.left > 0 PROVE Backed(n, Older(begun), Older(failed))
    BY DEF Backed
  <2>2. b.left > 0 /\ n.left = b.left - 1 /\ b.left <= Lifetime(b.state)
    BY <1>2, <1>3, <1>4, <2>1 DEF Sound
  <2>3. ASSUME b.state = "closed", NEW i \in Span, i > Interval - n.left
        PROVE  AtLeast(n.requests, Older(begun)[i]) /\ AtLeast(n.failures, Older(failed)[i])
    <3>1. i - 1 > Interval - b.left /\ i # 1
      BY <1>3, <2>2, <2>3, Settings, MailAssumption DEF Lifetime
    <3> QED
      BY <1>2, <1>4, <1>7, <2>2, <2>3, <3>1, Settings DEF Backed
  <2>4. ASSUME b.state = "open", NEW i \in Span, i > Timeout - n.left
        PROVE  Older(failed)[i] > 0
    <3>1. i - 1 > Timeout - b.left /\ i # 1
      BY <1>3, <2>2, <2>4, Settings, MailAssumption DEF Lifetime
    <3> QED
      BY <1>2, <1>7, <2>2, <2>4, <3>1, Settings DEF Backed
  <2> QED
    BY <1>4, <2>3, <2>4 DEF Backed
<1>9. TypeOK' /\ Resulting' /\ InFlight' = InFlight
  BY <1>1, <1>2, <1>5, <1>7 DEF TypeOK, IInv, Resulting, InFlight
<1> QED
  BY <1>1, <1>6, <1>8, <1>9, Keeps DEF IInv

\* The breaker after a result of its own generation, with k mails still on
\* their way: a new generation, or one more counted.
LEMMA SuccessIsSound ==
    ASSUME NEW b \in Breaker, NEW k \in Nat, Sound(b, k + 1), Backed(b, begun, failed), TypeOK
    PROVE  \/ OnSuccess(b) = Fresh("closed") /\ b.state = "half-open"
           \/ /\ Sound(OnSuccess(b), k) /\ OnSuccess(b).state = b.state
              /\ Backed(OnSuccess(b), begun, failed)
<1> DEFINE n == [b EXCEPT !.successes = @ + 1, !.streak = @ + 1]
<1>1. CASE b.state = "half-open" /\ b.streak + 1 >= MaxRequests
  BY <1>1 DEF OnSuccess
<1>2. CASE ~(b.state = "half-open" /\ b.streak + 1 >= MaxRequests)
  <2>1. OnSuccess(b) = n
    BY <1>2 DEF OnSuccess
  <2>2. /\ b.requests \in 0..MaxMails /\ b.successes \in Nat /\ b.failures \in Nat /\ b.streak \in Nat
        /\ MaxMails \in Nat
    BY MailAssumption DEF Breaker
  <2>3. /\ n.requests = b.requests /\ n.state = b.state /\ n.left = b.left
        /\ n.successes = b.successes + 1 /\ n.failures = b.failures /\ n.streak = b.streak + 1
    BY DEF Breaker
  <2>4. b.requests = b.successes + b.failures + (k + 1) /\ b.streak <= b.successes
    BY DEF Sound
  <2>5. n.successes \in 0..MaxMails /\ n.streak \in 0..MaxMails
    BY <2>2, <2>3, <2>4
  <2>6. n \in Breaker
    BY <2>5 DEF Breaker
  <2> HIDE DEF n
  <2>7. n.requests = n.successes + n.failures + k /\ n.streak <= n.successes
    BY <2>2, <2>3, <2>4
  <2>8. n.state = "half-open" => n.streak = n.successes /\ n.successes < MaxRequests
    BY <1>2, <2>2, <2>3, MailAssumption DEF Sound
  <2>9. Sound(n, k)
    BY <2>3, <2>6, <2>7, <2>8 DEF Sound
  <2>10. Backed(n, begun, failed)
    BY <2>3 DEF Backed
  <2> QED
    BY <2>1, <2>3, <2>9, <2>10
<1> QED
  BY <1>1, <1>2

LEMMA FailureIsSound ==
    ASSUME NEW b \in Breaker, NEW k \in Nat, Sound(b, k + 1), Backed(b, begun, failed), TypeOK
    PROVE  \/ OnFailure(b) = Fresh("open") /\ b.state # "open"
           \/ /\ Sound(OnFailure(b), k) /\ OnFailure(b).state = b.state
              /\ Backed(OnFailure(b), begun, AddTo(failed, TRUE))
<1> DEFINE n == [b EXCEPT !.failures = @ + 1, !.streak = 0]
<1>1. /\ b.requests \in 0..MaxMails /\ b.successes \in Nat /\ b.failures \in Nat /\ b.streak \in Nat
      /\ MaxMails \in Nat
  BY MailAssumption DEF Breaker
<1>2. b.requests = b.successes + b.failures + (k + 1) /\ b.streak <= b.successes
  BY DEF Sound
<1>3. b.state # "open"
  BY <1>1, <1>2 DEF Sound
<1>4. CASE b.state = "half-open" \/ ReadyToTrip(n)
  BY <1>3, <1>4 DEF OnFailure
<1>5. CASE ~(b.state = "half-open" \/ ReadyToTrip(n))
  <2>1. OnFailure(b) = n
    BY <1>5 DEF OnFailure
  <2>2. /\ n.requests = b.requests /\ n.state = b.state /\ n.left = b.left
        /\ n.successes = b.successes /\ n.failures = b.failures + 1 /\ n.streak = 0
    BY DEF Breaker
  <2>3. b.failures + 1 \in 0..MaxMails /\ 0 \in 0..MaxMails
    BY <1>1, <1>2
  <2>4. n \in Breaker
    BY <2>3 DEF Breaker
  <2> HIDE DEF n
  <2>5. n.requests = n.successes + n.failures + k /\ n.streak <= n.successes
    BY <1>1, <1>2, <2>2
  <2>6. Sound(n, k)
    BY <1>3, <1>5, <2>2, <2>4, <2>5 DEF Sound
  <2>7. Backed(n, begun, AddTo(failed, TRUE))
    <3>1. failed \in [Span -> 0..MinRequests]
      BY DEF TypeOK
    <3>2. ASSUME NEW i \in Span, AtLeast(b.failures, failed[i])
          PROVE  AtLeast(n.failures, AddTo(failed, TRUE)[i])
      BY <1>1, <2>2, <3>1, <3>2, AddToAdds
    <3> QED
      BY <1>3, <2>2, <3>2 DEF Backed
  <2> QED
    BY <2>1, <2>2, <2>6, <2>7
<1> QED
  BY <1>4, <1>5

LEMMA AfterRequestKeeps ==
    ASSUME IInv, NEW s \in Sender, AfterRequest(s)
    PROVE  IInv'
<1> DEFINE b == CurrentState
           y == result[s] = "failed"
<1>1. PICK after :
         /\ after = IF ~(mine[s] /\ ~Expired) THEN b
                    ELSE IF result[s] = "sent" THEN OnSuccess(b) ELSE OnFailure(b)
         /\ breaker' = after
         /\ mine' = IF Expired \/ after.state # b.state THEN [o \in Sender |-> FALSE] ELSE mine
         /\ pc[s] = "after" /\ pc' = [pc EXCEPT ![s] = "reply"]
         /\ failed' = AddTo(failed, y)
         /\ UNCHANGED <<up, result, begun>>
  BY DEF AfterRequest, Become
<1>2. TypeOK /\ begun \in [Span -> 0..MinRequests] /\ failed \in [Span -> 0..MinRequests]
  BY DEF IInv, TypeOK
<1>3. /\ b \in Breaker /\ Sound(b, Cardinality(Flying)) /\ Backed(b, begun, failed)
      /\ IsFiniteSet(Flying) /\ Cardinality(Flying) \in Nat
  BY CurrentIsSound
<1>4. failed' \in [Span -> 0..MinRequests] /\ y \in BOOLEAN
  BY <1>1, <1>2, AddToAdds
<1>5. result[s] \in {"sent", "failed"}
  BY <1>1 DEF IInv, Resulting
<1>6. AddTo(begun, FALSE) = begun /\ AddTo(failed, FALSE) = failed
  BY <1>2 DEF AddTo
<1> HIDE DEF b
\* What is left to show of each case: the flight and the breaker.
<1>7. ASSUME NEW flight, flight = InFlight', IsFiniteSet(flight),
             Sound(after, Cardinality(flight)), Backed(after, begun, AddTo(failed, y))
      PROVE  IInv'
  <2>1. after \in Breaker
    BY <1>7 DEF Sound
  <2>2. mine' \in [Sender -> BOOLEAN] /\ pc' \in [Sender -> {"idle", "send", "after", "reply"}]
    BY <1>1, <1>2 DEF TypeOK
  <2>3. TypeOK'
    BY <1>1, <1>2, <1>4, <2>1, <2>2 DEF TypeOK
  <2>4. Resulting'
    BY <1>1, <1>2 DEF IInv, Resulting, TypeOK
  <2>5. breaker' = after /\ begun' = begun /\ failed' = AddTo(failed, y)
    BY <1>1
  <2> QED
    BY <1>7, <2>3, <2>4, <2>5, Keeps
<1>8. CASE ~(mine[s] /\ ~Expired)
  <2>1. after = b
    BY <1>1, <1>8
  <2>2. InFlight' = Flying
    BY <1>1, <1>2, <1>8, <2>1 DEF InFlight, Flying, TypeOK
  <2>3. Backed(b, begun, AddTo(failed, y))
    BY <1>2, <1>3, <1>4, <1>6, MoreBacks
  <2> QED
    BY <1>3, <1>7, <2>1, <2>2, <2>3
<1>9. CASE mine[s] /\ ~Expired
  <2> DEFINE rest == InFlight \ {s}
             k    == Cardinality(rest)
  <2>1. Flying = InFlight /\ s \in InFlight
    BY <1>1, <1>9 DEF Flying, InFlight
  <2>2. IsFiniteSet(rest) /\ k \in Nat /\ Cardinality(Flying) = k + 1
    <3>1. IsFiniteSet(InFlight) /\ Cardinality(InFlight) \in Nat
      BY <1>3, <2>1
    <3>2. IsFiniteSet(rest) /\ Cardinality(rest) = Cardinality(InFlight) - 1
      BY <2>1, <3>1, FS_RemoveElement
    <3>3. Cardinality(rest) \in Nat
      BY <3>2, FS_CardinalityType
    <3> QED
      BY <2>1, <3>1, <3>2, <3>3
  <2>3. ASSUME after.state = b.state PROVE InFlight' = rest
    BY <1>1, <1>2, <1>9, <2>3 DEF InFlight, TypeOK
  <2>4. ASSUME after.state # b.state
        PROVE  InFlight' = {} /\ IsFiniteSet({}) /\ Cardinality({}) = 0
    BY <1>1, <2>4, FS_EmptySet DEF InFlight
  <2>5. Sound(b, k + 1)
    BY <1>3, <2>2
  <2> HIDE DEF rest, k
  <2>6. CASE result[s] = "sent"
    <3>1. after = OnSuccess(b) /\ AddTo(failed, y) = failed
      BY <1>1, <1>6, <1>9, <2>6
    <3>2. CASE after = Fresh("closed") /\ b.state = "half-open"
      <4>1. /\ after.state # b.state /\ Sound(after, 0)
            /\ Backed(after, begun, failed)
        BY <1>2, <3>2, FreshIsSound, FreshIsBacked
      <4> QED
        BY <1>7, <2>4, <3>1, <4>1
    <3>3. CASE Sound(after, k) /\ after.state = b.state /\ Backed(after, begun, failed)
      BY <1>7, <2>2, <2>3, <3>1, <3>3 DEF k
    <3> QED
      BY <1>2, <1>3, <2>2, <2>5, <3>1, <3>2, <3>3, SuccessIsSound
  <2>7. CASE result[s] = "failed"
    <3>1. after = OnFailure(b) /\ AddTo(failed, y) = AddTo(failed, TRUE)
      BY <1>1, <1>9, <2>7
    <3>2. CASE after = Fresh("open") /\ b.state # "open"
      <4>1. \A n \in Span : AddTo(failed, TRUE)[n] > 0
        BY <1>2, AddToAdds
      <4>2. AddTo(failed, TRUE) \in [Span -> 0..MinRequests]
        BY <1>2, AddToAdds
      <4>3. /\ after.state # b.state /\ Sound(after, 0)
            /\ Backed(after, begun, AddTo(failed, TRUE))
        BY <1>2, <3>2, <4>1, <4>2, FreshIsSound, FreshIsBacked
      <4> QED
        BY <1>7, <2>4, <3>1, <4>3
    <3>3. CASE Sound(after, k) /\ after.state = b.state /\ Backed(after, begun, AddTo(failed, TRUE))
      BY <1>7, <2>2, <2>3, <3>1, <3>3 DEF k
    <3> QED
      BY <1>2, <1>3, <2>2, <2>5, <3>1, <3>2, <3>3, FailureIsSound
  <2> QED
    BY <1>5, <2>6, <2>7
<1> QED
  BY <1>8, <1>9

LEMMA InvStarts == Init => IInv
<1> SUFFICES ASSUME Init PROVE IInv
  OBVIOUS
<1>1. begun \in [Span -> 0..MinRequests] /\ failed \in [Span -> 0..MinRequests]
  BY MailAssumption DEF Init
<1>2. breaker = Fresh("closed")
  BY DEF Init
<1>3. InFlight = {} /\ IsFiniteSet(InFlight) /\ Cardinality(InFlight) = 0
  BY FS_EmptySet DEF Init, InFlight
<1>4. TypeOK
  BY <1>1, <1>2, FreshIsSound DEF Init, TypeOK
<1>5. Resulting
  BY DEF Init, Resulting
<1> QED
  BY <1>1, <1>2, <1>3, <1>4, <1>5, FreshIsSound, FreshIsBacked DEF IInv

LEMMA InvSteps == IInv /\ [Next]_vars => IInv'
<1> SUFFICES ASSUME IInv, [Next]_vars PROVE IInv'
  OBVIOUS
<1>1. CASE UNCHANGED vars
  <2>1. TypeOK' /\ Resulting' /\ InFlight' = InFlight /\ UNCHANGED <<breaker, past>>
    BY <1>1 DEF vars, sender, past, IInv, TypeOK, Resulting, InFlight
  <2> QED
    BY <2>1, QuietKeeps
<1>2. ASSUME NEW s \in Sender, Refuse(s) \/ Admit(s) \/ Step(s) PROVE IInv'
  BY <1>2, RefuseKeeps, AdmitKeeps, SendKeeps, AfterRequestKeeps, ReturnKeeps DEF Step
<1> QED
  BY <1>1, <1>2, MailerTurnsKeeps, TickKeeps DEF Next

LEMMA InvHolds == Spec => []IInv
BY InvStarts, InvSteps, PTL DEF Spec

-----------------------------------------------------------------------------
(* Theorems.                                                                *)

\* Each mail of the present generation is counted once when it begins and once
\* when its result is in, and no other is: results that come late count nowhere.
THEOREM CountsAreRight == Spec => []CountsMatchMails
<1>1. IInv => CountsMatchMails
  BY DEF IInv, Sound, CountsMatchMails
<1> QED
  BY <1>1, InvHolds, PTL

\* A half-open breaker that refuses has a probe on its way to decide.
THEOREM AProbeDecides == Spec => []ProbesDecide
<1>1. ASSUME IInv, breaker.state = "half-open"
      PROVE  /\ breaker.requests <= MaxRequests /\ breaker.failures = 0
             /\ breaker.requests = MaxRequests => InFlight # {}
  <2>1. /\ Sound(breaker, Cardinality(InFlight)) /\ breaker \in Breaker
        /\ breaker.successes \in Nat
    BY <1>1, MailAssumption DEF IInv, TypeOK, Breaker
  <2>2. InFlight = {} => Cardinality(InFlight) = 0
    BY FS_EmptySet
  <2> QED
    BY <1>1, <2>1, <2>2, MailAssumption DEF Sound
<1>2. IInv => ProbesDecide
  BY <1>1 DEF ProbesDecide
<1> QED
  BY <1>2, InvHolds, PTL

\* The closed breaker opens only on what the last Interval has seen: mails
\* enough, and failures of half of as many.
THEOREM TripsHaveCause == Spec => TripsForCause
<1> DEFINE Cause == /\ begun'[Interval] >= MinRequests
                    /\ 2 * failed'[Interval] >= MinRequests
           Trips == breaker.state = "closed" /\ breaker'.state = "open" => Cause
<1>1. ASSUME IInv, breaker.state = "closed"
      PROVE  CurrentState.state = "closed" /\ (CurrentState # breaker => Expired)
  <2>1. CurrentState = breaker \/ CurrentState = Fresh("closed")
    BY <1>1 DEF CurrentState, Expired
  <2> QED
    BY <1>1, <2>1, FreshIsSound DEF CurrentState
<1>2. ASSUME IInv, NEW s \in Sender, Refuse(s), breaker.state = "closed" PROVE breaker'.state = "closed"
  BY <1>1, <1>2 DEF Refuse, Become
<1>3. ASSUME IInv, NEW s \in Sender, Admit(s), breaker.state = "closed" PROVE breaker'.state = "closed"
  BY <1>1, <1>3, CurrentIsSound DEF Admit, Breaker
<1>4. ASSUME IInv, NEW s \in Sender, AfterRequest(s),
             breaker.state = "closed", breaker'.state = "open"
      PROVE  Cause
  <2> DEFINE b == breaker
             n == [b EXCEPT !.failures = @ + 1, !.streak = 0]
  <2>1. /\ Sound(b, Cardinality(InFlight)) /\ b \in Breaker /\ Backed(b, begun, failed)
        /\ begun \in [Span -> 0..MinRequests] /\ failed \in [Span -> 0..MinRequests]
        /\ pc[s] = "after" => result[s] \in {"sent", "failed"}
    BY <1>4 DEF IInv, TypeOK, Resulting
  <2>2. CurrentState.state = "closed"
    BY <1>1, <1>4
  <2>3. mine[s] /\ ~Expired
    <3>1. SUFFICES ASSUME ~(mine[s] /\ ~Expired) PROVE FALSE
      OBVIOUS
    <3>2. breaker' = CurrentState
      BY <1>4, <3>1 DEF AfterRequest, Become
    <3> QED
      BY <1>4, <2>2, <3>2
  <2>4. CurrentState = b
    BY <1>1, <1>4, <2>3
  <2>5. breaker' = IF result[s] = "sent" THEN OnSuccess(b) ELSE OnFailure(b)
    BY <1>4, <2>3, <2>4 DEF AfterRequest, Become
  <2>6. result[s] # "sent"
    <3>1. SUFFICES ASSUME result[s] = "sent" PROVE FALSE
      OBVIOUS
    <3>2. breaker' = [b EXCEPT !.successes = @ + 1, !.streak = @ + 1]
      BY <1>4, <2>5, <3>1 DEF OnSuccess
    <3>3. breaker'.state = b.state
      BY <2>1, <3>2 DEF Breaker
    <3> QED
      BY <1>4, <3>3
  <2>7. begun' = begun /\ failed' = AddTo(failed, TRUE)
    BY <1>4, <2>1, <2>6 DEF AfterRequest
  <2>8. ReadyToTrip(n)
    <3>1. SUFFICES ASSUME ~ReadyToTrip(n) PROVE FALSE
      OBVIOUS
    <3>2. breaker' = n
      BY <1>4, <2>5, <2>6, <3>1 DEF OnFailure
    <3>3. breaker'.state = b.state
      BY <2>1, <3>2 DEF Breaker
    <3> QED
      BY <1>4, <3>3
  <2>9. /\ b.requests \in Nat /\ b.failures \in Nat /\ b.left \in Nat
        /\ n.requests = b.requests /\ n.failures = b.failures + 1
    BY <2>1, Settings, MailAssumption DEF Breaker
  <2>10. b.requests >= MinRequests /\ 2 * (b.failures + 1) >= b.requests
    BY <2>8, <2>9 DEF ReadyToTrip
  <2>11. b.left > 0
    BY <1>4, <2>3, <2>9 DEF Expired
  <2> HIDE DEF n, b
  <2>12. Interval \in Span /\ Interval > Interval - b.left
    BY <2>9, <2>11, Settings, MailAssumption
  <2>13. AtLeast(b.requests, begun[Interval]) /\ AtLeast(b.failures, failed[Interval])
    BY <1>4, <2>1, <2>11, <2>12 DEF Backed, b
  <2>14. AtLeast(b.failures + 1, AddTo(failed, TRUE)[Interval])
    BY <2>1, <2>9, <2>12, <2>13, AddToAdds
  <2> DEFINE x == AddTo(failed, TRUE)[Interval]
             y == begun[Interval]
  <2>15. x \in 0..MinRequests /\ y \in 0..MinRequests /\ MinRequests \in Nat
    <3>1. AddTo(failed, TRUE) \in [Span -> 0..MinRequests]
      BY <2>1, AddToAdds
    <3>2. MinRequests \in Nat
      BY MailAssumption
    <3> QED
      BY <2>1, <2>12, <3>1, <3>2
  <2>16. AtLeast(b.failures + 1, x) /\ AtLeast(b.requests, y)
    BY <2>13, <2>14
  <2> HIDE DEF x, y
  <2>17. y >= MinRequests
    BY <2>9, <2>10, <2>15, <2>16 DEF AtLeast
  <2>18. 2 * x >= MinRequests
    <3>1. x >= b.failures + 1 \/ x = MinRequests
      BY <2>16 DEF AtLeast
    <3> QED
      BY <2>9, <2>10, <2>15, <3>1
  <2> QED
    BY <2>7, <2>17, <2>18 DEF x, y
<1>5. ASSUME IInv, [Next]_vars, breaker.state = "closed", breaker'.state = "open" PROVE Cause
  <2>1. breaker \in Breaker
    BY <1>5 DEF IInv, TypeOK
  <2>2. ~Tick
    BY <1>5, <2>1 DEF Tick, Breaker
  <2>3. PICK s \in Sender : Refuse(s) \/ Admit(s) \/ AfterRequest(s)
    BY <1>5, <2>2 DEF Next, Step, Send, Return, MailerTurns, vars
  <2> QED
    BY <1>2, <1>3, <1>4, <1>5, <2>3
<1>6. IInv /\ [Next]_vars => [Trips]_vars
  BY <1>5
<1> QED
  BY <1>6, InvHolds, PTL DEF Spec, TripsForCause

\* Nobody is refused without a failure within Timeout or a probe on its way.
THEOREM RefusalsHaveCause == Spec => RefusedForCause
<1> DEFINE Cause   == failed[Timeout] > 0 \/ InFlight # {}
           Refused == \A s \in Sender : result[s] # "refused" /\ result'[s] = "refused" => Cause
<1>1. ASSUME IInv, NEW s \in Sender, Refuse(s) PROVE Cause
  <2>1. /\ Backed(breaker, begun, failed) /\ breaker \in Breaker
        /\ breaker.left \in Nat /\ breaker.requests \in Nat
        /\ Sound(breaker, Cardinality(InFlight)) /\ breaker.successes \in Nat
    BY <1>1, Settings, MailAssumption DEF IInv, TypeOK, Breaker
  <2>2. CurrentState = breaker /\ ~Expired
    <3>1. SUFFICES ASSUME Expired PROVE FALSE
      BY DEF CurrentState
    <3>2. PICK state \in {"closed", "half-open"} : CurrentState = Fresh(state)
      BY <3>1 DEF CurrentState
    <3>3. CurrentState.state # "open" /\ CurrentState.requests = 0
      BY <3>2, FreshIsSound
    <3> QED
      BY <1>1, <3>3, MailAssumption DEF Refuse, Refuses
  <2>3. CASE breaker.state = "open"
    <3>1. breaker.left > 0
      BY <2>1, <2>2, <2>3 DEF Expired
    <3>2. Timeout \in Span /\ Timeout > Timeout - breaker.left
      BY <2>1, <3>1, Settings, MailAssumption
    <3> QED
      BY <2>1, <2>3, <3>1, <3>2 DEF Backed
  <2>4. CASE breaker.state = "half-open" /\ breaker.requests >= MaxRequests
    <3>1. InFlight = {} => Cardinality(InFlight) = 0
      BY FS_EmptySet
    <3>2. breaker.requests = breaker.successes + Cardinality(InFlight) /\ breaker.successes < MaxRequests
      BY <2>1, <2>4 DEF Sound
    <3> QED
      BY <2>1, <2>4, <3>1, <3>2, MailAssumption
  <2> QED
    BY <1>1, <2>2, <2>3, <2>4 DEF Refuse, Refuses
<1>2. ASSUME IInv, [Next]_vars, NEW s \in Sender, result[s] # "refused", result'[s] = "refused"
      PROVE  Cause
  <2>1. result \in [Sender -> {"none", "sent", "failed", "refused"}]
    BY <1>2 DEF IInv, TypeOK
  <2>2. \E o \in Sender : Refuse(o)
    BY <1>2, <2>1 DEF Next, Step, Admit, Send, AfterRequest, Return, MailerTurns, Tick, vars, sender
  <2> QED
    BY <1>1, <1>2, <2>2
<1>3. IInv /\ [Next]_vars => [Refused]_vars
  BY <1>2
<1> QED
  BY <1>3, InvHolds, PTL DEF Spec, RefusedForCause
=============================================================================
