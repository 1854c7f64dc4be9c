-------------------------- MODULE RetryCall_proofs --------------------------
(****************************************************************************)
(* Theorems about RetryCall for every set of calls and methods, every value *)
(* of DFC_RETRY_MAX_ATTEMPTS and every pair of backoffs.                    *)
(****************************************************************************)
EXTENDS RetryCall, FiniteSetTheorems, TLAPS

\* What call c has used up of its attempts where it is.
WithinLimit(c) ==
  /\ pc[c] = "idle" => attempt[c] = 0 /\ applied[c] = 0
  /\ pc[c] = "sending" => attempt[c] \in 1 .. Limit /\ applied[c] < attempt[c]
  /\ pc[c] = "sleeping" =>
       attempt[c] \in 1 .. Limit /\ attempt[c] < max_attempts
         /\ applied[c] <= attempt[c]
  /\ pc[c] = "done" => attempt[c] <= Limit /\ applied[c] <= attempt[c]

\* A call that ended on a failure it could have retried has made them all.
GivenUp(c) ==
  pc[c] = "done" /\ outcome[c] # "dropped" /\ is_retryable(status[c])
    => attempt[c] = Limit

LimitInv == TypeOK /\ \A c \in Calls : WithinLimit(c) /\ GivenUp(c)

\* The sendings counted before they are made, and those that may be.
Sleeping == {c \in Calls : pc[c] = "sleeping"}

CountInv ==
  /\ IsFiniteSet(Resendings) /\ IsFiniteSet(Asleep) /\ IsFiniteSet(Sleeping)
  /\ Cardinality(Resendings) + Cardinality(Sleeping) <= retries
  /\ retries <= Cardinality(Resendings) + Cardinality(Asleep)

-----------------------------------------------------------------------------
(* Lemmas about the helpers *)

\* A call may be sent at least once, whatever is configured.
LEMMA LimitType ==
  ASSUME TypeOK
  PROVE  Limit \in Nat \ {0} /\ max_attempts \in Nat /\ max_attempts <= Limit
BY RetryAssumption DEF TypeOK, Limit

\* The next backoff is one a call may have.
LEMMA NextBackoffType ==
  ASSUME NEW b \in InitialBackoff .. MaxBackoff
  PROVE  NextBackoff(b) \in InitialBackoff .. MaxBackoff
BY RetryAssumption DEF NextBackoff, Smaller

\* An outcome is one of those listed, and "ok" only for a 2xx.
LEMMA OutcomeType ==
  ASSUME NEW m, NEW s \in Statuses, NEW readable \in BOOLEAN
  PROVE  /\ Outcome(m, s, readable) \in Outcomes \ {"dropped"}
         /\ Outcome(m, s, readable) = "ok" => s = "2xx"
BY DEF Outcome, Outcomes

\* A retryable failure that is not retried is the last one.
LEMMA LastOne ==
  ASSUME NEW c \in Calls, NEW s \in Statuses, ~SendsAgain(c, s),
         is_retryable(s), LimitInv, pc[c] = "sending"
  PROVE  attempt[c] = Limit
<1>1. Fails(method[c], s)
  BY DEF is_retryable, Fails
<1>2. ~(attempt[c] < max_attempts)
  BY <1>1 DEF SendsAgain
<1>3. attempt[c] \in 1 .. Limit
  BY DEF LimitInv, WithinLimit
<1> QED BY <1>2, <1>3, LimitType, RetryAssumption DEF Limit, LimitInv, TypeOK

-----------------------------------------------------------------------------
(* Each step keeps the attempts within the limit *)

\* Initially no call has been sent.
LEMMA LimitInit == Init => LimitInv
BY RetryAssumption
   DEF Init, LimitInv, TypeOK, WithinLimit, GivenUp, Labels, Outcomes

\* Begin keeps the invariant.
LEMMA BeginLimit ==
  ASSUME LimitInv, NEW c \in Calls, NEW m \in Called, Begin(c, m)
  PROVE  LimitInv'
<1>1. TypeOK'
  BY DEF LimitInv, TypeOK, Begin, Labels
<1>2. Limit' = Limit /\ Limit \in Nat \ {0}
  BY LimitType DEF Begin, Limit, LimitInv
<1>3. ASSUME NEW d \in Calls PROVE WithinLimit(d)' /\ GivenUp(d)'
  BY <1>2, <1>3 DEF LimitInv, TypeOK, WithinLimit, GivenUp, Begin
<1> QED BY <1>1, <1>3 DEF LimitInv

\* Return keeps the invariant: what could have been retried has been.
LEMMA ReturnLimit ==
  ASSUME LimitInv, NEW c \in Calls, NEW s \in Statuses, Return(c, s)
  PROVE  LimitInv'
<1>1. PICK n \in {0, 1} : applied' = [applied EXCEPT ![c] = @ + n]
  BY DEF Return, Receive
<1>2. PICK readable \in BOOLEAN :
        outcome' = [outcome EXCEPT ![c] = Outcome(method[c], s, readable)]
  BY DEF Return
<1>3. Outcome(method[c], s, readable) \in Outcomes
  BY OutcomeType
<1>4. TypeOK'
  BY <1>1, <1>2, <1>3, RetryAssumption
     DEF LimitInv, TypeOK, Return, Receive, Labels, Outcomes
<1>5. Limit' = Limit /\ Limit \in Nat \ {0}
  BY LimitType DEF Return, Limit, LimitInv
<1>6. is_retryable(s) => attempt[c] = Limit
  BY LastOne DEF Return, Receive
<1>7. ASSUME NEW d \in Calls PROVE WithinLimit(d)' /\ GivenUp(d)'
  <2>1. CASE d = c
    BY <1>1, <1>5, <1>6, <2>1
       DEF LimitInv, TypeOK, WithinLimit, GivenUp, Return, Receive
  <2>2. CASE d # c
    BY <1>1, <1>2, <1>5, <2>2
       DEF LimitInv, TypeOK, WithinLimit, GivenUp, Return, Receive
  <2> QED BY <2>1, <2>2
<1> QED BY <1>4, <1>7 DEF LimitInv

\* Retry keeps the invariant: a call sleeps only with attempts left.
LEMMA RetryLimit ==
  ASSUME LimitInv, NEW c \in Calls, NEW s \in Statuses, Retry(c, s)
  PROVE  LimitInv'
<1>1. PICK n \in {0, 1} : applied' = [applied EXCEPT ![c] = @ + n]
  BY DEF Retry, Receive
<1>2. TypeOK'
  BY <1>1 DEF LimitInv, TypeOK, Retry, Receive, Labels
<1>3. Limit' = Limit /\ Limit \in Nat \ {0}
  BY LimitType DEF Retry, Limit, LimitInv
<1>4. ASSUME NEW d \in Calls PROVE WithinLimit(d)' /\ GivenUp(d)'
  BY <1>1, <1>3, <1>4
     DEF LimitInv, TypeOK, WithinLimit, GivenUp, Retry, Receive, SendsAgain
<1> QED BY <1>2, <1>4 DEF LimitInv

\* Wake keeps the invariant: the attempt it makes is one that was left.
LEMMA WakeLimit ==
  ASSUME LimitInv, NEW c \in Calls, Wake(c)
  PROVE  LimitInv'
<1>1. NextBackoff(backoff[c]) \in InitialBackoff .. MaxBackoff
  BY NextBackoffType DEF LimitInv, TypeOK
<1>2. TypeOK'
  BY <1>1 DEF LimitInv, TypeOK, Wake, Labels
<1>3. Limit' = Limit /\ Limit \in Nat \ {0} /\ max_attempts \in Nat
      /\ max_attempts <= Limit
  BY LimitType DEF Wake, Limit, LimitInv
<1>4. ASSUME NEW d \in Calls PROVE WithinLimit(d)' /\ GivenUp(d)'
  BY <1>3, <1>4 DEF LimitInv, TypeOK, WithinLimit, GivenUp, Wake
<1> QED BY <1>2, <1>4 DEF LimitInv

\* Drop keeps the invariant: at most the sending on the wire takes effect.
LEMMA DropLimit ==
  ASSUME LimitInv, NEW c \in Calls, Drop(c)
  PROVE  LimitInv'
<1>1. PICK n \in IF pc[c] = "sending" THEN {0, 1} ELSE {0} :
        applied' = [applied EXCEPT ![c] = @ + n]
  BY DEF Drop
<1>2. TypeOK'
  BY <1>1, RetryAssumption DEF LimitInv, TypeOK, Drop, Labels, Outcomes
<1>3. Limit' = Limit /\ Limit \in Nat \ {0}
  BY LimitType DEF Drop, Limit, LimitInv
<1>4. ASSUME NEW d \in Calls PROVE WithinLimit(d)' /\ GivenUp(d)'
  BY <1>1, <1>3, <1>4
     DEF LimitInv, TypeOK, WithinLimit, GivenUp, Drop
<1> QED BY <1>2, <1>4 DEF LimitInv

\* The invariant is inductive.
LEMMA LimitNext == LimitInv /\ [Next]_vars => LimitInv'
<1> SUFFICES ASSUME LimitInv, [Next]_vars PROVE LimitInv'
  OBVIOUS
<1>1. CASE Next
  <2>1. CASE Terminated
    BY <2>1 DEF Terminated, vars, LimitInv, TypeOK, WithinLimit, GivenUp, Limit
  <2>2. ASSUME NEW c \in Calls, Wake(c) PROVE LimitInv'
    BY <2>2, WakeLimit
  <2>3. ASSUME NEW c \in Calls, NEW s \in Statuses, Return(c, s) PROVE LimitInv'
    BY <2>3, ReturnLimit
  <2>4. ASSUME NEW c \in Calls, NEW s \in Statuses, Retry(c, s) PROVE LimitInv'
    BY <2>4, RetryLimit
  <2>5. ASSUME NEW c \in Calls, Drop(c) PROVE LimitInv'
    BY <2>5, DropLimit
  <2>6. ASSUME NEW c \in Calls, NEW m \in Called, Begin(c, m) PROVE LimitInv'
    BY <2>6, BeginLimit
  <2> QED BY <1>1, <2>1, <2>2, <2>3, <2>4, <2>5, <2>6 DEF Next, Step
<1>2. CASE UNCHANGED vars
  BY <1>2 DEF vars, LimitInv, TypeOK, WithinLimit, GivenUp, Limit
<1> QED BY <1>1, <1>2

\* The invariant holds in every reachable state.
THEOREM LimitInvariant == Spec => []LimitInv
BY LimitInit, LimitNext, PTL DEF Spec

\* Every reachable state of the retry loop is well typed, the backoff between
\* the first and the cap.
THEOREM RetryTypes == Spec => []TypeOK
<1>1. LimitInv => TypeOK
  BY DEF LimitInv
<1> QED BY <1>1, LimitInvariant, PTL

\* No call is sent beyond DFC_RETRY_MAX_ATTEMPTS, and none gives up on a 429
\* or 5xx before it.
THEOREM AttemptsBounded == Spec => []GivesUpInTime
<1>1. LimitInv => GivesUpInTime
  <2> SUFFICES ASSUME LimitInv, NEW c \in Calls
               PROVE  /\ attempt[c] <= Limit
                      /\ pc[c] = "done" /\ outcome[c] # "dropped"
                           /\ is_retryable(status[c]) => attempt[c] = Limit
    BY DEF GivesUpInTime
  <2>1. Limit \in Nat \ {0} /\ pc[c] \in Labels /\ attempt[c] \in Nat
    BY LimitType DEF LimitInv, TypeOK
  <2> QED BY <2>1 DEF LimitInv, WithinLimit, GivenUp, Labels
<1> QED BY <1>1, LimitInvariant, PTL

-----------------------------------------------------------------------------
(* The refinement *)

\* Initially nothing has been carried out.
LEMMA PromiseInit == Init => Promise!Init
<1> SUFFICES ASSUME Init PROVE Promise!Init
  OBVIOUS
<1>1. Limit \in Nat \ {0}
  BY LimitInit, LimitType DEF LimitInv
<1> QED BY <1>1 DEF Init, Promise!Init

\* Every step of the loop carries the call out at most once and ends it only
\* so, or changes nothing the promise is about.
LEMMA PromiseNext ==
  LimitInv /\ [Next]_vars => [Promise!Next]_(Promise!promiseVars)
<1> SUFFICES ASSUME LimitInv, [Next]_vars
             PROVE  Promise!Next \/ UNCHANGED <<Limit, applied, outcome>>
  BY DEF Promise!promiseVars
<1> USE DEF Promise!Next
<1>1. ASSUME NEW c \in Calls, NEW s \in Statuses, Return(c, s)
      PROVE  Promise!End(c)
  <2>1. PICK n \in {0, 1} : /\ MayCarryOut(s, n)
                            /\ applied' = [applied EXCEPT ![c] = @ + n]
    BY <1>1 DEF Return, Receive
  <2>2. PICK readable \in BOOLEAN :
          outcome' = [outcome EXCEPT ![c] = Outcome(method[c], s, readable)]
    BY <1>1 DEF Return
  <2> DEFINE o == Outcome(method[c], s, readable)
  <2>3. o \in Promise!Outcomes /\ (o = "ok" => n = 1)
    BY <2>1, OutcomeType, Zenon DEF Outcomes, Promise!Outcomes, MayCarryOut
  <2>4. outcome[c] = None /\ applied[c] + n <= Limit /\ UNCHANGED Limit
        /\ applied[c] \in Nat
    BY <1>1, <2>1, LimitType
       DEF LimitInv, TypeOK, WithinLimit, Return, Receive, Limit
  <2>5. outcome' = [outcome EXCEPT ![c] = o]
    BY <2>2
  <2> HIDE DEF o
  <2>6. o = "ok" => applied[c] + n >= 1
    BY <2>3, <2>4
  <2> QED BY <2>1, <2>3, <2>4, <2>5, <2>6 DEF Promise!End
<1>2. ASSUME NEW c \in Calls, NEW s \in Statuses, Retry(c, s)
      PROVE  Promise!CarryOut(c) \/ UNCHANGED <<Limit, applied, outcome>>
  <2>1. PICK n \in {0, 1} : applied' = [applied EXCEPT ![c] = @ + n]
    BY <1>2 DEF Retry, Receive
  <2>2. outcome[c] = None /\ applied[c] < Limit /\ UNCHANGED <<Limit, outcome>>
    BY <1>2, LimitType
       DEF LimitInv, TypeOK, WithinLimit, Retry, Receive, Limit
  <2>3. CASE n = 1
    BY <2>1, <2>2, <2>3 DEF Promise!CarryOut
  <2>4. CASE n = 0
    BY <2>1, <2>2, <2>4 DEF LimitInv, TypeOK
  <2> QED BY <2>3, <2>4
<1>3. ASSUME NEW c \in Calls, Drop(c) PROVE Promise!End(c)
  <2>1. PICK n \in IF pc[c] = "sending" THEN {0, 1} ELSE {0} :
          applied' = [applied EXCEPT ![c] = @ + n]
    BY <1>3 DEF Drop
  <2>2. outcome[c] = None /\ applied[c] + n <= Limit /\ UNCHANGED Limit
    BY <1>3, <2>1, LimitType
       DEF LimitInv, TypeOK, WithinLimit, Drop, Limit
  <2>3. outcome' = [outcome EXCEPT ![c] = "dropped"]
    BY <1>3 DEF Drop
  <2> QED BY <2>1, <2>2, <2>3 DEF Promise!End, Promise!Outcomes
<1>4. ASSUME NEW c \in Calls, Wake(c) \/ \E m \in Called : Begin(c, m)
      PROVE  UNCHANGED <<Limit, applied, outcome>>
  BY <1>4 DEF Wake, Begin, Limit
<1>5. CASE UNCHANGED vars
  BY <1>5 DEF vars, Limit
<1>6. CASE Next
  BY <1>1, <1>2, <1>3, <1>4, <1>6, <1>5 DEF Next, Step, Terminated
<1> QED BY <1>5, <1>6

\* with_retry implements AtLeastOnce: no call is carried out more often than
\* it may be sent, and "ok" is never said of one that was not.
THEOREM ImplementsPromise == Spec => KeepsPromise
<1>1. Spec => Promise!Spec
  BY PromiseInit, PromiseNext, LimitInvariant, PTL DEF Spec, Promise!Spec
<1> QED BY <1>1 DEF KeepsPromise

-----------------------------------------------------------------------------
(* The counter *)

\* The sendings of a call beyond its first, by the number it has made.
LEMMA ResendingsAre ==
  ASSUME NEW c, NEW n
  PROVE  <<c, n>> \in Resendings <=> c \in Calls /\ n \in 2 .. attempt[c]
BY DEF Resendings

\* Nothing has been sent or counted initially.
LEMMA CountInit == Init => CountInv
<1> SUFFICES ASSUME Init PROVE CountInv
  OBVIOUS
<1>1. Resendings = {} /\ Asleep = {} /\ Sleeping = {} /\ retries = 0
  <2>1. \A c \in Calls : attempt[c] = 0 /\ pc[c] = "idle" /\ outcome[c] = None
    BY DEF Init
  <2>2. Resendings = {}
    BY <2>1 DEF Resendings
  <2>3. None # "dropped"
    BY RetryAssumption
  <2> QED BY <2>1, <2>2, <2>3 DEF Init, Asleep, Sleeping
<1>2. IsFiniteSet({}) /\ Cardinality({}) = 0
  BY FS_EmptySet
<1> QED BY <1>1, <1>2 DEF CountInv

\* A step that sends nothing again leaves the sendings alone.
LEMMA SameResendings ==
  ASSUME \A c \in Calls : 2 .. attempt'[c] = 2 .. attempt[c]
  PROVE  Resendings' = Resendings
BY DEF Resendings

\* Every step that sends again has been counted before.
LEMMA CountNext == LimitInv /\ CountInv /\ [Next]_vars => CountInv'
<1> SUFFICES ASSUME LimitInv, CountInv, [Next]_vars PROVE CountInv'
  OBVIOUS
<1>0. /\ Cardinality(Resendings) \in Nat /\ Cardinality(Asleep) \in Nat
      /\ Cardinality(Sleeping) \in Nat /\ retries \in Nat
      /\ None # "dropped"
  BY FS_CardinalityType, RetryAssumption DEF CountInv, LimitInv, TypeOK
<1>1. ASSUME NEW c \in Calls, NEW m \in Called, Begin(c, m) PROVE CountInv'
  <2>1. Resendings' = Resendings
    <3>1. attempt[c] = 0 /\ attempt' = [attempt EXCEPT ![c] = 1]
          /\ DOMAIN attempt = Calls
      BY <1>1 DEF Begin, LimitInv, TypeOK, WithinLimit
    <3>2. 2 .. 1 = {} /\ 2 .. 0 = {}
      OBVIOUS
    <3> QED BY <3>1, <3>2, SameResendings
  <2>2. Asleep' = Asleep /\ Sleeping' = Sleeping /\ retries' = retries
    BY <1>1 DEF Begin, Asleep, Sleeping, LimitInv, TypeOK
  <2> QED BY <2>1, <2>2 DEF CountInv
<1>2. ASSUME NEW c \in Calls, NEW s \in Statuses, Return(c, s) PROVE CountInv'
  <2>1. PICK readable \in BOOLEAN :
          outcome' = [outcome EXCEPT ![c] = Outcome(method[c], s, readable)]
    BY <1>2 DEF Return
  <2>2. Outcome(method[c], s, readable) # "dropped"
    BY OutcomeType
  <2>3. Resendings' = Resendings
    BY <1>2, SameResendings DEF Return
  <2>4. outcome[c] # "dropped"
    BY <1>2, <1>0 DEF Return, Receive, LimitInv, TypeOK
  <2>5. Asleep' = Asleep /\ Sleeping' = Sleeping /\ retries' = retries
    BY <1>2, <2>1, <2>2, <2>4
       DEF Return, Receive, Asleep, Sleeping, LimitInv, TypeOK
  <2> QED BY <2>3, <2>5 DEF CountInv
<1>3. ASSUME NEW c \in Calls, NEW s \in Statuses, Retry(c, s) PROVE CountInv'
  <2>1. Resendings' = Resendings /\ retries' = retries + 1
    BY <1>3, SameResendings DEF Retry
  <2>2. c \notin Asleep /\ c \notin Sleeping
    BY <1>3, <1>0 DEF Retry, Receive, Asleep, Sleeping, LimitInv, TypeOK
  <2>3. Asleep' = Asleep \cup {c} /\ Sleeping' = Sleeping \cup {c}
    BY <1>3 DEF Retry, Receive, Asleep, Sleeping, LimitInv, TypeOK
  <2>4. /\ IsFiniteSet(Asleep') /\ IsFiniteSet(Sleeping')
        /\ Cardinality(Asleep') = Cardinality(Asleep) + 1
        /\ Cardinality(Sleeping') = Cardinality(Sleeping) + 1
    BY <2>2, <2>3, FS_AddElement DEF CountInv
  <2> QED BY <1>0, <2>1, <2>4 DEF CountInv
<1>4. ASSUME NEW c \in Calls, Wake(c) PROVE CountInv'
  <2> DEFINE n == attempt[c] + 1
  <2>1. n \in Nat /\ n >= 2 /\ attempt' = [attempt EXCEPT ![c] = n]
        /\ attempt \in [Calls -> Nat]
    BY <1>4 DEF Wake, LimitInv, TypeOK, WithinLimit
  <2>2. Resendings' = Resendings \cup {<<c, n>>} /\ <<c, n>> \notin Resendings
    <3>1. 2 .. n = 2 .. attempt[c] \cup {n} /\ n \notin 2 .. attempt[c]
      BY <2>1
    <3> HIDE DEF n
    <3>2. attempt'[c] = n /\ \A d \in Calls \ {c} : attempt'[d] = attempt[d]
      BY <2>1
    <3> QED BY <3>1, <3>2 DEF Resendings
  <2>3. retries' = retries /\ c \in Asleep /\ c \in Sleeping
    BY <1>4 DEF Wake, Asleep, Sleeping
  <2>4. Asleep' = Asleep \ {c} /\ Sleeping' = Sleeping \ {c}
    BY <1>4, <1>0 DEF Wake, Asleep, Sleeping, LimitInv, TypeOK
  <2> HIDE DEF n
  <2>5. /\ IsFiniteSet(Resendings')
        /\ Cardinality(Resendings') = Cardinality(Resendings) + 1
    BY <2>2, FS_AddElement DEF CountInv
  <2>6. /\ IsFiniteSet(Asleep') /\ IsFiniteSet(Sleeping')
        /\ Cardinality(Asleep') = Cardinality(Asleep) - 1
        /\ Cardinality(Sleeping') = Cardinality(Sleeping) - 1
    BY <2>3, <2>4, FS_RemoveElement DEF CountInv
  <2> QED BY <1>0, <2>3, <2>5, <2>6 DEF CountInv
<1>5. ASSUME NEW c \in Calls, Drop(c) PROVE CountInv'
  <2>1. Resendings' = Resendings /\ retries' = retries
    BY <1>5, SameResendings DEF Drop
  <2>2. Asleep' = Asleep \cup {c} /\ Sleeping' = Sleeping \ {c}
    BY <1>5 DEF Drop, Asleep, Sleeping, LimitInv, TypeOK
  <2>3. /\ IsFiniteSet(Asleep')
        /\ Cardinality(Asleep') \in {Cardinality(Asleep), Cardinality(Asleep) + 1}
    BY <2>2, FS_AddElement DEF CountInv
  <2>4. /\ IsFiniteSet(Sleeping')
        /\ Cardinality(Sleeping')
             \in {Cardinality(Sleeping), Cardinality(Sleeping) - 1}
    BY <2>2, FS_RemoveElement DEF CountInv
  <2> QED BY <1>0, <2>1, <2>3, <2>4 DEF CountInv
<1>6. CASE UNCHANGED vars
  BY <1>6 DEF vars, CountInv, Resendings, Asleep, Sleeping
<1>7. CASE Next
  BY <1>1, <1>2, <1>3, <1>4, <1>5, <1>6, <1>7 DEF Next, Step, Terminated
<1> QED BY <1>6, <1>7

\* dfc_retries_total counts the sendings beyond each call's first, ahead of
\* them by no more than the calls asleep or dropped, however calls interleave.
THEOREM RetriesCounted == Spec => []RetriesAreCounted
<1>1. CountInv /\ LimitInv => RetriesAreCounted
  <2> SUFFICES ASSUME CountInv, LimitInv PROVE RetriesAreCounted
    OBVIOUS
  <2>1. /\ Cardinality(Resendings) \in Nat /\ Cardinality(Asleep) \in Nat
        /\ Cardinality(Sleeping) \in Nat /\ retries \in Nat
    BY FS_CardinalityType DEF CountInv, LimitInv, TypeOK
  <2> QED BY <2>1 DEF CountInv, RetriesAreCounted
<1> QED BY <1>1, CountInit, CountNext, LimitInvariant, PTL DEF Spec

-----------------------------------------------------------------------------
(* The backoff *)

\* The powers of two, by counting subsets.
LEMMA PowerOfTwo ==
  /\ 2 ^ 0 = 1
  /\ \A n \in Nat : 2 ^ n \in Nat \ {0} /\ 2 ^ (n + 1) = 2 * 2 ^ n
<1>1. \A n \in Nat : /\ IsFiniteSet(1 .. n) /\ Cardinality(1 .. n) = n
                     /\ IsFiniteSet(SUBSET (1 .. n))
                     /\ Cardinality(SUBSET (1 .. n)) = 2 ^ n
  <2> SUFFICES ASSUME NEW n \in Nat
               PROVE  /\ IsFiniteSet(1 .. n) /\ Cardinality(1 .. n) = n
                      /\ IsFiniteSet(SUBSET (1 .. n))
                      /\ Cardinality(SUBSET (1 .. n)) = 2 ^ n
    OBVIOUS
  <2>1. IsFiniteSet(1 .. n) /\ Cardinality(1 .. n) = n
    BY FS_Interval
  <2>2. /\ IsFiniteSet(SUBSET (1 .. n))
        /\ Cardinality(SUBSET (1 .. n)) = 2 ^ Cardinality(1 .. n)
    BY <2>1, FS_SUBSET
  <2> QED BY <2>1, <2>2
<1>2. 2 ^ 0 = 1
  <2>1. 1 .. 0 = {} /\ SUBSET {} = {{}}
    OBVIOUS
  <2>2. Cardinality({{}}) = 1
    BY FS_Singleton
  <2>3. Cardinality(SUBSET (1 .. 0)) = 2 ^ 0
    BY <1>1
  <2> QED BY <2>1, <2>2, <2>3
<1>3. ASSUME NEW n \in Nat PROVE 2 ^ n \in Nat \ {0} /\ 2 ^ (n + 1) = 2 * 2 ^ n
  <2> DEFINE N == 1 .. n
             Low == SUBSET N
             High == {B \in SUBSET (1 .. (n + 1)) : n + 1 \in B}
             f == [A \in Low |-> A \cup {n + 1}]
  <2>1. IsFiniteSet(Low) /\ Cardinality(Low) = 2 ^ n /\ Cardinality(Low) \in Nat
    BY <1>1, FS_CardinalityType
  <2>2. Cardinality(SUBSET (1 .. (n + 1))) = 2 ^ (n + 1)
    <3>1. n + 1 \in Nat
      OBVIOUS
    <3> QED BY <3>1, <1>1
  <2>3. 1 .. (n + 1) = N \cup {n + 1} /\ n + 1 \notin N
    OBVIOUS
  <2>4. SUBSET (1 .. (n + 1)) = Low \cup High /\ Low \cap High = {}
    BY <2>3
  <2>5. f \in Bijection(Low, High)
    <3>1. f \in [Low -> High]
      BY <2>3
    <3>2. \A A, B \in Low : f[A] = f[B] => A = B
      BY <2>3
    <3>3. \A B \in High : \E A \in Low : f[A] = B
      <4> SUFFICES ASSUME NEW B \in High
                   PROVE  f[B \ {n + 1}] = B /\ B \ {n + 1} \in Low
        OBVIOUS
      <4> QED BY <2>3
    <3> QED BY <3>1, <3>2, <3>3
            DEF Bijection, Injection, Surjection, IsInjective
  <2> HIDE DEF f, Low, High, N
  <2>6. IsFiniteSet(High) /\ Cardinality(High) = 2 ^ n
    <3>1. ExistsBijection(Low, High)
      BY <2>5 DEF ExistsBijection
    <3> QED BY <3>1, <2>1, FS_Bijection
  <2>7. Cardinality(Low \cup High)
          = Cardinality(Low) + Cardinality(High) - Cardinality({})
    BY <2>1, <2>4, <2>6, FS_Union
  <2>8. 2 ^ (n + 1) = 2 * 2 ^ n
    <3> DEFINE p == 2 ^ n
    <3>1. Cardinality(Low \cup High) = p + p - 0 /\ p \in Nat
      BY <2>1, <2>6, <2>7, FS_EmptySet
    <3> HIDE DEF p
    <3>2. p + p - 0 = 2 * p
      BY <3>1
    <3>3. 2 ^ (n + 1) = 2 * p
      BY <2>2, <2>4, <3>1, <3>2
    <3> QED BY <3>3 DEF p
  <2>9. 2 ^ n # 0
    <3>1. Low # {}
      BY DEF Low
    <3> QED BY <2>1, <3>1, FS_EmptySet
  <2> QED BY <2>1, <2>8, <2>9
<1> QED BY <1>2, <1>3

\* Capping a doubled wait again loses nothing.
LEMMA CapOfDouble ==
  ASSUME NEW x \in Nat
  PROVE  Smaller(2 * Smaller(x, MaxBackoff), MaxBackoff)
           = Smaller(2 * x, MaxBackoff)
BY RetryAssumption DEF Smaller

\* The wait after k attempts, uncapped.
Uncapped(k) == InitialBackoff * 2 ^ (k - 1)

\* Where the backoff of call c stands: as configured until it begins.
Waits(c) ==
  IF pc[c] = "idle" THEN backoff[c] = InitialBackoff
  ELSE /\ attempt[c] >= 1
       /\ backoff[c] = Smaller(Uncapped(attempt[c]), MaxBackoff)

BackoffInv == \A c \in Calls : Waits(c)

\* The first wait is the configured one, and each after it is the double.
LEMMA UncappedDoubles ==
  /\ Uncapped(1) = InitialBackoff
  /\ \A k \in Nat \ {0} : /\ Uncapped(k) \in Nat
                           /\ Uncapped(k + 1) = 2 * Uncapped(k)
<1>1. Uncapped(1) = InitialBackoff
  BY PowerOfTwo, RetryAssumption DEF Uncapped
<1>2. ASSUME NEW k \in Nat \ {0}
      PROVE  Uncapped(k) \in Nat /\ Uncapped(k + 1) = 2 * Uncapped(k)
  <2> DEFINE p == 2 ^ (k - 1)
  <2>1. k - 1 \in Nat /\ k - 1 + 1 = k /\ k + 1 - 1 = k
    OBVIOUS
  <2>2. p \in Nat /\ 2 ^ k = 2 * p
    BY <2>1, PowerOfTwo
  <2>3. Uncapped(k) = InitialBackoff * p
    BY DEF Uncapped
  <2>4. Uncapped(k + 1) = InitialBackoff * (2 * p)
    BY <2>1, <2>2 DEF Uncapped
  <2> HIDE DEF p
  <2>5. InitialBackoff * (2 * p) = 2 * (InitialBackoff * p)
        /\ InitialBackoff * p \in Nat
    BY <2>2, RetryAssumption
  <2> QED BY <2>3, <2>4, <2>5
<1> QED BY <1>1, <1>2

\* A wake doubles the wait of the call that wakes and of no other.
LEMMA WakeDoubles ==
  ASSUME LimitInv, BackoffInv, NEW c \in Calls, Wake(c)
  PROVE  BackoffInv'
<1> SUFFICES ASSUME NEW d \in Calls PROVE Waits(d)'
  BY DEF BackoffInv
<1>1. CASE d = c
  <2> DEFINE k == attempt[c]
  <2>1. k \in Nat \ {0} /\ backoff[c] = Smaller(Uncapped(k), MaxBackoff)
    BY DEF LimitInv, TypeOK, BackoffInv, Waits, Wake
  <2>2. /\ attempt'[d] = k + 1 /\ pc'[d] = "sending"
        /\ backoff'[d] = NextBackoff(backoff[c])
    BY <1>1 DEF Wake, LimitInv, TypeOK
  <2> HIDE DEF k
  <2>3. Uncapped(k) \in Nat /\ Uncapped(k + 1) = 2 * Uncapped(k)
    BY <2>1, UncappedDoubles
  <2>4. backoff'[d] = Smaller(Uncapped(k + 1), MaxBackoff)
    BY <2>1, <2>2, <2>3, CapOfDouble DEF NextBackoff
  <2>5. k + 1 >= 1
    BY <2>1
  <2> QED BY <2>2, <2>4, <2>5 DEF Waits
<1>2. CASE d # c
  BY <1>2 DEF Waits, BackoffInv, Wake, LimitInv, TypeOK
<1> QED BY <1>1, <1>2

\* The first wait of a call is the configured one.
LEMMA BeginWaits ==
  ASSUME LimitInv, BackoffInv, NEW c \in Calls, NEW m \in Called, Begin(c, m)
  PROVE  BackoffInv'
<1> SUFFICES ASSUME NEW d \in Calls PROVE Waits(d)'
  BY DEF BackoffInv
<1>1. CASE d = c
  <2>1. attempt'[d] = 1 /\ pc'[d] = "sending" /\ backoff'[d] = InitialBackoff
    BY <1>1 DEF LimitInv, TypeOK, BackoffInv, Waits, Begin
  <2>2. Smaller(Uncapped(1), MaxBackoff) = InitialBackoff
    BY UncappedDoubles, RetryAssumption DEF Smaller
  <2> QED BY <2>1, <2>2 DEF Waits
<1>2. CASE d # c
  BY <1>2 DEF Waits, BackoffInv, Begin, LimitInv, TypeOK
<1> QED BY <1>1, <1>2

\* A step that neither begins nor wakes a call leaves the waits alone.
LEMMA WaitsStay ==
  ASSUME BackoffInv, UNCHANGED <<attempt, backoff>>,
         \A d \in Calls : pc'[d] = "idle" <=> pc[d] = "idle"
  PROVE  BackoffInv'
BY DEF BackoffInv, Waits

\* The invariant of the waits is inductive.
LEMMA BackoffNext == LimitInv /\ BackoffInv /\ [Next]_vars => BackoffInv'
<1> SUFFICES ASSUME LimitInv, BackoffInv, [Next]_vars PROVE BackoffInv'
  OBVIOUS
<1>1. ASSUME NEW c \in Calls, NEW m \in Called, Begin(c, m)
      PROVE BackoffInv'
  BY <1>1, BeginWaits
<1>2. ASSUME NEW c \in Calls, Wake(c) PROVE BackoffInv'
  BY <1>2, WakeDoubles
<1>3. ASSUME NEW c \in Calls, NEW s \in Statuses, Return(c, s) \/ Retry(c, s)
      PROVE BackoffInv'
  BY <1>3, WaitsStay DEF Return, Retry, Receive, LimitInv, TypeOK
<1>4. ASSUME NEW c \in Calls, Drop(c) PROVE BackoffInv'
  BY <1>4, WaitsStay DEF Drop, LimitInv, TypeOK
<1>5. CASE UNCHANGED vars
  BY <1>5, WaitsStay DEF vars
<1>6. CASE Next
  BY <1>1, <1>2, <1>3, <1>4, <1>5, <1>6 DEF Next, Step, Terminated
<1> QED BY <1>5, <1>6

\* The wait before each attempt is the configured one doubled with every
\* attempt made and never longer than the cap, for every pair of backoffs and
\* every number of attempts.
THEOREM BackoffCapped == Spec => []BackoffIsCappedDoubling
<1>1. Init => BackoffInv
  BY DEF Init, BackoffInv, Waits
<1>2. BackoffInv => BackoffIsCappedDoubling
  BY DEF BackoffInv, Waits, BackoffIsCappedDoubling, Uncapped
<1> QED BY <1>1, <1>2, BackoffNext, LimitInvariant, PTL DEF Spec
=============================================================================
