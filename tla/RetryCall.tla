------------------------------ MODULE RetryCall ------------------------------
(****************************************************************************)
(* The calls HttpDataFabricClient makes, each through with_retry: a call is *)
(* sent, and sent again after a backoff that doubles up to a cap, while the *)
(* answer is a 429 or a 5xx and attempts are left.  Calls run concurrently  *)
(* and share nothing but the counter dfc_retries_total.                     *)
(*                                                                          *)
(* The network and data-fabric answer as they please: a 5xx may come back   *)
(* although the call was carried out (a gateway in between), and so may a   *)
(* broken connection.                                                       *)
(****************************************************************************)
EXTENDS Naturals, FiniteSets

CONSTANTS
  Calls,           \* one per call made
  None,
  AttemptLimits,   \* values DFC_RETRY_MAX_ATTEMPTS may have
  InitialBackoff,  \* initial_backoff and max_backoff, in one unit of time
  MaxBackoff,
  Called           \* the methods called

ASSUME RetryAssumption ==
  /\ None \notin {"ok", "absent", "error", "dropped"}
  /\ AttemptLimits \subseteq Nat
  /\ InitialBackoff \in Nat \ {0} /\ MaxBackoff \in Nat
  /\ InitialBackoff <= MaxBackoff

VARIABLES
  max_attempts,  \* read from the environment at start-up
  pc, method,    \* where each call is, and what it calls
  attempt, backoff,
  status,        \* how the sending before was answered, until the next
  outcome,       \* what the caller got
  applied,       \* how often data-fabric has carried the call out
  retries        \* dfc_retries_total

vars == <<max_attempts, pc, method, attempt, backoff, status, outcome, applied,
          retries>>

Labels == {"idle", "sending", "sleeping", "done"}

\* The classes of answers told apart; "lost" is a transport error.
Statuses == {"2xx", "404", "4xx", "429", "5xx", "lost"}

\* send_allowing_status: get_event_by_idempotency and get_correlation see any
\* status but a 429 or 5xx; the others fail on all but 2xx (send_with_retry).
Allowing == {"get_event_by_idempotency", "get_correlation"}

\* These decode a body on success, store_correlation does not.
Decoding == {"ingest_event", "review_revision", "bump_review_revision",
             "fetch_review_fragment", "resolve_snapshot_lineage"} \cup Allowing

Methods == Decoding \cup {"store_correlation"}

ASSUME CalledAssumption == Called \subseteq Methods

Outcomes == {"ok", "absent", "error", "dropped"}

TypeOK ==
  /\ max_attempts \in AttemptLimits
  /\ pc \in [Calls -> Labels]
  /\ method \in [Calls -> Called \cup {None}]
  /\ attempt \in [Calls -> Nat]
  /\ backoff \in [Calls -> InitialBackoff .. MaxBackoff]
  /\ status \in [Calls -> Statuses \cup {None}]
  /\ outcome \in [Calls -> Outcomes \cup {None}]
  /\ applied \in [Calls -> Nat]
  /\ retries \in Nat
  /\ \A c \in Calls : outcome[c] # None <=> pc[c] = "done"

Init ==
  /\ max_attempts \in AttemptLimits
  /\ pc = [c \in Calls |-> "idle"]
  /\ method = [c \in Calls |-> None]
  /\ attempt = [c \in Calls |-> 0]
  /\ backoff = [c \in Calls |-> InitialBackoff]
  /\ status = [c \in Calls |-> None]
  /\ outcome = [c \in Calls |-> None]
  /\ applied = [c \in Calls |-> 0]
  /\ retries = 0

-----------------------------------------------------------------------------
(* Helpers *)

Smaller(a, b) == IF a <= b THEN a ELSE b

\* DfcError::is_retryable: a transport error has no status and is not.
is_retryable(s) == s \in {"429", "5xx"}

\* The sending ends in an error as far as the retry loop is concerned.
Fails(m, s) == IF m \in Allowing THEN s \in {"429", "5xx", "lost"}
                                 ELSE s # "2xx"

\* Faulty: one sending too many.
OneMore(c, s) ==
  Fails(method[c], s) /\ is_retryable(s) /\ attempt[c] <= max_attempts

\* The match arm that sends again.
SendsAgain(c, s) ==
  Fails(method[c], s) /\ is_retryable(s) /\ attempt[c] < max_attempts

\* Faulty: store_correlation answers ok whatever came back.
OutcomeUnread(m, s, readable) ==
  IF m = "store_correlation" THEN "ok"
  ELSE IF m \in Allowing /\ s = "404" THEN "absent"
  ELSE IF s = "2xx" /\ readable THEN "ok" ELSE "error"

\* What the method makes of the last answer; readable: the body decodes.
Outcome(m, s, readable) ==
  IF m \in Allowing /\ s = "404" THEN "absent"
  ELSE IF s = "2xx" /\ (m \in Decoding => readable) THEN "ok"
  ELSE "error"

\* Whether data-fabric may have carried the call out n times given its answer.
MayCarryOut(s, n) == CASE s = "2xx"              -> n = 1
                       [] s \in {"5xx", "lost"}  -> n \in {0, 1}
                       [] OTHER                  -> n = 0

-----------------------------------------------------------------------------
(* with_retry *)

Begin(c, m) ==
  /\ pc[c] = "idle"
  /\ pc' = [pc EXCEPT ![c] = "sending"]
  /\ method' = [method EXCEPT ![c] = m]
  /\ attempt' = [attempt EXCEPT ![c] = 1]
  /\ UNCHANGED <<max_attempts, backoff, status, outcome, applied, retries>>

\* The sending awaited is answered with s.
Receive(c, s) ==
  /\ pc[c] = "sending"
  /\ status' = [status EXCEPT ![c] = s]
  /\ \E n \in {0, 1} : /\ MayCarryOut(s, n)
                       /\ applied' = [applied EXCEPT ![c] = @ + n]

\* Faulty: every failure is counted, the last one too.
CountsFailures(c, s) ==
  /\ Receive(c, s) /\ ~SendsAgain(c, s)
  /\ pc' = [pc EXCEPT ![c] = "done"]
  /\ \E readable \in BOOLEAN :
       outcome' = [outcome EXCEPT ![c] = Outcome(method[c], s, readable)]
  /\ retries' = IF Fails(method[c], s) THEN retries + 1 ELSE retries
  /\ UNCHANGED <<max_attempts, method, attempt, backoff>>

Return(c, s) ==
  /\ Receive(c, s) /\ ~SendsAgain(c, s)
  /\ pc' = [pc EXCEPT ![c] = "done"]
  /\ \E readable \in BOOLEAN :
       outcome' = [outcome EXCEPT ![c] = Outcome(method[c], s, readable)]
  /\ UNCHANGED <<max_attempts, method, attempt, backoff, retries>>

Retry(c, s) ==
  /\ Receive(c, s) /\ SendsAgain(c, s)
  /\ pc' = [pc EXCEPT ![c] = "sleeping"]
  /\ retries' = retries + 1
  /\ UNCHANGED <<max_attempts, method, attempt, backoff, outcome>>

\* Faulty: doubled without the cap while below it.
NextBackoffUncapped(b) == IF b < MaxBackoff THEN 2 * b ELSE b

NextBackoff(b) == Smaller(2 * b, MaxBackoff)

\* Faulty: a call whose backoff has reached the cap is not sent again.
WakeBelowCap(c) ==
  /\ pc[c] = "sleeping" /\ backoff[c] < MaxBackoff
  /\ pc' = [pc EXCEPT ![c] = "sending"]
  /\ backoff' = [backoff EXCEPT ![c] = NextBackoff(@)]
  /\ attempt' = [attempt EXCEPT ![c] = @ + 1]
  /\ status' = [status EXCEPT ![c] = None]
  /\ UNCHANGED <<max_attempts, method, outcome, applied, retries>>

\* The sleep is over: the backoff doubles and the call is sent again.
Wake(c) ==
  /\ pc[c] = "sleeping"
  /\ pc' = [pc EXCEPT ![c] = "sending"]
  /\ backoff' = [backoff EXCEPT ![c] = NextBackoff(@)]
  /\ attempt' = [attempt EXCEPT ![c] = @ + 1]
  /\ status' = [status EXCEPT ![c] = None]
  /\ UNCHANGED <<max_attempts, method, outcome, applied, retries>>

\* The handler that awaits the call is dropped; what is on the wire may still
\* be carried out.
Drop(c) ==
  /\ pc[c] \in {"sending", "sleeping"}
  /\ pc' = [pc EXCEPT ![c] = "done"]
  /\ outcome' = [outcome EXCEPT ![c] = "dropped"]
  /\ \E n \in IF pc[c] = "sending" THEN {0, 1} ELSE {0} :
       applied' = [applied EXCEPT ![c] = @ + n]
  /\ UNCHANGED <<max_attempts, method, attempt, backoff, status, retries>>

Terminated ==
  /\ \A c \in Calls : pc[c] = "done"
  /\ UNCHANGED vars

Step(c) == Wake(c) \/ \E s \in Statuses : Return(c, s) \/ Retry(c, s)

Next ==
  \/ \E c \in Calls : Step(c) \/ Drop(c) \/ \E m \in Called : Begin(c, m)
  \/ Terminated

Spec == Init /\ [][Next]_vars

\* A timer fires, and a request on the wire is answered or its connection
\* breaks in the end: the client itself sets no timeout.
FairSpec == Spec /\ \A c \in Calls : WF_vars(Step(c))

-----------------------------------------------------------------------------
(* Safety *)

\* How often a call may be sent: zero attempts configured is still one.
Limit == IF max_attempts = 0 THEN 1 ELSE max_attempts

\* No attempt is made beyond the limit, and a failure that could have been
\* retried is handed to the caller only after the last one.
GivesUpInTime ==
  \A c \in Calls :
    /\ attempt[c] <= Limit
    /\ pc[c] = "done" /\ outcome[c] # "dropped" /\ is_retryable(status[c])
       => attempt[c] = Limit

\* The sendings of each call beyond its first.
Resendings == UNION {{c} \X (2 .. attempt[c]) : c \in Calls}

\* The calls that may have been counted for a sending they have not made.
Asleep == {c \in Calls : pc[c] = "sleeping" \/ outcome[c] = "dropped"}

\* dfc_retries_total ("Upstream HTTP retries") counts the sendings beyond each
\* call's first, over all calls at once, and nothing else: it runs ahead by no
\* more than the calls that sleep or were dropped asleep.
RetriesAreCounted ==
  retries - Cardinality(Resendings) \in 0 .. Cardinality(Asleep)

\* Each sleep is the first one doubled with every attempt, and never longer
\* than the cap: capping at each step comes to capping the power once.
BackoffIsCappedDoubling ==
  \A c \in Calls :
    pc[c] # "idle" =>
      backoff[c] = Smaller(InitialBackoff * 2 ^ (attempt[c] - 1), MaxBackoff)

-----------------------------------------------------------------------------
(* Refinement and liveness *)

Promise == INSTANCE AtLeastOnce WITH limit <- Limit

\* with_retry gives its callers what AtLeastOnce says: "ok" only for a call
\* that was carried out, and none carried out beyond the limit.
KeepsPromise == Promise!Spec

\* Every call ends: the loop makes progress whatever it is answered with, a
\* limit of zero included.
EveryCallEnds == \A c \in Calls : pc[c] # "idle" ~> pc[c] = "done"
=============================================================================
