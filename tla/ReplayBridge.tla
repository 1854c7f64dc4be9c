---------------------------- MODULE ReplayBridge ----------------------------
(****************************************************************************)
(* ReplayBridge behind POST /v1/replay/request and /v1/rollback/request: a  *)
(* request is written to data-fabric as requested, handed to aivcs-api, and *)
(* its outcome written as completed or failed.  The event key of each is    *)
(* the caller's idempotency key with ":requested", ":completed" or          *)
(* ":failed" appended, a pair here; a tenant and its key are one element of *)
(* Keys.  What the events say of runs, branches and snapshots is left out.  *)
(*                                                                          *)
(* aivcs-api is a system of its own: a call may start an operation, refuse, *)
(* or start one and lose the reply.                                         *)
(****************************************************************************)
EXTENDS Naturals, FiniteSets

CONSTANTS
  Tasks,        \* one per request handled
  Keys,         \* idempotency keys, each with its tenant
  Operations,   \* replay_id and rollback_id values aivcs-api hands out
  None,
  Requests,     \* the requests callers may send
  MaxInFlight,  \* bound: handlers running at once
  MaxFaults     \* bound: handlers cut short or replies lost

Kinds  == {"replay", "rollback"}
Phases == {"requested", "completed", "failed"}

\* valid: the tenant header is there and matches, and no field is blank.
ReplayRequest == [kind : Kinds, key : Keys, valid : BOOLEAN]

ASSUME ReplayAssumption ==
  /\ None \notin Operations
  /\ Requests \subseteq ReplayRequest
  /\ {MaxInFlight, MaxFaults} \subseteq Nat

VARIABLES
  ledger,      \* data-fabric's events: <<key, phase>> -> audit event
  operations,  \* what aivcs-api has started
  dlq,         \* dfc_dlq_total
  pc, req,     \* where each task's handler is, and the request it serves
  op,          \* the operation aivcs-api answered it with
  answer,      \* the response prepared; the caller has it once pc is "done"
  faults,      \* used up so far
  raced        \* a history, read by no guard: the tasks that ran beside another
               \* of their key before anything was completed under it

vars == <<ledger, operations, dlq, pc, req, op, answer, faults, raced>>

Labels == {"idle", "lookup", "trace", "request", "call", "complete", "fail",
           "done"}

\* op is the replay_id or rollback_id; only completed events carry one.
AuditEvent == [kind : Kinds, op : Operations \cup {None}]
Operation  == [kind : Kinds, key : Keys, id : Operations]

Told(id) == [status |-> "ok", op |-> id]
Failed   == [status |-> "error"]
NoAnswer == [status |-> "none"]
Answers  == [status : {"ok"}, op : Operations] \cup {Failed, NoAnswer}

TypeOK ==
  /\ DOMAIN ledger \subseteq Keys \X Phases
  /\ ledger \in [DOMAIN ledger -> AuditEvent]
  /\ \A x \in DOMAIN ledger : ledger[x].op # None <=> x[2] = "completed"
  /\ operations \subseteq Operation
  /\ dlq \in Nat /\ faults \in Nat
  /\ pc \in [Tasks -> Labels]
  /\ req \in [Tasks -> Requests \cup {None}]
  /\ op \in [Tasks -> Operations \cup {None}]
  /\ answer \in [Tasks -> Answers]
  /\ raced \subseteq Tasks

Init ==
  /\ ledger = [x \in {} |-> None]
  /\ operations = {}
  /\ dlq = 0 /\ faults = 0
  /\ pc = [t \in Tasks |-> "idle"]
  /\ req = [t \in Tasks |-> None]
  /\ op = [t \in Tasks |-> None]
  /\ answer = [t \in Tasks |-> NoAnswer]
  /\ raced = {}

-----------------------------------------------------------------------------
(* Helpers *)

Goto(t, l) == pc' = [pc EXCEPT ![t] = l]
Finish(t, a) == Goto(t, "done") /\ answer' = [answer EXCEPT ![t] = a]

Running == {t \in Tasks : pc[t] \notin {"idle", "done"}}

Beside(r) == {u \in Running : req[u].key = r.key}

\* ingest_event: the first event under a key stays.
Written(x, e) ==
  [y \in DOMAIN ledger \cup {x} |-> IF y \in DOMAIN ledger THEN ledger[y]
                                                           ELSE e]

\* Faulty: a failure is written under the key of success.
FailedKeyClash(r) == <<r.key, "completed">>

RequestedKey(r) == <<r.key, "requested">>
CompletedKey(r) == <<r.key, "completed">>
FailedKey(r)    == <<r.key, "failed">>

\* Faulty: the response is written without its id.
CompletedEventBlank(r, id) == [kind |-> r.kind, op |-> None]

\* The terminal events, as far as a later request reads them.
RequestedEvent(r)     == [kind |-> r.kind, op |-> None]
CompletedEvent(r, id) == [kind |-> r.kind, op |-> id]
FailedEvent(r)        == [kind |-> r.kind, op |-> None]

\* Faulty: a completed request is never recognised.
NeverCompleted(r) == FALSE

AlreadyCompleted(r) == CompletedKey(r) \in DOMAIN ledger

\* The race that t makes by arriving with r.
RacesWith(t, r) ==
  IF ~r.valid \/ AlreadyCompleted(r) \/ Beside(r) = {} THEN {}
  ELSE Beside(r) \cup {t}

\* Faulty: whatever completed under the key is the answer.
FromAnyEvent(r, e) == Told(e.op)

\* replay_response_from_event and rollback_response_from_event: an event of
\* the other kind has no id to answer with.
FromEvent(r, e) == IF e.kind = r.kind THEN Told(e.op) ELSE Failed

\* aivcs-api answers request r with operation id: a new one, or one it has
\* started for the same kind and key before.
MayStart(r, id) ==
  \A o \in operations : o.id = id => o.kind = r.kind /\ o.key = r.key

Start(r, id) ==
  /\ MayStart(r, id)
  /\ operations' = operations \cup {[kind |-> r.kind, key |-> r.key, id |-> id]}

-----------------------------------------------------------------------------
(* handle_replay and handle_rollback *)

Arrive(t, r) ==
  /\ pc[t] = "idle"
  /\ Cardinality(Running) < MaxInFlight
  /\ req' = [req EXCEPT ![t] = r]
  /\ IF r.valid THEN Goto(t, "lookup") /\ UNCHANGED answer
                ELSE Finish(t, Failed)
  /\ raced' = raced \cup RacesWith(t, r)
  /\ UNCHANGED <<ledger, operations, dlq, op, faults>>

\* get_event_by_idempotency on the completed key.
Lookup(t) ==
  /\ pc[t] = "lookup"
  /\ IF AlreadyCompleted(req[t])
     THEN Finish(t, FromEvent(req[t], ledger[CompletedKey(req[t])]))
     ELSE Goto(t, "trace") /\ UNCHANGED answer
  /\ UNCHANGED <<ledger, operations, dlq, req, op, faults, raced>>

\* resolve_snapshot_lineage of a replay, get_correlation of a rollback (whose
\* failure is ignored); what they return decides nothing here.
Trace(t) ==
  /\ pc[t] = "trace"
  /\ Goto(t, "request")
  /\ UNCHANGED <<ledger, operations, dlq, req, op, answer, faults, raced>>

\* Faulty: an event that could not be written does not stop the request.
RequestRegardless(t) ==
  /\ pc[t] = "request"
  /\ ledger' \in {ledger, Written(RequestedKey(req[t]), RequestedEvent(req[t]))}
  /\ Goto(t, "call")
  /\ UNCHANGED <<operations, dlq, req, op, answer, faults, raced>>

Request(t) ==
  /\ pc[t] = "request"
  /\ ledger' = Written(RequestedKey(req[t]), RequestedEvent(req[t]))
  /\ Goto(t, "call")
  /\ UNCHANGED <<operations, dlq, req, op, answer, faults, raced>>

\* request_replay, request_rollback: accepted.
Call(t) ==
  /\ pc[t] = "call"
  /\ \E id \in Operations : Start(req[t], id) /\ op' = [op EXCEPT ![t] = id]
  /\ Goto(t, "complete")
  /\ UNCHANGED <<ledger, dlq, req, answer, faults, raced>>

\* aivcs-api answers with an error status, having done nothing.
Refused(t) ==
  /\ pc[t] = "call"
  /\ Goto(t, "fail")
  /\ UNCHANGED <<ledger, operations, dlq, req, op, answer, faults, raced>>

\* aivcs-api starts an operation and the reply is lost: an error like any
\* other.
CallReplyLost(t) ==
  /\ pc[t] = "call" /\ faults < MaxFaults
  /\ faults' = faults + 1
  /\ \E id \in Operations : Start(req[t], id)
  /\ Goto(t, "fail")
  /\ UNCHANGED <<ledger, dlq, req, op, answer, raced>>

\* The caller gets the response of its own call, with the id of the event
\* data-fabric holds.
Complete(t) ==
  /\ pc[t] = "complete"
  /\ ledger' = Written(CompletedKey(req[t]), CompletedEvent(req[t], op[t]))
  /\ Finish(t, Told(op[t]))
  /\ UNCHANGED <<operations, dlq, req, op, faults, raced>>

\* The failed event, then record_dlq.
Fail(t) ==
  /\ pc[t] = "fail"
  /\ ledger' = Written(FailedKey(req[t]), FailedEvent(req[t]))
  /\ dlq' = dlq + 1
  /\ Finish(t, Failed)
  /\ UNCHANGED <<operations, req, op, faults, raced>>

\* The failed event is not written; the error is dropped.
FailUnwritten(t) ==
  /\ pc[t] = "fail" /\ faults < MaxFaults
  /\ faults' = faults + 1
  /\ dlq' = dlq + 1
  /\ Finish(t, Failed)
  /\ UNCHANGED <<ledger, operations, req, op, raced>>

-----------------------------------------------------------------------------
(* Faults *)

\* The call the handler awaits takes effect though its reply is lost.
LostEffect(t) ==
  \/ /\ pc[t] = "request"
     /\ ledger' = Written(RequestedKey(req[t]), RequestedEvent(req[t]))
     /\ UNCHANGED operations
  \/ /\ pc[t] = "call"
     /\ \E id \in Operations : Start(req[t], id)
     /\ UNCHANGED ledger
  \/ /\ pc[t] = "complete"
     /\ ledger' = Written(CompletedKey(req[t]), CompletedEvent(req[t], op[t]))
     /\ UNCHANGED operations
  \/ /\ pc[t] = "fail"
     /\ ledger' = Written(FailedKey(req[t]), FailedEvent(req[t]))
     /\ UNCHANGED operations

\* The handler stops at an await: a call to data-fabric failed, the caller is
\* gone and the handler is dropped, or the process has died.
CutShort(t) ==
  /\ t \in Running /\ faults < MaxFaults
  /\ faults' = faults + 1
  /\ UNCHANGED <<ledger, operations>> \/ LostEffect(t)
  /\ Finish(t, Failed)
  /\ UNCHANGED <<dlq, req, op, raced>>

Terminated ==
  /\ \A t \in Tasks : pc[t] = "done"
  /\ UNCHANGED vars

Step(t) == \/ Lookup(t) \/ Trace(t) \/ Request(t) \/ Call(t) \/ Refused(t)
           \/ Complete(t) \/ Fail(t)

Next ==
  \/ \E t \in Tasks :
       \/ Step(t) \/ CallReplyLost(t) \/ FailUnwritten(t) \/ CutShort(t)
       \/ \E r \in Requests : Arrive(t, r)
  \/ Terminated

Spec == Init /\ [][Next]_vars

-----------------------------------------------------------------------------
(* Safety *)

\* No key is used for both kinds of request.
KeysApart == \A r, s \in Requests : r.key = s.key => r.kind = s.kind

\* aivcs-api never runs what data-fabric has no request of ("records audit
\* trail before aivcs"), lost replies and abandoned requests included.  Holds
\* where KeysApart does: under a shared key the second kind's requested event
\* is never written.
AuditedBeforeStarted ==
  \A o \in operations :
    /\ <<o.key, "requested">> \in DOMAIN ledger
    /\ ledger[<<o.key, "requested">>].kind = o.kind

\* The trail tells no lies: an outcome is written only for what was
\* requested, and what is written as completed is what aivcs-api started.
TrailIsTrue ==
  \A x \in DOMAIN ledger :
    /\ <<x[1], "requested">> \in DOMAIN ledger
    /\ x[2] = "completed" =>
         \E o \in operations :
           o.key = x[1] /\ o.kind = ledger[x].kind /\ o.id = ledger[x].op

\* Whatever interleaves, a caller is told of an operation aivcs-api started
\* for the kind and key it sent: of its own call's or of the recorded one.
ToldOfItsOwn ==
  \A t \in Tasks :
    answer[t].status = "ok" =>
      \E o \in operations :
        o.kind = req[t].kind /\ o.key = req[t].key /\ o.id = answer[t].op

\* A caller is told the operation data-fabric records as completed, and so is
\* every later caller with its key: a retry does not learn of another replay.
\* Only a request that ran beside another of its key before either was
\* completed may be told of an operation of its own.
AnswersMatchRecord ==
  \A t \in Tasks \ raced :
    answer[t].status = "ok" =>
      /\ CompletedKey(req[t]) \in DOMAIN ledger
      /\ answer[t].op = ledger[CompletedKey(req[t])].op

\* Once a request is recorded as completed no operation is started for its
\* key again, but by a request that raced with the one completed.
StartsNothingDone ==
  \A o \in operations' \ operations :
    <<o.key, "completed">> \in DOMAIN ledger =>
      \E t \in raced : pc[t] = "call" /\ req[t].key = o.key

NeverRepeated == [][StartsNothingDone]_vars

\* Operation o is recorded as completed; or a handler is about to record it,
\* or raced with the one that was recorded and told its caller of o.
Recorded(o) == /\ <<o.key, "completed">> \in DOMAIN ledger
               /\ ledger[<<o.key, "completed">>].op = o.id

OperationOf(t, id) == [kind |-> req[t].kind, key |-> req[t].key, id |-> id]

Claimed(o) ==
  \E t \in Tasks :
    \/ pc[t] = "complete" /\ o = OperationOf(t, op[t])
    \/ t \in raced /\ answer[t].status = "ok" /\ o = OperationOf(t, answer[t].op)

\* Every operation aivcs-api runs is the recorded one of its key, or its
\* caller's who raced for that key, but for one per fault: a failure after the
\* start leaves one behind and the retry starts another, and nothing else
\* makes aivcs-api run a request twice.
StartsAccountedFor ==
  Cardinality({o \in operations : ~Recorded(o) /\ ~Claimed(o)}) <= faults
=============================================================================
