------------------------- MODULE ReplayBridge_proofs -------------------------
(****************************************************************************)
(* Theorems about ReplayBridge for every set of keys, operations, tasks and *)
(* requests and every bound, whichever operations aivcs-api answers with.   *)
(****************************************************************************)
EXTENDS ReplayBridge, FiniteSetTheorems, TLAPS

\* What a handler may rely on at each label: the strengthening that makes
\* TypeOK inductive.
PhaseOK ==
  \A t \in Tasks :
    /\ pc[t] \notin {"idle", "done"} => req[t] \in Requests
    /\ pc[t] = "complete" => op[t] \in Operations

TypeInv == TypeOK /\ PhaseOK

\* What task t knows of the trail: past "request" its requested event is
\* there, and at "complete" aivcs-api has started its operation.
OnTrail(t) ==
  /\ pc[t] \in {"call", "complete", "fail"} =>
       RequestedKey(req[t]) \in DOMAIN ledger
  /\ pc[t] = "complete" =>
       [kind |-> req[t].kind, key |-> req[t].key, id |-> op[t]] \in operations

TrailInv == TrailIsTrue /\ \A t \in Tasks : OnTrail(t)

\* A requested event is one of the requests.
RequestsRecorded ==
  \A x \in DOMAIN ledger :
    x[2] = "requested" =>
      \E r \in Requests : r.key = x[1] /\ r.kind = ledger[x].kind

AuditInv == TrailInv /\ RequestsRecorded /\ AuditedBeforeStarted

-----------------------------------------------------------------------------
(* Lemmas about the helpers *)

\* The three events of a request have keys and contents of their own.
LEMMA EventTypes ==
  ASSUME NEW r \in Requests
  PROVE  /\ r.key \in Keys /\ r.kind \in Kinds
         /\ RequestedKey(r) \in Keys \X Phases
         /\ CompletedKey(r) \in Keys \X Phases
         /\ FailedKey(r) \in Keys \X Phases
         /\ RequestedEvent(r) \in AuditEvent
         /\ FailedEvent(r) \in AuditEvent
         /\ \A id \in Operations : CompletedEvent(r, id) \in AuditEvent
<1>1. r \in ReplayRequest
  BY ReplayAssumption
<1> QED BY <1>1 DEF ReplayRequest, RequestedKey, CompletedKey, FailedKey,
          RequestedEvent, CompletedEvent, FailedEvent, AuditEvent, Phases

\* What the conjunct of TypeOK about the ledger says.
LedgerOK(l) ==
  /\ DOMAIN l \subseteq Keys \X Phases
  /\ l \in [DOMAIN l -> AuditEvent]
  /\ \A x \in DOMAIN l : l[x].op # None <=> x[2] = "completed"

\* A well-typed entry keeps the ledger well typed.
LEMMA WrittenType ==
  ASSUME LedgerOK(ledger), NEW x \in Keys \X Phases, NEW e \in AuditEvent,
         e.op # None <=> x[2] = "completed"
  PROVE  LedgerOK(Written(x, e))
BY DEF Written, LedgerOK

\* The three entries a request makes are well typed.
LEMMA EntriesType ==
  ASSUME LedgerOK(ledger), NEW r \in Requests
  PROVE  /\ LedgerOK(Written(RequestedKey(r), RequestedEvent(r)))
         /\ LedgerOK(Written(FailedKey(r), FailedEvent(r)))
         /\ \A id \in Operations :
              LedgerOK(Written(CompletedKey(r), CompletedEvent(r, id)))
<1>1. LedgerOK(Written(RequestedKey(r), RequestedEvent(r)))
  BY EventTypes, WrittenType DEF RequestedKey, RequestedEvent
<1>2. LedgerOK(Written(FailedKey(r), FailedEvent(r)))
  BY EventTypes, WrittenType DEF FailedKey, FailedEvent
<1>3. ASSUME NEW id \in Operations
      PROVE  LedgerOK(Written(CompletedKey(r), CompletedEvent(r, id)))
  BY EventTypes, WrittenType, ReplayAssumption DEF CompletedKey, CompletedEvent
<1> QED BY <1>1, <1>2, <1>3

-----------------------------------------------------------------------------
(* Every step keeps the types *)

\* TypeOK, apart from the ledger.
RestOK ==
  /\ operations \subseteq Operation
  /\ dlq \in Nat /\ faults \in Nat
  /\ pc \in [Tasks -> Labels]
  /\ req \in [Tasks -> Requests \cup {None}]
  /\ op \in [Tasks -> Operations \cup {None}]
  /\ answer \in [Tasks -> Answers]
  /\ raced \subseteq Tasks

\* The type invariant, by what a step usually leaves alone.
LEMMA TypeParts == TypeOK <=> LedgerOK(ledger) /\ RestOK
BY DEF TypeOK, LedgerOK, RestOK

\* An operation aivcs-api starts for a request is well typed.
LEMMA StartType ==
  ASSUME NEW r \in Requests, NEW id \in Operations, Start(r, id),
         operations \subseteq Operation
  PROVE  operations' \subseteq Operation
BY EventTypes DEF Start, Operation

\* What a stored event answers a later caller with is an answer.
LEMMA FromEventType ==
  ASSUME LedgerOK(ledger), NEW r \in Requests, AlreadyCompleted(r)
  PROVE  FromEvent(r, ledger[CompletedKey(r)]) \in Answers
<1>1. ledger[CompletedKey(r)].op \in Operations
  BY DEF AlreadyCompleted, LedgerOK, AuditEvent, CompletedKey
<1> QED BY <1>1 DEF FromEvent, Told, Answers

\* The parts again, after a step.
LEMMA TypeJoin ==
  LedgerOK(ledger') /\ RestOK' /\ PhaseOK' => TypeInv'
BY DEF TypeInv, TypeOK, LedgerOK, RestOK

\* A step of a handler, or of a call that fails, keeps the types.
LEMMA TaskType ==
  ASSUME TypeInv, NEW t \in Tasks,
         Step(t) \/ CallReplyLost(t) \/ FailUnwritten(t) \/ CutShort(t)
  PROVE  TypeInv'
<1>0. LedgerOK(ledger) /\ RestOK
  BY TypeParts DEF TypeInv
<1>1. pc[t] \notin {"idle", "done"} => req[t] \in Requests
  BY DEF TypeInv, PhaseOK
<1> SUFFICES LedgerOK(ledger') /\ RestOK' /\ PhaseOK'
  BY TypeJoin
<1> QED
  <2>1. CASE Lookup(t)
    BY <1>0, <1>1, <2>1, FromEventType
       DEF Lookup, Goto, Finish, TypeInv, PhaseOK, RestOK, Labels
  <2>2. CASE Trace(t) \/ Refused(t)
    BY <1>0, <1>1, <2>2
       DEF Trace, Refused, Goto, TypeInv, PhaseOK, RestOK, Labels
  <2>3. CASE Request(t)
    BY <1>0, <1>1, <2>3, EntriesType
       DEF Request, Goto, TypeInv, PhaseOK, RestOK, Labels
  <2>4. CASE Call(t)
    <3>1. PICK id \in Operations : Start(req[t], id)
                                   /\ op' = [op EXCEPT ![t] = id]
      BY <2>4 DEF Call
    <3>2. operations' \subseteq Operation
      BY <1>0, <1>1, <2>4, <3>1, StartType DEF Call, RestOK
    <3> QED BY <1>0, <1>1, <2>4, <3>1, <3>2
               DEF Call, Goto, TypeInv, PhaseOK, RestOK, Labels
  <2>5. CASE CallReplyLost(t)
    <3>1. operations' \subseteq Operation
      BY <1>0, <1>1, <2>5, StartType DEF CallReplyLost, RestOK
    <3> QED BY <1>0, <1>1, <2>5, <3>1
               DEF CallReplyLost, Goto, TypeInv, PhaseOK, RestOK, Labels
  <2>6. CASE Complete(t)
    <3>1. op[t] \in Operations /\ req[t] \in Requests
      BY <1>1, <2>6 DEF Complete, TypeInv, PhaseOK
    <3>2. LedgerOK(ledger') /\ Told(op[t]) \in Answers
      BY <1>0, <2>6, <3>1, EntriesType DEF Complete, Told, Answers
    <3> QED BY <1>0, <2>6, <3>2
               DEF Complete, Goto, Finish, TypeInv, PhaseOK, RestOK, Labels
  <2>7. CASE Fail(t) \/ FailUnwritten(t)
    <3>1. LedgerOK(ledger')
      BY <1>0, <1>1, <2>7, EntriesType DEF Fail, FailUnwritten
    <3> QED BY <1>0, <2>7, <3>1
               DEF Fail, FailUnwritten, Goto, Finish, TypeInv, PhaseOK,
                   RestOK, Labels, Answers
  <2>8. CASE CutShort(t)
    <3>1. LedgerOK(ledger') /\ operations' \subseteq Operation
      <4>1. req[t] \in Requests
        BY <1>1, <2>8 DEF CutShort, Running
      <4>2. CASE UNCHANGED <<ledger, operations>>
        BY <1>0, <4>2 DEF RestOK
      <4>3. CASE LostEffect(t)
        <5>1. pc[t] = "complete" => op[t] \in Operations
          BY DEF TypeInv, PhaseOK
        <5> QED BY <1>0, <4>1, <4>3, <5>1, EntriesType, StartType
                   DEF LostEffect, RestOK
      <4> QED BY <2>8, <4>2, <4>3 DEF CutShort
    <3> QED BY <1>0, <2>8, <3>1
               DEF CutShort, Goto, Finish, TypeInv, PhaseOK, RestOK, Labels,
                   Answers
  <2> QED BY <2>1, <2>2, <2>3, <2>4, <2>5, <2>6, <2>7, <2>8 DEF Step

\* The type invariant is inductive.
LEMMA NextType == TypeInv /\ [Next]_vars => TypeInv'
<1> SUFFICES ASSUME TypeInv, [Next]_vars PROVE TypeInv'
  OBVIOUS
<1>1. CASE \E t \in Tasks : Step(t) \/ CallReplyLost(t) \/ FailUnwritten(t)
                              \/ CutShort(t)
  BY <1>1, TaskType
<1>2. ASSUME NEW t \in Tasks, NEW r \in Requests, Arrive(t, r)
      PROVE  TypeInv'
  <2>1. LedgerOK(ledger) /\ RestOK
    BY TypeParts DEF TypeInv
  <2>2. LedgerOK(ledger') /\ RestOK'
    <3>1. RacesWith(t, r) \subseteq Tasks
      BY DEF RacesWith, Beside, Running
    <3> QED BY <1>2, <2>1, <3>1
            DEF Arrive, Goto, Finish, RestOK, Labels, Answers
  <2>3. PhaseOK'
    BY <1>2, <2>1 DEF Arrive, Goto, Finish, TypeInv, PhaseOK, RestOK
  <2> QED BY <2>2, <2>3, TypeJoin
<1>3. CASE UNCHANGED vars
  BY <1>3 DEF vars, TypeInv, TypeOK, PhaseOK
<1> QED BY <1>1, <1>2, <1>3 DEF Next, Terminated

\* TypeOK and what each label implies hold in every reachable state.
THEOREM TypeInvariant == Spec => []TypeInv
<1>1. Init => TypeInv
  BY DEF Init, TypeInv, TypeOK, PhaseOK, Labels, Answers
<1> QED BY <1>1, NextType, PTL DEF Spec

\* Every reachable state of the bridge is well typed; in particular exactly
\* the completed events carry the id of an operation.
THEOREM BridgeTypes == Spec => []TypeOK
<1>1. TypeInv => TypeOK
  BY DEF TypeInv
<1> QED BY <1>1, TypeInvariant, PTL

-----------------------------------------------------------------------------
(* The trail *)

\* What a step does to data-fabric and aivcs-api: nothing, one entry written
\* by a task, or one operation started by a task at "call".
LEMMA TrailMoves ==
  ASSUME [Next]_vars
  PROVE  \/ UNCHANGED <<ledger, operations>>
         \/ \E t \in Tasks :
              /\ UNCHANGED operations
              /\ \/ /\ pc[t] = "request"
                    /\ ledger' = Written(RequestedKey(req[t]),
                                         RequestedEvent(req[t]))
                 \/ /\ pc[t] = "complete"
                    /\ ledger' = Written(CompletedKey(req[t]),
                                         CompletedEvent(req[t], op[t]))
                 \/ /\ pc[t] = "fail"
                    /\ ledger' = Written(FailedKey(req[t]), FailedEvent(req[t]))
         \/ \E t \in Tasks :
              /\ pc[t] = "call" /\ UNCHANGED ledger
              /\ \E id \in Operations : Start(req[t], id)
<1>1. CASE \E t \in Tasks : Request(t) \/ Complete(t) \/ Fail(t)
  BY <1>1 DEF Request, Complete, Fail
<1>2. CASE \E t \in Tasks : Call(t) \/ CallReplyLost(t)
  BY <1>2 DEF Call, CallReplyLost
<1>3. CASE \E t \in Tasks : CutShort(t)
  BY <1>3 DEF CutShort, LostEffect
<1>4. CASE \E t \in Tasks :
             Lookup(t) \/ Trace(t) \/ Refused(t) \/ FailUnwritten(t)
  BY <1>4 DEF Lookup, Trace, Refused, FailUnwritten
<1>5. CASE \E t \in Tasks, r \in Requests : Arrive(t, r)
  BY <1>5 DEF Arrive
<1>6. CASE UNCHANGED vars
  BY <1>6 DEF vars
<1> QED BY <1>1, <1>2, <1>3, <1>4, <1>5, <1>6 DEF Next, Terminated, Step

\* No entry of the trail is withdrawn or changed, and no operation undone.
LEMMA TrailGrows ==
  ASSUME [Next]_vars
  PROVE  /\ DOMAIN ledger \subseteq DOMAIN ledger'
         /\ \A x \in DOMAIN ledger : ledger'[x] = ledger[x]
         /\ operations \subseteq operations'
BY TrailMoves DEF Start, Written

\* A task that moves knows its trail, one case per label it comes to.
LEMMA OnTrailStep ==
  ASSUME TypeInv, TrailInv, [Next]_vars, NEW t \in Tasks
  PROVE  OnTrail(t)'
<1>0. /\ pc \in [Tasks -> Labels] /\ req \in [Tasks -> Requests \cup {None}]
      /\ op \in [Tasks -> Operations \cup {None}]
  BY DEF TypeInv, TypeOK
<1>1. OnTrail(t)
  BY DEF TrailInv
<1>2. CASE UNCHANGED <<pc[t], req[t], op[t]>>
  BY <1>1, <1>2, TrailGrows DEF OnTrail, RequestedKey
<1>3. CASE Request(t)
  BY <1>0, <1>3 DEF Request, Goto, OnTrail, Written
<1>4. CASE Call(t)
  <2>1. PICK id \in Operations : Start(req[t], id)
                                 /\ op' = [op EXCEPT ![t] = id]
    BY <1>4 DEF Call
  <2> QED BY <1>0, <1>1, <1>4, <2>1
             DEF Call, Goto, OnTrail, RequestedKey, Start
<1>5. CASE Refused(t) \/ CallReplyLost(t)
  BY <1>0, <1>1, <1>5
     DEF Refused, CallReplyLost, Goto, OnTrail, RequestedKey
<1>6. CASE \/ Lookup(t) \/ Trace(t) \/ Complete(t) \/ Fail(t)
           \/ FailUnwritten(t) \/ CutShort(t)
           \/ \E r \in Requests : Arrive(t, r)
  <2>1. pc'[t] \in {"trace", "request", "lookup", "done"}
    BY <1>0, <1>6 DEF Lookup, Trace, Complete, Fail, FailUnwritten, CutShort,
                      Arrive, Goto, Finish
  <2> QED BY <2>1 DEF OnTrail
<1>7. ASSUME NEW u \in Tasks \ {t},
             \/ Step(u) \/ CallReplyLost(u) \/ FailUnwritten(u) \/ CutShort(u)
             \/ \E r \in Requests : Arrive(u, r)
      PROVE  UNCHANGED <<pc[t], req[t], op[t]>>
  BY <1>0, <1>7 DEF Step, Lookup, Trace, Request, Call, Refused, Complete,
                    Fail, CallReplyLost, FailUnwritten, CutShort, Arrive,
                    Goto, Finish
<1>8. CASE UNCHANGED vars
  BY <1>2, <1>8 DEF vars
<1> QED BY <1>2, <1>3, <1>4, <1>5, <1>6, <1>7, <1>8
           DEF Next, Terminated, Step

\* No step writes an outcome that was not requested, or a completion of what
\* was not started.
LEMMA TrailStep == TypeInv /\ TrailInv /\ [Next]_vars => TrailInv'
<1> SUFFICES ASSUME TypeInv, TrailInv, [Next]_vars PROVE TrailInv'
  OBVIOUS
<1>1. \A t \in Tasks : OnTrail(t)'
  BY OnTrailStep
<1>2. TrailIsTrue'
  <2> SUFFICES ASSUME NEW x \in DOMAIN ledger'
               PROVE  /\ <<x[1], "requested">> \in DOMAIN ledger'
                      /\ x[2] = "completed" =>
                           \E o \in operations' :
                             /\ o.key = x[1] /\ o.kind = ledger'[x].kind
                             /\ o.id = ledger'[x].op
    BY DEF TrailIsTrue
  <2>1. CASE x \in DOMAIN ledger
    BY <2>1, TrailGrows DEF TrailInv, TrailIsTrue
  <2>2. CASE x \notin DOMAIN ledger
    <3>1. PICK t \in Tasks :
            /\ UNCHANGED operations
            /\ \/ /\ pc[t] = "request"
                  /\ ledger' = Written(RequestedKey(req[t]),
                                       RequestedEvent(req[t]))
               \/ /\ pc[t] = "complete"
                  /\ ledger' = Written(CompletedKey(req[t]),
                                       CompletedEvent(req[t], op[t]))
               \/ /\ pc[t] = "fail"
                  /\ ledger' = Written(FailedKey(req[t]), FailedEvent(req[t]))
      BY <2>2, TrailMoves
    <3>2. OnTrail(t)
      BY DEF TrailInv
    <3>3. CASE x = RequestedKey(req[t])
      BY <3>3 DEF RequestedKey
    <3>4. CASE pc[t] = "complete" /\ x = CompletedKey(req[t])
                 /\ ledger'[x] = CompletedEvent(req[t], op[t])
      <4>1. RequestedKey(req[t]) \in DOMAIN ledger'
        BY <3>2, <3>4, TrailGrows DEF OnTrail
      <4>2. [kind |-> req[t].kind, key |-> req[t].key, id |-> op[t]]
              \in operations'
        BY <3>1, <3>2, <3>4 DEF OnTrail
      <4> QED BY <3>4, <4>1, <4>2
                 DEF CompletedKey, RequestedKey, CompletedEvent
    <3>5. CASE pc[t] = "fail" /\ x = FailedKey(req[t])
      BY <3>2, <3>5, TrailGrows DEF OnTrail, FailedKey, RequestedKey
    <3> QED BY <2>2, <3>1, <3>3, <3>4, <3>5 DEF Written
  <2> QED BY <2>1, <2>2
<1> QED BY <1>1, <1>2 DEF TrailInv

\* In every reachable state each task knows its trail and the trail is true.
THEOREM TrailInvariant == Spec => []TrailInv
<1>1. Init => TrailInv
  BY DEF Init, TrailInv, TrailIsTrue, OnTrail
<1> QED BY <1>1, TrailStep, TypeInvariant, PTL DEF Spec

\* The trail tells no lies: an outcome is written only for what was requested,
\* and what is recorded as completed aivcs-api started, whatever is lost, cut
\* short or served at the same time.
THEOREM TrailAlwaysTrue == Spec => []TrailIsTrue
<1>1. TrailInv => TrailIsTrue
  BY DEF TrailInv
<1> QED BY <1>1, TrailInvariant, PTL

-----------------------------------------------------------------------------
(* Audited before started *)

\* A new requested entry is the request of a task.
LEMMA RequestsRecordedStep ==
  TypeInv /\ RequestsRecorded /\ [Next]_vars => RequestsRecorded'
<1> SUFFICES ASSUME TypeInv, RequestsRecorded, [Next]_vars,
                    NEW x \in DOMAIN ledger', x[2] = "requested"
             PROVE  \E r \in Requests : r.key = x[1] /\ r.kind = ledger'[x].kind
  BY DEF RequestsRecorded
<1>1. CASE x \in DOMAIN ledger
  BY <1>1, TrailGrows DEF RequestsRecorded
<1>2. CASE x \notin DOMAIN ledger
  <2>0. \A y, e : ledger' = Written(y, e) => x = y /\ ledger'[x] = e
    BY <1>2 DEF Written
  <2>1. PICK t \in Tasks :
          /\ pc[t] = "request" /\ x = RequestedKey(req[t])
          /\ ledger'[x] = RequestedEvent(req[t])
    <3>1. \A t \in Tasks : x # CompletedKey(req[t]) /\ x # FailedKey(req[t])
      BY DEF CompletedKey, FailedKey
    <3> QED BY <1>2, <2>0, <3>1, TrailMoves
  <2>2. req[t] \in Requests
    BY <2>1 DEF TypeInv, PhaseOK
  <2> QED BY <2>1, <2>2 DEF RequestedKey, RequestedEvent
<1> QED BY <1>1, <1>2

\* Where no key is used for both kinds, what a task starts at "call" has its
\* requested event, of its own kind.
LEMMA AuditedStep ==
  KeysApart /\ TypeInv /\ AuditInv /\ [Next]_vars => AuditedBeforeStarted'
<1> SUFFICES ASSUME KeysApart, TypeInv, AuditInv, [Next]_vars,
                    NEW o \in operations'
             PROVE  /\ <<o.key, "requested">> \in DOMAIN ledger'
                    /\ ledger'[<<o.key, "requested">>].kind = o.kind
  BY DEF AuditedBeforeStarted
<1>1. CASE o \in operations
  BY <1>1, TrailGrows DEF AuditInv, AuditedBeforeStarted
<1>2. CASE o \notin operations
  <2>1. PICK t \in Tasks :
          /\ pc[t] = "call" /\ UNCHANGED ledger
          /\ \E id \in Operations : Start(req[t], id)
    BY <1>2, TrailMoves
  <2>2. o.key = req[t].key /\ o.kind = req[t].kind
    BY <1>2, <2>1 DEF Start
  <2>3. req[t] \in Requests
    BY <2>1 DEF TypeInv, PhaseOK
  <2>4. RequestedKey(req[t]) \in DOMAIN ledger
    BY <2>1 DEF AuditInv, TrailInv, OnTrail
  <2>5. PICK r \in Requests :
          /\ r.key = req[t].key
          /\ r.kind = ledger[RequestedKey(req[t])].kind
    BY <2>4 DEF AuditInv, RequestsRecorded, RequestedKey
  <2>6. r.kind = req[t].kind
    BY <2>3, <2>5 DEF KeysApart
  <2> QED BY <2>1, <2>2, <2>4, <2>5, <2>6 DEF RequestedKey
<1> QED BY <1>1, <1>2

\* aivcs-api runs nothing that data-fabric has no request of its kind for, as
\* long as callers do not use one key for a replay and a rollback.
THEOREM AuditComesFirst == KeysApart /\ Spec => []AuditedBeforeStarted
<1> SUFFICES ASSUME KeysApart PROVE Spec => []AuditedBeforeStarted
  OBVIOUS
<1>1. Init => AuditInv
  BY DEF Init, AuditInv, TrailInv, TrailIsTrue, OnTrail, RequestsRecorded,
         AuditedBeforeStarted
<1>2. TypeInv /\ AuditInv /\ [Next]_vars => AuditInv'
  BY TrailStep, RequestsRecordedStep, AuditedStep DEF AuditInv
<1>3. AuditInv => AuditedBeforeStarted
  BY DEF AuditInv
<1> QED BY <1>1, <1>2, <1>3, TypeInvariant, PTL DEF Spec

-----------------------------------------------------------------------------
(* Duplicates *)

\* A task that has not raced shares its key with no running task, unless the
\* key has been completed.
NoRival(t) ==
  t \in Running \ raced =>
    \A u \in Beside(req[t]) : u # t => AlreadyCompleted(req[t])

\* A task that has not raced has still nothing completed under its key when
\* it is past its lookup.
NotYet(t) ==
  t \notin raced /\ pc[t] \in {"trace", "request", "call", "complete", "fail"} =>
    ~AlreadyCompleted(req[t])

\* A task says nothing before it ends.
Silent(t) == pc[t] # "done" => answer[t] = NoAnswer

\* Task t, unless it has raced, is told what is recorded.
Matches(t) ==
  t \notin raced /\ answer[t].status = "ok" =>
    AlreadyCompleted(req[t]) /\ answer[t].op = ledger[CompletedKey(req[t])].op

RaceInv == \A t \in Tasks : NoRival(t) /\ NotYet(t) /\ Silent(t) /\ Matches(t)

\* A step of task t.
TaskStep(t) == \/ Step(t) \/ CallReplyLost(t) \/ FailUnwritten(t) \/ CutShort(t)
               \/ \E r \in Requests : Arrive(t, r)

\* A step of task t leaves the others as they are, and t has not ended.
LEMMA OthersStay ==
  ASSUME TypeInv, NEW t \in Tasks, TaskStep(t)
  PROVE  /\ pc[t] # "done" /\ raced \subseteq raced'
         /\ \A u \in Tasks : u # t =>
              /\ pc'[u] = pc[u] /\ req'[u] = req[u]
              /\ op'[u] = op[u] /\ answer'[u] = answer[u]
<1>1. RestOK
  BY TypeParts DEF TypeInv
<1>2. pc[t] # "done" /\ raced \subseteq raced'
  BY DEF TaskStep, Step, Lookup, Trace, Request, Call, Refused, Complete, Fail,
         CallReplyLost, FailUnwritten, CutShort, Running, Arrive
<1>3. ASSUME NEW u \in Tasks \ {t}
      PROVE  /\ pc'[u] = pc[u] /\ req'[u] = req[u]
             /\ op'[u] = op[u] /\ answer'[u] = answer[u]
  BY <1>1, <1>3 DEF RestOK, TaskStep, Step, Lookup, Trace, Request, Call, Refused,
     Complete, Fail, CallReplyLost, FailUnwritten, CutShort, Arrive, Goto, Finish
<1> QED BY <1>2, <1>3

\* Whatever is completed stays completed.
LEMMA CompletedStays ==
  ASSUME [Next]_vars, NEW r
  PROVE  AlreadyCompleted(r) =>
           /\ AlreadyCompleted(r)'
           /\ (ledger[CompletedKey(r)])' = ledger[CompletedKey(r)]
BY TrailGrows DEF AlreadyCompleted, CompletedKey

\* A task that has arrived keeps its request, and comes no earlier to run.
LEMMA RequestStays ==
  ASSUME TypeInv, NEW t \in Tasks, TaskStep(t), pc[t] # "idle"
  PROVE  req' = req /\ raced' = raced /\ Running' \subseteq Running
<1>1. RestOK
  BY TypeParts DEF TypeInv
<1>2. req' = req /\ raced' = raced
  BY DEF TaskStep, Step, Lookup, Trace, Request, Call, Refused, Complete, Fail,
         CallReplyLost, FailUnwritten, CutShort, Arrive
<1>3. t \in Running
  BY <1>1, OthersStay DEF Running, RestOK
<1> QED BY <1>2, <1>3, OthersStay DEF Running

\* What a request that arrives does: it shares its key with no running task,
\* or finds it completed, or races with all of them.
LEMMA ArriveRaces ==
  ASSUME TypeInv, NEW t \in Tasks, NEW r \in Requests, Arrive(t, r)
  PROVE  /\ req'[t] = r /\ ledger' = ledger
         /\ Running' \subseteq Running \cup {t} /\ t \notin Running
         /\ t \in Running' => \/ AlreadyCompleted(r)
                              \/ Beside(r) = {}
                              \/ Beside(r) \cup {t} \subseteq raced'
<1>1. RestOK
  BY TypeParts DEF TypeInv
<1>2. req'[t] = r /\ ledger' = ledger /\ t \notin Running
  BY <1>1 DEF Arrive, RestOK, Running
<1>3. Running' \subseteq Running \cup {t}
  BY OthersStay DEF Running, TaskStep
<1>4. t \in Running' => r.valid
  BY <1>1 DEF Arrive, Finish, Goto, Running, RestOK
<1>5. raced' = raced \cup RacesWith(t, r)
  BY DEF Arrive
<1> QED BY <1>2, <1>3, <1>4, <1>5 DEF RacesWith

\* No step gives a task that has not raced a rival.
LEMMA NoRivalStep ==
  ASSUME TypeInv, RaceInv, [Next]_vars, NEW t \in Tasks, TaskStep(t),
         NEW u \in Tasks
  PROVE  NoRival(u)'
<1> SUFFICES ASSUME u \in Running' \ raced',
                    NEW v \in Running', req'[v].key = req'[u].key, v # u
             PROVE  CompletedKey(req'[u]) \in DOMAIN ledger'
  BY DEF NoRival, Beside, AlreadyCompleted, CompletedKey
<1>0. u \notin raced /\ v \in Tasks
  BY OthersStay DEF Running
<1>1. ASSUME pc[t] # "idle"
      PROVE  CompletedKey(req'[u]) \in DOMAIN ledger'
  <2>1. /\ req' = req /\ raced' = raced
        /\ u \in Running \ raced /\ v \in Beside(req[u])
    BY <1>1, RequestStays DEF Beside
  <2>2. AlreadyCompleted(req[u])
    BY <2>1 DEF RaceInv, NoRival
  <2> QED BY <2>1, <2>2, TrailGrows DEF AlreadyCompleted, CompletedKey
<1>2. ASSUME NEW r \in Requests, Arrive(t, r)
      PROVE  CompletedKey(req'[u]) \in DOMAIN ledger'
  <2>1. \A w \in Tasks : w # t =>
           req'[w] = req[w] /\ (w \in Running' => w \in Running)
    BY <1>2, OthersStay DEF TaskStep, Running
  <2>2. CASE u # t /\ v # t
    <3>1. u \in Running \ raced /\ v \in Beside(req[u])
      BY <1>0, <2>1, <2>2 DEF Beside
    <3>2. AlreadyCompleted(req[u])
      BY <3>1, <2>2 DEF RaceInv, NoRival
    <3> QED BY <2>1, <2>2, <3>2, TrailGrows DEF AlreadyCompleted, CompletedKey
  <2>3. CASE u = t
    <3>1. req'[t] = r /\ v \in Running /\ req'[v] = req[v]
      BY <1>0, <1>2, <2>1, <2>3, ArriveRaces
    <3>2. v \in Beside(r) /\ t \in Running' /\ t \notin raced'
      BY <2>3, <3>1 DEF Beside
    <3>3. AlreadyCompleted(r) /\ ledger' = ledger
      BY <1>2, <3>2, ArriveRaces
    <3> QED BY <2>3, <3>1, <3>3 DEF AlreadyCompleted, CompletedKey
  <2>4. CASE v = t
    <3>1. req'[t] = r /\ u \in Running /\ req'[u] = req[u]
      BY <1>2, <2>1, <2>4, ArriveRaces
    <3>2. u \in Beside(r) /\ t \in Running' /\ u \notin raced'
      BY <2>4, <3>1 DEF Beside
    <3>3. AlreadyCompleted(r) /\ ledger' = ledger
      BY <1>2, <3>2, ArriveRaces
    <3> QED BY <1>0, <2>4, <3>1, <3>3 DEF AlreadyCompleted, CompletedKey, Beside
  <2> QED BY <2>2, <2>3, <2>4
<1>3. pc[t] = "idle" => \E r \in Requests : Arrive(t, r)
  BY DEF TaskStep, Step, Lookup, Trace, Request, Call, Refused, Complete, Fail,
         CallReplyLost, FailUnwritten, CutShort, Running
<1> QED BY <1>1, <1>2, <1>3

\* The task that moves finds nothing completed under its key but by itself.
LEMMA NotYetOwn ==
  ASSUME TypeInv, NEW t \in Tasks, TaskStep(t), NotYet(t)
  PROVE  NotYet(t)'
<1>0. RestOK /\ LedgerOK(ledger)
  BY TypeParts DEF TypeInv
<1>1. CASE Lookup(t)
  BY <1>0, <1>1 DEF Lookup, RestOK, NotYet, AlreadyCompleted, Goto, Finish,
                    CompletedKey
<1>2. CASE Trace(t) \/ Call(t) \/ Refused(t) \/ CallReplyLost(t)
  <2>1. /\ pc[t] \in {"trace", "call"} /\ ledger' = ledger /\ req' = req
        /\ raced' = raced
    BY <1>2 DEF Trace, Call, Refused, CallReplyLost
  <2> QED BY <2>1 DEF NotYet, AlreadyCompleted, CompletedKey
<1>3. CASE Request(t)
  <2>1. /\ pc[t] = "request" /\ req' = req /\ raced' = raced
        /\ DOMAIN ledger' = DOMAIN ledger \cup {RequestedKey(req[t])}
    BY <1>3 DEF Request, Written
  <2> QED BY <2>1 DEF NotYet, AlreadyCompleted, CompletedKey, RequestedKey
<1>4. CASE Complete(t) \/ Fail(t) \/ FailUnwritten(t) \/ CutShort(t)
  BY <1>0, <1>4 DEF Complete, Fail, FailUnwritten, CutShort, Finish, Goto,
                    RestOK, NotYet
<1>5. CASE \E r \in Requests : Arrive(t, r)
  BY <1>0, <1>5 DEF Arrive, Finish, Goto, RestOK, NotYet
<1> QED BY <1>1, <1>2, <1>3, <1>4, <1>5 DEF TaskStep, Step

\* A key is completed by a task at "complete" that was asked for it.
LEMMA CompletesOwn ==
  ASSUME NEW t \in Tasks, TaskStep(t), NEW k
  PROVE  <<k, "completed">> \in DOMAIN ledger' =>
           \/ <<k, "completed">> \in DOMAIN ledger
           \/ pc[t] = "complete" /\ k = req[t].key
<1>1. CASE Request(t) \/ Complete(t) \/ Fail(t)
  BY <1>1 DEF Request, Complete, Fail, Written, RequestedKey, CompletedKey,
              FailedKey
<1>2. CASE CutShort(t)
  BY <1>2 DEF CutShort, LostEffect, Written, RequestedKey, CompletedKey,
              FailedKey
<1>3. CASE \/ Lookup(t) \/ Trace(t) \/ Call(t) \/ Refused(t)
           \/ CallReplyLost(t) \/ FailUnwritten(t)
           \/ \E r \in Requests : Arrive(t, r)
  BY <1>3 DEF Lookup, Trace, Call, Refused, CallReplyLost, FailUnwritten, Arrive
<1> QED BY <1>1, <1>2, <1>3 DEF TaskStep, Step

\* No other task completes the key of one that has not raced: the two would
\* be rivals.
LEMMA NotYetOther ==
  ASSUME TypeInv, RaceInv, NEW t \in Tasks, TaskStep(t),
         NEW u \in Tasks, u # t
  PROVE  NotYet(u)'
<1>0. raced \subseteq raced' /\ pc'[u] = pc[u] /\ req'[u] = req[u]
  BY OthersStay
<1> SUFFICES ASSUME u \notin raced, CompletedKey(req[u]) \in DOMAIN ledger',
                    pc[u] \in {"trace", "request", "call", "complete", "fail"}
             PROVE  FALSE
  BY <1>0 DEF NotYet, AlreadyCompleted, CompletedKey
<1>1. ~AlreadyCompleted(req[u])
  BY DEF RaceInv, NotYet
<1>2. pc[t] = "complete" /\ req[t].key = req[u].key
  BY <1>1, CompletesOwn DEF AlreadyCompleted, CompletedKey
<1>3. u \in Running \ raced /\ t \in Beside(req[u])
  BY <1>2 DEF Running, Beside
<1> QED BY <1>1, <1>3 DEF RaceInv, NoRival

\* A task says nothing before it ends.
LEMMA SilentStep ==
  ASSUME TypeInv, NEW t \in Tasks, TaskStep(t), Silent(t)
  PROVE  Silent(t)'
<1>0. RestOK
  BY TypeParts DEF TypeInv
<1>1. answer[t] = NoAnswer
  BY OthersStay DEF Silent
<1> QED BY <1>0, <1>1 DEF RestOK, TaskStep, Step, Lookup, Trace, Request, Call,
        Refused, Complete, Fail, CallReplyLost, FailUnwritten, CutShort, Arrive,
        Goto, Finish, Silent

\* The task that ends without having raced answers with what is recorded.
LEMMA MatchesStep ==
  ASSUME TypeInv, NEW t \in Tasks, TaskStep(t), Silent(t), NotYet(t)
  PROVE  Matches(t)'
<1>0. RestOK /\ LedgerOK(ledger) /\ answer[t] = NoAnswer /\ raced \subseteq raced'
  BY TypeParts, OthersStay DEF TypeInv, Silent
<1>1. CASE Lookup(t)
  <2>1. ledger' = ledger /\ req' = req
    BY <1>1 DEF Lookup
  <2>2. CASE AlreadyCompleted(req[t])
    <3>1. answer'[t] = FromEvent(req[t], ledger[CompletedKey(req[t])])
      BY <1>0, <1>1, <2>2 DEF Lookup, Finish, RestOK
    <3> QED BY <2>1, <2>2, <3>1
            DEF Matches, FromEvent, Told, Failed, AlreadyCompleted, CompletedKey
  <2>3. CASE ~AlreadyCompleted(req[t])
    BY <1>0, <1>1, <2>3 DEF Lookup, Matches, NoAnswer
  <2> QED BY <2>2, <2>3
<1>2. CASE Complete(t)
  <2>1. CASE t \in raced
    BY <1>0, <2>1 DEF Matches
  <2>2. CASE t \notin raced
    <3>1. CompletedKey(req[t]) \notin DOMAIN ledger
      BY <1>2, <2>2 DEF Complete, NotYet, AlreadyCompleted
    <3>2. /\ CompletedKey(req[t]) \in DOMAIN ledger'
          /\ ledger'[CompletedKey(req[t])] = CompletedEvent(req[t], op[t])
          /\ answer'[t] = Told(op[t]) /\ req' = req
      BY <1>0, <1>2, <3>1 DEF Complete, Finish, Written, RestOK
    <3> QED BY <3>2
            DEF Matches, CompletedEvent, Told, CompletedKey, AlreadyCompleted
  <2> QED BY <2>1, <2>2
<1>3. CASE ~Lookup(t) /\ ~Complete(t)
  <2>1. answer'[t] \in {NoAnswer, Failed}
    BY <1>0, <1>3 DEF TaskStep, Step, Trace, Request, Call, Refused, Fail,
       CallReplyLost, FailUnwritten, CutShort, Arrive, Finish, RestOK
  <2> QED BY <2>1 DEF Matches, NoAnswer, Failed
<1> QED BY <1>1, <1>2, <1>3

\* Every step keeps what tasks that have not raced rely on.
LEMMA RaceStep ==
  ASSUME TypeInv, RaceInv, [Next]_vars
  PROVE  RaceInv'
<1>1. CASE UNCHANGED vars
  BY <1>1 DEF vars, RaceInv, NoRival, NotYet, Silent, Matches, Running, Beside,
              AlreadyCompleted, CompletedKey
<1>2. ASSUME NEW t \in Tasks, TaskStep(t), NEW u \in Tasks
      PROVE  (NoRival(u) /\ NotYet(u) /\ Silent(u) /\ Matches(u))'
  <2>1. NoRival(u)'
    BY <1>2, NoRivalStep
  <2>2. CASE u = t
    BY <1>2, <2>1, <2>2, NotYetOwn, SilentStep, MatchesStep DEF RaceInv
  <2>3. CASE u # t
    <3>1. /\ pc'[u] = pc[u] /\ req'[u] = req[u] /\ answer'[u] = answer[u]
          /\ raced \subseteq raced'
      BY <1>2, <2>3, OthersStay
    <3>2. Silent(u)' /\ Matches(u)'
      BY <3>1, TrailGrows
         DEF RaceInv, Silent, Matches, AlreadyCompleted, CompletedKey
    <3> QED BY <1>2, <2>1, <2>3, <3>2, NotYetOther
  <2> QED BY <2>2, <2>3
<1> QED BY <1>1, <1>2 DEF Next, Terminated, TaskStep, RaceInv

\* In every reachable state, any number of requests at once.
LEMMA RaceInvariant == Spec => []RaceInv
<1>1. Init => RaceInv
  BY DEF Init, RaceInv, NoRival, NotYet, Silent, Matches, Running, NoAnswer
<1> QED BY <1>1, RaceStep, TypeInvariant, PTL DEF Spec

\* Whatever runs at once, is lost or abandoned, a caller is told the operation
\* data-fabric records as completed, unless its request raced.
THEOREM ToldWhatIsRecorded == Spec => []AnswersMatchRecord
<1>1. RaceInv => AnswersMatchRecord
  BY DEF RaceInv, Matches, AnswersMatchRecord, AlreadyCompleted
<1> QED BY <1>1, RaceInvariant, PTL

\* Whatever runs at once, is lost or abandoned, no operation is started for
\* what is recorded as completed, but by a request that raced.
THEOREM CompletedNotRepeated == Spec => NeverRepeated
<1>1. TypeInv /\ RaceInv /\ [Next]_vars => [StartsNothingDone]_vars
  <2> SUFFICES ASSUME TypeInv, RaceInv, [Next]_vars,
                      NEW o \in operations' \ operations,
                      <<o.key, "completed">> \in DOMAIN ledger
               PROVE  \E t \in raced : pc[t] = "call" /\ req[t].key = o.key
    BY DEF StartsNothingDone
  <2>1. PICK t \in Tasks :
          /\ pc[t] = "call" /\ \E id \in Operations : Start(req[t], id)
    BY TrailMoves
  <2>2. o.key = req[t].key
    BY <2>1 DEF Start
  <2> QED BY <2>1, <2>2 DEF RaceInv, NotYet, CompletedKey, AlreadyCompleted
<1> QED BY <1>1, RaceInvariant, TypeInvariant, PTL DEF Spec, NeverRepeated

-----------------------------------------------------------------------------
(* What aivcs-api has started beside the record *)

Unaccounted == {o \in operations : ~Recorded(o) /\ ~Claimed(o)}

AccountInv == IsFiniteSet(Unaccounted) /\ Cardinality(Unaccounted) <= faults

\* What was recorded or claimed before a step of task t still is, but for the
\* operation t was about to record.
LEMMA ClaimsStay ==
  ASSUME TypeInv, RaceInv, [Next]_vars, NEW t \in Tasks, TaskStep(t), NEW o
  PROVE  /\ Recorded(o) => Recorded(o)'
         /\ Claimed(o) => \/ Claimed(o)'
                          \/ pc[t] = "complete" /\ o = OperationOf(t, op[t])
<1>1. Recorded(o) => Recorded(o)'
  BY TrailGrows DEF Recorded
<1>2. ASSUME Claimed(o)
      PROVE  Claimed(o)' \/ (pc[t] = "complete" /\ o = OperationOf(t, op[t]))
  <2>1. PICK u \in Tasks :
          \/ pc[u] = "complete" /\ o = OperationOf(u, op[u])
          \/ /\ u \in raced /\ answer[u].status = "ok"
             /\ o = OperationOf(u, answer[u].op)
    BY <1>2 DEF Claimed
  <2>2. CASE u = t
    <3>1. answer[t] = NoAnswer
      BY OthersStay DEF RaceInv, Silent
    <3> QED BY <2>1, <2>2, <3>1 DEF NoAnswer
  <2>3. CASE u # t
    <3>1. /\ pc'[u] = pc[u] /\ req'[u] = req[u] /\ op'[u] = op[u]
          /\ answer'[u] = answer[u] /\ raced \subseteq raced'
      BY <2>3, OthersStay
    <3> QED BY <2>1, <3>1 DEF Claimed, OperationOf
  <2> QED BY <2>2, <2>3
<1> QED BY <1>1, <1>2

\* The handler that records its operation, or finds another recorded by one
\* that it raced with, leaves nothing unaccounted for.
LEMMA CompleteAccounts ==
  ASSUME TypeInv, RaceInv, [Next]_vars, NEW t \in Tasks, Complete(t)
  PROVE  Unaccounted' \subseteq Unaccounted /\ faults' = faults
<1>0. RestOK /\ TaskStep(t)
  BY TypeParts DEF TypeInv, TaskStep, Step
<1> PICK mine : mine = OperationOf(t, op[t])
  OBVIOUS
<1>1. /\ UNCHANGED <<operations, req, faults, raced>>
      /\ answer'[t] = Told(op[t])
  BY <1>0 DEF Complete, Finish, RestOK
<1>2. Recorded(mine)' \/ Claimed(mine)'
  <2>1. CASE t \in raced
    BY <1>1, <2>1 DEF Claimed, OperationOf, Told
  <2>2. CASE t \notin raced
    <3>1. CompletedKey(req[t]) \notin DOMAIN ledger
      BY <2>2 DEF Complete, RaceInv, NotYet, AlreadyCompleted
    <3>2. /\ CompletedKey(req[t]) \in DOMAIN ledger'
          /\ ledger'[CompletedKey(req[t])] = CompletedEvent(req[t], op[t])
      BY <3>1 DEF Complete, Written
    <3> QED BY <3>2 DEF Recorded, OperationOf, CompletedEvent, CompletedKey
  <2> QED BY <2>1, <2>2
<1>3. ASSUME NEW o \in Unaccounted' PROVE o \in Unaccounted
  <2>1. o # mine /\ o \in operations
    BY <1>1, <1>2, <1>3 DEF Unaccounted
  <2> QED BY <1>0, <1>3, <2>1, ClaimsStay DEF Unaccounted
<1> QED BY <1>1, <1>3

\* One step: nothing is left unaccounted for, or one operation by a fault.
LEMMA AccountMoves ==
  ASSUME TypeInv, RaceInv, [Next]_vars, NEW t \in Tasks, TaskStep(t)
  PROVE  \/ Unaccounted' \subseteq Unaccounted /\ faults' \in {faults, faults + 1}
         \/ \E o : /\ Unaccounted' \subseteq Unaccounted \cup {o}
                   /\ faults' = faults + 1
<1>1. CASE Complete(t)
  BY <1>1, CompleteAccounts
<1>2. CASE Call(t)
  <2>1. RestOK
    BY TypeParts DEF TypeInv
  <2>2. PICK id \in Operations : Start(req[t], id) /\ op' = [op EXCEPT ![t] = id]
    BY <1>2 DEF Call
  <2>3. /\ pc'[t] = "complete" /\ op'[t] = id
        /\ UNCHANGED <<req, faults>> /\ pc[t] = "call"
    BY <1>2, <2>1, <2>2 DEF Call, Goto, RestOK
  <2>4. Claimed(OperationOf(t, id))'
    BY <2>3 DEF Claimed, OperationOf
  <2>5. operations' = operations \cup {OperationOf(t, id)}
    BY <2>2 DEF Start, OperationOf
  <2>6. ASSUME NEW o \in Unaccounted' PROVE o \in Unaccounted
    <3>1. o \in operations
      BY <2>3, <2>4, <2>5, <2>6 DEF Unaccounted, OperationOf
    <3> QED BY <2>3, <2>6, <3>1, ClaimsStay DEF Unaccounted
  <2> QED BY <2>3, <2>6
<1>3. CASE CallReplyLost(t) \/ CutShort(t)
  <2>1. faults' = faults + 1
    BY <1>3 DEF CallReplyLost, CutShort
  <2>2. CASE pc[t] = "call"
    <3>1. \/ operations' = operations
          \/ \E id \in Operations : Start(req[t], id)
      BY <1>3, <2>2 DEF CallReplyLost, CutShort, LostEffect
    <3>2. PICK o : operations' \subseteq operations \cup {o}
      BY <3>1 DEF Start
    <3>3. \A x \in Unaccounted' : x \in operations => x \in Unaccounted
      BY <2>2, ClaimsStay DEF Unaccounted
    <3>4. Unaccounted' \subseteq Unaccounted \cup {o}
      BY <3>2, <3>3 DEF Unaccounted
    <3> QED BY <2>1, <3>4
  <2>3. CASE pc[t] # "call"
    <3>1. operations' = operations
      BY <1>3, <2>3 DEF CallReplyLost, CutShort, LostEffect
    <3>2. ASSUME NEW x \in Unaccounted'
          PROVE  x \in Unaccounted \cup {OperationOf(t, op[t])}
      BY <3>1, <3>2, ClaimsStay DEF Unaccounted
    <3> QED BY <2>1, <3>2
  <2> QED BY <2>2, <2>3
<1>4. CASE \/ Lookup(t) \/ Trace(t) \/ Request(t) \/ Refused(t) \/ Fail(t)
           \/ FailUnwritten(t) \/ \E r \in Requests : Arrive(t, r)
  <2>1. /\ pc[t] # "complete" /\ operations' = operations
        /\ faults' \in {faults, faults + 1}
    BY <1>4 DEF Lookup, Trace, Request, Refused, Fail, FailUnwritten, Arrive
  <2>2. ASSUME NEW x \in Unaccounted' PROVE x \in Unaccounted
    BY <2>1, <2>2, ClaimsStay DEF Unaccounted
  <2> QED BY <2>1, <2>2
<1> QED BY <1>1, <1>2, <1>3, <1>4 DEF TaskStep, Step

\* The count follows.
LEMMA AccountStep ==
  ASSUME TypeInv, RaceInv, AccountInv, [Next]_vars
  PROVE  AccountInv'
<1>0. faults \in Nat
  BY DEF TypeInv, TypeOK
<1>1. CASE UNCHANGED vars
  BY <1>1 DEF vars, AccountInv, Unaccounted, Recorded, Claimed, OperationOf
<1>2. ASSUME NEW t \in Tasks, TaskStep(t) PROVE AccountInv'
  <2>1. CASE Unaccounted' \subseteq Unaccounted /\ faults' \in {faults, faults + 1}
    <3>1. /\ IsFiniteSet(Unaccounted')
          /\ Cardinality(Unaccounted') <= Cardinality(Unaccounted)
      BY <2>1, FS_Subset DEF AccountInv
    <3>2. Cardinality(Unaccounted) \in Nat /\ Cardinality(Unaccounted') \in Nat
      BY <3>1, FS_CardinalityType DEF AccountInv
    <3> QED BY <1>0, <2>1, <3>1, <3>2 DEF AccountInv
  <2>2. ASSUME NEW o, Unaccounted' \subseteq Unaccounted \cup {o},
               faults' = faults + 1
        PROVE  AccountInv'
    <3>1. /\ IsFiniteSet(Unaccounted \cup {o})
          /\ Cardinality(Unaccounted \cup {o}) <= Cardinality(Unaccounted) + 1
      BY FS_AddElement, FS_CardinalityType DEF AccountInv
    <3>2. /\ IsFiniteSet(Unaccounted')
          /\ Cardinality(Unaccounted') <= Cardinality(Unaccounted \cup {o})
      BY <2>2, <3>1, FS_Subset
    <3>3. /\ Cardinality(Unaccounted) \in Nat /\ Cardinality(Unaccounted') \in Nat
          /\ Cardinality(Unaccounted \cup {o}) \in Nat
      BY <3>1, <3>2, FS_CardinalityType DEF AccountInv
    <3> QED BY <1>0, <2>2, <3>1, <3>2, <3>3 DEF AccountInv
  <2> QED BY <1>2, <2>1, <2>2, AccountMoves
<1> QED BY <1>1, <1>2 DEF Next, Terminated, TaskStep

\* Whatever runs at once, fails or is abandoned, no more operations than there
\* were faults run beside the record without their callers having raced.
THEOREM EveryStartAccounted == Spec => []StartsAccountedFor
<1>1. Init => AccountInv
  BY FS_EmptySet DEF Init, AccountInv, Unaccounted
<1>2. AccountInv => StartsAccountedFor
  BY DEF AccountInv, Unaccounted, StartsAccountedFor
<1> QED BY <1>1, <1>2, AccountStep, RaceInvariant, TypeInvariant, PTL DEF Spec

-----------------------------------------------------------------------------
(* What callers are told, however requests interleave *)

\* Task t has an operation only at its end, and aivcs-api started it for what
\* t was asked.
Own(t) ==
  answer[t].status = "ok" =>
    /\ pc[t] = "done"
    /\ \E o \in operations :
         o.kind = req[t].kind /\ o.key = req[t].key /\ o.id = answer[t].op

\* The handler that ends answers with its own operation, or with a recorded
\* one of its kind, which by TrailIsTrue was started for its key.
LEMMA OwnStep ==
  ASSUME TypeInv, TrailInv, NEW t \in Tasks, Own(t), TaskStep(t), [Next]_vars
  PROVE  Own(t)'
<1>0. RestOK /\ pc[t] # "done" /\ answer[t].status # "ok"
  BY TypeParts, OthersStay DEF TypeInv, Own
<1>1. CASE Lookup(t)
  <2> DEFINE x == CompletedKey(req[t])
  <2>1. operations' = operations /\ req' = req
    BY <1>1 DEF Lookup
  <2>2. CASE AlreadyCompleted(req[t])
    <3>1. answer'[t] = FromEvent(req[t], ledger[x]) /\ pc'[t] = "done"
      BY <1>0, <1>1, <2>2 DEF Lookup, Finish, Goto, RestOK
    <3>2. PICK o \in operations :
            o.key = x[1] /\ o.kind = ledger[x].kind /\ o.id = ledger[x].op
      BY <2>2 DEF AlreadyCompleted, CompletedKey, TrailInv, TrailIsTrue
    <3>3. x[1] = req[t].key
      BY DEF CompletedKey
    <3> HIDE DEF x
    <3>4. CASE ledger[x].kind = req[t].kind
      BY <2>1, <3>1, <3>2, <3>3, <3>4 DEF Own, FromEvent, Told
    <3>5. CASE ledger[x].kind # req[t].kind
      BY <3>1, <3>5 DEF Own, FromEvent, Failed
    <3> QED BY <3>4, <3>5
  <2>3. CASE ~AlreadyCompleted(req[t])
    BY <1>0, <1>1, <2>3 DEF Lookup, Own
  <2> QED BY <2>2, <2>3
<1>2. CASE Complete(t)
  <2>1. /\ answer'[t] = Told(op[t]) /\ pc'[t] = "done"
        /\ UNCHANGED <<req, operations>>
    BY <1>0, <1>2 DEF Complete, Finish, Goto, RestOK
  <2>2. [kind |-> req[t].kind, key |-> req[t].key, id |-> op[t]] \in operations
    BY <1>2 DEF Complete, TrailInv, OnTrail
  <2> QED BY <2>1, <2>2 DEF Own, Told
<1>3. CASE ~Lookup(t) /\ ~Complete(t)
  <2>1. answer'[t] \in {answer[t], Failed}
    BY <1>0, <1>3 DEF TaskStep, Step, Trace, Request, Call, Refused, Fail,
       CallReplyLost, FailUnwritten, CutShort, Arrive, Finish, RestOK
  <2> QED BY <1>0, <2>1 DEF Own, Failed
<1> QED BY <1>1, <1>2, <1>3

\* Whatever interleaves, is lost or abandoned, and whether or not a key is
\* used for both kinds, a caller told of an operation is told of one that
\* aivcs-api started for the kind and key it sent.
THEOREM AlwaysToldOfItsOwn == Spec => []ToldOfItsOwn
<1> DEFINE Inv == \A t \in Tasks : Own(t)
<1>1. Init => Inv
  BY DEF Init, Own, NoAnswer
<1>2. TypeInv /\ TrailInv /\ Inv /\ [Next]_vars => Inv'
  <2> SUFFICES ASSUME TypeInv, TrailInv, Inv, [Next]_vars, NEW u \in Tasks
               PROVE  Own(u)'
    OBVIOUS
  <2>1. CASE UNCHANGED vars
    BY <2>1 DEF vars, Own
  <2>2. ASSUME NEW t \in Tasks, TaskStep(t) PROVE Own(u)'
    <3>1. CASE u = t
      BY <2>2, <3>1, OwnStep
    <3>2. CASE u # t
      BY <2>2, <3>2, OthersStay, TrailGrows DEF Own
    <3> QED BY <3>1, <3>2
  <2> QED BY <2>1, <2>2 DEF Next, Terminated, TaskStep
<1>3. Inv => ToldOfItsOwn
  BY DEF Own, ToldOfItsOwn
<1> QED BY <1>1, <1>2, <1>3, TypeInvariant, TrailInvariant, PTL DEF Spec
=============================================================================
