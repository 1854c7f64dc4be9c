------------------------ MODULE ReviewDecision_proofs ------------------------
(****************************************************************************)
(* Theorems about ReviewDecision for every set of tenants, keys, ids, tasks *)
(* and requests, every number of attempts and every bound: handlers cut     *)
(* short and calls carried out more than once included.                     *)
(****************************************************************************)
EXTENDS ReviewDecision, DataFabric_proofs, FiniteSetTheorems

\* Decisions and views that were let through.
Deciding(r) == /\ r \in ReviewDecisionRequest
               /\ r.header \in Tenants /\ r.review \in Ids /\ r.key \in Keys
Viewing(r)  == /\ r \in ViewRequest
               /\ r.header \in Tenants /\ r.review \in Ids

RecordKey(r) == <<r.header, r.key>>

AfterCorrelation == {"ingest", "bump", "submit"}

\* What a handler may rely on at each label: the strengthening that makes
\* TypeOK inductive.
PhaseOK ==
  \A t \in Tasks :
    /\ pc[t] \notin {"idle", "done"} => req[t] \in Requests
    /\ pc[t] = "store" => req[t] \in CorrelateRequest /\ WellFormed(req[t])
    /\ pc[t] \in {"correlation"} \cup AfterCorrelation => Deciding(req[t])
    /\ pc[t] \in AfterCorrelation => corr[t] \in CorrelationRecord
    /\ pc[t] \in {"bump", "submit"} => stored[t] \in DfcEvent
    /\ pc[t] \in {"reading", "assemble"} => Viewing(req[t])
    /\ pc[t] # "done" => answer[t] = NoAnswer

ReviewTypes ==
  /\ DOMAIN revisions \subseteq Tenants \X Ids
  /\ revisions \in [DOMAIN revisions -> Nat]
  /\ submissions \subseteq Submission

TaskTypes ==
  /\ pc \in [Tasks -> Labels]
  /\ req \in [Tasks -> Requests \cup {None}]
  /\ corr \in [Tasks -> CorrelationRecord \cup {None}]
  /\ stored \in [Tasks -> DfcEvent \cup {NoEvent}]
  /\ left \in [Tasks -> SUBSET Reads]
  /\ frag \in [Tasks -> SUBSET Decisions]
  /\ rev \in [Tasks -> Nat]
  /\ match \in [Tasks -> Nat]
  /\ tries \in [Tasks -> Nat]
  /\ before \in [Tasks -> SUBSET Tasks]
  /\ answer \in [Tasks -> Answers]
  /\ faults \in Nat

TypeInv == TypeOK /\ PhaseOK

\* The type invariant, by what a step usually leaves alone.
LEMMA TypeParts == TypeOK <=> UpstreamTypeOK /\ ReviewTypes /\ TaskTypes
BY DEF TypeOK, ReviewTypes, TaskTypes

\* The same of the state after a step.
LEMMA TypeJoin ==
  ASSUME UpstreamTypeOK', ReviewTypes', TaskTypes', PhaseOK'
  PROVE  TypeInv'
BY DEF TypeInv, TypeOK, ReviewTypes, TaskTypes

\* A step that leaves the data alone leaves it well typed.
LEMMA TypeFrame ==
  /\ UpstreamTypeOK /\ UNCHANGED upstream => UpstreamTypeOK'
  /\ ReviewTypes /\ UNCHANGED review => ReviewTypes'
BY DEF upstream, UpstreamTypeOK, review, ReviewTypes

-----------------------------------------------------------------------------
(* Lemmas about the helpers *)

\* What is let through is one of the three requests, with its fields there.
LEMMA AcceptedKinds ==
  ASSUME NEW r \in Requests, Accepted(r)
  PROVE  \/ r \in CorrelateRequest /\ WellFormed(r) /\ FirstLabel(r) = "store"
         \/ Viewing(r) /\ FirstLabel(r) = "reading"
         \/ Deciding(r) /\ FirstLabel(r) = "correlation"
<1>1. CASE r \in CorrelateRequest
  <2>1. r.api = "correlate"
    BY <1>1 DEF CorrelateRequest
  <2> QED BY <1>1, <2>1, Zenon DEF Accepted, FirstLabel
<1>2. CASE r \in ViewRequest
  <2>1. r.api = "view" /\ r.header \in Opt(Tenants) /\ r.review \in Opt(Ids)
    BY <1>2 DEF ViewRequest
  <2>2. r.header # None /\ r.review # None /\ FirstLabel(r) = "reading"
    <3>1. "view" # "correlate" /\ "view" # "decision"
      OBVIOUS
    <3> QED BY <2>1, <3>1, Zenon DEF Accepted, FirstLabel
  <2> QED BY <1>2, <2>1, <2>2 DEF Viewing, Opt
<1>3. CASE r \in ReviewDecisionRequest
  <2>1. /\ r.api = "decision" /\ r.header \in Opt(Tenants)
        /\ r.review \in Opt(Ids) /\ r.key \in Opt(Keys)
    BY <1>3 DEF ReviewDecisionRequest
  <2>2. /\ r.header # None /\ r.review # None /\ r.key # None
        /\ FirstLabel(r) = "correlation"
    <3>1. "decision" # "correlate" /\ "decision" # "view"
      OBVIOUS
    <3> QED BY <2>1, <3>1, Zenon DEF Accepted, FirstLabel
  <2> QED BY <1>3, <2>1, <2>2 DEF Deciding, Opt
<1> QED BY <1>1, <1>2, <1>3, RequestsAssumption

\* The human event of a decision is one of its tenant, key, review and kind.
LEMMA DecisionEventType ==
  ASSUME NEW r, Deciding(r), NEW rec \in CorrelationRecord
  PROVE  /\ DecisionEvent(r, rec) \in DfcEvent
         /\ EventKey(DecisionEvent(r, rec)) = RecordKey(r)
         /\ DecisionEvent(r, rec).tenant = r.header
         /\ DecisionEvent(r, rec).key = r.key
         /\ DecisionEvent(r, rec).meta.review = r.review
         /\ DecisionEvent(r, rec).type = data_fabric_event_type[r.decision]
         /\ DecisionEvent(r, rec).waits = {ReviewLookup(r)}
<1>1. r.decision \in Decisions
  BY DEF Deciding, ReviewDecisionRequest
<1>2. data_fabric_event_type[r.decision] \in EventTypes
  BY <1>1 DEF data_fabric_event_type, Decisions, EventTypes, HumanTypes
<1>3. rec.run \in Opt(Ids) /\ rec.task \in Opt(Ids)
  BY DEF CorrelationRecord
<1>4. {ReviewLookup(r)} \in SUBSET Lookups
  BY DEF ReviewLookup, Lookups, CorrelationKinds, Deciding
<1>5. DecisionEvent(r, rec).meta \in Metadata
  BY DEF DecisionEvent, Metadata, Opt, Deciding
<1> QED BY <1>2, <1>3, <1>4, <1>5
        DEF DecisionEvent, DfcEvent, EventKey, RecordKey, Deciding, Opt

\* What aivcs-api is told is a submission.
LEMMA PayloadType ==
  ASSUME NEW r, Deciding(r), NEW rec \in CorrelationRecord
  PROVE  ReviewDecisionPayload(r, rec) \in Submission
BY DEF ReviewDecisionPayload, Submission, Deciding, ReviewDecisionRequest,
       CorrelationRecord

\* A revision read is a number.
LEMMA RevisionType ==
  ASSUME ReviewTypes, NEW k
  PROVE  Revision(k) \in Nat
BY DEF ReviewTypes, Revision

\* A bump raises the review's revision, seen or unseen before, by one.
LEMMA RaiseRevisionType ==
  ASSUME ReviewTypes, NEW k \in Tenants \X Ids, RaiseRevision(k)
  PROVE  /\ ReviewTypes'
         /\ Revision(k)' = Revision(k) + 1
         /\ \A j : j # k => Revision(j)' = Revision(j)
<1>1. Bumped(k) \in Nat /\ Bumped(k) = Revision(k) + 1
  BY DEF ReviewTypes, Bumped, Revision
<1>2. DOMAIN revisions' = DOMAIN revisions \cup {k}
  BY DEF RaiseRevision, Overwritten
<1>3. \A j \in DOMAIN revisions' :
        revisions'[j] = IF j = k THEN Bumped(k) ELSE revisions[j]
  BY DEF RaiseRevision, Overwritten
<1>4. ReviewTypes'
  BY <1>1, <1>2, <1>3 DEF ReviewTypes, RaiseRevision, Overwritten
<1> QED BY <1>1, <1>2, <1>3, <1>4 DEF Revision

\* A submission keeps the types and raises nothing.
LEMMA TellType ==
  ASSUME ReviewTypes, NEW t \in Tasks, Deciding(req[t]),
         corr[t] \in CorrelationRecord, Tell(t)
  PROVE  ReviewTypes' /\ \A k : Revision(k)' = Revision(k)
BY PayloadType DEF Tell, ReviewTypes, Revision

\* The answers handlers prepare are answers.
LEMMA AnswerTypes ==
  /\ \A e \in DfcEvent : Decided(e) \in Answers
  /\ Correlated \in Answers /\ Failed \in Answers /\ NoAnswer \in Answers
BY DEF Decided, Answers

-----------------------------------------------------------------------------
(* Each step keeps the types *)

\* The initial state is well typed.
LEMMA TypeInit == Init => TypeInv
<1> SUFFICES ASSUME Init PROVE TypeInv
  OBVIOUS
<1>1. UpstreamTypeOK /\ ReviewTypes
  BY DEF Init, UpstreamInit, UpstreamTypeOK, ReviewTypes
<1>2. TaskTypes
  BY AnswerTypes DEF Init, TaskTypes, Labels, Reads
<1>3. PhaseOK
  BY DEF Init, PhaseOK, AfterCorrelation
<1> QED BY <1>1, <1>2, <1>3, TypeParts DEF TypeInv

\* Arrive keeps the type invariant: what is let through has its fields.
LEMMA ArriveType ==
  ASSUME TypeInv, NEW t \in Tasks, NEW r \in Requests, Arrive(t, r)
  PROVE  TypeInv'
<1>0. UpstreamTypeOK /\ ReviewTypes /\ TaskTypes /\ PhaseOK
  BY TypeParts DEF TypeInv
<1>1. UpstreamTypeOK' /\ ReviewTypes'
  BY <1>0, TypeFrame DEF Arrive
<1>2. Answered \in SUBSET Tasks /\ Offered(r) \subseteq Nat
  <2>1. \A x \in Tasks : answer[x].status = "bundle" => answer[x].etag \in Nat
    BY <1>0 DEF TaskTypes, Answers, Correlated, Failed, NoAnswer
  <2> QED BY <2>1 DEF Answered, Offered
<1>3. CASE Accepted(r)
  <2>1. PICK m \in Offered(r) : match' = [match EXCEPT ![t] = m]
    BY <1>3 DEF Arrive
  <2>2. /\ req' = [req EXCEPT ![t] = r] /\ pc' = [pc EXCEPT ![t] = FirstLabel(r)]
        /\ before' = [before EXCEPT ![t] = Answered]
        /\ UNCHANGED <<answer, corr, stored, left, frag, rev, tries, faults>>
        /\ pc[t] = "idle"
    BY <1>3 DEF Arrive, Goto
  <2>3. FirstLabel(r) \in {"store", "reading", "correlation"}
    BY <1>3, AcceptedKinds
  <2>4. TaskTypes'
    BY <1>0, <1>2, <2>1, <2>2, <2>3 DEF TaskTypes, Labels
  <2>5. PhaseOK'
    BY <1>0, <1>3, <2>2, AcceptedKinds DEF PhaseOK, TaskTypes, AfterCorrelation
  <2> QED BY <1>1, <2>4, <2>5, TypeJoin
<1>4. CASE ~Accepted(r)
  <2>1. TaskTypes'
    BY <1>0, <1>2, <1>4, AnswerTypes DEF Arrive, Finish, Goto, TaskTypes, Labels
  <2>2. PhaseOK'
    BY <1>0, <1>4 DEF Arrive, Finish, Goto, PhaseOK, TaskTypes, AfterCorrelation
  <2> QED BY <1>1, <2>1, <2>2, TypeJoin
<1> QED BY <1>3, <1>4

\* Store keeps the type invariant.
LEMMA StoreType ==
  ASSUME TypeInv, NEW t \in Tasks, Store(t)
  PROVE  TypeInv'
<1>0. UpstreamTypeOK /\ ReviewTypes /\ TaskTypes /\ PhaseOK
  BY TypeParts DEF TypeInv
<1>1. RecordOf(req[t]) \in CorrelationRecord
  BY <1>0, RecordOfType DEF Store, PhaseOK
<1>2. UpstreamTypeOK' /\ ReviewTypes'
  BY <1>0, <1>1, StoreCorrelationType, TypeFrame DEF Store
<1>3. TaskTypes'
  BY <1>0, AnswerTypes DEF Store, Finish, Goto, TaskTypes, Labels, job
<1>4. PhaseOK'
  BY <1>0 DEF Store, Finish, Goto, PhaseOK, TaskTypes, AfterCorrelation, job
<1> QED BY <1>2, <1>3, <1>4, TypeJoin

\* GetCorrelation keeps the type invariant: it goes on with a record only.
LEMMA GetCorrelationType ==
  ASSUME TypeInv, NEW t \in Tasks, GetCorrelation(t)
  PROVE  TypeInv'
<1>0. UpstreamTypeOK /\ ReviewTypes /\ TaskTypes /\ PhaseOK
  BY TypeParts DEF TypeInv
<1>1. UpstreamTypeOK' /\ ReviewTypes'
  BY <1>0, TypeFrame DEF GetCorrelation
<1> DEFINE k == req[t].header
           p == ReviewLookup(req[t])
<1>2. CASE Resolves(k, p)
  <2>1. Correlation(k, p) \in CorrelationRecord
    BY <1>0, <1>2 DEF Resolves, Correlation, UpstreamTypeOK
  <2>2. /\ corr' = [corr EXCEPT ![t] = Correlation(k, p)]
        /\ pc' = [pc EXCEPT ![t] = "ingest"] /\ pc[t] = "correlation"
        /\ UNCHANGED <<req, stored, left, frag, rev, match, tries, before,
                       faults, answer>>
    BY <1>2 DEF GetCorrelation, Goto
  <2> HIDE DEF k, p
  <2>3. TaskTypes'
    BY <1>0, <2>1, <2>2 DEF TaskTypes, Labels
  <2>4. PhaseOK'
    BY <1>0, <2>1, <2>2 DEF PhaseOK, TaskTypes, AfterCorrelation
  <2> QED BY <1>1, <2>3, <2>4, TypeJoin
<1>3. CASE ~Resolves(k, p)
  <2>1. TaskTypes'
    BY <1>0, <1>3, AnswerTypes DEF GetCorrelation, Finish, Goto, TaskTypes, Labels
  <2>2. PhaseOK'
    BY <1>0, <1>3
       DEF GetCorrelation, Finish, Goto, PhaseOK, TaskTypes, AfterCorrelation
  <2> QED BY <1>1, <2>1, <2>2, TypeJoin
<1> QED BY <1>2, <1>3

\* Ingest keeps the type invariant.
LEMMA IngestType ==
  ASSUME TypeInv, NEW t \in Tasks, Ingest(t)
  PROVE  TypeInv'
<1>0. UpstreamTypeOK /\ ReviewTypes /\ TaskTypes /\ PhaseOK
  BY TypeParts DEF TypeInv
<1> DEFINE e == DecisionEvent(req[t], corr[t])
<1>1. e \in DfcEvent
  BY <1>0, DecisionEventType DEF Ingest, PhaseOK, AfterCorrelation
<1>2. ingest_event(e) /\ stored' = [stored EXCEPT ![t] = Stored(e)]
  BY DEF Ingest
<1> HIDE DEF e
<1>3. UpstreamTypeOK' /\ Stored(e) \in DfcEvent
  BY <1>0, <1>1, <1>2, IngestEventType
<1>4. ReviewTypes'
  BY <1>0, TypeFrame DEF Ingest
<1>5. TaskTypes'
  BY <1>0, <1>2, <1>3 DEF Ingest, Proceed, Goto, TaskTypes, Labels
<1>6. PhaseOK'
  BY <1>0, <1>2, <1>3
     DEF Ingest, Proceed, Goto, PhaseOK, TaskTypes, AfterCorrelation
<1> QED BY <1>3, <1>4, <1>5, <1>6, TypeJoin

\* A decision's review is one whose revision may be raised.
LEMMA ReviewKeyType ==
  ASSUME NEW r, Deciding(r) \/ Viewing(r)
  PROVE  ReviewKey(r) \in Tenants \X Ids
BY DEF ReviewKey, Deciding, Viewing

\* Bump keeps the type invariant.
LEMMA BumpType ==
  ASSUME TypeInv, NEW t \in Tasks, Bump(t)
  PROVE  TypeInv'
<1>0. UpstreamTypeOK /\ ReviewTypes /\ TaskTypes /\ PhaseOK
  BY TypeParts DEF TypeInv
<1>1. ReviewKey(req[t]) \in Tenants \X Ids
  BY <1>0, ReviewKeyType DEF Bump, PhaseOK, AfterCorrelation
<1>2. UpstreamTypeOK' /\ ReviewTypes'
  BY <1>0, <1>1, RaiseRevisionType, TypeFrame DEF Bump
<1>3. TaskTypes'
  BY <1>0 DEF Bump, Proceed, Goto, TaskTypes, Labels, job
<1>4. PhaseOK'
  BY <1>0 DEF Bump, Proceed, Goto, PhaseOK, TaskTypes, AfterCorrelation, job
<1> QED BY <1>2, <1>3, <1>4, TypeJoin

\* Submit keeps the type invariant.
LEMMA SubmitType ==
  ASSUME TypeInv, NEW t \in Tasks, Submit(t)
  PROVE  TypeInv'
<1>0. UpstreamTypeOK /\ ReviewTypes /\ TaskTypes /\ PhaseOK
  BY TypeParts DEF TypeInv
<1>1. Deciding(req[t]) /\ corr[t] \in CorrelationRecord /\ stored[t] \in DfcEvent
  BY <1>0 DEF Submit, PhaseOK, AfterCorrelation
<1>2. UpstreamTypeOK' /\ ReviewTypes'
  BY <1>0, <1>1, TellType, TypeFrame DEF Submit
<1>3. TaskTypes'
  BY <1>0, <1>1, AnswerTypes DEF Submit, Finish, Goto, TaskTypes, Labels, job
<1>4. PhaseOK'
  BY <1>0 DEF Submit, Finish, Goto, PhaseOK, TaskTypes, AfterCorrelation, job
<1> QED BY <1>2, <1>3, <1>4, TypeJoin

\* Read keeps the type invariant.
LEMMA ReadType ==
  ASSUME TypeInv, NEW t \in Tasks, Read(t)
  PROVE  TypeInv'
<1>0. UpstreamTypeOK /\ ReviewTypes /\ TaskTypes /\ PhaseOK
  BY TypeParts DEF TypeInv
<1>1. UpstreamTypeOK' /\ ReviewTypes'
  BY <1>0, TypeFrame DEF Read
<1>2. pc' \in {pc, [pc EXCEPT ![t] = "assemble"]} /\ pc[t] = "reading"
      /\ UNCHANGED <<req, stored, match, tries, before, answer, faults>>
  BY DEF Read, Goto
<1>3. corr' \in [Tasks -> CorrelationRecord \cup {None}]
  <2>1. \A p : Resolves(req[t].header, p) =>
               Correlation(req[t].header, p) \in CorrelationRecord
    BY <1>0 DEF Resolves, Correlation, UpstreamTypeOK
  <2>2. \/ corr' = corr
        \/ /\ Resolves(req[t].header, ReviewLookup(req[t]))
           /\ corr' = [corr EXCEPT ![t] =
                         Correlation(req[t].header, ReviewLookup(req[t]))]
    BY DEF Read, ReviewKey
  <2> QED BY <1>0, <2>1, <2>2 DEF TaskTypes
<1>4. frag' \in [Tasks -> SUBSET Decisions] /\ rev' \in [Tasks -> Nat]
      /\ left' \in [Tasks -> SUBSET Reads]
  <2>1. Fragments(ReviewKey(req[t])) \subseteq Decisions
    BY <1>0 DEF Fragments, ReviewTypes, Submission
  <2>2. Revision(ReviewKey(req[t])) \in Nat
    BY <1>0, RevisionType
  <2>3. /\ frag' \in {frag, [frag EXCEPT ![t] = Fragments(ReviewKey(req[t]))]}
        /\ rev' \in {rev, [rev EXCEPT ![t] = Revision(ReviewKey(req[t]))]}
        /\ \E x \in left[t] : left' = [left EXCEPT ![t] = @ \ {x}]
    BY DEF Read
  <2> QED BY <1>0, <2>1, <2>2, <2>3 DEF TaskTypes
<1>5. TaskTypes'
  BY <1>0, <1>2, <1>3, <1>4 DEF TaskTypes, Labels
<1>6. PhaseOK'
  <2>1. \A u \in Tasks \ {t} : corr'[u] = corr[u] /\ pc'[u] = pc[u]
    BY <1>0, <1>2 DEF Read, TaskTypes
  <2>2. pc'[t] \in {"reading", "assemble"}
    BY <1>0, <1>2 DEF TaskTypes
  <2> QED BY <1>0, <1>2, <2>1, <2>2 DEF PhaseOK, AfterCorrelation
<1> QED BY <1>1, <1>5, <1>6, TypeJoin

\* Assemble keeps the type invariant.
LEMMA AssembleType ==
  ASSUME TypeInv, NEW t \in Tasks, Assemble(t)
  PROVE  TypeInv'
<1>0. UpstreamTypeOK /\ ReviewTypes /\ TaskTypes /\ PhaseOK
  BY TypeParts DEF TypeInv
<1>1. UpstreamTypeOK' /\ ReviewTypes'
  BY <1>0, TypeFrame DEF Assemble
<1>2. PICK a \in Answers : Finish(t, a)
  <2>1. CASE corr[t] = None
    BY <2>1, AnswerTypes DEF Assemble
  <2>2. CASE corr[t] # None
    <3> DEFINE s == IF match[t] = rev[t] THEN "not_modified" ELSE "bundle"
               a == [status |-> s, etag |-> rev[t], contents |-> BundleContents(t)]
    <3>1. BundleContents(t) \in Contents
      BY <1>0, <2>2 DEF BundleContents, Contents, TaskTypes
    <3>2. rev[t] \in Nat
      BY <1>0 DEF TaskTypes
    <3>3. a \in Answers
      BY <3>1, <3>2 DEF Answers
    <3> QED BY <2>2, <3>3 DEF Assemble
  <2> QED BY <2>1, <2>2
<1>3. TaskTypes'
  BY <1>0, <1>2 DEF Assemble, Finish, Goto, TaskTypes, Labels, job
<1>4. PhaseOK'
  BY <1>0, <1>2
     DEF Assemble, Finish, Goto, PhaseOK, TaskTypes, AfterCorrelation, job
<1> QED BY <1>1, <1>3, <1>4, TypeJoin

\* The write a handler awaits, carried out without an answer, keeps the types.
LEMMA EffectType ==
  ASSUME TypeInv, NEW t \in Tasks, Effect(t)
  PROVE  UpstreamTypeOK' /\ ReviewTypes'
<1>0. UpstreamTypeOK /\ ReviewTypes /\ PhaseOK
  BY TypeParts DEF TypeInv
<1>1. CASE /\ pc[t] = "store" /\ store_correlation(RecordOf(req[t]))
           /\ UNCHANGED review
  BY <1>0, <1>1, RecordOfType, StoreCorrelationType, TypeFrame DEF PhaseOK
<1>2. CASE /\ pc[t] = "ingest" /\ ingest_event(DecisionEvent(req[t], corr[t]))
           /\ UNCHANGED review
  <2>1. DecisionEvent(req[t], corr[t]) \in DfcEvent
    BY <1>0, <1>2, DecisionEventType DEF PhaseOK, AfterCorrelation
  <2> QED BY <1>0, <1>2, <2>1, IngestEventType, TypeFrame
<1>3. CASE /\ pc[t] = "bump" /\ RaiseRevision(ReviewKey(req[t]))
           /\ UNCHANGED upstream
  BY <1>0, <1>3, ReviewKeyType, RaiseRevisionType, TypeFrame
     DEF PhaseOK, AfterCorrelation
<1>4. CASE pc[t] = "submit" /\ Tell(t) /\ UNCHANGED upstream
  BY <1>0, <1>4, TellType, TypeFrame DEF PhaseOK, AfterCorrelation
<1> QED BY <1>1, <1>2, <1>3, <1>4 DEF Effect

\* So do a call sent again and a handler cut short.
LEMMA FaultType ==
  ASSUME TypeInv, NEW t \in Tasks, Repeated(t) \/ CutShort(t)
  PROVE  TypeInv'
<1>0. UpstreamTypeOK /\ ReviewTypes /\ TaskTypes /\ PhaseOK
  BY TypeParts DEF TypeInv
<1>1. UpstreamTypeOK' /\ ReviewTypes'
  BY <1>0, EffectType, TypeFrame DEF Repeated, CutShort
<1>2. TaskTypes'
  BY <1>0, AnswerTypes
     DEF Repeated, CutShort, Finish, Goto, TaskTypes, Labels, job
<1>3. PhaseOK'
  BY <1>0 DEF Repeated, CutShort, Finish, Goto, PhaseOK, TaskTypes,
              AfterCorrelation, job
<1> QED BY <1>1, <1>2, <1>3, TypeJoin

\* The type invariant is inductive.
LEMMA TypeNext == TypeInv /\ [Next]_vars => TypeInv'
<1> SUFFICES ASSUME TypeInv, [Next]_vars PROVE TypeInv'
  OBVIOUS
<1>1. CASE UNCHANGED vars
  BY <1>1 DEF vars, upstream, review, job, TypeInv, TypeOK, UpstreamTypeOK,
              PhaseOK
<1>2. ASSUME NEW t \in Tasks, Step(t) PROVE TypeInv'
  BY <1>2, StoreType, GetCorrelationType, IngestType, BumpType, SubmitType,
     ReadType, AssembleType DEF Step
<1>3. ASSUME NEW t \in Tasks, Repeated(t) \/ CutShort(t) PROVE TypeInv'
  BY <1>3, FaultType
<1>4. ASSUME NEW t \in Tasks, NEW r \in Requests, Arrive(t, r) PROVE TypeInv'
  BY <1>4, ArriveType
<1> QED BY <1>1, <1>2, <1>3, <1>4 DEF Next, Terminated

\* The type invariant, with what handlers rely on, holds in every reachable
\* state.
THEOREM TypeInvariant == Spec => []TypeInv
BY TypeInit, TypeNext, PTL DEF Spec

\* Every reachable state of the review handlers is well typed.
THEOREM DecisionTypes == Spec => []TypeOK
<1>1. TypeInv => TypeOK
  BY DEF TypeInv
<1> QED BY <1>1, TypeInvariant, PTL

-----------------------------------------------------------------------------
(* What a step leaves alone *)

\* A step of task t.
TaskStep(t) == \/ Step(t) \/ Repeated(t) \/ CutShort(t)
               \/ \E r \in Requests : Arrive(t, r)

\* Every step is one of a task, or changes nothing.
LEMMA StepsAreTasks ==
  ASSUME [Next]_vars
  PROVE  UNCHANGED vars \/ \E t \in Tasks : TaskStep(t)
BY DEF Next, Terminated, TaskStep

\* A step of task t leaves every other task where it is.
LEMMA OthersStay ==
  ASSUME TypeInv, NEW t \in Tasks, TaskStep(t), NEW u \in Tasks \ {t}
  PROVE  /\ pc'[u] = pc[u] /\ req'[u] = req[u] /\ corr'[u] = corr[u]
         /\ stored'[u] = stored[u] /\ left'[u] = left[u] /\ rev'[u] = rev[u]
         /\ before'[u] = before[u] /\ answer'[u] = answer[u]
<1>0. TaskTypes
  BY TypeParts DEF TypeInv
<1>1. CASE \/ Store(t) \/ GetCorrelation(t) \/ Ingest(t) \/ Bump(t)
           \/ Submit(t) \/ Assemble(t)
  <2>1. CASE Store(t) \/ Bump(t) \/ Submit(t)
    BY <1>0, <2>1 DEF TaskTypes, Store, Bump, Submit, Goto, Finish, Proceed, job
  <2>2. CASE GetCorrelation(t) \/ Ingest(t)
    BY <1>0, <2>2 DEF TaskTypes, GetCorrelation, Ingest, Goto, Finish, Proceed
  <2>3. CASE Assemble(t)
    BY <1>0, <2>3 DEF TaskTypes, Assemble, Goto, Finish, job
  <2> QED BY <1>1, <2>1, <2>2, <2>3
<1>2. CASE Read(t)
  BY <1>0, <1>2 DEF TaskTypes, Read, Goto
<1>3. CASE Repeated(t) \/ CutShort(t)
  BY <1>0, <1>3 DEF TaskTypes, Repeated, CutShort, Finish, Goto, job
<1>4. CASE \E r \in Requests : Arrive(t, r)
  BY <1>0, <1>4 DEF TaskTypes, Arrive, Finish, Goto
<1> QED BY <1>1, <1>2, <1>3, <1>4 DEF TaskStep, Step

\* What a step does to data-fabric: nothing, one store, or one event of a
\* handler that is writing it.
LEMMA UpstreamMoves ==
  ASSUME TypeInv, NEW t \in Tasks, TaskStep(t)
  PROVE  \/ UNCHANGED upstream
         \/ \E rec \in CorrelationRecord : store_correlation(rec)
         \/ /\ pc[t] = "ingest"
            /\ ingest_event(DecisionEvent(req[t], corr[t]))
<1>0. PhaseOK
  BY DEF TypeInv
<1>1. pc[t] = "store" => RecordOf(req[t]) \in CorrelationRecord
  BY <1>0, RecordOfType DEF PhaseOK
<1>2. CASE Step(t)
  <2>1. CASE Store(t)
    BY <1>1, <2>1 DEF Store
  <2>2. CASE Ingest(t)
    BY <2>2 DEF Ingest
  <2>3. CASE GetCorrelation(t) \/ Bump(t) \/ Submit(t) \/ Read(t) \/ Assemble(t)
    BY <2>3 DEF GetCorrelation, Bump, Submit, Read, Assemble
  <2> QED BY <1>2, <2>1, <2>2, <2>3 DEF Step
<1>3. CASE Repeated(t) \/ CutShort(t)
  BY <1>1, <1>3 DEF Repeated, CutShort, Effect
<1>4. CASE \E r \in Requests : Arrive(t, r)
  BY <1>4 DEF Arrive
<1> QED BY <1>2, <1>3, <1>4 DEF TaskStep

\* Nothing is withdrawn from data-fabric: events stay as they are, and what
\* resolves keeps resolving.
LEMMA UpstreamGrows ==
  ASSUME TypeInv, NEW t \in Tasks, TaskStep(t)
  PROVE  /\ DOMAIN correlations \subseteq DOMAIN correlations'
         /\ \A k \in DOMAIN events : k \in DOMAIN events' /\ events'[k] = events[k]
<1>0. UpstreamTypeOK /\ PhaseOK
  BY TypeParts DEF TypeInv
<1>1. CASE UNCHANGED upstream
  BY <1>1 DEF upstream
<1>2. CASE \E rec \in CorrelationRecord : store_correlation(rec)
  BY <1>0, <1>2, StoreCorrelationType DEF store_correlation
<1>3. CASE pc[t] = "ingest" /\ ingest_event(DecisionEvent(req[t], corr[t]))
  <2>1. DecisionEvent(req[t], corr[t]) \in DfcEvent
    BY <1>0, <1>3, DecisionEventType DEF PhaseOK, AfterCorrelation
  <2> QED BY <1>0, <1>3, <2>1, IngestEventType DEF ingest_event
<1> QED BY <1>1, <1>2, <1>3, UpstreamMoves

\* What a step does to aivcs-api: nothing, or the telling of a handler that
\* submits.
LEMMA SubmissionMoves ==
  ASSUME NEW t \in Tasks, TaskStep(t)
  PROVE  \/ submissions' = submissions
         \/ pc[t] = "submit" /\ Tell(t)
BY DEF TaskStep, Step, Store, GetCorrelation, Ingest, Bump, Submit, Read,
       Assemble, Repeated, CutShort, Effect, Arrive, RaiseRevision, review

\* A task that takes a step has not answered, and says nothing yet.
LEMMA Unanswered ==
  ASSUME TypeInv, NEW t \in Tasks, TaskStep(t)
  PROVE  pc[t] # "done" /\ answer[t] = NoAnswer
<1>1. pc[t] # "done"
  BY DEF TaskStep, Step, Store, GetCorrelation, Ingest, Bump, Submit, Read,
         Assemble, Repeated, CutShort, Running, Arrive
<1> QED BY <1>1 DEF TypeInv, PhaseOK

-----------------------------------------------------------------------------
(* Decisions are on record *)

\* Event e records the decision of request r.
Records(e, r) == /\ e.meta.review = r.review
                 /\ e.type = data_fabric_event_type[r.decision]

\* Every human event was written for a decision sent under its key.
EventsAreDecisions ==
  \A k \in DOMAIN events :
    \E r \in Requests :
      Deciding(r) /\ RecordKey(r) = k /\ Records(events[k], r)

\* A handler past its ingest has the event data-fabric holds under its key.
HoldsStored(t) ==
  pc[t] \in {"bump", "submit"} =>
    /\ RecordKey(req[t]) \in DOMAIN events
    /\ stored[t] = events[RecordKey(req[t])]

\* So has the caller it answered.
Truthful(t) ==
  answer[t].status = "decided" =>
    \E k \in DOMAIN events : answer[t].event = events[k]

\* A handler about to ingest has found its review mapped.
FoundMapped(t) ==
  pc[t] = "ingest" => Resolves(req[t].header, ReviewLookup(req[t]))

StoredInv ==
  /\ EventsAreDecisions
  /\ \A t \in Tasks : HoldsStored(t) /\ Truthful(t) /\ FoundMapped(t)

\* The request a handler serves is one of those callers send.
LEMMA RequestServed ==
  ASSUME TypeInv, NEW t \in Tasks, pc[t] \in AfterCorrelation
  PROVE  req[t] \in Requests /\ Deciding(req[t]) /\ corr[t] \in CorrelationRecord
BY DEF TypeInv, PhaseOK, AfterCorrelation

\* Nothing is recorded initially.
LEMMA StoredInit == Init => StoredInv
BY DEF Init, UpstreamInit, StoredInv, EventsAreDecisions, HoldsStored, Truthful,
       FoundMapped, NoAnswer

\* Every event is a decision still, whoever wrote it.
LEMMA EventsNext ==
  ASSUME TypeInv, StoredInv, NEW t \in Tasks, TaskStep(t)
  PROVE  EventsAreDecisions'
<1>0. UpstreamTypeOK
  BY TypeParts DEF TypeInv
<1>1. CASE UNCHANGED events
  BY <1>1 DEF StoredInv, EventsAreDecisions
<1>2. CASE pc[t] = "ingest" /\ ingest_event(DecisionEvent(req[t], corr[t]))
  <2> DEFINE e == DecisionEvent(req[t], corr[t])
  <2>1. req[t] \in Requests /\ Deciding(req[t]) /\ corr[t] \in CorrelationRecord
    BY <1>2, RequestServed DEF AfterCorrelation
  <2>2. e \in DfcEvent /\ EventKey(e) = RecordKey(req[t]) /\ Records(e, req[t])
    BY <2>1, DecisionEventType DEF Records
  <2> HIDE DEF e
  <2>3. /\ DOMAIN events' = DOMAIN events \cup {EventKey(e)}
        /\ events'[EventKey(e)] = Stored(e)
        /\ \A k \in DOMAIN events : events'[k] = events[k]
    BY <1>0, <1>2, <2>2, IngestEventType DEF e
  <2>4. EventKey(e) \notin DOMAIN events => events'[EventKey(e)] = e
    BY <2>3 DEF Stored
  <2> QED BY <2>1, <2>2, <2>3, <2>4 DEF StoredInv, EventsAreDecisions
<1> QED BY <1>1, <1>2, UpstreamMoves DEF upstream, store_correlation

\* Where task t is past its ingest after a step, it has the event stored.
LEMMA HoldsNext ==
  ASSUME TypeInv, StoredInv, NEW t \in Tasks, TaskStep(t)
  PROVE  HoldsStored(t)'
<1>0. UpstreamTypeOK /\ TaskTypes /\ PhaseOK /\ HoldsStored(t)
  BY TypeParts DEF TypeInv, StoredInv
<1>1. CASE Ingest(t)
  <2> DEFINE e == DecisionEvent(req[t], corr[t])
  <2>1. e \in DfcEvent /\ EventKey(e) = RecordKey(req[t])
    BY <1>1, RequestServed, DecisionEventType DEF Ingest, AfterCorrelation
  <2>2. ingest_event(e) /\ stored' = [stored EXCEPT ![t] = Stored(e)]
        /\ req' = req
    BY <1>1 DEF Ingest
  <2> HIDE DEF e
  <2>3. EventKey(e) \in DOMAIN events' /\ events'[EventKey(e)] = Stored(e)
    BY <1>0, <2>1, <2>2, IngestEventType
  <2> QED BY <1>0, <2>1, <2>2, <2>3 DEF HoldsStored, TaskTypes, RecordKey
<1>2. CASE pc'[t] \notin {"bump", "submit"}
  BY <1>2 DEF HoldsStored
<1>3. CASE pc[t] \in {"bump", "submit"} /\ UNCHANGED <<stored, req>>
  BY <1>0, <1>3, UpstreamGrows DEF HoldsStored
<1>4. CASE Bump(t) \/ Repeated(t)
  BY <1>0, <1>2, <1>3, <1>4 DEF Bump, Repeated, job
<1>5. CASE \/ Store(t) \/ GetCorrelation(t) \/ Submit(t) \/ Read(t)
           \/ Assemble(t) \/ CutShort(t) \/ \E r \in Requests : Arrive(t, r)
  <2>1. pc'[t] \notin {"bump", "submit"}
    <3>1. CASE Store(t) \/ GetCorrelation(t) \/ Submit(t)
      BY <1>0, <3>1 DEF Store, GetCorrelation, Submit, Goto, Finish, TaskTypes
    <3>2. CASE Read(t) \/ Assemble(t) \/ CutShort(t)
      BY <1>0, <3>2 DEF Read, Assemble, CutShort, Goto, Finish, TaskTypes
    <3>3. CASE \E r \in Requests : Arrive(t, r)
      BY <1>0, <3>3, AcceptedKinds DEF Arrive, Goto, Finish, TaskTypes
    <3> QED BY <1>5, <3>1, <3>2, <3>3
  <2> QED BY <1>2, <2>1
<1> QED BY <1>1, <1>4, <1>5 DEF TaskStep, Step

\* An answer "decided" names what data-fabric holds.
LEMMA TruthfulNext ==
  ASSUME TypeInv, StoredInv, NEW t \in Tasks, TaskStep(t)
  PROVE  Truthful(t)'
<1>0. TaskTypes /\ Truthful(t) /\ HoldsStored(t)
  BY TypeParts DEF TypeInv, StoredInv
<1>1. CASE Submit(t)
  <2>1. answer'[t] = Decided(stored[t]) /\ pc[t] = "submit"
    BY <1>0, <1>1 DEF Submit, Finish, TaskTypes
  <2>2. RecordKey(req[t]) \in DOMAIN events
        /\ stored[t] = events[RecordKey(req[t])]
    BY <1>0, <2>1 DEF HoldsStored
  <2> QED BY <2>1, <2>2, UpstreamGrows DEF Truthful, Decided
<1>2. CASE answer'[t] = answer[t]
  BY <1>0, <1>2, UpstreamGrows DEF Truthful
<1>3. CASE answer'[t].status # "decided"
  BY <1>3 DEF Truthful
<1>4. CASE \/ Ingest(t) \/ Bump(t) \/ Read(t) \/ Repeated(t)
  BY <1>2, <1>4 DEF Ingest, Bump, Read, Repeated
<1>5. CASE \/ Store(t) \/ GetCorrelation(t) \/ Assemble(t) \/ CutShort(t)
           \/ \E r \in Requests : Arrive(t, r)
  <2>1. CASE Store(t) \/ GetCorrelation(t) \/ CutShort(t)
    BY <1>0, <1>2, <1>3, <2>1
       DEF Store, GetCorrelation, CutShort, Finish, TaskTypes, Failed, Correlated
  <2>2. CASE Assemble(t)
    BY <1>0, <1>3, <2>2 DEF Assemble, Finish, TaskTypes, Failed
  <2>3. CASE \E r \in Requests : Arrive(t, r)
    BY <1>0, <1>2, <1>3, <2>3 DEF Arrive, Finish, TaskTypes, Failed
  <2> QED BY <1>5, <2>1, <2>2, <2>3
<1> QED BY <1>1, <1>4, <1>5 DEF TaskStep, Step

\* A handler goes on to ingest only for a review that is mapped.
LEMMA FoundNext ==
  ASSUME TypeInv, StoredInv, NEW t \in Tasks, TaskStep(t)
  PROVE  FoundMapped(t)'
<1>0. TaskTypes /\ FoundMapped(t)
  BY TypeParts DEF TypeInv, StoredInv
<1>1. CASE GetCorrelation(t)
  <2>1. pc'[t] = "ingest" => Resolves(req[t].header, ReviewLookup(req[t]))
    BY <1>0, <1>1 DEF GetCorrelation, Finish, Goto, TaskTypes
  <2> QED BY <1>1, <2>1 DEF GetCorrelation, FoundMapped, Resolves, upstream
<1>2. CASE pc'[t] # "ingest"
  BY <1>2 DEF FoundMapped
<1>3. CASE Repeated(t)
  BY <1>0, <1>3, UpstreamGrows DEF Repeated, FoundMapped, Resolves
<1>4. CASE \/ Store(t) \/ Ingest(t) \/ Bump(t) \/ Submit(t) \/ Read(t)
           \/ Assemble(t) \/ CutShort(t) \/ \E r \in Requests : Arrive(t, r)
  <2>1. CASE Store(t) \/ Ingest(t) \/ Bump(t) \/ Submit(t)
    BY <1>0, <1>2, <2>1
       DEF Store, Ingest, Bump, Submit, Proceed, Goto, Finish, TaskTypes
  <2>2. CASE Read(t) \/ Assemble(t) \/ CutShort(t)
    BY <1>0, <1>2, <2>2 DEF Read, Assemble, CutShort, Goto, Finish, TaskTypes
  <2>3. CASE \E r \in Requests : Arrive(t, r)
    BY <1>0, <1>2, <2>3, AcceptedKinds DEF Arrive, Goto, Finish, TaskTypes
  <2> QED BY <1>4, <2>1, <2>2, <2>3
<1> QED BY <1>1, <1>3, <1>4 DEF TaskStep, Step

\* What is stored stays what handlers and callers know of it.
LEMMA StoredNext == TypeInv /\ StoredInv /\ [Next]_vars => StoredInv'
<1> SUFFICES ASSUME TypeInv, StoredInv, [Next]_vars PROVE StoredInv'
  OBVIOUS
<1>1. CASE UNCHANGED vars
  BY <1>1 DEF vars, upstream, job, StoredInv, EventsAreDecisions, HoldsStored,
              Truthful, FoundMapped, Resolves
<1>2. ASSUME NEW t \in Tasks, TaskStep(t) PROVE StoredInv'
  <2>1. EventsAreDecisions'
    BY <1>2, EventsNext
  <2>2. ASSUME NEW u \in Tasks PROVE (HoldsStored(u) /\ Truthful(u) /\ FoundMapped(u))'
    <3>1. CASE u = t
      BY <1>2, <3>1, HoldsNext, TruthfulNext, FoundNext
    <3>2. CASE u # t
      <4>1. /\ pc'[u] = pc[u] /\ req'[u] = req[u] /\ stored'[u] = stored[u]
            /\ answer'[u] = answer[u]
        BY <1>2, <3>2, OthersStay
      <4>2. HoldsStored(u) /\ Truthful(u) /\ FoundMapped(u)
        BY DEF StoredInv
      <4> QED BY <1>2, <4>1, <4>2, UpstreamGrows
              DEF HoldsStored, Truthful, FoundMapped, Resolves
    <3> QED BY <3>1, <3>2
  <2> QED BY <2>1, <2>2 DEF StoredInv
<1> QED BY <1>1, <1>2, StepsAreTasks

\* Handlers past their ingest, and the callers they answered, have the event
\* data-fabric holds, in every reachable state.
THEOREM StoredInvariant == Spec => []StoredInv
BY StoredInit, StoredNext, TypeInvariant, PTL DEF Spec

-----------------------------------------------------------------------------
\* A decision told to aivcs-api is on record when it is told.
LEMMA OnRecordNext ==
  ASSUME KeysNameOne, TypeInv, StoredInv, DecisionOnRecord, [Next]_vars
  PROVE  DecisionOnRecord'
<1>1. CASE UNCHANGED vars
  BY <1>1 DEF vars, upstream, review, DecisionOnRecord
<1>2. ASSUME NEW t \in Tasks, TaskStep(t) PROVE DecisionOnRecord'
  <2>1. CASE submissions' = submissions
    BY <1>2, <2>1, UpstreamGrows DEF DecisionOnRecord
  <2>2. CASE pc[t] = "submit" /\ Tell(t)
    <3> DEFINE r == req[t]
               k == RecordKey(r)
    <3>1. r \in Requests /\ Deciding(r) /\ corr[t] \in CorrelationRecord
      BY <2>2, RequestServed DEF AfterCorrelation
    <3>2. k \in DOMAIN events
      BY <2>2 DEF StoredInv, HoldsStored
    <3>3. PICK s \in Requests :
            Deciding(s) /\ RecordKey(s) = k /\ Records(events[k], s)
      BY <3>2 DEF StoredInv, EventsAreDecisions
    <3>4. s.review = r.review /\ s.decision = r.decision
      <4>1. s.api = "decision" /\ r.api = "decision"
        BY <3>1, <3>3 DEF Deciding, ReviewDecisionRequest
      <4>2. s.key = r.key /\ s.header = r.header
        BY <3>3 DEF RecordKey
      <4> QED BY <3>1, <4>1, <4>2 DEF KeysNameOne
    <3>5. Records(events[k], r)
      BY <3>3, <3>4 DEF Records
    <3>6. submissions' = submissions \cup {ReviewDecisionPayload(r, corr[t])}
      BY <2>2 DEF Tell
    <3>7. /\ ReviewDecisionPayload(r, corr[t]).tenant = r.header
          /\ ReviewDecisionPayload(r, corr[t]).key = r.key
          /\ ReviewDecisionPayload(r, corr[t]).review = r.review
          /\ ReviewDecisionPayload(r, corr[t]).decision = r.decision
      BY DEF ReviewDecisionPayload
    <3> QED BY <1>2, <3>2, <3>5, <3>6, <3>7, UpstreamGrows
            DEF DecisionOnRecord, Records, RecordKey
  <2> QED BY <1>2, <2>1, <2>2, SubmissionMoves
<1> QED BY <1>1, <1>2, StepsAreTasks

\* Where no key is used for two decisions, aivcs-api is told of no decision
\* but the one data-fabric holds under its key.
THEOREM DecisionsOnRecord == KeysNameOne /\ Spec => []DecisionOnRecord
<1> SUFFICES ASSUME KeysNameOne PROVE Spec => []DecisionOnRecord
  OBVIOUS
<1>1. Init => DecisionOnRecord
  BY DEF Init, DecisionOnRecord
<1>2. TypeInv /\ StoredInv /\ DecisionOnRecord /\ [Next]_vars => DecisionOnRecord'
  BY OnRecordNext
<1> QED BY <1>1, <1>2, TypeInvariant, StoredInvariant, PTL DEF Spec

-----------------------------------------------------------------------------
(* What is on record reaches aivcs-api *)

\* What a decision that has been recorded was sent stays what it was.
LEMMA CarriesStays ==
  ASSUME TypeInv, NEW t \in Tasks, TaskStep(t), NEW k \in DOMAIN events,
         NEW u \in Tasks, Carries(u, k), pc[u] # "idle"
  PROVE  Carries(u, k)' /\ k = RecordKey(req[u])
<1>1. events'[k] = events[k]
  BY UpstreamGrows
<1>2. req'[u] = req[u]
  <2>1. CASE u = t
    BY <2>1 DEF TaskStep, Step, Store, GetCorrelation, Ingest, Bump, Submit,
                Read, Assemble, Repeated, CutShort, Arrive
  <2> QED BY <2>1, OthersStay
<1> QED BY <1>1, <1>2 DEF Carries, RecordKey

\* A decision that t is on its way to submit stays so, is submitted, or is given
\* up with an error by a handler cut short.
LEMMA OnItsWayMoves ==
  ASSUME TypeInv, NEW t \in Tasks, TaskStep(t), NEW k \in DOMAIN events,
         pc[t] \in AfterCorrelation, Carries(t, k)
  PROVE  \/ Submitted(k)'
         \/ pc'[t] \in AfterCorrelation
         \/ CutShort(t) /\ answer'[t] = Failed
<1>0. TaskTypes
  BY TypeParts DEF TypeInv
<1>1. CASE Ingest(t) \/ Bump(t)
  BY <1>0, <1>1 DEF Ingest, Bump, Proceed, Goto, TaskTypes, AfterCorrelation
<1>2. CASE Submit(t)
  <2>1. ReviewDecisionPayload(req[t], corr[t]) \in submissions'
    BY <1>2 DEF Submit, Tell
  <2>2. events'[k] = events[k]
    BY UpstreamGrows
  <2> QED BY <2>1, <2>2 DEF Submitted, Carries, ReviewDecisionPayload
<1>3. CASE Repeated(t)
  BY <1>3 DEF Repeated
<1>4. CASE CutShort(t)
  BY <1>0, <1>4 DEF CutShort, Finish, TaskTypes
<1> QED BY <1>1, <1>2, <1>3, <1>4
        DEF TaskStep, Step, Store, GetCorrelation, Read, Assemble, Arrive,
            AfterCorrelation

\* An event newly recorded is on its way, or is left out by a handler cut
\* short.
LEMMA RecordedMoves ==
  ASSUME TypeInv, NEW t \in Tasks, TaskStep(t),
         NEW k \in DOMAIN events', k \notin DOMAIN events
  PROVE  /\ Carries(t, k)' /\ k = RecordKey(req[t])
         /\ \/ pc'[t] \in AfterCorrelation
            \/ CutShort(t) /\ answer'[t] = Failed
<1>0. UpstreamTypeOK /\ TaskTypes
  BY TypeParts DEF TypeInv
<1>1. pc[t] = "ingest" /\ ingest_event(DecisionEvent(req[t], corr[t]))
  BY UpstreamMoves DEF upstream, store_correlation
<1> DEFINE e == DecisionEvent(req[t], corr[t])
<1>2. /\ e \in DfcEvent /\ EventKey(e) = RecordKey(req[t]) /\ Records(e, req[t])
      /\ Deciding(req[t])
  BY <1>1, RequestServed, DecisionEventType DEF AfterCorrelation, Records
<1> HIDE DEF e
<1>3. k = EventKey(e) /\ events'[k] = e
  BY <1>0, <1>1, <1>2, IngestEventType DEF e, Stored
<1>4. Ingest(t) \/ Repeated(t) \/ CutShort(t)
  BY <1>1 DEF TaskStep, Step, Store, GetCorrelation, Bump, Submit, Read,
              Assemble, Arrive
<1>5. req' = req
  BY <1>4 DEF Ingest, Repeated, CutShort
<1>6. Carries(t, k)'
  BY <1>2, <1>3, <1>5
     DEF Carries, Records, RecordKey, Deciding, ReviewDecisionRequest
<1>7. pc'[t] \in AfterCorrelation \/ (CutShort(t) /\ answer'[t] = Failed)
  BY <1>0, <1>1, <1>4 DEF Ingest, Repeated, CutShort, Proceed, Finish, Goto,
                          TaskTypes, AfterCorrelation
<1> QED BY <1>2, <1>3, <1>6, <1>7

\* Only a handler cut short leaves an event out, and only the one recorded
\* under its own key.
LEMMA LeftOutMoves ==
  ASSUME TypeInv, NEW t \in Tasks, TaskStep(t), NEW k \in LeftOut', k \notin LeftOut
  PROVE  /\ CutShort(t) /\ answer'[t] = Failed
         /\ Carries(t, k)' /\ k = RecordKey(req[t])
<1>1. k \in DOMAIN events' /\ ~Submitted(k)' /\ ~OnItsWay(k)'
  BY DEF LeftOut
<1>2. CASE k \notin DOMAIN events
  BY <1>1, <1>2, RecordedMoves DEF OnItsWay, AfterCorrelation
<1>3. CASE k \in DOMAIN events
  <2>1. events'[k] = events[k] /\ submissions \subseteq submissions'
    BY <1>3, UpstreamGrows, SubmissionMoves DEF Tell
  <2>2. ~Submitted(k)
    BY <1>1, <2>1 DEF Submitted
  <2>3. PICK u \in Tasks : pc[u] \in AfterCorrelation /\ Carries(u, k)
    BY <1>3, <2>2 DEF LeftOut, OnItsWay, AfterCorrelation
  <2>4. Carries(u, k)' /\ k = RecordKey(req[u])
    BY <1>3, <2>3, CarriesStays DEF AfterCorrelation
  <2>5. u = t
    <3> SUFFICES ASSUME u # t PROVE FALSE
      OBVIOUS
    <3>1. pc'[u] = pc[u]
      BY OthersStay
    <3> QED BY <1>1, <2>3, <2>4, <3>1 DEF OnItsWay, AfterCorrelation
  <2> QED BY <1>1, <1>3, <2>3, <2>4, <2>5, OnItsWayMoves
          DEF OnItsWay, AfterCorrelation
<1> QED BY <1>2, <1>3

LeftInv ==
  /\ IsFiniteSet(LeftOut) /\ Cardinality(LeftOut) <= faults
  /\ \A k \in LeftOut :
       \E t \in Tasks : answer[t] = Failed /\ pc[t] # "idle" /\ Carries(t, k)

\* A set grows by at most the element added.
LEMMA OneMore ==
  ASSUME NEW S, NEW x, IsFiniteSet(S)
  PROVE  IsFiniteSet(S \cup {x}) /\ Cardinality(S \cup {x}) <= Cardinality(S) + 1
<1>1. IsFiniteSet(S \cup {x})
  BY FS_AddElement
<1>2. Cardinality(S \cup {x}) \in {Cardinality(S), Cardinality(S) + 1}
  BY FS_AddElement
<1>3. Cardinality(S) \in Nat
  BY FS_CardinalityType
<1> QED BY <1>1, <1>2, <1>3

\* Every step leaves out no more than its fault, and tells a caller.
LEMMA LeftNext ==
  ASSUME TypeInv, LeftInv, [Next]_vars
  PROVE  LeftInv'
<1>1. CASE UNCHANGED vars
  BY <1>1 DEF vars, upstream, review, LeftInv, LeftOut, Submitted, OnItsWay, Carries
<1>2. ASSUME NEW t \in Tasks, TaskStep(t) PROVE LeftInv'
  <2>0. faults \in Nat /\ TaskTypes
    BY TypeParts DEF TypeInv, TaskTypes
  <2>1. IsFiniteSet(LeftOut') /\ Cardinality(LeftOut') <= faults'
    <3>1. CASE LeftOut' \subseteq LeftOut
      <4>1. faults' \in {faults, faults + 1}
        BY <1>2 DEF TaskStep, Step, Store, GetCorrelation, Ingest, Bump, Submit,
                    Read, Assemble, Repeated, CutShort, Arrive
      <4>2. /\ IsFiniteSet(LeftOut')
            /\ Cardinality(LeftOut') <= Cardinality(LeftOut)
        BY <3>1, FS_Subset DEF LeftInv
      <4>3. Cardinality(LeftOut) \in Nat /\ Cardinality(LeftOut') \in Nat
        BY <4>2, FS_CardinalityType DEF LeftInv
      <4> QED BY <2>0, <4>1, <4>2, <4>3 DEF LeftInv
    <3>2. CASE ~(LeftOut' \subseteq LeftOut)
      <4>1. PICK x : x = RecordKey(req[t])
        OBVIOUS
      <4>2. CutShort(t) /\ LeftOut' \subseteq LeftOut \cup {x}
        BY <1>2, <3>2, <4>1, LeftOutMoves
      <4>3. faults' = faults + 1
        BY <4>2 DEF CutShort
      <4>a. IsFiniteSet(LeftOut) /\ Cardinality(LeftOut) \in Nat
        BY FS_CardinalityType DEF LeftInv
      <4>4. /\ IsFiniteSet(LeftOut \cup {x})
            /\ Cardinality(LeftOut \cup {x}) <= Cardinality(LeftOut) + 1
        BY <4>a, OneMore
      <4>5. /\ IsFiniteSet(LeftOut')
            /\ Cardinality(LeftOut') <= Cardinality(LeftOut \cup {x})
        BY <4>2, <4>4, FS_Subset
      <4>6. /\ Cardinality(LeftOut) \in Nat /\ Cardinality(LeftOut') \in Nat
            /\ Cardinality(LeftOut \cup {x}) \in Nat
        BY <4>4, <4>5, FS_CardinalityType DEF LeftInv
      <4> QED BY <2>0, <4>3, <4>4, <4>5, <4>6 DEF LeftInv
    <3> QED BY <3>1, <3>2
  <2>2. ASSUME NEW k \in LeftOut'
        PROVE  \E u \in Tasks : /\ answer'[u] = Failed /\ pc'[u] # "idle"
                                /\ Carries(u, k)'
    <3>1. CASE k \in LeftOut
      <4>1. PICK u \in Tasks : /\ answer[u] = Failed /\ pc[u] # "idle"
                               /\ Carries(u, k)
        BY <3>1 DEF LeftInv
      <4>2. u # t
        BY <1>2, <4>1, Unanswered DEF Failed, NoAnswer
      <4>3. Carries(u, k)'
        BY <1>2, <3>1, <4>1, CarriesStays DEF LeftOut
      <4> QED BY <1>2, <4>1, <4>2, <4>3, OthersStay
    <3>2. CASE k \notin LeftOut
      <4>1. CutShort(t) /\ answer'[t] = Failed /\ Carries(t, k)'
        BY <1>2, <2>2, <3>2, LeftOutMoves
      <4>2. pc'[t] = "done"
        BY <2>0, <4>1 DEF CutShort, Finish, Goto, TaskTypes
      <4> QED BY <4>1, <4>2
    <3> QED BY <3>1, <3>2
  <2> QED BY <2>1, <2>2 DEF LeftInv
<1> QED BY <1>1, <1>2, StepsAreTasks

\* Every human event in data-fabric has reached aivcs-api or is on its way
\* there, but for one per fault, of which a caller has been told.
THEOREM RecordedSubmitted == Spec => []RecordedIsSubmitted
<1>1. Init => LeftInv
  <2>1. Init => LeftOut = {} /\ faults = 0
    BY DEF Init, UpstreamInit, LeftOut
  <2> QED BY <2>1, FS_EmptySet DEF LeftInv
<1>2. TypeInv /\ LeftInv /\ [Next]_vars => LeftInv'
  BY LeftNext
<1>3. LeftInv => RecordedIsSubmitted
  BY DEF LeftInv, RecordedIsSubmitted
<1> QED BY <1>1, <1>2, <1>3, TypeInvariant, PTL DEF Spec

-----------------------------------------------------------------------------
(* The refinement *)

\* No two tenants hold the same (kind, id) here either.
LEMMA TenantsStayApart == Spec => []TenantExclusive
<1>1. Init => TenantExclusive
  BY DEF Init, UpstreamInit, TenantExclusive
<1>2. TypeInv /\ TenantExclusive /\ [Next]_vars => TenantExclusive'
  <2> SUFFICES ASSUME TypeInv, TenantExclusive, [Next]_vars
               PROVE  TenantExclusive'
    OBVIOUS
  <2>0. UpstreamTypeOK
    BY TypeParts DEF TypeInv
  <2>1. CASE UNCHANGED correlations
    BY <2>1 DEF TenantExclusive
  <2>2. ASSUME NEW rec \in CorrelationRecord, store_correlation(rec)
        PROVE  TenantExclusive'
    BY <2>0, <2>2, StoreKeepsExclusive
  <2> QED BY <2>1, <2>2, StepsAreTasks, UpstreamMoves
          DEF vars, upstream, ingest_event
<1> QED BY <1>1, <1>2, TypeInvariant, PTL DEF Spec

\* A step tells no caller of an event, or one caller of the one its handler
\* has stored, and leaves data-fabric alone.
LEMMA ToldMoves ==
  ASSUME TypeInv, StoredInv, NEW t \in Tasks, TaskStep(t)
  PROVE  \/ Told' = Told
         \/ /\ Told[t] = None /\ UNCHANGED upstream
            /\ \E k \in DOMAIN events : Told' = [Told EXCEPT ![t] = events[k]]
<1>0. TaskTypes /\ PhaseOK /\ HoldsStored(t)
  BY TypeParts DEF TypeInv, StoredInv
<1>1. Told = [u \in Tasks |-> Told[u]] /\ Told' = [u \in Tasks |-> Told'[u]]
  BY DEF Told
<1>2. \A u \in Tasks : u # t => Told'[u] = Told[u]
  BY OthersStay DEF Told
<1>3. pc[t] # "done"
  BY DEF TaskStep, Step, Store, GetCorrelation, Ingest, Bump, Submit, Read,
         Assemble, Repeated, CutShort, Running, Arrive
<1>4. CASE Submit(t)
  <2>1. pc[t] = "submit" /\ pc'[t] = "done" /\ answer'[t] = Decided(stored[t])
        /\ UNCHANGED upstream
    BY <1>0, <1>4 DEF Submit, Finish, Goto, TaskTypes
  <2>2. Told[t] = None /\ Told'[t] = stored[t]
    BY <1>3, <2>1 DEF Told, Decided
  <2>3. RecordKey(req[t]) \in DOMAIN events
        /\ stored[t] = events[RecordKey(req[t])]
    BY <1>0, <2>1 DEF HoldsStored
  <2>4. Told' = [Told EXCEPT ![t] = stored[t]]
    BY <1>1, <1>2, <2>2
  <2> QED BY <2>1, <2>2, <2>3, <2>4
<1>5. CASE ~Submit(t)
  <2>1. pc'[t] # "done" \/ answer'[t].status # "decided"
    <3>1. CASE Ingest(t) \/ Bump(t) \/ Read(t) \/ Repeated(t)
      BY <1>0, <1>3, <3>1
         DEF Ingest, Bump, Read, Repeated, Proceed, Goto, TaskTypes
    <3>2. CASE Store(t) \/ GetCorrelation(t) \/ CutShort(t)
      BY <1>0, <3>2 DEF Store, GetCorrelation, CutShort, Goto, Finish, TaskTypes,
                        Failed, Correlated
    <3>3. CASE Assemble(t)
      BY <1>0, <3>3 DEF Assemble, Finish, TaskTypes, Failed
    <3>4. CASE \E r \in Requests : Arrive(t, r)
      BY <1>0, <3>4, AcceptedKinds DEF Arrive, Finish, Goto, TaskTypes, Failed
    <3> QED BY <1>5, <3>1, <3>2, <3>3, <3>4 DEF TaskStep, Step
  <2>2. Told[t] = None /\ Told'[t] = None
    BY <1>3, <2>1 DEF Told
  <2> QED BY <1>1, <1>2, <2>2
<1> QED BY <1>4, <1>5

\* Writing a human event is an Append, or nothing when its key has one.
LEMMA AppendStep ==
  ASSUME TypeInv, StoredInv, NEW t \in Tasks, pc[t] = "ingest",
         ingest_event(DecisionEvent(req[t], corr[t])), Told' = Told
  PROVE  Ledger!Append \/ UNCHANGED Ledger!ledgerVars
<1> DEFINE e == DecisionEvent(req[t], corr[t])
           k == EventKey(e)
<1>0. UpstreamTypeOK
  BY TypeParts DEF TypeInv
<1>1. /\ e.tenant = req[t].header /\ e.waits = {ReviewLookup(req[t])}
      /\ k = <<e.tenant, e.key>> /\ ingest_event(e)
  BY RequestServed, DecisionEventType DEF AfterCorrelation, EventKey
<1>2. Resolves(e.tenant, ReviewLookup(req[t]))
  BY <1>1 DEF StoredInv, FoundMapped
<1> HIDE DEF e
<1>3. CASE k \in DOMAIN events
  <2>1. events' = events
    BY <1>0, <1>1, <1>3 DEF ingest_event, Overwritten, Stored, UpstreamTypeOK
  <2> QED BY <1>1, <2>1 DEF ingest_event, Ledger!ledgerVars
<1>4. CASE k \notin DOMAIN events
  <2>1. events' = [j \in DOMAIN events \cup {k} |->
                     IF j = k THEN e ELSE events[j]]
    BY <1>1, <1>4 DEF ingest_event, Overwritten, Stored
  <2>2. events'[k] = e /\ k \in DOMAIN events' \ DOMAIN events
    BY <1>4, <2>1
  <2>3. Ledger!MayAppend(e)
    BY <1>1, <1>2 DEF Ledger!MayAppend, Resolves, Slot
  <2>4. events' = [j \in DOMAIN events \cup {k} |->
                     IF j = k THEN events'[k] ELSE events[j]]
    BY <2>1, <2>2
  <2>5. UNCHANGED <<DOMAIN correlations, Told>>
    BY <1>1 DEF ingest_event
  <2> HIDE DEF k
  <2> QED BY <1>1, <2>2, <2>3, <2>4, <2>5 DEF Ledger!Append
<1> QED BY <1>3, <1>4

\* Every step of the handlers is a step of the ledger, or changes nothing of
\* it.
LEMMA LedgerStep ==
  ASSUME TypeInv, StoredInv, [Next]_vars, TenantExclusive'
  PROVE  [Ledger!Next]_(Ledger!ledgerVars)
<1>1. CASE UNCHANGED vars
  BY <1>1 DEF vars, upstream, Told, Ledger!ledgerVars
<1>2. ASSUME NEW t \in Tasks, TaskStep(t) PROVE [Ledger!Next]_(Ledger!ledgerVars)
  <2>1. CASE Told' = Told /\ UNCHANGED upstream
    BY <2>1 DEF Ledger!ledgerVars, upstream
  <2>2. CASE Told' = Told /\ \E rec \in CorrelationRecord : store_correlation(rec)
    <3>1. Ledger!NotShared(DOMAIN correlations')
      BY DEF Ledger!NotShared, TenantExclusive
    <3> QED BY <1>2, <2>2, <3>1, UpstreamGrows
            DEF Ledger!Link, Ledger!Next, store_correlation
  <2>3. CASE /\ Told' = Told /\ pc[t] = "ingest"
             /\ ingest_event(DecisionEvent(req[t], corr[t]))
    BY <2>3, AppendStep DEF Ledger!Next
  <2>4. CASE Told' # Told
    BY <1>2, <2>4, ToldMoves DEF Ledger!Tell, Ledger!Next, upstream
  <2> QED BY <1>2, <2>1, <2>2, <2>3, <2>4, UpstreamMoves
<1> QED BY <1>1, <1>2, StepsAreTasks

\* The decision and correlate handlers implement EventLedger: one human event
\* per key, kept for ever, written for a review its tenant has mapped, and
\* callers told what the ledger says.
THEOREM DecisionsKeepLedger == Spec => KeepsLedger
<1>1. Init => Ledger!Init
  BY DEF Init, UpstreamInit, Ledger!Init, Told, NoAnswer
<1>2. TypeInv /\ StoredInv /\ [Next]_vars /\ TenantExclusive'
      => [Ledger!Next]_(Ledger!ledgerVars)
  BY LedgerStep
<1> QED BY <1>1, <1>2, TypeInvariant, StoredInvariant, TenantsStayApart, PTL
        DEF Spec, KeepsLedger, Ledger!Spec

-----------------------------------------------------------------------------
(* Revisions *)

\* A step raises no revision, or the one of a review whose handler bumps it.
LEMMA RevisionMoves ==
  ASSUME TypeInv, NEW t \in Tasks, TaskStep(t)
  PROVE  \/ \A k : Revision(k)' = Revision(k)
         \/ \E j \in Tenants \X Ids :
              /\ pc[t] = "bump" /\ j = ReviewKey(req[t])
              /\ Bump(t) \/ Repeated(t) \/ CutShort(t)
              /\ Revision(j)' = Revision(j) + 1
              /\ \A k : k # j => Revision(k)' = Revision(k)
<1>0. ReviewTypes /\ PhaseOK
  BY TypeParts DEF TypeInv
<1>1. CASE revisions' = revisions
  BY <1>1 DEF Revision
<1>2. CASE pc[t] = "bump" /\ RaiseRevision(ReviewKey(req[t]))
           /\ (Bump(t) \/ Repeated(t) \/ CutShort(t))
  <2>1. PICK j \in Tenants \X Ids : j = ReviewKey(req[t])
    BY <1>0, <1>2, ReviewKeyType DEF PhaseOK, AfterCorrelation
  <2>2. RaiseRevision(j)
    BY <1>2, <2>1
  <2>3. Revision(j)' = Revision(j) + 1 /\ \A k : k # j => Revision(k)' = Revision(k)
    BY <1>0, <2>2, RaiseRevisionType
  <2> QED BY <1>2, <2>1, <2>3
<1>3. \/ revisions' = revisions
      \/ /\ pc[t] = "bump" /\ RaiseRevision(ReviewKey(req[t]))
         /\ Bump(t) \/ Repeated(t) \/ CutShort(t)
  BY DEF TaskStep, Step, Store, GetCorrelation, Ingest, Bump, Submit, Read,
         Assemble, Repeated, CutShort, Effect, Arrive, Tell, review
<1> QED BY <1>1, <1>2, <1>3

\* Revisions only rise.
LEMMA RevisionsRise ==
  ASSUME TypeInv, NEW t \in Tasks, TaskStep(t), NEW k
  PROVE  Revision(k) \in Nat /\ Revision(k)' \in Nat /\ Revision(k) <= Revision(k)'
<1>1. Revision(k) \in Nat
  BY TypeParts, RevisionType DEF TypeInv
<1>2. Revision(k)' = Revision(k) \/ Revision(k)' = Revision(k) + 1
  BY RevisionMoves
<1> QED BY <1>1, <1>2

-----------------------------------------------------------------------------
(* No bump is lost *)

\* Task t counts towards the revision of k.
Counts(t, k) == /\ pc[t] = "submit" \/ answer[t].status = "decided"
                /\ ReviewKey(req[t]) = k

BumpInv ==
  \A k \in Tenants \X Ids :
    /\ IsFiniteSet(PastBump(k))
    /\ Cardinality(PastBump(k)) <= Revision(k) - 1
    /\ Revision(k) - 1 <= Cardinality(PastBump(k)) + faults

\* PastBump moves with the task that takes the step.
LEMMA PastBumpMoves ==
  ASSUME TypeInv, NEW t \in Tasks, TaskStep(t), NEW k
  PROVE  PastBump(k)' = IF Counts(t, k)' THEN PastBump(k) \cup {t}
                                         ELSE PastBump(k) \ {t}
<1>1. PastBump(k) = {u \in Tasks : Counts(u, k)}
  BY DEF PastBump, Counts
<1>2. PastBump(k)' = {u \in Tasks : Counts(u, k)'}
  BY DEF PastBump, Counts
<1>3. \A u \in Tasks \ {t} : Counts(u, k)' = Counts(u, k)
  BY OthersStay DEF Counts
<1> QED BY <1>1, <1>2, <1>3

\* A bump makes its task count.
LEMMA BumpCounts ==
  ASSUME TypeInv, NEW t \in Tasks, Bump(t), NEW k
  PROVE  ~Counts(t, k) /\ (Counts(t, k)' <=> k = ReviewKey(req[t]))
<1>0. TaskTypes /\ PhaseOK
  BY TypeParts DEF TypeInv
<1>1. pc[t] = "bump" /\ answer[t] = NoAnswer
  BY <1>0 DEF Bump, PhaseOK
<1>2. pc'[t] = "submit" /\ req'[t] = req[t]
  BY <1>0 DEF Bump, Proceed, Goto, TaskTypes, job
<1> QED BY <1>1, <1>2 DEF Counts, NoAnswer, ReviewKey

\* A handler cut short counts no longer.
LEMMA CutShortCounts ==
  ASSUME TypeInv, NEW t \in Tasks, CutShort(t), NEW k
  PROVE  ~Counts(t, k)'
<1>0. TaskTypes
  BY TypeParts DEF TypeInv
<1>1. pc'[t] = "done" /\ answer'[t] = Failed
  BY <1>0 DEF CutShort, Finish, Goto, TaskTypes
<1> QED BY <1>1 DEF Counts, Failed

\* Every other step leaves the count alone.
LEMMA OtherCounts ==
  ASSUME TypeInv, NEW t \in Tasks, TaskStep(t), ~Bump(t), ~CutShort(t), NEW k
  PROVE  Counts(t, k)' <=> Counts(t, k)
<1>0. TaskTypes /\ PhaseOK
  BY TypeParts DEF TypeInv
<1>1. answer[t].status # "decided"
  BY Unanswered DEF NoAnswer
<1>2. CASE Submit(t)
  BY <1>0, <1>2 DEF Submit, Finish, Goto, TaskTypes, Decided, Counts, ReviewKey
<1>3. CASE Repeated(t)
  BY <1>3 DEF Repeated, Counts, ReviewKey
<1>4. CASE pc[t] # "submit" /\ pc'[t] # "submit" /\ answer'[t].status # "decided"
  BY <1>1, <1>4 DEF Counts
<1>5. CASE Store(t) \/ GetCorrelation(t) \/ Ingest(t)
  <2>1. CASE Store(t) \/ GetCorrelation(t)
    BY <1>0, <1>1, <1>4, <2>1
       DEF Store, GetCorrelation, Finish, Goto, TaskTypes, Failed, Correlated
  <2>2. CASE Ingest(t)
    BY <1>0, <1>1, <1>4, <2>2 DEF Ingest, Proceed, Goto, TaskTypes
  <2> QED BY <1>5, <2>1, <2>2
<1>6. CASE Read(t) \/ Assemble(t)
  BY <1>0, <1>1, <1>4, <1>6 DEF Read, Assemble, Finish, Goto, TaskTypes, Failed
<1>7. CASE \E r \in Requests : Arrive(t, r)
  BY <1>0, <1>1, <1>4, <1>7, AcceptedKinds
     DEF Arrive, Finish, Goto, TaskTypes, Failed
<1> QED BY <1>2, <1>3, <1>5, <1>6, <1>7 DEF TaskStep, Step

\* The revision of every review keeps up with the decisions on it.
LEMMA BumpNext ==
  ASSUME TypeInv, BumpInv, NEW t \in Tasks, TaskStep(t),
         NEW k \in Tenants \X Ids
  PROVE  /\ IsFiniteSet(PastBump(k)')
         /\ Cardinality(PastBump(k)') <= Revision(k)' - 1
         /\ Revision(k)' - 1 <= Cardinality(PastBump(k)') + faults'
<1> DEFINE n == Cardinality(PastBump(k))
           m == Cardinality(PastBump(k)')
<1>0. /\ faults \in Nat /\ IsFiniteSet(PastBump(k)) /\ n \in Nat
      /\ Revision(k) \in Nat
      /\ n <= Revision(k) - 1 /\ Revision(k) - 1 <= n + faults
  BY FS_CardinalityType, TypeParts, RevisionType DEF TypeInv, TaskTypes, BumpInv
<1>1. PastBump(k) = {u \in Tasks : Counts(u, k)}
  BY DEF PastBump, Counts
<1>2. Revision(k)' \in {Revision(k), Revision(k) + 1}
  BY RevisionMoves
<1>3. CASE Bump(t)
  <2>1. t \notin PastBump(k) /\ (Counts(t, k)' <=> k = ReviewKey(req[t]))
    BY <1>1, <1>3, BumpCounts
  <2>2. faults' = faults
    BY <1>3 DEF Bump
  <2>3. Revision(k)' = IF k = ReviewKey(req[t]) THEN Revision(k) + 1 ELSE Revision(k)
    <3>1. ReviewTypes /\ PhaseOK
      BY TypeParts DEF TypeInv
    <3>2. ReviewKey(req[t]) \in Tenants \X Ids
      BY <1>3, <3>1, ReviewKeyType DEF Bump, PhaseOK, AfterCorrelation
    <3> QED BY <1>3, <3>1, <3>2, RaiseRevisionType DEF Bump
  <2>4. CASE k = ReviewKey(req[t])
    <3>1. IsFiniteSet(PastBump(k)') /\ m = n + 1
      BY <1>0, <2>1, <2>4, PastBumpMoves, FS_AddElement
    <3> QED BY <1>0, <2>2, <2>3, <2>4, <3>1
  <2>5. CASE k # ReviewKey(req[t])
    <3>1. PastBump(k)' = PastBump(k)
      BY <2>1, <2>5, PastBumpMoves
    <3> QED BY <1>0, <2>2, <2>3, <2>5, <3>1
  <2> QED BY <2>4, <2>5
<1>4. CASE CutShort(t)
  <2>1. PastBump(k)' = PastBump(k) \ {t}
    BY <1>4, CutShortCounts, PastBumpMoves
  <2>2. IsFiniteSet(PastBump(k)') /\ m = IF t \in PastBump(k) THEN n - 1 ELSE n
    <3>1. /\ IsFiniteSet(PastBump(k) \ {t})
          /\ Cardinality(PastBump(k) \ {t})
               = IF t \in PastBump(k) THEN n - 1 ELSE n
      BY <1>0, FS_RemoveElement
    <3> QED BY <2>1, <3>1
  <2>3. faults' = faults + 1
    BY <1>4 DEF CutShort
  <2>4. t \in PastBump(k) => Revision(k)' = Revision(k)
    <3>1. t \in PastBump(k) => pc[t] = "submit"
      BY <1>1, Unanswered DEF Counts, NoAnswer
    <3> QED BY <3>1, RevisionMoves
  <2> QED BY <1>0, <1>2, <2>2, <2>3, <2>4
<1>5. CASE ~Bump(t) /\ ~CutShort(t)
  <2>1. PastBump(k)' = PastBump(k)
    BY <1>1, <1>5, OtherCounts, PastBumpMoves
  <2>2. CASE Repeated(t)
    <3>1. faults' = faults + 1
      BY <2>2 DEF Repeated
    <3> QED BY <1>0, <1>2, <2>1, <3>1
  <2>3. CASE ~Repeated(t)
    <3>1. Revision(k)' = Revision(k)
      BY <1>5, <2>3, RevisionMoves
    <3>2. faults' = faults
      BY <1>5, <2>3 DEF TaskStep, Step, Store, GetCorrelation, Ingest, Submit,
                        Read, Assemble, Arrive
    <3> QED BY <1>0, <2>1, <3>1, <3>2
  <2> QED BY <2>2, <2>3
<1> QED BY <1>3, <1>4, <1>5

\* No decision's bump is lost to another's, and none counted twice but by a
\* call cut short or sent again.
THEOREM BumpsCounted == Spec => []NoBumpLost
<1>1. Init => BumpInv
  <2> SUFFICES ASSUME Init, NEW k \in Tenants \X Ids
               PROVE  /\ IsFiniteSet(PastBump(k))
                      /\ Cardinality(PastBump(k)) <= Revision(k) - 1
                      /\ Revision(k) - 1 <= Cardinality(PastBump(k)) + faults
    BY DEF BumpInv
  <2>1. PastBump(k) = {} /\ Revision(k) = 1 /\ faults = 0
    BY DEF Init, PastBump, Revision, NoAnswer
  <2> QED BY <2>1, FS_EmptySet
<1>2. TypeInv /\ BumpInv /\ [Next]_vars => BumpInv'
  <2> SUFFICES ASSUME TypeInv, BumpInv, [Next]_vars PROVE BumpInv'
    OBVIOUS
  <2>1. CASE UNCHANGED vars
    BY <2>1 DEF vars, review, BumpInv, PastBump, Revision
  <2>2. CASE \E t \in Tasks : TaskStep(t)
    BY <2>2, BumpNext DEF BumpInv
  <2> QED BY <2>1, <2>2, StepsAreTasks
<1>3. TypeInv /\ BumpInv => NoBumpLost
  <2> SUFFICES ASSUME TypeInv, BumpInv, NEW k \in Tenants \X Ids
               PROVE  Revision(k) - 1
                        \in Cardinality(PastBump(k))
                             .. Cardinality(PastBump(k)) + faults
    BY DEF NoBumpLost
  <2>1. /\ Cardinality(PastBump(k)) \in Nat /\ Revision(k) \in Nat
        /\ faults \in Nat
    BY FS_CardinalityType, TypeParts, RevisionType
       DEF TypeInv, TaskTypes, BumpInv
  <2> QED BY <2>1 DEF BumpInv
<1> QED BY <1>1, <1>2, <1>3, TypeInvariant, PTL DEF Spec

-----------------------------------------------------------------------------
(* The ETag moves on *)

Viewed(u)  == answer[u].status \in {"bundle", "not_modified"}
DecidedBy(d) == answer[d].status = "decided"
Past(d)    == pc[d] = "submit" \/ DecidedBy(d)
KeyOf(t)   == ReviewKey(req[t])

\* View w has read the revision.
Seen(w) == "revision" \notin left[w]

SeenOK(w) == Seen(w) => /\ pc[w] \in {"reading", "assemble", "done"}
                        /\ rev[w] <= Revision(KeyOf(w))

\* What is assembled or answered has read it, and answers with what it read.
ViewOK(w) == /\ pc[w] = "assemble" => Seen(w)
             /\ Viewed(w) => Seen(w) /\ answer[w].etag = rev[w]

\* A decision past its bump has left the ETags given before it behind.
RaisedOK(d) ==
  Past(d) => \A u \in before[d] : Viewed(u) /\ KeyOf(u) = KeyOf(d)
                                  => answer[u].etag < Revision(KeyOf(d))

\* So does a view that reads the revision after such a decision.
LaterOK(w) ==
  Seen(w) => \A d \in before[w] : \A u \in before[d] :
               /\ DecidedBy(d) /\ Viewed(u)
               /\ KeyOf(u) = KeyOf(d) /\ KeyOf(w) = KeyOf(d)
               => answer[u].etag < rev[w]

EtagInv ==
  \A t \in Tasks : /\ before[t] \subseteq Answered
                   /\ SeenOK(t) /\ ViewOK(t) /\ RaisedOK(t) /\ LaterOK(t)

\* What has been answered stays as it is.
LEMMA AnsweredStay ==
  ASSUME TypeInv, NEW t \in Tasks, TaskStep(t), NEW u \in Answered
  PROVE  /\ u \in Tasks \ {t} /\ answer'[u] = answer[u] /\ req'[u] = req[u]
         /\ rev'[u] = rev[u] /\ before'[u] = before[u] /\ left'[u] = left[u]
<1>1. u \in Tasks /\ answer[u].status # "none"
  BY DEF Answered
<1>2. u # t
  BY <1>1, Unanswered DEF NoAnswer
<1> QED BY <1>1, <1>2, OthersStay

\* A step that leaves a view having read the revision either is the read of it
\* or found it read.
LEMMA SeenMoves ==
  ASSUME TypeInv, EtagInv, NEW t \in Tasks, TaskStep(t), Seen(t)'
  PROVE  /\ pc'[t] \in {"reading", "assemble", "done"}
         /\ before'[t] = before[t] /\ req'[t] = req[t]
         /\ \A k : Revision(k)' = Revision(k)
         /\ \/ Seen(t) /\ rev'[t] = rev[t]
            \/ rev'[t] = Revision(KeyOf(t))
<1>0. TaskTypes /\ SeenOK(t)
  BY TypeParts DEF TypeInv, EtagInv
<1>1. CASE Read(t)
  <2>1. PICK x \in left[t] :
          /\ left' = [left EXCEPT ![t] = @ \ {x}]
          /\ rev' = IF x = "revision"
                    THEN [rev EXCEPT ![t] = Revision(ReviewKey(req[t]))] ELSE rev
    BY <1>1 DEF Read
  <2>2. left'[t] = left[t] \ {x}
    BY <1>0, <2>1 DEF TaskTypes
  <2>3. rev'[t] = Revision(KeyOf(t)) \/ (Seen(t) /\ rev'[t] = rev[t])
    <3>1. CASE x = "revision"
      BY <1>0, <2>1, <3>1 DEF TaskTypes, KeyOf
    <3>2. CASE x # "revision"
      BY <1>0, <2>1, <2>2, <3>2 DEF Seen
    <3> QED BY <3>1, <3>2
  <2>4. pc'[t] \in {"reading", "assemble"}
    BY <1>0, <1>1 DEF Read, Goto, TaskTypes
  <2>5. before' = before /\ req' = req /\ revisions' = revisions
    BY <1>1 DEF Read, review
  <2> QED BY <2>3, <2>4, <2>5 DEF Revision
<1>2. CASE ~Read(t)
  <2>1. left' = left /\ rev' = rev
    BY <1>2 DEF TaskStep, Step, Store, GetCorrelation, Ingest, Bump, Submit,
                Assemble, Repeated, CutShort, Arrive, job
  <2>2. Seen(t)
    BY <2>1 DEF Seen
  <2>3. pc[t] \in {"reading", "assemble", "done"}
    BY <1>0, <2>2 DEF SeenOK
  <2>4. Assemble(t) \/ CutShort(t)
    BY <1>2, <2>3, Unanswered
       DEF TaskStep, Step, Store, GetCorrelation, Ingest, Bump, Submit,
           Repeated, Arrive
  <2>5. pc'[t] = "done" /\ before' = before /\ req' = req
    BY <1>0, <2>4 DEF Assemble, CutShort, Finish, Goto, TaskTypes
  <2>6. \A k : Revision(k)' = Revision(k)
    BY <2>3, RevisionMoves
  <2> QED BY <2>1, <2>2, <2>5, <2>6
<1> QED BY <1>1, <1>2

\* A step that leaves a decision past its bump is the bump, or found it there.
LEMMA PastMoves ==
  ASSUME TypeInv, NEW t \in Tasks, TaskStep(t), Past(t)'
  PROVE  /\ before'[t] = before[t] /\ req'[t] = req[t]
         /\ Past(t) \/ Bump(t)
<1>0. TaskTypes
  BY TypeParts DEF TypeInv
<1>1. Past(t) \/ Bump(t)
  <2>1. PICK k : k = ReviewKey(req'[t])
    OBVIOUS
  <2>2. Counts(t, k)'
    BY <2>1 DEF Counts, Past, DecidedBy, ReviewKey
  <2> QED BY <2>2, OtherCounts, CutShortCounts DEF Counts, Past, DecidedBy
<1>2. pc[t] \in {"submit", "bump"}
  BY <1>1, Unanswered DEF Past, DecidedBy, NoAnswer, Bump
<1>3. before' = before /\ req' = req
  BY <1>2 DEF TaskStep, Step, Store, GetCorrelation, Ingest, Bump, Submit, Read,
              Assemble, Repeated, CutShort, Arrive
<1> QED BY <1>1, <1>3

\* A handler that takes a step keeps what a view has read and answered.
LEMMA SeenNext ==
  ASSUME TypeInv, EtagInv, NEW t \in Tasks, TaskStep(t), NEW w \in Tasks
  PROVE  SeenOK(w)' /\ ViewOK(w)'
<1>0. TaskTypes /\ SeenOK(w) /\ ViewOK(w)
  BY TypeParts DEF TypeInv, EtagInv
<1>1. CASE w # t
  <2>1. /\ pc'[w] = pc[w] /\ req'[w] = req[w] /\ left'[w] = left[w]
        /\ rev'[w] = rev[w] /\ answer'[w] = answer[w]
    BY <1>1, OthersStay
  <2>0. PICK k : k = KeyOf(w)
    OBVIOUS
  <2>2. /\ Revision(k) \in Nat /\ Revision(k)' \in Nat
        /\ Revision(k) <= Revision(k)'
    BY RevisionsRise
  <2>3. KeyOf(w)' = k
    BY <2>0, <2>1 DEF KeyOf, ReviewKey
  <2>4. rev[w] \in Nat
    BY <1>0 DEF TaskTypes
  <2>5. SeenOK(w)'
    <3> SUFFICES ASSUME Seen(w)' PROVE /\ pc'[w] \in {"reading", "assemble", "done"}
                                       /\ rev'[w] <= Revision(KeyOf(w))'
      BY DEF SeenOK
    <3>1. Seen(w) /\ rev[w] <= Revision(k)
      BY <1>0, <2>0, <2>1 DEF Seen, SeenOK
    <3>2. Revision(KeyOf(w))' = Revision(k)'
      BY <2>3 DEF Revision
    <3> QED BY <1>0, <2>1, <2>2, <2>4, <3>1, <3>2 DEF SeenOK
  <2>6. ViewOK(w)'
    BY <1>0, <2>1 DEF ViewOK, Seen, Viewed
  <2> QED BY <2>5, <2>6
<1>2. CASE w = t
  <2>1. SeenOK(t)'
    <3> SUFFICES ASSUME Seen(t)' PROVE /\ pc'[t] \in {"reading", "assemble", "done"}
                                       /\ rev'[t] <= Revision(KeyOf(t))'
      BY DEF SeenOK
    <3>1. /\ pc'[t] \in {"reading", "assemble", "done"} /\ req'[t] = req[t]
          /\ \A k : Revision(k)' = Revision(k)
          /\ (Seen(t) /\ rev'[t] = rev[t]) \/ rev'[t] = Revision(KeyOf(t))
      BY SeenMoves
    <3>2. KeyOf(t)' = KeyOf(t)
      BY <3>1 DEF KeyOf, ReviewKey
    <3>3. Revision(KeyOf(t)) \in Nat
      BY RevisionsRise
    <3>4. Revision(KeyOf(t))' = Revision(KeyOf(t))
      <4> DEFINE k == KeyOf(t)
      <4>1. Revision(KeyOf(t))' = (IF k \in DOMAIN revisions' THEN revisions'[k] ELSE 1)
        BY <3>2 DEF Revision
      <4>2. PICK j : j = k
        OBVIOUS
      <4>3. Revision(j)' = Revision(j)
        BY <3>1
      <4> QED BY <4>1, <4>2, <4>3 DEF Revision
    <3> QED BY <1>0, <1>2, <3>1, <3>3, <3>4 DEF SeenOK
  <2>2. pc'[t] = "assemble" => Seen(t)'
    <3>1. CASE Read(t)
      BY <1>0, <3>1 DEF Read, Goto, TaskTypes, Seen
    <3>2. CASE ~Read(t)
      <4> SUFFICES ASSUME pc'[t] = "assemble" PROVE Seen(t)'
        OBVIOUS
      <4>1. pc[t] = "assemble" /\ left' = left
        BY <1>0, <3>2, AcceptedKinds
           DEF TaskStep, Step, Store, GetCorrelation, Ingest, Bump, Submit,
               Assemble, Repeated, CutShort, Arrive, job, Finish, Proceed, Goto,
               TaskTypes
      <4> QED BY <1>0, <1>2, <4>1 DEF ViewOK, Seen
    <3> QED BY <3>1, <3>2
  <2>3. Viewed(t)' => Seen(t)' /\ answer'[t].etag = rev'[t]
    <3> SUFFICES ASSUME Viewed(t)' PROVE Seen(t)' /\ answer'[t].etag = rev'[t]
      OBVIOUS
    <3>1. Assemble(t)
      <4>1. answer'[t].status \in {"bundle", "not_modified"} /\ answer[t] = NoAnswer
        BY Unanswered DEF Viewed
      <4> QED BY <1>0, <4>1
              DEF TaskStep, Step, Store, GetCorrelation, Ingest, Bump, Submit,
                  Read, Repeated, CutShort, Arrive, Finish, Proceed, Goto,
                  TaskTypes, NoAnswer, Failed, Correlated, Decided
    <3>2. pc[t] = "assemble" /\ left' = left /\ rev' = rev
      BY <3>1 DEF Assemble, job
    <3>3. answer'[t].etag = rev[t]
      BY <1>0, <3>1 DEF Assemble, Finish, TaskTypes, Viewed, Failed
    <3> QED BY <1>0, <1>2, <3>2, <3>3 DEF ViewOK, Seen
  <2> QED BY <1>2, <2>1, <2>2, <2>3 DEF ViewOK
<1> QED BY <1>1, <1>2

\* A request knows of nothing but what was answered before it came.
LEMMA BeforeNext ==
  ASSUME TypeInv, EtagInv, NEW t \in Tasks, TaskStep(t), NEW w \in Tasks
  PROVE  before'[w] \subseteq Answered'
<1>0. TaskTypes /\ before[w] \subseteq Answered
  BY TypeParts DEF TypeInv, EtagInv
<1>1. Answered \subseteq Answered'
  <2> SUFFICES ASSUME NEW u \in Answered PROVE u \in Answered'
    OBVIOUS
  <2>1. u \in Tasks /\ answer'[u] = answer[u]
    BY AnsweredStay
  <2> QED BY <2>1 DEF Answered
<1>2. before'[w] = before[w] \/ before'[w] = Answered
  <2>1. CASE w # t
    BY <2>1, OthersStay
  <2>2. CASE w = t
    BY <1>0, <2>2
       DEF TaskTypes, TaskStep, Step, Store, GetCorrelation, Ingest, Bump,
           Submit, Read, Assemble, Repeated, CutShort, Arrive
  <2> QED BY <2>1, <2>2
<1> QED BY <1>0, <1>1, <1>2

\* A bump leaves every ETag given before its decision came behind.
LEMMA RaisedNext ==
  ASSUME TypeInv, EtagInv, NEW t \in Tasks, TaskStep(t), NEW d \in Tasks
  PROVE  RaisedOK(d)'
<1> SUFFICES ASSUME Past(d)', NEW u \in before'[d], Viewed(u)',
                    KeyOf(u)' = KeyOf(d)'
             PROVE  answer'[u].etag < Revision(KeyOf(d))'
  BY DEF RaisedOK
<1>0. TaskTypes /\ before[d] \subseteq Answered
  BY TypeParts DEF TypeInv, EtagInv
<1>1. /\ before'[d] = before[d] /\ req'[d] = req[d]
      /\ Past(d) \/ (d = t /\ Bump(t))
  <2>1. CASE d = t
    BY <2>1, PastMoves
  <2>2. CASE d # t
    BY <2>2, OthersStay DEF Past, DecidedBy
  <2> QED BY <2>1, <2>2
<1>2. u \in Answered /\ u \in Tasks /\ answer'[u] = answer[u] /\ req'[u] = req[u]
  BY <1>0, <1>1, AnsweredStay
<1>3. Viewed(u) /\ KeyOf(u) = KeyOf(d)
  BY <1>1, <1>2 DEF Viewed, KeyOf, ReviewKey
<1>4. /\ SeenOK(u) /\ ViewOK(u) /\ RaisedOK(d) /\ rev[u] \in Nat
      /\ answer[u].etag = rev[u] /\ rev[u] <= Revision(KeyOf(d))
  BY <1>0, <1>2, <1>3 DEF EtagInv, TaskTypes, ViewOK, SeenOK
<1>5. PICK k : k = KeyOf(d)
  OBVIOUS
<1>6. /\ Revision(k) \in Nat /\ Revision(k)' \in Nat
      /\ Revision(k) <= Revision(k)'
  BY RevisionsRise
<1>7. Revision(KeyOf(d))' = Revision(k)'
  BY <1>1, <1>5 DEF Revision, KeyOf, ReviewKey
<1>8. CASE Past(d)
  <2>1. answer[u].etag < Revision(k)
    BY <1>1, <1>3, <1>4, <1>5, <1>8 DEF RaisedOK
  <2> QED BY <1>2, <1>4, <1>6, <1>7, <2>1
<1>9. CASE d = t /\ Bump(t)
  <2>1. ReviewTypes /\ PhaseOK
    BY TypeParts DEF TypeInv
  <2>2. k \in Tenants \X Ids /\ RaiseRevision(k)
    BY <1>5, <1>9, <2>1, ReviewKeyType
       DEF Bump, PhaseOK, AfterCorrelation, KeyOf
  <2>3. Revision(k)' = Revision(k) + 1
    BY <2>1, <2>2, RaiseRevisionType
  <2> QED BY <1>2, <1>4, <1>5, <1>6, <1>7, <2>3
<1> QED BY <1>1, <1>8, <1>9

\* A view that reads the revision finds it raised by the decisions before it.
LEMMA LaterNext ==
  ASSUME TypeInv, EtagInv, NEW t \in Tasks, TaskStep(t), NEW w \in Tasks
  PROVE  LaterOK(w)'
<1> SUFFICES ASSUME Seen(w)', NEW d \in before'[w], NEW u \in before'[d],
                    DecidedBy(d)', Viewed(u)',
                    KeyOf(u)' = KeyOf(d)', KeyOf(w)' = KeyOf(d)'
             PROVE  answer'[u].etag < rev'[w]
  BY DEF LaterOK
<1>0. before[w] \subseteq Answered /\ LaterOK(w)
  BY DEF EtagInv
<1>1. /\ before'[w] = before[w] /\ req'[w] = req[w]
      /\ \/ Seen(w) /\ rev'[w] = rev[w]
         \/ rev'[w] = Revision(KeyOf(w))
  <2>1. CASE w = t
    BY <2>1, SeenMoves
  <2>2. CASE w # t
    BY <2>2, OthersStay DEF Seen
  <2> QED BY <2>1, <2>2
<1>2. /\ d \in Answered /\ d \in Tasks /\ answer'[d] = answer[d]
      /\ req'[d] = req[d] /\ before'[d] = before[d]
  BY <1>0, <1>1, AnsweredStay
<1>3. before[d] \subseteq Answered
  BY <1>2 DEF EtagInv
<1>4. u \in Answered /\ u \in Tasks /\ answer'[u] = answer[u] /\ req'[u] = req[u]
  BY <1>2, <1>3, AnsweredStay
<1>5. /\ DecidedBy(d) /\ Viewed(u)
      /\ KeyOf(u) = KeyOf(d) /\ KeyOf(w) = KeyOf(d)
  BY <1>1, <1>2, <1>4 DEF DecidedBy, Viewed, KeyOf, ReviewKey
<1>6. CASE Seen(w) /\ rev'[w] = rev[w]
  BY <1>0, <1>1, <1>2, <1>4, <1>5, <1>6 DEF LaterOK
<1>7. CASE rev'[w] = Revision(KeyOf(w))
  <2>1. RaisedOK(d) /\ Past(d)
    BY <1>2, <1>5 DEF EtagInv, Past
  <2> QED BY <1>2, <1>4, <1>5, <1>7, <2>1 DEF RaisedOK
<1> QED BY <1>1, <1>6, <1>7

\* A decision acknowledged between two views changes the ETag.
THEOREM EtagsMoveOn == Spec => []EtagMovesOn
<1>1. Init => EtagInv
  BY DEF Init, EtagInv, SeenOK, ViewOK, RaisedOK, LaterOK, Seen, Viewed, Past,
         DecidedBy, NoAnswer, Reads
<1>2. TypeInv /\ EtagInv /\ [Next]_vars => EtagInv'
  <2> SUFFICES ASSUME TypeInv, EtagInv, [Next]_vars PROVE EtagInv'
    OBVIOUS
  <2>1. CASE UNCHANGED vars
    BY <2>1 DEF vars, review, job, EtagInv, SeenOK, ViewOK, RaisedOK, LaterOK,
                Seen, Viewed, Past, DecidedBy, KeyOf, ReviewKey, Revision, Answered
  <2>2. CASE \E t \in Tasks : TaskStep(t)
    BY <2>2, BeforeNext, SeenNext, RaisedNext, LaterNext DEF EtagInv
  <2> QED BY <2>1, <2>2, StepsAreTasks
<1>3. EtagInv => EtagMovesOn
  <2> SUFFICES ASSUME EtagInv, NEW u \in Tasks, NEW d \in Tasks, NEW w \in Tasks,
                      Viewed(u), DecidedBy(d), Viewed(w),
                      u \in before[d], d \in before[w],
                      KeyOf(u) = KeyOf(d), KeyOf(w) = KeyOf(d)
               PROVE  answer[w].etag > answer[u].etag
    BY DEF EtagMovesOn, Viewed, DecidedBy, KeyOf
  <2>1. Seen(w) /\ answer[w].etag = rev[w] /\ LaterOK(w)
    BY DEF EtagInv, ViewOK
  <2>2. answer[u].etag < answer[w].etag
    BY <2>1 DEF LaterOK
  <2> QED BY <2>2
<1> QED BY <1>1, <1>2, <1>3, TypeInvariant, PTL DEF Spec
=============================================================================
