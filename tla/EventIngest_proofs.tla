------------------------- MODULE EventIngest_proofs --------------------------
(****************************************************************************)
(* Theorems about EventIngest for every set of tenants, keys, ids, tasks    *)
(* and requests, every backend and every bound.                             *)
(****************************************************************************)
EXTENDS EventIngest, DataFabric_proofs, StagingStore_proofs

\* The labels at which a task is working on an event.
WithEvent == {"enrich", "check", "stage", "enrich_resolved", "register",
              "ingest", "record"}

\* What a handler may rely on at each label: the strengthening that makes
\* TypeOK inductive.
PhaseOK ==
  \A t \in Tasks :
    /\ pc[t] \notin {"idle", "done"} => req[t] \in Requests /\ WellFormed(req[t])
    /\ pc[t] \in {"lookup", "lookup_staged"} =>
         req[t] \in InboundAivcsEvent \cup InboundHitlEvent
    /\ pc[t] = "store" => req[t] \in CorrelateRequest
    /\ pc[t] \in WithEvent => ev[t] \in DfcEvent
    /\ pc[t] = "list" => todo[t] # <<>>

TypeInv == TypeOK /\ PhaseOK

TaskTypes ==
  /\ pc \in [Tasks -> Labels]
  /\ req \in [Tasks -> Requests \cup {None}]
  /\ ev \in [Tasks -> DfcEvent \cup {NoEvent}]
  /\ held \in [Tasks -> BOOLEAN]
  /\ wait \in [Tasks -> SUBSET Lookups]
  /\ todo \in [Tasks -> Seq(Lookups)]
  /\ keys \in [Tasks -> SUBSET EventKeys]
  /\ answer \in [Tasks -> Answers]

ServiceTypes ==
  /\ DOMAIN idem \subseteq EventKeys
  /\ idem \in [DOMAIN idem -> IdemEntry]
  /\ IsStore(staging)
  /\ now \in Nat /\ ingested \in Nat
  /\ faults \in Nat /\ crashes \in Nat

\* The type invariant, by what a step usually leaves alone.
LEMMA TypeParts == TypeOK <=> UpstreamTypeOK /\ ServiceTypes /\ TaskTypes
BY DEF TypeOK, ServiceTypes, TaskTypes

\* The initial state is well typed.
LEMMA InitType == Init => TypeInv
<1> SUFFICES ASSUME Init PROVE TypeInv
  OBVIOUS
<1>1. UpstreamTypeOK
  BY DEF Init, UpstreamInit, UpstreamTypeOK
<1>2. ServiceTypes
  BY EmptyStoreType DEF Init, ServiceTypes
<1>3. TaskTypes
  BY DEF Init, TaskTypes, Labels, Answers
<1>4. PhaseOK
  BY DEF Init, PhaseOK, WithEvent
<1> QED BY <1>1, <1>2, <1>3, <1>4, TypeParts DEF TypeInv

-----------------------------------------------------------------------------
(* Lemmas about the helpers *)

\* Every answer a handler prepares is one of Answers.
LEMMA AnswerTypes ==
  /\ \A e \in DfcEvent : Ingested(e) \in Answers
  /\ \A p \in SUBSET Lookups : Accepted(p) \in Answers
  /\ Correlated \in Answers /\ Failed \in Answers /\ NoAnswer \in Answers
BY DEF Ingested, Accepted, Answers

\* The idempotency lookup answers with an event.
LEMMA KnownType ==
  ASSUME TypeInv, NEW k \in DOMAIN KnownEvents
  PROVE  KnownEvents[k] \in DfcEvent
<1>1. CASE Backend = "data_fabric"
  BY <1>1 DEF KnownEvents, TypeInv, TypeOK, UpstreamTypeOK
<1>2. CASE Backend # "data_fabric"
  <2>1. k \in DOMAIN idem /\ KnownEvents[k] = idem[k].event
    BY <1>2 DEF KnownEvents, Live
  <2>2. idem[k] \in IdemEntry
    BY <2>1 DEF TypeInv, TypeOK
  <2> QED BY <2>1, <2>2 DEF IdemEntry
<1> QED BY <1>1, <1>2

\* Expiry leaves a well-typed backend.
LEMMA LiveType ==
  ASSUME TypeInv
  PROVE  /\ DOMAIN Live(idem) \subseteq EventKeys
         /\ Live(idem) \in [DOMAIN Live(idem) -> IdemEntry]
BY DEF TypeInv, TypeOK, Live

\* So does recording an ingested event.
LEMMA PutIdemType ==
  ASSUME TypeInv, NEW e \in DfcEvent
  PROVE  /\ DOMAIN PutIdem(e) \subseteq EventKeys
         /\ PutIdem(e) \in [DOMAIN PutIdem(e) -> IdemEntry]
<1>1. EventKey(e) \in EventKeys
  BY DEF EventKey, EventKeys, DfcEvent
<1>2. now + TTL \in Nat
  BY BoundsAssumption DEF TypeInv, TypeOK
<1>3. [event |-> e, expires |-> now + TTL] \in IdemEntry
  BY <1>2 DEF IdemEntry
<1> QED BY <1>1, <1>3 DEF PutIdem, Overwritten, TypeInv, TypeOK

\* Enrichment from a stored correlation yields an event.
LEMMA EnrichedType ==
  ASSUME UpstreamTypeOK, NEW e \in DfcEvent
  PROVE  Enriched(e) \in DfcEvent
<1>1. CASE ~NeedsRun(e) \/ ~Resolves(e.tenant, ReviewOf(e))
  BY <1>1 DEF Enriched
<1>2. CASE NeedsRun(e) /\ Resolves(e.tenant, ReviewOf(e))
  <2> DEFINE rec == Correlation(e.tenant, ReviewOf(e))
  <2>1. rec \in CorrelationRecord
    BY <1>2 DEF Resolves, Correlation, UpstreamTypeOK
  <2>2. rec.run \in Opt(Ids) /\ OrElse(e.task, rec.task) \in Opt(Ids)
    BY <2>1 DEF CorrelationRecord, DfcEvent, OrElse
  <2>3. Enriched(e) = [e EXCEPT !.run = rec.run,
                                !.task = OrElse(e.task, rec.task)]
    BY <1>2 DEF Enriched
  <2> HIDE DEF rec
  <2> QED BY <2>2, <2>3 DEF DfcEvent
<1> QED BY <1>1, <1>2

\* A present id makes one lookup to reconcile, an absent one none.
LEMMA OneType ==
  ASSUME NEW kind \in CorrelationKinds, NEW id \in Opt(Ids)
  PROVE  One(kind, id) \in Seq(Lookups)
<1>1. CASE id = None
  BY <1>1 DEF One
<1>2. CASE id # None
  <2>1. <<kind, id>> \in Lookups
    BY <1>2 DEF Lookups, Opt
  <2>2. <<<<kind, id>>>> \in Seq(Lookups)
    BY <2>1
  <2> QED BY <1>2, <2>2 DEF One
<1> QED BY <1>1, <1>2

\* What a stored record asks to be reconciled is a sequence of lookups.
LEMMA ReconcileTargetsType ==
  ASSUME NEW rec \in CorrelationRecord
  PROVE  ReconcileTargets(rec) \in Seq(Lookups)
<1>1. rec.run \in Opt(Ids) /\ rec.snapshot \in Opt(Ids)
      /\ rec.links.review \in Opt(Ids)
  BY DEF CorrelationRecord, Metadata
<1>2. /\ One("run", rec.run) \in Seq(Lookups)
      /\ One("snapshot", rec.snapshot) \in Seq(Lookups)
      /\ One("review", rec.links.review) \in Seq(Lookups)
  BY <1>1, OneType DEF CorrelationKinds
<1> QED BY <1>2 DEF ReconcileTargets

\* The steps a handler may go on to.
LEMMA StepLabels ==
  /\ \A e : AivcsForward(e) \in {"register", "ingest"}
  /\ \A e, p : HitlForward(e, p) \in {"ingest", "check"}
  /\ \A e : ResolvedStep(e) \in {"register", "ingest", "enrich_resolved"}
  /\ \A r, e : FirstStep(r, e) \in {"register", "ingest", "enrich", "check"}
BY DEF AivcsForward, HitlForward, ResolvedStep, FirstStep

-----------------------------------------------------------------------------
(* Every step keeps the types *)

\* A step that changes no variable keeps the type invariant.
LEMMA TypeFrame ==
  /\ UpstreamTypeOK /\ UNCHANGED upstream => UpstreamTypeOK'
  /\ ServiceTypes /\ UNCHANGED <<service, counters>> => ServiceTypes'
BY DEF upstream, UpstreamTypeOK, service, counters, ServiceTypes, IdemEntry

\* Arrive keeps the type invariant.
LEMMA ArriveType ==
  ASSUME TypeInv, NEW t \in Tasks, NEW r \in Requests, Arrive(t, r)
  PROVE  TypeInv'
<1>1. UpstreamTypeOK' /\ ServiceTypes'
  BY TypeParts, TypeFrame DEF TypeInv, Arrive
<1>2. TaskTypes'
  BY TypeParts DEF TypeInv, Arrive, TaskTypes, Goto, Labels, job
<1>3. r \in InboundAivcsEvent \cup InboundHitlEvent \cup CorrelateRequest
  BY RequestsAssumption
<1>4. PhaseOK'
  BY <1>3 DEF TypeInv, TypeOK, Arrive, PhaseOK, Goto, WithEvent, job,
              InboundAivcsEvent, InboundHitlEvent, CorrelateRequest
<1> QED BY <1>1, <1>2, <1>4 DEF TypeInv, TypeOK, ServiceTypes, TaskTypes

\* Reject keeps the type invariant.
LEMMA RejectType ==
  ASSUME TypeInv, NEW t \in Tasks, NEW r \in Requests, Reject(t, r)
  PROVE  TypeInv'
<1>1. UpstreamTypeOK' /\ ServiceTypes'
  BY TypeParts, TypeFrame DEF TypeInv, Reject
<1>2. TaskTypes'
  BY TypeParts, AnswerTypes
     DEF TypeInv, Reject, TaskTypes, Goto, Say, Finish, Labels, job
<1>3. PhaseOK'
  BY DEF TypeInv, TypeOK, Reject, PhaseOK, Goto, Say, Finish, WithEvent, job
<1> QED BY <1>1, <1>2, <1>3 DEF TypeInv, TypeOK, ServiceTypes, TaskTypes

\* Lookup keeps the type invariant.
LEMMA LookupType ==
  ASSUME TypeInv, NEW t \in Tasks, Lookup(t)
  PROVE  TypeInv'
<1>1. UpstreamTypeOK' /\ ServiceTypes'
  BY TypeParts, TypeFrame, LiveType DEF TypeInv, Lookup, ServiceTypes, counters
<1> DEFINE k == RequestKey(req[t])
<1>0. k \in DOMAIN KnownEvents => Ingested(KnownEvents[k]) \in Answers
  BY KnownType, AnswerTypes
<1> HIDE DEF k
<1>2. TaskTypes'
  BY <1>0, TypeParts
     DEF TypeInv, Lookup, TaskTypes, Goto, Say, Finish, Labels, job, k
<1>3. PhaseOK'
  BY DEF TypeInv, TypeOK, Lookup, PhaseOK, Goto, Say, Finish, WithEvent, job
<1> QED BY <1>1, <1>2, <1>3 DEF TypeInv, TypeOK, ServiceTypes, TaskTypes

\* LookupStaged keeps the type invariant.
LEMMA LookupStagedType ==
  ASSUME TypeInv, NEW t \in Tasks, LookupStaged(t)
  PROVE  TypeInv'
<1> DEFINE r == req[t]
           k == RequestKey(r)
<1>1. UpstreamTypeOK' /\ ServiceTypes'
  BY TypeParts, TypeFrame DEF TypeInv, LookupStaged
<1>2. r \in InboundAivcsEvent \cup InboundHitlEvent /\ WellFormed(r)
  BY DEF LookupStaged, TypeInv, PhaseOK
<1>3. into_dfc_event(r) \in DfcEvent /\ Pending(r) \subseteq Lookups
  BY <1>2, EventType, PendingType
<1>4. FirstStep(r, into_dfc_event(r)) \in {"register", "ingest", "enrich", "check"}
  BY StepLabels
<1>5. k \in DOMAIN staging.byIdempotency =>
        Accepted(staging.byIdempotency[k].pending) \in Answers
  BY AnswerTypes DEF TypeInv, TypeOK, IsStore, StagedRecord
<1> HIDE DEF k
<1>6. TaskTypes'
  <2>1. CASE k \in DOMAIN staging.byIdempotency
    <3> DEFINE a == Accepted(staging.byIdempotency[k].pending)
    <3>1. /\ pc' = [pc EXCEPT ![t] = "done"] /\ answer' = [answer EXCEPT ![t] = a]
          /\ UNCHANGED <<ev, wait, req, held, todo, keys>>
      BY <2>1 DEF LookupStaged, Goto, Say, Finish, k
    <3>2. a \in Answers
      BY <1>5, <2>1
    <3> HIDE DEF a
    <3> QED BY <3>1, <3>2, TypeParts DEF TypeInv, TaskTypes, Labels
  <2>2. CASE k \notin DOMAIN staging.byIdempotency
    <3> DEFINE e == into_dfc_event(r)
    <3>1. /\ pc' = [pc EXCEPT ![t] = FirstStep(r, e)]
          /\ ev' = [ev EXCEPT ![t] = e]
          /\ wait' = [wait EXCEPT ![t] = Pending(r)]
          /\ UNCHANGED <<answer, req, held, todo, keys>>
      BY <2>2 DEF LookupStaged, Goto, k
    <3>2. /\ e \in DfcEvent /\ Pending(r) \in SUBSET Lookups
          /\ FirstStep(r, e) \in Labels
      BY <1>3, <1>4 DEF Labels
    <3> HIDE DEF e
    <3> QED BY <3>1, <3>2, TypeParts DEF TypeInv, TaskTypes
  <2> QED BY <2>1, <2>2
<1>7. PhaseOK'
  <2>1. CASE k \in DOMAIN staging.byIdempotency
    BY <2>1 DEF TypeInv, TypeOK, LookupStaged, PhaseOK, Goto, Say, Finish,
                WithEvent, k
  <2>2. CASE k \notin DOMAIN staging.byIdempotency
    BY <1>3, <1>4, <2>2
       DEF TypeInv, TypeOK, LookupStaged, PhaseOK, Goto, WithEvent, k
  <2> QED BY <2>1, <2>2
<1> QED BY <1>1, <1>6, <1>7 DEF TypeInv, TypeOK, ServiceTypes, TaskTypes

\* Enrich keeps the type invariant.
LEMMA EnrichType ==
  ASSUME TypeInv, NEW t \in Tasks, Enrich(t)
  PROVE  TypeInv'
<1>1. UpstreamTypeOK' /\ ServiceTypes'
  BY TypeParts, TypeFrame DEF TypeInv, Enrich
<1>2. ev[t] \in DfcEvent
  BY DEF Enrich, TypeInv, PhaseOK, WithEvent
<1>3. Enriched(ev[t]) \in DfcEvent
  BY <1>2, EnrichedType DEF TypeInv, TypeOK
<1>4. HitlForward(Enriched(ev[t]), wait[t]) \in {"ingest", "check"}
  BY StepLabels
<1>5. TaskTypes'
  BY <1>3, <1>4, TypeParts, AnswerTypes
     DEF TypeInv, Enrich, TaskTypes, Goto, Say, Finish, Labels
<1>6. PhaseOK'
  BY <1>2, <1>3, <1>4
     DEF TypeInv, TypeOK, Enrich, PhaseOK, Goto, Say, Finish, WithEvent
<1> QED BY <1>1, <1>5, <1>6 DEF TypeInv, TypeOK, ServiceTypes, TaskTypes

\* Check keeps the type invariant.
LEMMA CheckType ==
  ASSUME TypeInv, NEW t \in Tasks, Check(t)
  PROVE  TypeInv'
<1>1. UpstreamTypeOK' /\ ServiceTypes'
  BY TypeParts, TypeFrame DEF TypeInv, Check
<1>2. ev[t] \in DfcEvent
  BY DEF Check, TypeInv, PhaseOK, WithEvent
<1>3. ResolvedStep(ev[t]) \in {"register", "ingest", "enrich_resolved"}
  BY StepLabels
<1>4. Unresolved(ev[t].tenant, wait[t]) \in SUBSET Lookups
  BY DEF Unresolved, TypeInv, TypeOK
<1>5. TaskTypes'
  BY <1>3, <1>4, TypeParts, AnswerTypes
     DEF TypeInv, Check, TaskTypes, Goto, Say, Finish, Labels
<1>6. PhaseOK'
  BY <1>2, <1>3
     DEF TypeInv, TypeOK, Check, PhaseOK, Goto, Say, Finish, WithEvent
<1> QED BY <1>1, <1>5, <1>6 DEF TypeInv, TypeOK, ServiceTypes, TaskTypes

\* Stage keeps the type invariant.
LEMMA StageTypeInv ==
  ASSUME TypeInv, NEW t \in Tasks, Stage(t)
  PROVE  TypeInv'
<1>1. ev[t] \in DfcEvent /\ wait[t] \in SUBSET Lookups /\ now + TTL \in Nat
  BY BoundsAssumption DEF Stage, TypeInv, TypeOK, PhaseOK, WithEvent
<1>2. IsStore(purge_expired(staging, now))
  BY WithoutType DEF purge_expired, TypeInv, TypeOK
<1>3. IsStore(staging')
  BY <1>1, <1>2, StageType DEF Stage
<1>4. UpstreamTypeOK' /\ ServiceTypes'
  BY <1>3, TypeParts, TypeFrame DEF TypeInv, Stage, ServiceTypes, counters
<1>5. Accepted(wait[t]) \in Answers
  BY <1>1, AnswerTypes
<1>6. TaskTypes'
  BY <1>5, TypeParts
     DEF TypeInv, Stage, TaskTypes, Goto, Say, Finish, Labels, job
<1>7. PhaseOK'
  BY DEF TypeInv, TypeOK, Stage, PhaseOK, Goto, Say, Finish, WithEvent, job
<1> QED BY <1>4, <1>6, <1>7 DEF TypeInv, TypeOK, ServiceTypes, TaskTypes

\* Register keeps the type invariant.
LEMMA RegisterType ==
  ASSUME TypeInv, NEW t \in Tasks, Register(t)
  PROVE  TypeInv'
<1>1. ev[t] \in DfcEvent
  BY DEF Register, TypeInv, PhaseOK, WithEvent
<1>2. SnapshotRecord(ev[t]) \in CorrelationRecord
  BY <1>1, SnapshotRecordType
<1>3. UpstreamTypeOK'
  BY <1>2, StoreCorrelationType, TypeParts, TypeFrame DEF TypeInv, Register
<1>4. ServiceTypes'
  BY TypeParts, TypeFrame DEF TypeInv, Register
<1>5. TaskTypes'
  BY TypeParts, AnswerTypes
     DEF TypeInv, Register, TaskTypes, Goto, Say, Finish, Labels, job
<1>6. PhaseOK'
  BY <1>1
     DEF TypeInv, TypeOK, Register, PhaseOK, Goto, Say, Finish, WithEvent, job
<1> QED BY <1>3, <1>4, <1>5, <1>6 DEF TypeInv, TypeOK, ServiceTypes, TaskTypes

\* Ingest keeps the type invariant.
LEMMA IngestType ==
  ASSUME TypeInv, NEW t \in Tasks, Ingest(t)
  PROVE  TypeInv'
<1>1. ev[t] \in DfcEvent
  BY DEF Ingest, TypeInv, PhaseOK, WithEvent
<1>2. UpstreamTypeOK' /\ Stored(ev[t]) \in DfcEvent
  BY <1>1, IngestEventType, TypeParts DEF TypeInv, Ingest
<1>3. ServiceTypes'
  BY TypeParts, TypeFrame DEF TypeInv, Ingest
<1>4. TaskTypes'
  BY <1>2, TypeParts DEF TypeInv, Ingest, TaskTypes, Goto, Labels
<1>5. PhaseOK'
  BY <1>2 DEF TypeInv, TypeOK, Ingest, PhaseOK, Goto, WithEvent
<1> QED BY <1>2, <1>3, <1>4, <1>5 DEF TypeInv, TypeOK, ServiceTypes, TaskTypes

\* Record keeps the type invariant.
LEMMA RecordType ==
  ASSUME TypeInv, NEW t \in Tasks, Record(t)
  PROVE  TypeInv'
<1>1. ev[t] \in DfcEvent
  BY DEF Record, TypeInv, PhaseOK, WithEvent
<1>2. /\ DOMAIN idem' \subseteq EventKeys
      /\ idem' \in [DOMAIN idem' -> IdemEntry]
  BY <1>1, PutIdemType DEF Record
<1>3. UpstreamTypeOK' /\ ServiceTypes'
  BY <1>2, TypeParts, TypeFrame
     DEF TypeInv, Record, Count, ServiceTypes, counters
<1> DEFINE id == snapshot_id_from_event(ev[t])
<1>4. id \in Opt(Ids)
  BY <1>1 DEF snapshot_id_from_event, OrElse, DfcEvent, Metadata
<1>5. One("snapshot", id) \in Seq(Lookups)
  BY <1>4, OneType DEF CorrelationKinds
<1>6. Ingested(ev[t]) \in Answers
  BY <1>1, AnswerTypes
<1>7. Announces(req[t], ev[t]) => One("snapshot", id) # <<>>
  BY DEF Announces, One
<1> HIDE DEF id
<1>8. TaskTypes'
  <2>1. CASE held[t]
    BY <2>1, TypeParts DEF TypeInv, Record, TaskTypes, Goto, Say, Labels
  <2>2. CASE ~held[t]
    BY <1>5, <1>6, <2>2, TypeParts
       DEF TypeInv, Record, TaskTypes, Goto, Say, Labels, id
  <2> QED BY <2>1, <2>2
<1>9. PhaseOK'
  <2>0. /\ pc \in [Tasks -> Labels] /\ todo \in [Tasks -> Seq(Lookups)]
        /\ PhaseOK
    BY DEF TypeInv, TypeOK
  <2>1. /\ pc[t] = "record" /\ UNCHANGED <<req, ev>>
        /\ \E l \in {"take", "list", "done"} : pc' = [pc EXCEPT ![t] = l]
        /\ \A u \in Tasks : u # t => todo'[u] = todo[u]
    BY <2>0 DEF Record, Goto
  <2>2. pc'[t] = "list" => todo'[t] # <<>>
    BY <1>7, <2>0 DEF Record, Goto, id
  <2> QED BY <2>0, <2>1, <2>2 DEF PhaseOK, WithEvent
<1> QED BY <1>3, <1>8, <1>9 DEF TypeInv, TypeOK, ServiceTypes, TaskTypes

\* Store keeps the type invariant.
LEMMA StoreType ==
  ASSUME TypeInv, NEW t \in Tasks, Store(t)
  PROVE  TypeInv'
<1> DEFINE rec == RecordOf(req[t])
<1>1. rec \in CorrelationRecord
  BY RecordOfType DEF Store, TypeInv, PhaseOK
<1>2. ReconcileTargets(rec) \in Seq(Lookups)
  BY <1>1, ReconcileTargetsType
<1> HIDE DEF rec
<1>3. UpstreamTypeOK'
  BY <1>1, StoreCorrelationType, TypeParts, TypeFrame DEF TypeInv, Store, rec
<1>4. ServiceTypes'
  BY TypeParts, TypeFrame DEF TypeInv, Store
<1>5. TaskTypes'
  BY <1>2, TypeParts, AnswerTypes
     DEF TypeInv, Store, TaskTypes, Goto, Say, Finish, Labels, rec
<1>6. PhaseOK'
  BY <1>2
     DEF TypeInv, TypeOK, Store, PhaseOK, Goto, Say, Finish, WithEvent, rec
<1> QED BY <1>3, <1>4, <1>5, <1>6 DEF TypeInv, TypeOK, ServiceTypes, TaskTypes

\* List keeps the type invariant.
LEMMA ListType ==
  ASSUME TypeInv, NEW t \in Tasks, List(t)
  PROVE  TypeInv'
<1>1. UpstreamTypeOK' /\ ServiceTypes'
  BY TypeParts, TypeFrame DEF TypeInv, List
<1>2. todo[t] \in Seq(Lookups) /\ todo[t] # <<>>
  BY DEF List, TypeInv, TypeOK, PhaseOK
<1>3. Tail(todo[t]) \in Seq(Lookups)
  BY <1>2
<1>4. keys_for(staging, RequestTenant(t), Head(todo[t])) \in SUBSET EventKeys
  BY DEF keys_for, FiledUnder, TypeInv, TypeOK, IsStore, EventKeys
<1>5. TaskTypes'
  BY <1>3, <1>4, TypeParts DEF TypeInv, List, TaskTypes, Goto, Labels
<1>6. PhaseOK'
  BY DEF TypeInv, TypeOK, List, PhaseOK, Goto, WithEvent
<1> QED BY <1>1, <1>5, <1>6 DEF TypeInv, TypeOK, ServiceTypes, TaskTypes

\* ListDone keeps the type invariant.
LEMMA ListDoneType ==
  ASSUME TypeInv, NEW t \in Tasks, ListDone(t)
  PROVE  TypeInv'
<1>1. UpstreamTypeOK' /\ ServiceTypes'
  BY TypeParts, TypeFrame DEF TypeInv, ListDone
<1>2. TaskTypes'
  BY TypeParts DEF TypeInv, ListDone, TaskTypes, Goto, Labels, job
<1>3. PhaseOK'
  BY DEF TypeInv, TypeOK, ListDone, PhaseOK, Goto, WithEvent, job
<1> QED BY <1>1, <1>2, <1>3 DEF TypeInv, TypeOK, ServiceTypes, TaskTypes

\* Take keeps the type invariant.
LEMMA TakeType ==
  ASSUME TypeInv, NEW t \in Tasks, Take(t)
  PROVE  TypeInv'
<1>1. PICK k \in keys[t] :
        /\ keys' = [keys EXCEPT ![t] = @ \ {k}]
        /\ staging' = take(staging, k)
        /\ IF k \in DOMAIN staging.byIdempotency
           THEN LET rec == staging.byIdempotency[k]
                IN  /\ ev' = [ev EXCEPT ![t] = rec.event]
                    /\ wait' = [wait EXCEPT ![t] = rec.pending]
                    /\ held' = [held EXCEPT ![t] = TRUE]
                    /\ Goto(t, "check")
           ELSE UNCHANGED <<ev, wait, held, pc>>
  BY DEF Take
<1>2. IsStore(staging')
  BY <1>1, WithoutType DEF take, TypeInv, TypeOK
<1>3. UpstreamTypeOK' /\ ServiceTypes'
  BY <1>2, TypeParts, TypeFrame DEF TypeInv, Take, ServiceTypes, counters
<1>4. CASE k \in DOMAIN staging.byIdempotency
  <2> DEFINE rec == staging.byIdempotency[k]
  <2>1. rec.event \in DfcEvent /\ rec.pending \in SUBSET Lookups
    BY <1>4 DEF TypeInv, TypeOK, IsStore, StagedRecord
  <2> HIDE DEF rec
  <2>2. TaskTypes'
    <3>1. /\ ev' = [ev EXCEPT ![t] = rec.event]
          /\ wait' = [wait EXCEPT ![t] = rec.pending]
          /\ held' = [held EXCEPT ![t] = TRUE]
          /\ pc' = [pc EXCEPT ![t] = "check"]
      BY <1>1, <1>4 DEF Goto, rec
    <3>2. UNCHANGED <<req, todo, answer>> /\ keys' = [keys EXCEPT ![t] = @ \ {k}]
      BY <1>1 DEF Take
    <3>3. TaskTypes
      BY TypeParts DEF TypeInv
    <3> QED BY <2>1, <3>1, <3>2, <3>3 DEF TaskTypes, Labels
  <2>3. PhaseOK'
    BY <1>1, <1>4, <2>1
       DEF TypeInv, TypeOK, Take, PhaseOK, Goto, WithEvent, rec
  <2> QED BY <1>3, <2>2, <2>3 DEF TypeInv, TypeOK, ServiceTypes, TaskTypes
<1>5. CASE k \notin DOMAIN staging.byIdempotency
  <2>1. TaskTypes'
    BY <1>1, <1>5, TypeParts DEF TypeInv, Take, TaskTypes
  <2>2. PhaseOK'
    BY <1>1, <1>5 DEF TypeInv, TypeOK, Take, PhaseOK, WithEvent
  <2> QED BY <1>3, <2>1, <2>2 DEF TypeInv, TypeOK, ServiceTypes, TaskTypes
<1> QED BY <1>4, <1>5

\* Restage keeps the type invariant.
LEMMA RestageType ==
  ASSUME TypeInv, NEW t \in Tasks, Restage(t)
  PROVE  TypeInv'
<1>1. ev[t] \in DfcEvent /\ wait[t] \in SUBSET Lookups /\ now + TTL \in Nat
  BY BoundsAssumption DEF Restage, TypeInv, TypeOK, PhaseOK, WithEvent
<1>2. IsStore(staging')
  BY <1>1, StageType DEF Restage, TypeInv, TypeOK
<1>3. UpstreamTypeOK' /\ ServiceTypes'
  BY <1>2, TypeParts, TypeFrame DEF TypeInv, Restage, ServiceTypes, counters
<1>4. TaskTypes'
  BY TypeParts DEF TypeInv, Restage, TaskTypes, Goto, Labels
<1>5. PhaseOK'
  BY DEF TypeInv, TypeOK, Restage, PhaseOK, Goto, WithEvent
<1> QED BY <1>3, <1>4, <1>5 DEF TypeInv, TypeOK, ServiceTypes, TaskTypes

\* CutShort keeps the type invariant.
LEMMA CutShortType ==
  ASSUME TypeInv, NEW t \in Tasks, CutShort(t)
  PROVE  TypeInv'
<1>1. UpstreamTypeOK' /\ ServiceTypes'
  BY TypeParts, TypeFrame
     DEF TypeInv, CutShort, ServiceTypes, service, IdemEntry
<1>2. TaskTypes'
  BY TypeParts, AnswerTypes
     DEF TypeInv, CutShort, TaskTypes, Goto, Say, Finish, Labels
<1>3. PhaseOK'
  BY DEF TypeInv, TypeOK, CutShort, PhaseOK, Goto, Say, Finish, WithEvent
<1> QED BY <1>1, <1>2, <1>3 DEF TypeInv, TypeOK, ServiceTypes, TaskTypes

\* The effect of a write whose reply is lost.
LEMMA LostWriteType ==
  ASSUME TypeInv, NEW t \in Tasks, LostWrite(t)
  PROVE  /\ UpstreamTypeOK'
         /\ DOMAIN idem' \subseteq EventKeys
         /\ idem' \in [DOMAIN idem' -> IdemEntry]
<1>1. /\ UpstreamTypeOK /\ DOMAIN idem \subseteq EventKeys
      /\ idem \in [DOMAIN idem -> IdemEntry]
  BY DEF TypeInv, TypeOK
<1>2. CASE pc[t] = "store" /\ store_correlation(RecordOf(req[t]))
             /\ UNCHANGED idem
  <2>1. RecordOf(req[t]) \in CorrelationRecord
    BY <1>2, RecordOfType DEF TypeInv, PhaseOK
  <2> QED BY <1>1, <1>2, <2>1, StoreCorrelationType
<1>3. CASE pc[t] = "register" /\ store_correlation(SnapshotRecord(ev[t]))
             /\ UNCHANGED idem
  <2>1. SnapshotRecord(ev[t]) \in CorrelationRecord
    BY <1>3, SnapshotRecordType DEF TypeInv, PhaseOK, WithEvent
  <2> QED BY <1>1, <1>3, <2>1, StoreCorrelationType
<1>4. CASE pc[t] = "ingest" /\ ingest_event(ev[t]) /\ UNCHANGED idem
  <2>1. ev[t] \in DfcEvent
    BY <1>4 DEF TypeInv, PhaseOK, WithEvent
  <2> QED BY <1>1, <1>4, <2>1, IngestEventType
<1>5. CASE pc[t] = "record" /\ idem' = PutIdem(ev[t]) /\ UNCHANGED upstream
  <2>1. ev[t] \in DfcEvent
    BY <1>5 DEF TypeInv, PhaseOK, WithEvent
  <2> QED BY <1>1, <1>5, <2>1, PutIdemType, TypeFrame
<1> QED BY <1>2, <1>3, <1>4, <1>5 DEF LostWrite

\* ReplyLost keeps the type invariant.
LEMMA ReplyLostType ==
  ASSUME TypeInv, NEW t \in Tasks, ReplyLost(t)
  PROVE  TypeInv'
<1>1. UpstreamTypeOK' /\ ServiceTypes'
  BY LostWriteType, TypeParts DEF TypeInv, ReplyLost, ServiceTypes
<1>2. TaskTypes'
  BY TypeParts, AnswerTypes
     DEF TypeInv, ReplyLost, TaskTypes, Goto, Say, Finish, Labels
<1>3. PhaseOK'
  BY DEF TypeInv, TypeOK, ReplyLost, PhaseOK, Goto, Say, Finish, WithEvent
<1> QED BY <1>1, <1>2, <1>3 DEF TypeInv, TypeOK, ServiceTypes, TaskTypes

\* Crash keeps the type invariant.
LEMMA CrashType ==
  ASSUME TypeInv, Crash
  PROVE  TypeInv'
<1>1. UpstreamTypeOK' /\ ServiceTypes'
  BY EmptyStoreType, TypeParts, TypeFrame
     DEF TypeInv, Crash, ServiceTypes, SurvivingIdem, IdemEntry
<1>2. TaskTypes'
  BY TypeParts, AnswerTypes DEF TypeInv, Crash, TaskTypes, Labels
<1>3. PhaseOK'
  BY DEF TypeInv, TypeOK, Crash, PhaseOK, Running, WithEvent
<1> QED BY <1>1, <1>2, <1>3 DEF TypeInv, TypeOK, ServiceTypes, TaskTypes

\* Clock and rest keep the type invariant.
LEMMA IdleType ==
  ASSUME TypeInv, Tick \/ UNCHANGED vars
  PROVE  TypeInv'
<1>1. UpstreamTypeOK' /\ ServiceTypes'
  BY TypeParts, TypeFrame
     DEF TypeInv, Tick, vars, service, counters, ServiceTypes, IdemEntry
<1>2. TaskTypes'
  BY TypeParts DEF TypeInv, Tick, vars, TaskTypes, job
<1>3. PhaseOK'
  BY DEF TypeInv, TypeOK, Tick, vars, PhaseOK, WithEvent, job
<1> QED BY <1>1, <1>2, <1>3 DEF TypeInv, TypeOK, ServiceTypes, TaskTypes

\* The type invariant is inductive.
LEMMA NextType == TypeInv /\ [Next]_vars => TypeInv'
<1> SUFFICES ASSUME TypeInv, [Next]_vars PROVE TypeInv'
  OBVIOUS
<1>1. ASSUME NEW t \in Tasks, Step(t) PROVE TypeInv'
  BY <1>1, LookupType, LookupStagedType, EnrichType, CheckType, StageTypeInv,
     RegisterType, IngestType, RecordType, StoreType, ListType, ListDoneType,
     TakeType, RestageType DEF Step
<1>2. ASSUME NEW t \in Tasks, CutShort(t) \/ ReplyLost(t) PROVE TypeInv'
  BY <1>2, CutShortType, ReplyLostType
<1>3. ASSUME NEW t \in Tasks, NEW r \in Requests, Arrive(t, r) \/ Reject(t, r)
      PROVE  TypeInv'
  BY <1>3, ArriveType, RejectType
<1>4. CASE Crash
  BY <1>4, CrashType
<1>5. CASE Tick \/ UNCHANGED vars
  BY <1>5, IdleType
<1> QED BY <1>1, <1>2, <1>3, <1>4, <1>5 DEF Next, Terminated

\* Type correctness of the ingest service, with what its handlers rely on at
\* each label.
THEOREM TypeInvariant == Spec => []TypeInv
<1>1. Init => TypeInv
  BY InitType
<1>2. TypeInv /\ [Next]_vars => TypeInv'
  BY NextType
<1> QED BY <1>1, <1>2, PTL DEF Spec

\* The type invariant the runs check, in every reachable state: ids stay ids,
\* the two maps of the staging store stay maps, no handler works on an event
\* it does not have.
THEOREM TypeCorrect == Spec => []TypeOK
<1>1. TypeInv => TypeOK
  BY DEF TypeInv
<1> QED BY <1>1, TypeInvariant, PTL
=============================================================================
