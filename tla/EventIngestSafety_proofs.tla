---------------------- MODULE EventIngestSafety_proofs -----------------------
(****************************************************************************)
(* The safety properties of EventIngest as theorems: staged records are     *)
(* findable, tenants stay apart, callers are told what the ledger holds, no *)
(* event is forwarded before what it depends on, none that was accepted is  *)
(* lost, and the service implements EventLedger wherever no request's       *)
(* metadata names another review than its review_id.                        *)
(****************************************************************************)
EXTENDS EventIngest_proofs, FiniteSetTheorems

-----------------------------------------------------------------------------
(* Inductive invariants *)

\* An event is stored under its own tenant and key.
LedgerKeyed == \A k \in DOMAIN events : EventKey(events[k]) = k

\* What task t must know to answer truthfully: outside reconciliation it works
\* on the event of its own request, and past ingest on the event as stored.
Truthful(t) ==
  /\ pc[t] = "idle" => answer[t] = NoAnswer
  /\ pc[t] \in WithEvent /\ ~held[t] => EventKey(ev[t]) = RequestKey(req[t])
  /\ pc[t] = "record" => /\ EventKey(ev[t]) \in DOMAIN events
                         /\ events[EventKey(ev[t])] = ev[t]
  /\ answer[t].status = "ingested" =>
       /\ RequestKey(req[t]) \in DOMAIN events
       /\ answer[t].event = events[RequestKey(req[t])]

\* Why callers are told the truth.
AnswersInv == BackendAgrees /\ LedgerKeyed /\ \A t \in Tasks : Truthful(t)

\* Everything e was pending on, apart from left, resolves.
WaitsOnlyFor(e, left) == \A p \in e.waits \ left : Resolves(e.tenant, p)

\* What task t no longer waits for has been seen to resolve.
Patient(t) ==
  /\ pc[t] \in {"register", "ingest", "enrich_resolved"} =>
       WaitsOnlyFor(ev[t], {})
  /\ pc[t] \in {"check", "stage"} => WaitsOnlyFor(ev[t], wait[t])
  /\ pc[t] = "enrich" => /\ NeedsRun(ev[t])
                         /\ ev[t].waits \subseteq wait[t]
                         /\ ev[t].waits \subseteq {ReviewOf(ev[t])}

StagedPatient ==
  \A k \in DOMAIN staging.byIdempotency :
    WaitsOnlyFor(staging.byIdempotency[k].event,
                 staging.byIdempotency[k].pending)

\* Why nothing is forwarded too early.
DependencyInv ==
  /\ \A k \in DOMAIN events : WaitsOnlyFor(events[k], {})
  /\ StagedPatient
  /\ \A t \in Tasks : Patient(t)

-----------------------------------------------------------------------------
(* What a step does to data-fabric and to the staging store *)

\* A step of a handler leaves data-fabric alone, stores one correlation, or
\* ingests the event in hand.
LEMMA StepUpstream ==
  ASSUME TypeInv, NEW t \in Tasks, Step(t) \/ CutShort(t) \/ ReplyLost(t)
  PROVE  \/ UNCHANGED upstream
         \/ \E rec \in CorrelationRecord : store_correlation(rec)
         \/ pc[t] = "ingest" /\ ev[t] \in DfcEvent /\ ingest_event(ev[t])
<1>1. pc[t] \in WithEvent =>
        ev[t] \in DfcEvent /\ SnapshotRecord(ev[t]) \in CorrelationRecord
  BY SnapshotRecordType DEF TypeInv, PhaseOK
<1>2. pc[t] = "store" => RecordOf(req[t]) \in CorrelationRecord
  BY RecordOfType DEF TypeInv, PhaseOK
<1>3. CASE Register(t)
  BY <1>1, <1>3 DEF Register, WithEvent
<1>4. CASE Ingest(t)
  BY <1>1, <1>4 DEF Ingest, WithEvent
<1>5. CASE Store(t)
  BY <1>2, <1>5 DEF Store
<1>6. CASE ReplyLost(t)
  BY <1>1, <1>2, <1>6 DEF ReplyLost, LostWrite, WithEvent
<1>7. CASE Lookup(t) \/ LookupStaged(t) \/ Enrich(t) \/ Check(t) \/ Stage(t)
             \/ Record(t) \/ List(t) \/ ListDone(t) \/ Take(t) \/ Restage(t)
             \/ CutShort(t)
  BY <1>7 DEF Lookup, LookupStaged, Enrich, Check, Stage, Record, List,
              ListDone, Take, Restage, CutShort
<1> QED BY <1>3, <1>4, <1>5, <1>6, <1>7 DEF Step

\* Of all steps of the service, only a handler's moves data-fabric.
LEMMA UpstreamMoves ==
  ASSUME TypeInv, [Next]_vars
  PROVE  \/ UNCHANGED upstream
         \/ \E rec \in CorrelationRecord : store_correlation(rec)
         \/ \E t \in Tasks : /\ pc[t] = "ingest" /\ ev[t] \in DfcEvent
                             /\ ingest_event(ev[t])
<1>1. CASE \E t \in Tasks : Step(t) \/ CutShort(t) \/ ReplyLost(t)
  BY <1>1, StepUpstream
<1>2. CASE \E t \in Tasks, r \in Requests : Arrive(t, r) \/ Reject(t, r)
  BY <1>2 DEF Arrive, Reject
<1>3. CASE Crash \/ Tick \/ UNCHANGED vars
  BY <1>3 DEF Crash, Tick, vars
<1> QED BY <1>1, <1>2, <1>3 DEF Next, Terminated

\* Correlations are never withdrawn and stored events never change.
LEMMA UpstreamGrows ==
  ASSUME TypeInv, [Next]_vars
  PROVE  /\ DOMAIN correlations \subseteq DOMAIN correlations'
         /\ DOMAIN events \subseteq DOMAIN events'
         /\ \A k \in DOMAIN events : events'[k] = events[k]
<1>0. UpstreamTypeOK
  BY DEF TypeInv, TypeOK
<1>1. CASE UNCHANGED upstream
  BY <1>1 DEF upstream
<1>2. CASE \E rec \in CorrelationRecord : store_correlation(rec)
  <2>1. PICK rec \in CorrelationRecord : store_correlation(rec)
    BY <1>2
  <2>2. DOMAIN correlations' = DOMAIN correlations \cup SlotsOf(rec)
    BY <1>0, <2>1, StoreCorrelationType
  <2> QED BY <2>1, <2>2 DEF store_correlation
<1>3. CASE \E e \in DfcEvent : ingest_event(e)
  <2>1. PICK e \in DfcEvent : ingest_event(e)
    BY <1>3
  <2> QED BY <1>0, <2>1, IngestEventType DEF ingest_event
<1> QED BY <1>1, <1>2, <1>3, UpstreamMoves

-----------------------------------------------------------------------------
(* Tenants stay apart *)

\* No two tenants ever hold the same (kind, id), however their correlate
\* requests and snapshot events interleave, fail or lose their replies.
THEOREM TenantsApart == Spec => []TenantExclusive
<1>1. Init => TenantExclusive
  BY DEF Init, UpstreamInit, TenantExclusive
<1>2. TypeInv /\ TenantExclusive /\ [Next]_vars => TenantExclusive'
  <2> SUFFICES ASSUME TypeInv, TenantExclusive, [Next]_vars
               PROVE  TenantExclusive'
    OBVIOUS
  <2>1. UpstreamTypeOK
    BY DEF TypeInv, TypeOK
  <2>2. CASE UNCHANGED upstream
    BY <2>2 DEF upstream, TenantExclusive
  <2>3. CASE \E rec \in CorrelationRecord : store_correlation(rec)
    BY <2>1, <2>3, StoreKeepsExclusive
  <2>4. CASE \E e \in DfcEvent : ingest_event(e)
    BY <2>4 DEF ingest_event, TenantExclusive
  <2> QED BY <2>2, <2>3, <2>4, UpstreamMoves
<1> QED BY <1>1, <1>2, TypeInvariant, PTL DEF Spec

-----------------------------------------------------------------------------
(* Staged records are findable *)

\* A step leaves the staging store alone, drops records, stages the event a
\* task has in hand (after a purge or not), or empties the store.
LEMMA StagingMoves ==
  ASSUME [Next]_vars
  PROVE  \/ UNCHANGED staging
         \/ \E K : staging' = Without(staging, K)
         \/ \E t \in Tasks : \E x :
              /\ pc[t] = "stage"
              /\ \/ staging' = stage(purge_expired(staging, now), ev[t],
                                     wait[t], x)
                 \/ staging' = stage(staging, ev[t], wait[t], x)
         \/ staging' = EmptyStore
<1>1. CASE \E t \in Tasks : Stage(t) \/ Restage(t) \/ Take(t)
  BY <1>1 DEF Stage, Restage, Take, take
<1>2. CASE \E t \in Tasks : CutShort(t) \/ ReplyLost(t)
  BY <1>2 DEF CutShort, ReplyLost, service
<1>3. CASE \E t \in Tasks :
             \/ Lookup(t) \/ LookupStaged(t) \/ Enrich(t) \/ Check(t)
             \/ Register(t) \/ Ingest(t) \/ Record(t) \/ Store(t) \/ List(t)
             \/ ListDone(t)
  BY <1>3 DEF Lookup, LookupStaged, Enrich, Check, Register, Ingest, Record,
              Store, List, ListDone, service
<1>4. CASE \E t \in Tasks, r \in Requests : Arrive(t, r) \/ Reject(t, r)
  BY <1>4 DEF Arrive, Reject, service
<1>5. CASE Crash \/ Tick \/ UNCHANGED vars
  BY <1>5 DEF Crash, Tick, vars, service
<1> QED BY <1>1, <1>2, <1>3, <1>4, <1>5 DEF Next, Terminated, Step

\* Every staged event can be found from each correlation it waits for, under
\* any interleaving of stage, take, re-stage and purge and any reuse of keys.
THEOREM StagedFindable == Spec => []StagedAreFindable
<1>1. Init => StagedAreFindable
  BY EmptyStoreType DEF Init, StagedAreFindable
<1>2. StagedAreFindable /\ [Next]_vars => StagedAreFindable'
  <2> SUFFICES ASSUME Findable(staging), [Next]_vars PROVE Findable(staging')
    BY DEF StagedAreFindable
  <2>1. \A K : Findable(Without(staging, K))
    BY WithoutFindable
  <2>2. \A e, p, x : Findable(stage(staging, e, p, x))
    BY StageFindable
  <2>3. \A e, p, x : Findable(stage(purge_expired(staging, now), e, p, x))
    BY <2>1, StageFindable DEF purge_expired
  <2> QED BY <2>1, <2>2, <2>3, EmptyStoreType, StagingMoves
<1> QED BY <1>1, <1>2, PTL DEF Spec

-----------------------------------------------------------------------------
(* Callers are told what data-fabric holds *)

\* A task's step leaves every other task's handler where it is.
LEMMA OthersStay ==
  ASSUME NEW t \in Tasks, NEW u \in Tasks, u # t, TypeInv,
         \/ Step(t) \/ CutShort(t) \/ ReplyLost(t)
         \/ \E r \in Requests : Arrive(t, r) \/ Reject(t, r)
  PROVE  UNCHANGED <<pc[u], req[u], ev[u], held[u], wait[u], answer[u]>>
<1>0. /\ pc \in [Tasks -> Labels] /\ req \in [Tasks -> Requests \cup {None}]
      /\ ev \in [Tasks -> DfcEvent \cup {NoEvent}]
      /\ held \in [Tasks -> BOOLEAN] /\ wait \in [Tasks -> SUBSET Lookups]
      /\ answer \in [Tasks -> Answers]
  BY DEF TypeInv, TypeOK
<1>1. CASE Step(t)
  BY <1>0, <1>1 DEF Step, Lookup, LookupStaged, Enrich, Check, Stage, Register,
       Ingest, Record, Store, List, ListDone, Take, Restage, Goto, Say, Finish,
       job
<1>2. CASE CutShort(t) \/ ReplyLost(t)
  BY <1>0, <1>2 DEF CutShort, ReplyLost, Goto, Say, Finish
<1>3. CASE \E r \in Requests : Arrive(t, r) \/ Reject(t, r)
  BY <1>0, <1>3 DEF Arrive, Reject, Goto, Say, Finish, job
<1> QED BY <1>1, <1>2, <1>3

\* Nor does it change what another is to reconcile.
LEMMA OthersKeep ==
  ASSUME TypeInv, NEW t \in Tasks, NEW u \in Tasks, u # t,
         \/ Step(t) \/ CutShort(t) \/ ReplyLost(t)
         \/ \E r \in Requests : Arrive(t, r) \/ Reject(t, r)
  PROVE  UNCHANGED <<todo[u], keys[u]>>
<1>0. todo \in [Tasks -> Seq(Lookups)] /\ keys \in [Tasks -> SUBSET EventKeys]
  BY DEF TypeInv, TypeOK
<1>1. CASE Step(t)
  BY <1>0, <1>1 DEF Step, Lookup, LookupStaged, Enrich, Check, Stage, Register,
       Ingest, Record, Store, List, ListDone, Take, Restage, job
<1>2. CASE \/ CutShort(t) \/ ReplyLost(t)
           \/ \E r \in Requests : Arrive(t, r) \/ Reject(t, r)
  BY <1>2 DEF CutShort, ReplyLost, Arrive, Reject, job
<1> QED BY <1>1, <1>2

\* What a step does to the memory or redis backend.
LEMMA BackendMoves ==
  ASSUME [Next]_vars
  PROVE  \/ UNCHANGED idem
         \/ idem' = Live(idem)
         \/ idem' = [k \in {} |-> None]
         \/ \E t \in Tasks : pc[t] = "record" /\ idem' = PutIdem(ev[t])
<1>1. CASE \E t \in Tasks : Lookup(t) \/ Record(t) \/ ReplyLost(t)
  BY <1>1 DEF Lookup, Record, ReplyLost, LostWrite
<1>2. CASE \E t \in Tasks :
             \/ LookupStaged(t) \/ Enrich(t) \/ Check(t) \/ Stage(t)
             \/ Register(t) \/ Ingest(t) \/ Store(t) \/ List(t)
             \/ ListDone(t) \/ Take(t) \/ Restage(t) \/ CutShort(t)
  BY <1>2 DEF LookupStaged, Enrich, Check, Stage, Register, Ingest, Store,
              List, ListDone, Take, Restage, CutShort, service
<1>3. CASE \E t \in Tasks, r \in Requests : Arrive(t, r) \/ Reject(t, r)
  BY <1>3 DEF Arrive, Reject, service
<1>4. CASE Crash \/ Tick \/ UNCHANGED vars
  BY <1>4 DEF Crash, SurvivingIdem, Tick, vars, service
<1> QED BY <1>1, <1>2, <1>3, <1>4 DEF Next, Terminated, Step

\* The memory or redis backend takes over only what data-fabric holds.
LEMMA BackendStep ==
  ASSUME TypeInv, AnswersInv, [Next]_vars
  PROVE  BackendAgrees'
<1>1. /\ DOMAIN events \subseteq DOMAIN events'
      /\ \A k \in DOMAIN events : events'[k] = events[k]
  BY UpstreamGrows
<1>2. \A k \in DOMAIN idem : k \in DOMAIN events /\ idem[k].event = events[k]
  BY DEF AnswersInv, BackendAgrees
<1>3. CASE UNCHANGED idem
  BY <1>1, <1>2, <1>3 DEF BackendAgrees
<1>4. CASE idem' = Live(idem)
  BY <1>1, <1>2, <1>4 DEF BackendAgrees, Live
<1>5. CASE idem' = [k \in {} |-> None]
  BY <1>5 DEF BackendAgrees
<1>6. CASE \E t \in Tasks : pc[t] = "record" /\ idem' = PutIdem(ev[t])
  <2>1. PICK t \in Tasks : pc[t] = "record" /\ idem' = PutIdem(ev[t])
    BY <1>6
  <2>2. /\ EventKey(ev[t]) \in DOMAIN events
        /\ events[EventKey(ev[t])] = ev[t]
    BY <2>1 DEF AnswersInv, Truthful
  <2> QED BY <1>1, <1>2, <2>1, <2>2 DEF BackendAgrees, PutIdem, Overwritten
<1> QED BY <1>3, <1>4, <1>5, <1>6, BackendMoves

\* ingest_event files every event under its own tenant and key.
LEMMA LedgerKeyedStep ==
  ASSUME TypeInv, LedgerKeyed, [Next]_vars
  PROVE  LedgerKeyed'
<1>1. CASE UNCHANGED events
  BY <1>1 DEF LedgerKeyed, EventKey
<1>2. CASE \E e \in DfcEvent : ingest_event(e)
  <2>1. PICK e \in DfcEvent : ingest_event(e)
    BY <1>2
  <2>2. /\ DOMAIN events' = DOMAIN events \cup {EventKey(e)}
        /\ events'[EventKey(e)] = Stored(e)
        /\ \A k \in DOMAIN events : events'[k] = events[k]
    BY <2>1, IngestEventType DEF TypeInv, TypeOK
  <2>3. EventKey(Stored(e)) = EventKey(e)
    BY DEF LedgerKeyed, Stored
  <2> QED BY <2>2, <2>3 DEF LedgerKeyed, EventKey
<1> QED BY <1>1, <1>2, UpstreamMoves DEF upstream, store_correlation

\* A task that does not move stays truthful: stored events do not change.
LEMMA TruthfulFrame ==
  ASSUME TypeInv, [Next]_vars, NEW t \in Tasks, Truthful(t),
         UNCHANGED <<pc[t], req[t], ev[t], held[t], answer[t]>>
  PROVE  Truthful(t)'
<1>1. /\ DOMAIN events \subseteq DOMAIN events'
      /\ \A k \in DOMAIN events : events'[k] = events[k]
  BY UpstreamGrows
<1> QED BY <1>1 DEF Truthful, EventKey, RequestKey, BodyTenant

\* A caller the lookup answers is told what data-fabric holds.
LEMMA KnownIsStored ==
  ASSUME BackendAgrees, NEW k \in DOMAIN KnownEvents
  PROVE  k \in DOMAIN events /\ KnownEvents[k] = events[k]
BY DEF BackendAgrees, KnownEvents, Live

\* A task that moves stays truthful, one case per action.
LEMMA TruthfulStep ==
  ASSUME TypeInv, AnswersInv, NEW t \in Tasks,
         \/ Step(t) \/ CutShort(t) \/ ReplyLost(t)
         \/ \E r \in Requests : Arrive(t, r) \/ Reject(t, r)
  PROVE  Truthful(t)'
<1> USE DEF Goto, Say, Finish, Failed, NoAnswer, Correlated, Accepted
<1>0. /\ pc \in [Tasks -> Labels] /\ req \in [Tasks -> Requests \cup {None}]
      /\ ev \in [Tasks -> DfcEvent \cup {NoEvent}]
      /\ held \in [Tasks -> BOOLEAN]
      /\ answer \in [Tasks -> Answers]
  BY DEF TypeInv, TypeOK
<1>1. /\ DOMAIN events \subseteq DOMAIN events'
      /\ \A k \in DOMAIN events : events'[k] = events[k]
  <2>1. [Next]_vars
    BY DEF Next
  <2> QED BY <2>1, UpstreamGrows
<1>2. Truthful(t)
  BY DEF AnswersInv
<1>3. CASE \E r \in Requests : Arrive(t, r)
  BY <1>0, <1>2, <1>3 DEF Arrive, Truthful, WithEvent, job
<1>4. CASE \E r \in Requests : Reject(t, r)
  BY <1>0, <1>4 DEF Reject, Truthful, WithEvent
<1>5. CASE Lookup(t)
  <2> DEFINE k == RequestKey(req[t])
  <2>1. k \in DOMAIN KnownEvents => /\ k \in DOMAIN events
                                    /\ KnownEvents[k] = events[k]
    BY KnownIsStored DEF AnswersInv
  <2> HIDE DEF k
  <2>2. UNCHANGED <<req, events>>
    BY <1>5 DEF Lookup, upstream
  <2>3. RequestKey(req[t])' = k
    BY <2>2 DEF k
  <2>4. CASE k \in DOMAIN KnownEvents
    <3>1. pc'[t] = "done" /\ answer'[t] = Ingested(KnownEvents[k])
      BY <1>0, <1>5, <2>4 DEF Lookup, k
    <3> QED BY <2>1, <2>2, <2>3, <2>4, <3>1 DEF Truthful, Ingested, WithEvent
  <2>5. CASE k \notin DOMAIN KnownEvents
    <3>1. pc'[t] = "lookup_staged" /\ UNCHANGED answer
      BY <1>0, <1>5, <2>5 DEF Lookup, k
    <3> QED BY <1>2, <2>2, <2>3, <3>1 DEF Truthful, WithEvent, k
  <2> QED BY <2>4, <2>5
<1>6. CASE LookupStaged(t)
  <2> DEFINE e == into_dfc_event(req[t])
  <2>1. EventKey(e) = RequestKey(req[t])
    BY <1>6, EventType DEF LookupStaged, TypeInv, PhaseOK, RequestKey
  <2>2. FirstStep(req[t], e) \in {"register", "ingest", "enrich", "check"}
    BY StepLabels
  <2> HIDE DEF e
  <2>3. UNCHANGED <<req, events>>
    BY <1>6 DEF LookupStaged, upstream
  <2>4. RequestKey(req[t])' = RequestKey(req[t])
    BY <2>3
  <2>5. \/ pc'[t] = "done" /\ answer'[t].status = "staged"
        \/ /\ UNCHANGED answer /\ ev'[t] = e
           /\ pc'[t] \in {"register", "ingest", "enrich", "check"}
    BY <1>0, <1>6, <2>2 DEF LookupStaged, e
  <2>6. EventKey(e)' = EventKey(e) /\ EventKey(ev[t])' = EventKey(ev'[t])
    BY <2>3 DEF e, EventKey
  <2> QED BY <1>2, <2>1, <2>3, <2>4, <2>5 DEF Truthful, WithEvent, EventKey
<1>7. CASE Enrich(t)
  <2>1. EventKey(Enriched(ev[t])) = EventKey(ev[t])
    <3>1. ev[t] \in DfcEvent
      BY <1>7 DEF Enrich, TypeInv, PhaseOK, WithEvent
    <3> QED BY <3>1 DEF Enriched, EventKey, DfcEvent
  <2>2. HitlForward(Enriched(ev[t]), wait[t]) \in {"ingest", "check"}
    BY StepLabels
  <2>3. UNCHANGED <<req, held, events>>
    BY <1>7 DEF Enrich, upstream
  <2>4. \/ pc'[t] = "done" /\ answer'[t] = Failed
        \/ /\ pc'[t] \in {"ingest", "check"} /\ UNCHANGED answer
           /\ ev'[t] = Enriched(ev[t])
    BY <1>0, <1>7, <2>2 DEF Enrich
  <2>5. pc[t] \in WithEvent
    BY <1>7 DEF Enrich, WithEvent
  <2> QED BY <1>2, <2>1, <2>3, <2>4, <2>5
          DEF Truthful, EventKey, RequestKey, BodyTenant, WithEvent
<1>8. CASE Check(t)
  <2>1. ResolvedStep(ev[t]) \in {"register", "ingest", "enrich_resolved"}
    BY StepLabels
  <2> QED BY <1>0, <1>2, <1>8, <2>1
          DEF Check, upstream, Truthful, EventKey, RequestKey, BodyTenant,
              WithEvent
<1>9. CASE Stage(t)
  BY <1>0, <1>9 DEF Stage, Truthful, WithEvent
<1>10. CASE Register(t)
  BY <1>0, <1>2, <1>10
     DEF Register, upstream, store_correlation, job, Truthful, EventKey,
         RequestKey, BodyTenant, WithEvent
<1>11. CASE Ingest(t)
  <2>1. ev[t] \in DfcEvent
    BY <1>11 DEF Ingest, TypeInv, PhaseOK, WithEvent
  <2>2. /\ EventKey(ev[t]) \in DOMAIN events'
        /\ events'[EventKey(ev[t])] = Stored(ev[t])
    BY <1>11, <2>1, IngestEventType DEF Ingest, TypeInv, TypeOK
  <2>3. EventKey(Stored(ev[t])) = EventKey(ev[t])
    BY DEF AnswersInv, LedgerKeyed, Stored
  <2>4. /\ ev'[t] = Stored(ev[t]) /\ pc'[t] = "record"
        /\ UNCHANGED <<req, held, answer>>
    BY <1>0, <1>11 DEF Ingest
  <2>5. pc[t] \in WithEvent
    BY <1>11 DEF Ingest, WithEvent
  <2> QED BY <1>1, <1>2, <2>2, <2>3, <2>4, <2>5
          DEF Truthful, EventKey, RequestKey, BodyTenant
<1>12. CASE Record(t)
  <2>1. /\ EventKey(ev[t]) \in DOMAIN events
        /\ events[EventKey(ev[t])] = ev[t]
        /\ ~held[t] => EventKey(ev[t]) = RequestKey(req[t])
    BY <1>2, <1>12 DEF Record, Truthful, WithEvent
  <2>2. UNCHANGED <<req, events>>
    BY <1>12 DEF Record, upstream
  <2>3. /\ pc'[t] \in {"take", "list", "done"}
        /\ IF held[t] THEN UNCHANGED answer ELSE answer'[t] = Ingested(ev[t])
    BY <1>0, <1>12 DEF Record
  <2> QED BY <1>2, <2>1, <2>2, <2>3
          DEF Truthful, Ingested, RequestKey, BodyTenant, WithEvent
<1>13. CASE Store(t)
  BY <1>0, <1>13 DEF Store, Truthful, WithEvent
<1>14. CASE List(t) \/ ListDone(t)
  BY <1>0, <1>2, <1>14
     DEF List, ListDone, upstream, job, Truthful, RequestKey, BodyTenant,
         WithEvent
<1>15. CASE Take(t)
  <2>1. /\ UNCHANGED <<req, answer, events>> /\ pc[t] = "take"
        /\ \/ pc'[t] = "check" /\ held'[t] = TRUE
           \/ pc'[t] = "take"
    BY <1>0, <1>15 DEF Take, upstream
  <2> QED BY <1>2, <2>1 DEF Truthful, RequestKey, BodyTenant, WithEvent
<1>16. CASE Restage(t)
  BY <1>0, <1>2, <1>16
     DEF Restage, upstream, Truthful, RequestKey, BodyTenant, WithEvent
<1>17. CASE CutShort(t) \/ ReplyLost(t)
  BY <1>0, <1>17 DEF CutShort, ReplyLost, Truthful, WithEvent
<1> QED BY <1>3, <1>4, <1>5, <1>6, <1>7, <1>8, <1>9, <1>10, <1>11, <1>12,
           <1>13, <1>14, <1>15, <1>16, <1>17 DEF Step

\* No step makes a caller's answer, or the backend, disagree.
LEMMA AnswersInvStep ==
  ASSUME TypeInv, AnswersInv, [Next]_vars
  PROVE  AnswersInv'
<1>1. BackendAgrees' /\ LedgerKeyed'
  BY BackendStep, LedgerKeyedStep DEF AnswersInv
<1>2. ASSUME NEW u \in Tasks PROVE Truthful(u)'
  <2>0. Truthful(u)
    BY DEF AnswersInv
  <2>1. CASE \E t \in Tasks :
               \/ Step(t) \/ CutShort(t) \/ ReplyLost(t)
               \/ \E r \in Requests : Arrive(t, r) \/ Reject(t, r)
    <3>1. PICK t \in Tasks :
               \/ Step(t) \/ CutShort(t) \/ ReplyLost(t)
               \/ \E r \in Requests : Arrive(t, r) \/ Reject(t, r)
      BY <2>1
    <3>2. CASE u = t
      BY <3>1, <3>2, TruthfulStep
    <3>3. CASE u # t
      BY <2>0, <3>1, <3>3, OthersStay, TruthfulFrame
    <3> QED BY <3>2, <3>3
  <2>2. CASE Crash
    <3>1. /\ UNCHANGED <<req, ev, events>> /\ held'[u] = FALSE
          /\ \/ pc'[u] = "done" /\ answer'[u] = Failed
             \/ /\ pc[u] \in {"idle", "done"}
                /\ pc'[u] = pc[u] /\ answer'[u] = answer[u]
      BY <2>2 DEF Crash, upstream, Running
    <3> QED BY <2>0, <3>1
            DEF Truthful, Failed, RequestKey, BodyTenant, WithEvent
  <2>3. CASE Tick \/ UNCHANGED vars
    BY <2>0, <2>3, TruthfulFrame DEF Tick, vars, job
  <2> QED BY <2>1, <2>2, <2>3 DEF Next, Terminated
<1> QED BY <1>1, <1>2 DEF AnswersInv

\* Callers and backend agree with data-fabric in every reachable state.
THEOREM AnswersInvariant == Spec => []AnswersInv
<1>1. Init => AnswersInv
  BY DEF Init, UpstreamInit, AnswersInv, BackendAgrees, LedgerKeyed, Truthful,
         WithEvent, NoAnswer
<1>2. TypeInv /\ AnswersInv /\ [Next]_vars => AnswersInv'
  BY AnswersInvStep
<1> QED BY <1>1, <1>2, TypeInvariant, PTL DEF Spec

\* A caller told its event was ingested was told what data-fabric holds under
\* the tenant and key it sent: concurrent duplicates, reused keys, lost
\* replies, expiry and restarts included.
THEOREM AnswersAgreeAlways == Spec => []AnswersAgree
<1>1. AnswersInv => AnswersAgree
  BY DEF AnswersInv, Truthful, AnswersAgree
<1> QED BY <1>1, AnswersInvariant, PTL

\* The memory or redis backend never disagrees with data-fabric.
THEOREM BackendNeverDisagrees == Spec => []BackendAgrees
<1>1. AnswersInv => BackendAgrees
  BY DEF AnswersInv
<1> QED BY <1>1, AnswersInvariant, PTL

-----------------------------------------------------------------------------
(* Nothing is forwarded before what it depends on *)

\* What resolves keeps resolving across a step.
LEMMA StillResolves ==
  ASSUME TypeInv, [Next]_vars, NEW e, NEW left, WaitsOnlyFor(e, left)
  PROVE  \A p \in e.waits \ left : Slot(e.tenant, p) \in DOMAIN correlations'
BY UpstreamGrows DEF WaitsOnlyFor, Resolves

\* Enrichment changes neither what e waited for nor whose it is, and leaves
\* an event that has a run only once the review is known.
LEMMA EnrichedWaits ==
  ASSUME NEW e \in DfcEvent
  PROVE  /\ Enriched(e).waits = e.waits /\ Enriched(e).tenant = e.tenant
         /\ e.run = None /\ Enriched(e).run # None =>
              Resolves(e.tenant, ReviewOf(e))
<1>1. CASE ~NeedsRun(e) \/ ~Resolves(e.tenant, ReviewOf(e))
  BY <1>1 DEF Enriched
<1>2. CASE NeedsRun(e) /\ Resolves(e.tenant, ReviewOf(e))
  <2> DEFINE rec == Correlation(e.tenant, ReviewOf(e))
             task == OrElse(e.task, rec.task)
  <2>1. Enriched(e) = [e EXCEPT !.run = rec.run, !.task = task]
    BY <1>2 DEF Enriched
  <2> HIDE DEF rec, task
  <2> QED BY <1>2, <2>1 DEF DfcEvent
<1> QED BY <1>1, <1>2

\* An arriving event goes on without a check only if it waits for nothing,
\* and is enriched first only from the review it waits for.
LEMMA FirstStepWaits ==
  ASSUME ReviewsConsistent, NEW r \in Requests, WellFormed(r),
         r \in InboundAivcsEvent \cup InboundHitlEvent
  PROVE  LET e == into_dfc_event(r)
         IN  /\ e.waits = Pending(r)
             /\ FirstStep(r, e) \in {"register", "ingest"} => Pending(r) = {}
             /\ FirstStep(r, e) = "enrich" =>
                  NeedsRun(e) /\ Pending(r) \subseteq {ReviewOf(e)}
<1>1. CASE r.api = "aivcs"
  BY <1>1 DEF into_dfc_event, AivcsEvent, FirstStep, AivcsForward
<1>2. CASE r.api # "aivcs"
  <2>1. r \in InboundHitlEvent /\ r.api = "hitl"
    BY <1>2 DEF InboundAivcsEvent, InboundHitlEvent
  <2> DEFINE e == into_dfc_event(r)
  <2>2. /\ e.waits = Pending(r) /\ e.run = r.run
        /\ e.meta = [r.meta EXCEPT !.review = OrElse(@, r.review)]
    BY <1>2 DEF into_dfc_event, HitlEvent
  <2>3. r.meta \in Metadata
    BY <2>1 DEF InboundHitlEvent
  <2>4. e.meta.review = OrElse(r.meta.review, r.review)
    BY <2>2, <2>3 DEF Metadata
  <2>5. r.review # None => r.meta.review \in {None, r.review}
    BY <2>1 DEF ReviewsConsistent
  <2>6. Pending(r) = hitl_pending_correlations(r)
    BY <1>2 DEF Pending
  <2>7. Pending(r) \subseteq {ReviewOf(e)}
    BY <2>4, <2>5, <2>6 DEF hitl_pending_correlations, ReviewOf, OrElse
  <2>8. r.run # None => Pending(r) = {}
    BY <2>6 DEF hitl_pending_correlations
  <2>9. FirstStep(r, e) = IF NeedsRun(e) THEN "enrich"
                          ELSE HitlForward(e, Pending(r))
    BY <1>2 DEF FirstStep
  <2>10. HitlForward(e, Pending(r)) = IF e.run # None \/ Pending(r) = {}
                                      THEN "ingest" ELSE "check"
    BY DEF HitlForward
  <2> HIDE DEF e
  <2>11. FirstStep(r, e) \in {"register", "ingest"} => Pending(r) = {}
    BY <2>2, <2>8, <2>9, <2>10
  <2>12. FirstStep(r, e) = "enrich" => NeedsRun(e)
    BY <2>9, <2>10
  <2> QED BY <2>2, <2>7, <2>11, <2>12 DEF e
<1> QED BY <1>1, <1>2

\* A task that does not move stays patient: correlations only grow.
LEMMA PatientFrame ==
  ASSUME TypeInv, [Next]_vars, NEW t \in Tasks, Patient(t),
         UNCHANGED <<pc[t], ev[t], wait[t]>>
  PROVE  Patient(t)'
<1>1. \A e, left :
        WaitsOnlyFor(e, left) =>
          \A p \in e.waits \ left : Slot(e.tenant, p) \in DOMAIN correlations'
  BY StillResolves
<1> QED BY <1>1 DEF Patient, WaitsOnlyFor, NeedsRun, ReviewOf, Resolves

\* A task that moves stays patient, one case per action.
LEMMA PatientStep ==
  ASSUME ReviewsConsistent, TypeInv, DependencyInv, NEW t \in Tasks,
         \/ Step(t) \/ CutShort(t) \/ ReplyLost(t)
         \/ \E r \in Requests : Arrive(t, r) \/ Reject(t, r)
  PROVE  Patient(t)'
<1> USE DEF Goto, Say, Finish
<1>0. /\ pc \in [Tasks -> Labels]
      /\ ev \in [Tasks -> DfcEvent \cup {NoEvent}]
      /\ wait \in [Tasks -> SUBSET Lookups]
  BY DEF TypeInv, TypeOK
<1>1. Patient(t)
  BY DEF DependencyInv
<1>2. CASE LookupStaged(t)
  <2> DEFINE e == into_dfc_event(req[t])
             first == FirstStep(req[t], e)
  <2>1. /\ e.waits = Pending(req[t])
        /\ first \in {"register", "ingest"} => Pending(req[t]) = {}
        /\ first = "enrich" =>
             NeedsRun(e) /\ Pending(req[t]) \subseteq {ReviewOf(e)}
    BY <1>2, FirstStepWaits DEF LookupStaged, TypeInv, PhaseOK
  <2>2. first \in {"register", "ingest", "enrich", "check"}
    BY StepLabels
  <2>3. \/ pc'[t] = "done"
        \/ /\ ev'[t] = e /\ wait'[t] = Pending(req[t]) /\ pc'[t] = first
    BY <1>0, <1>2 DEF LookupStaged
  <2> HIDE DEF e, first
  <2> QED BY <2>1, <2>2, <2>3 DEF Patient, WaitsOnlyFor, NeedsRun, ReviewOf
<1>3. CASE Enrich(t)
  <2> DEFINE e == ev[t]
             f == Enriched(e)
  <2>1. e \in DfcEvent /\ UNCHANGED <<wait, correlations>>
    BY <1>3 DEF Enrich, TypeInv, PhaseOK, WithEvent, upstream
  <2>2. /\ f.waits = e.waits /\ f.tenant = e.tenant
        /\ e.run = None /\ f.run # None => Resolves(e.tenant, ReviewOf(e))
    BY <2>1, EnrichedWaits
  <2>3. \/ pc'[t] = "done"
        \/ /\ pc[t] = "enrich" /\ ev'[t] = f
           /\ pc'[t] = HitlForward(f, wait[t])
        \/ /\ pc[t] = "enrich_resolved" /\ ev'[t] = f /\ pc'[t] = "ingest"
    BY <1>0, <1>3 DEF Enrich
  <2>4. HitlForward(f, wait[t]) =
          IF f.run # None \/ wait[t] = {} THEN "ingest" ELSE "check"
    BY DEF HitlForward
  <2> HIDE DEF f
  <2>5. CASE pc[t] = "enrich" /\ ev'[t] = f /\ pc'[t] = HitlForward(f, wait[t])
    <3>1. /\ e.run = None /\ e.waits \subseteq wait[t]
          /\ e.waits \subseteq {ReviewOf(e)}
      BY <1>1, <2>5 DEF Patient, NeedsRun
    <3>2. f.run # None \/ wait[t] = {} =>
            \A p \in f.waits : Resolves(f.tenant, p)
      BY <2>2, <3>1
    <3> QED BY <2>1, <2>2, <2>4, <2>5, <3>1, <3>2
            DEF Patient, WaitsOnlyFor, Resolves
  <2>6. CASE /\ pc[t] = "enrich_resolved" /\ ev'[t] = f
             /\ pc'[t] = "ingest"
    <3>1. WaitsOnlyFor(e, {})
      BY <1>1, <2>6 DEF Patient
    <3> QED BY <2>1, <2>2, <2>6, <3>1 DEF Patient, WaitsOnlyFor, Resolves
  <2>7. CASE pc'[t] = "done"
    BY <2>7 DEF Patient
  <2> QED BY <2>3, <2>5, <2>6, <2>7
<1>4. CASE Check(t)
  <2> DEFINE left == Unresolved(ev[t].tenant, wait[t])
  <2>1. WaitsOnlyFor(ev[t], wait[t]) /\ UNCHANGED <<ev, correlations>>
    BY <1>1, <1>4 DEF Check, Patient, upstream
  <2>2. WaitsOnlyFor(ev[t], left)
    BY <2>1 DEF WaitsOnlyFor, Unresolved
  <2>3. ResolvedStep(ev[t]) \in {"register", "ingest", "enrich_resolved"}
    BY StepLabels
  <2>4. \/ pc'[t] = "done"
        \/ left = {} /\ pc'[t] = ResolvedStep(ev[t])
        \/ pc'[t] = "stage" /\ wait'[t] = left
    BY <1>0, <1>4 DEF Check
  <2> HIDE DEF left
  <2> QED BY <2>1, <2>2, <2>3, <2>4 DEF Patient, WaitsOnlyFor, Resolves
<1>5. CASE Register(t)
  <2>1. WaitsOnlyFor(ev[t], {}) /\ UNCHANGED <<ev, wait>>
    BY <1>1, <1>5 DEF Register, Patient, job
  <2>2. \A p \in ev[t].waits : Slot(ev[t].tenant, p) \in DOMAIN correlations'
    <3>1. [Next]_vars
      BY <1>5 DEF Next, Step
    <3> QED BY <2>1, <3>1, StillResolves
  <2>3. pc'[t] \in {"done", "ingest"}
    BY <1>0, <1>5 DEF Register
  <2> QED BY <2>1, <2>2, <2>3 DEF Patient, WaitsOnlyFor, Resolves
<1>6. CASE Take(t)
  <2>1. \/ pc'[t] = "take"
        \/ \E k \in DOMAIN staging.byIdempotency :
             /\ ev'[t] = staging.byIdempotency[k].event
             /\ wait'[t] = staging.byIdempotency[k].pending
             /\ pc'[t] = "check"
    BY <1>0, <1>6 DEF Take
  <2>2. UNCHANGED correlations
    BY <1>6 DEF Take, upstream
  <2> QED BY <2>1, <2>2
          DEF DependencyInv, StagedPatient, Patient, WaitsOnlyFor, Resolves
<1>7. CASE \/ Lookup(t) \/ Stage(t) \/ Ingest(t) \/ Record(t) \/ Store(t)
           \/ List(t) \/ ListDone(t) \/ Restage(t) \/ CutShort(t)
           \/ ReplyLost(t) \/ \E r \in Requests : Arrive(t, r) \/ Reject(t, r)
  <2>1. pc'[t] \in {"lookup_staged", "done", "record", "take", "list",
                    "store", "lookup"}
    BY <1>0, <1>7 DEF Lookup, Stage, Ingest, Record, Store, List, ListDone,
                      Restage, CutShort, ReplyLost, Arrive, Reject
  <2> QED BY <2>1 DEF Patient
<1> QED BY <1>2, <1>3, <1>4, <1>5, <1>6, <1>7 DEF Step

\* Staging the event in hand: the other records stay as they are.
LEMMA StageRecords ==
  ASSUME NEW st, NEW e, NEW pending, NEW expires,
         NEW k \in DOMAIN stage(st, e, pending, expires).byIdempotency
  PROVE  LET rec == stage(st, e, pending, expires).byIdempotency[k]
         IN  \/ rec.event = e /\ rec.pending = pending
             \/ /\ k \in DOMAIN st.byIdempotency
                /\ rec = st.byIdempotency[k]
BY DEF stage

\* What is staged still waits for nothing that it does not list as pending.
LEMMA StagedPatientStep ==
  ASSUME TypeInv, DependencyInv, [Next]_vars
  PROVE  StagedPatient'
<1>1. \A e, left :
        WaitsOnlyFor(e, left) =>
          \A p \in e.waits \ left : Slot(e.tenant, p) \in DOMAIN correlations'
  BY StillResolves
<1>2. StagedPatient /\ \A t \in Tasks : Patient(t)
  BY DEF DependencyInv
<1> DEFINE Kept(st) ==
             \A k \in DOMAIN st.byIdempotency :
               LET rec == st.byIdempotency[k]
               IN  \A p \in rec.event.waits \ rec.pending :
                     Slot(rec.event.tenant, p) \in DOMAIN correlations'
<1>3. Kept(staging)
  BY <1>1, <1>2 DEF StagedPatient
<1>4. ASSUME NEW K PROVE Kept(Without(staging, K))
  <2> DEFINE w == Without(staging, K)
  <2>1. /\ DOMAIN w.byIdempotency \subseteq DOMAIN staging.byIdempotency
        /\ \A k \in DOMAIN w.byIdempotency :
             w.byIdempotency[k] = staging.byIdempotency[k]
    BY DEF Without
  <2> HIDE DEF w
  <2>2. Kept(w)
    BY <1>3, <2>1
  <2> QED BY <2>2 DEF w
<1>5. ASSUME NEW st, Kept(st), NEW t \in Tasks, pc[t] = "stage", NEW x
      PROVE  Kept(stage(st, ev[t], wait[t], x))
  <2>1. \A p \in ev[t].waits \ wait[t] :
          Slot(ev[t].tenant, p) \in DOMAIN correlations'
    BY <1>1, <1>2, <1>5 DEF Patient
  <2> QED BY <1>5, <2>1, StageRecords
<1>6. Kept(EmptyStore)
  BY DEF EmptyStore
<1>7. Kept(purge_expired(staging, now))
  BY <1>4 DEF purge_expired
<1>8. Kept(staging')
  <2> HIDE DEF Kept
  <2>1. CASE UNCHANGED staging
    BY <1>3, <2>1
  <2>2. CASE \E K : staging' = Without(staging, K)
    BY <1>4, <2>2
  <2>3. CASE \E t \in Tasks : \E x :
               /\ pc[t] = "stage"
               /\ \/ staging' = stage(purge_expired(staging, now), ev[t],
                                      wait[t], x)
                  \/ staging' = stage(staging, ev[t], wait[t], x)
    BY <1>3, <1>5, <1>7, <2>3
  <2>4. CASE staging' = EmptyStore
    BY <1>6, <2>4
  <2> QED BY <2>1, <2>2, <2>3, <2>4, StagingMoves
<1> QED BY <1>8 DEF StagedPatient, WaitsOnlyFor, Resolves

\* What is stored was not stored before its dependencies resolved.
LEMMA LedgerPatientStep ==
  ASSUME TypeInv, DependencyInv, [Next]_vars
  PROVE  \A k \in DOMAIN events' : \A p \in events'[k].waits :
           Slot(events'[k].tenant, p) \in DOMAIN correlations'
<1>1. \A k \in DOMAIN events : \A p \in events[k].waits :
        Slot(events[k].tenant, p) \in DOMAIN correlations'
  BY StillResolves DEF DependencyInv
<1>2. CASE UNCHANGED events
  BY <1>1, <1>2
<1>3. CASE \E t \in Tasks : /\ pc[t] = "ingest" /\ ev[t] \in DfcEvent
                            /\ ingest_event(ev[t])
  <2>1. PICK t \in Tasks : /\ pc[t] = "ingest" /\ ev[t] \in DfcEvent
                           /\ ingest_event(ev[t])
    BY <1>3
  <2>2. \A p \in ev[t].waits : Slot(ev[t].tenant, p) \in DOMAIN correlations'
    BY <2>1, StillResolves DEF DependencyInv, Patient
  <2>3. /\ DOMAIN events' = DOMAIN events \cup {EventKey(ev[t])}
        /\ events'[EventKey(ev[t])] = Stored(ev[t])
        /\ \A k \in DOMAIN events : events'[k] = events[k]
    BY <2>1, IngestEventType DEF TypeInv, TypeOK
  <2> QED BY <1>1, <2>2, <2>3 DEF Stored
<1> QED BY <1>2, <1>3, UpstreamMoves DEF upstream, store_correlation

\* No step forwards an event too early.
LEMMA DependencyInvStep ==
  ASSUME ReviewsConsistent, TypeInv, DependencyInv, [Next]_vars
  PROVE  DependencyInv'
<1>1. StagedPatient'
  BY StagedPatientStep
<1>2. \A k \in DOMAIN events' : WaitsOnlyFor(events[k], {})'
  BY LedgerPatientStep DEF WaitsOnlyFor, Resolves
<1>3. ASSUME NEW u \in Tasks PROVE Patient(u)'
  <2>0. Patient(u)
    BY DEF DependencyInv
  <2>1. CASE \E t \in Tasks :
               \/ Step(t) \/ CutShort(t) \/ ReplyLost(t)
               \/ \E r \in Requests : Arrive(t, r) \/ Reject(t, r)
    <3>1. PICK t \in Tasks :
               \/ Step(t) \/ CutShort(t) \/ ReplyLost(t)
               \/ \E r \in Requests : Arrive(t, r) \/ Reject(t, r)
      BY <2>1
    <3>2. CASE u = t
      BY <3>1, <3>2, PatientStep
    <3>3. CASE u # t
      BY <2>0, <3>1, <3>3, OthersStay, PatientFrame
    <3> QED BY <3>2, <3>3
  <2>2. CASE Crash
    <3>1. pc'[u] = "done" \/ UNCHANGED <<pc[u], ev[u], wait[u]>>
      BY <2>2 DEF Crash
    <3>2. CASE pc'[u] = "done"
      BY <3>2 DEF Patient
    <3> QED BY <2>0, <3>1, <3>2, PatientFrame
  <2>3. CASE Tick \/ UNCHANGED vars
    BY <2>0, <2>3, PatientFrame DEF Tick, vars, job
  <2> QED BY <2>1, <2>2, <2>3 DEF Next, Terminated
<1> QED BY <1>1, <1>2, <1>3 DEF DependencyInv

\* Provided no request's metadata names another review than its review_id,
\* what is still to resolve is known of every event in every reachable state.
THEOREM DependencyInvariant == ReviewsConsistent /\ Spec => []DependencyInv
<1> SUFFICES ASSUME ReviewsConsistent PROVE Spec => []DependencyInv
  OBVIOUS
<1>1. Init => DependencyInv
  BY DEF Init, UpstreamInit, EmptyStore, DependencyInv, StagedPatient, Patient
<1>2. TypeInv /\ DependencyInv /\ [Next]_vars => DependencyInv'
  BY DependencyInvStep
<1> QED BY <1>1, <1>2, TypeInvariant, PTL DEF Spec

\* No event reaches data-fabric before every correlation it was pending on
\* exists, on the direct path and through staging alike, provided no request's
\* metadata names another review than its review_id.
THEOREM DependencyFirst == ReviewsConsistent /\ Spec => []DependencyBeforeForward
<1>1. DependencyInv => DependencyBeforeForward
  BY DEF DependencyInv, WaitsOnlyFor, DependencyBeforeForward, Unresolved
<1> QED BY <1>1, DependencyInvariant, PTL

-----------------------------------------------------------------------------
(* The index is tight *)

\* Event e came from a request, and waits for what its key says.
Sent(e) ==
  \E r \in Requests \cap (InboundAivcsEvent \cup InboundHitlEvent) :
    RequestKey(r) = EventKey(e) /\ Pending(r) = e.waits

\* Until it is forwarded, all that it was sent for is still pending.
AllPending(t) ==
  pc[t] \in {"enrich", "check", "stage"} =>
    wait[t] = ev[t].waits /\ Sent(ev[t])

StagedWhole ==
  \A k \in DOMAIN staging.byIdempotency :
    LET rec == staging.byIdempotency[k]
    IN  EventKey(rec.event) = k /\ rec.pending = rec.event.waits /\ Sent(rec.event)

WholeInv == StagedWhole /\ \A t \in Tasks : AllPending(t)

\* A request waits for one correlation at most, and its event for the same.
LEMMA PendingOne ==
  ASSUME NEW r \in InboundAivcsEvent \cup InboundHitlEvent
  PROVE  /\ \A p, q \in Pending(r) : p = q
         /\ into_dfc_event(r).waits = Pending(r)
<1>1. \A p, q \in Pending(r) : p = q
  BY DEF Pending, aivcs_pending_correlations, hitl_pending_correlations
<1>2. into_dfc_event(r).waits = Pending(r)
  BY DEF into_dfc_event, AivcsEvent, HitlEvent, InboundAivcsEvent,
         InboundHitlEvent
<1> QED BY <1>1, <1>2

\* A handler that goes on to wait waits for all its event was sent for.
LEMMA AllPendingStep ==
  ASSUME TypeInv, WholeInv, NEW t \in Tasks,
         \/ Step(t) \/ CutShort(t) \/ ReplyLost(t)
         \/ \E r \in Requests : Arrive(t, r) \/ Reject(t, r)
  PROVE  AllPending(t)'
<1> USE DEF Goto, Say, Finish
<1>0. /\ pc \in [Tasks -> Labels]
      /\ ev \in [Tasks -> DfcEvent \cup {NoEvent}]
      /\ wait \in [Tasks -> SUBSET Lookups] /\ AllPending(t)
  BY DEF TypeInv, TypeOK, WholeInv
<1>1. CASE LookupStaged(t)
  <2> DEFINE e == into_dfc_event(req[t])
  <2>1. /\ req[t] \in Requests \cap (InboundAivcsEvent \cup InboundHitlEvent)
        /\ EventKey(e) = RequestKey(req[t])
    BY <1>1, EventType DEF LookupStaged, TypeInv, PhaseOK, RequestKey
  <2>2. Sent(e) /\ e.waits = Pending(req[t])
    BY <2>1, PendingOne DEF Sent
  <2>3. pc'[t] = "done" \/ (ev'[t] = e /\ wait'[t] = Pending(req[t]))
    BY <1>0, <1>1 DEF LookupStaged
  <2> HIDE DEF e
  <2> QED BY <2>2, <2>3 DEF AllPending, Sent, EventKey
<1>2. CASE Enrich(t)
  <2> DEFINE e == ev[t]
             f == Enriched(e)
  <2>1. e \in DfcEvent /\ wait' = wait
    BY <1>2 DEF Enrich, TypeInv, PhaseOK, WithEvent
  <2>2. f.waits = e.waits /\ EventKey(f) = EventKey(e)
    BY <2>1 DEF Enriched, EventKey, DfcEvent
  <2>3. \/ pc'[t] \in {"done", "ingest"}
        \/ pc[t] = "enrich" /\ ev'[t] = f
    BY <1>0, <1>2 DEF Enrich
  <2> HIDE DEF f
  <2>4. CASE pc[t] = "enrich" /\ ev'[t] = f
    BY <1>0, <2>1, <2>2, <2>4 DEF AllPending, Sent, EventKey
  <2> QED BY <2>3, <2>4 DEF AllPending
<1>3. CASE Check(t)
  <2> DEFINE left == Unresolved(ev[t].tenant, wait[t])
  <2>1. wait[t] = ev[t].waits /\ Sent(ev[t]) /\ ev' = ev
    BY <1>0, <1>3 DEF Check, AllPending
  <2>2. left # {} => left = wait[t]
    BY <2>1, PendingOne DEF Sent, Unresolved
  <2>3. ResolvedStep(ev[t]) \in {"register", "ingest", "enrich_resolved"}
    BY StepLabels
  <2>4. \/ pc'[t] \in {"done", ResolvedStep(ev[t])}
        \/ pc'[t] = "stage" /\ wait'[t] = left /\ left # {}
    BY <1>0, <1>3 DEF Check
  <2> HIDE DEF left
  <2> QED BY <2>1, <2>2, <2>3, <2>4 DEF AllPending, Sent, EventKey
<1>4. CASE Take(t)
  <2>1. \/ pc'[t] = "take"
        \/ \E k \in DOMAIN staging.byIdempotency :
             /\ ev'[t] = staging.byIdempotency[k].event
             /\ wait'[t] = staging.byIdempotency[k].pending
    BY <1>0, <1>4 DEF Take
  <2> QED BY <2>1 DEF WholeInv, StagedWhole, AllPending, Sent, EventKey
<1>5. CASE \/ Lookup(t) \/ Stage(t) \/ Ingest(t) \/ Record(t) \/ Store(t)
           \/ Register(t) \/ List(t) \/ ListDone(t) \/ Restage(t) \/ CutShort(t)
           \/ ReplyLost(t) \/ \E r \in Requests : Arrive(t, r) \/ Reject(t, r)
  <2>1. pc'[t] \in {"lookup_staged", "done", "record", "take", "list",
                    "store", "lookup", "ingest"}
    BY <1>0, <1>5 DEF Lookup, Stage, Register, Ingest, Record, Store, List,
                      ListDone, Restage, CutShort, ReplyLost, Arrive, Reject
  <2> QED BY <2>1 DEF AllPending
<1> QED BY <1>1, <1>2, <1>3, <1>4, <1>5 DEF Step

\* Every record of st is filed under its key, with all it was sent for.
Whole(st) ==
  \A k \in DOMAIN st.byIdempotency :
    LET rec == st.byIdempotency[k]
    IN  EventKey(rec.event) = k /\ rec.pending = rec.event.waits /\ Sent(rec.event)

\* Dropping records keeps it so, and staging an event with all it was sent for.
LEMMA KeepsWhole ==
  ASSUME NEW st, Whole(st)
  PROVE  /\ \A K : Whole(Without(st, K))
         /\ \A e, x : Sent(e) => Whole(stage(st, e, e.waits, x))
<1>1. ASSUME NEW K PROVE Whole(Without(st, K))
  <2> DEFINE w == Without(st, K)
  <2>1. /\ DOMAIN w.byIdempotency \subseteq DOMAIN st.byIdempotency
        /\ \A k \in DOMAIN w.byIdempotency :
             w.byIdempotency[k] = st.byIdempotency[k]
    BY DEF Without
  <2> HIDE DEF w
  <2>2. Whole(w)
    BY <2>1 DEF Whole
  <2> QED BY <2>2 DEF w
<1>2. ASSUME NEW e, NEW x, Sent(e) PROVE Whole(stage(st, e, e.waits, x))
  <2> DEFINE k == EventKey(e)
             s == stage(st, e, e.waits, x)
  <2>1. /\ DOMAIN s.byIdempotency = DOMAIN st.byIdempotency \cup {k}
        /\ s.byIdempotency[k].event = e /\ s.byIdempotency[k].pending = e.waits
        /\ \A j \in DOMAIN st.byIdempotency \ {k} :
             s.byIdempotency[j] = st.byIdempotency[j]
    BY DEF stage, EventKey
  <2> HIDE DEF s
  <2>2. Whole(s)
    BY <1>2, <2>1 DEF Whole
  <2> QED BY <2>2 DEF s
<1> QED BY <1>1, <1>2

\* What a step does to the staging store, given that all is pending.
LEMMA WholeMoves ==
  ASSUME WholeInv, [Next]_vars
  PROVE  \/ UNCHANGED staging
         \/ \E K : staging' = Without(staging, K)
         \/ \E e : \E x :
              /\ Sent(e)
              /\ \/ staging' = stage(purge_expired(staging, now), e, e.waits, x)
                 \/ staging' = stage(staging, e, e.waits, x)
         \/ staging' = EmptyStore
<1>1. ASSUME NEW t \in Tasks, pc[t] = "stage"
      PROVE  wait[t] = ev[t].waits /\ Sent(ev[t])
  BY <1>1 DEF WholeInv, AllPending
<1> QED BY <1>1, StagingMoves

\* No step files an event with less than all it was sent for.
LEMMA WholeInvStep ==
  ASSUME TypeInv, WholeInv, [Next]_vars
  PROVE  WholeInv'
<1>1. Whole(staging) /\ \A t \in Tasks : AllPending(t)
  BY DEF WholeInv, Whole, StagedWhole
<1>2. Whole(staging')
  <2>1. CASE UNCHANGED staging
    BY <1>1, <2>1
  <2>2. CASE \E K : staging' = Without(staging, K)
    BY <1>1, <2>2, KeepsWhole
  <2>3. CASE \E e : \E x :
               /\ Sent(e)
               /\ \/ staging' = stage(purge_expired(staging, now), e, e.waits, x)
                  \/ staging' = stage(staging, e, e.waits, x)
    <3>1. Whole(purge_expired(staging, now))
      BY <1>1, KeepsWhole DEF purge_expired
    <3> QED BY <1>1, <2>3, <3>1, KeepsWhole
  <2>4. CASE staging' = EmptyStore
    BY <2>4 DEF EmptyStore, Whole
  <2> QED BY <2>1, <2>2, <2>3, <2>4, WholeMoves
<1>3. ASSUME NEW u \in Tasks PROVE AllPending(u)'
  <2>0. AllPending(u)
    BY <1>1
  <2>1. ASSUME UNCHANGED <<pc[u], ev[u], wait[u]>> PROVE AllPending(u)'
    BY <2>0, <2>1 DEF AllPending, Sent, EventKey
  <2>2. CASE \E t \in Tasks :
               \/ Step(t) \/ CutShort(t) \/ ReplyLost(t)
               \/ \E r \in Requests : Arrive(t, r) \/ Reject(t, r)
    <3>1. PICK t \in Tasks :
               \/ Step(t) \/ CutShort(t) \/ ReplyLost(t)
               \/ \E r \in Requests : Arrive(t, r) \/ Reject(t, r)
      BY <2>2
    <3>2. CASE u = t
      BY <3>1, <3>2, AllPendingStep
    <3>3. CASE u # t
      BY <2>1, <3>1, <3>3, OthersStay
    <3> QED BY <3>2, <3>3
  <2>3. CASE Crash
    <3>1. pc'[u] = "done" \/ UNCHANGED <<pc[u], ev[u], wait[u]>>
      BY <2>3 DEF Crash
    <3>2. CASE pc'[u] = "done"
      BY <3>2 DEF AllPending
    <3> QED BY <2>1, <3>1, <3>2
  <2>4. CASE Tick \/ UNCHANGED vars
    BY <2>1, <2>4 DEF Tick, vars, job
  <2> QED BY <2>2, <2>3, <2>4 DEF Next, Terminated
<1> QED BY <1>2, <1>3 DEF WholeInv, Whole, StagedWhole, Sent, EventKey

\* What is staged, and what a handler goes on to stage, is all an event was
\* sent for.
LEMMA WholeInvariant == Spec => []WholeInv
<1>1. Init => WholeInv
  BY DEF Init, EmptyStore, WholeInv, StagedWhole, AllPending
<1>2. TypeInv /\ WholeInv /\ [Next]_vars => WholeInv'
  BY WholeInvStep
<1> QED BY <1>1, <1>2, TypeInvariant, PTL DEF Spec

\* Staging an event with all it was sent for leaves no entry behind, whatever
\* it overwrites.
LEMMA StageKeepsTight ==
  ASSUME KeysWaitAlike, NEW st, NEW e, NEW x, Whole(st), NothingStale(st),
         Sent(e)
  PROVE  NothingStale(stage(st, e, e.waits, x))
<1> DEFINE k == EventKey(e)
<1>1. ASSUME k \in DOMAIN st.byIdempotency
      PROVE  IndexKeys(st.byIdempotency[k])
               = {<<e.tenant, p[1], p[2]>> : p \in e.waits}
  <2> DEFINE rec == st.byIdempotency[k]
  <2>1. /\ EventKey(rec.event) = k /\ rec.pending = rec.event.waits
        /\ Sent(rec.event)
    BY <1>1 DEF Whole
  <2>2. rec.event.waits = e.waits
    BY <2>1 DEF Sent, KeysWaitAlike
  <2>3. rec.event.tenant = e.tenant
    BY <2>1 DEF EventKey
  <2> QED BY <2>1, <2>2, <2>3 DEF IndexKeys
<1> QED BY <1>1, StageTight DEF EventKey

\* No step leaves an entry behind.
LEMMA TightStep ==
  ASSUME KeysWaitAlike, WholeInv, IndexIsTight, [Next]_vars
  PROVE  IndexIsTight'
<1>1. Whole(staging) /\ NothingStale(staging)
  BY DEF WholeInv, Whole, StagedWhole, IndexIsTight
<1>2. \A K : Whole(Without(staging, K)) /\ NothingStale(Without(staging, K))
  BY <1>1, KeepsWhole, WithoutTight
<1>3. \A e, x : Sent(e) => NothingStale(stage(staging, e, e.waits, x))
  BY <1>1, StageKeepsTight
<1>4. \A e, x : Sent(e) =>
        NothingStale(stage(purge_expired(staging, now), e, e.waits, x))
  BY <1>2, StageKeepsTight DEF purge_expired
<1>5. NothingStale(EmptyStore)
  BY DEF EmptyStore, NothingStale
<1>6. NothingStale(staging')
  BY <1>1, <1>2, <1>3, <1>4, <1>5, WholeMoves
<1> QED BY <1>6 DEF IndexIsTight

\* Where what is sent under one key waits for the same, the staging index
\* keeps no entry of a record that has left, whatever interleaves.
THEOREM IndexAlwaysTight == KeysWaitAlike /\ Spec => []IndexIsTight
<1> SUFFICES ASSUME KeysWaitAlike PROVE Spec => []IndexIsTight
  OBVIOUS
<1>1. Init => IndexIsTight
  BY DEF Init, EmptyStore, IndexIsTight, NothingStale
<1>2. WholeInv /\ IndexIsTight /\ [Next]_vars => IndexIsTight'
  BY TightStep
<1> QED BY <1>1, <1>2, WholeInvariant, PTL DEF Spec

-----------------------------------------------------------------------------
(* How staged events leave *)

\* Nothing leaves the staging store but into a handler's hands, by expiry, or
\* with the process.
THEOREM StagedLeaveSafely == Spec => StagedLeaveOnlySo
<1>1. TypeInv /\ [Next]_vars => [StagedLeave]_vars
  <2> SUFFICES ASSUME TypeInv, [Next]_vars,
                      NEW k \in DOMAIN staging.byIdempotency,
                      k \notin DOMAIN staging'.byIdempotency
               PROVE  \/ staging.byIdempotency[k].expires <= now
                      \/ \E t \in Tasks :
                           /\ held'[t]
                           /\ ev'[t] = staging.byIdempotency[k].event
                      \/ crashes' # crashes
    BY DEF StagedLeave
  <2>1. CASE UNCHANGED staging
    BY <2>1
  <2>2. CASE \E t \in Tasks : Stage(t)
    BY <2>2 DEF Stage, stage, purge_expired, Without, Expired
  <2>3. CASE \E t \in Tasks : Restage(t)
    BY <2>3 DEF Restage, stage
  <2>4. CASE \E t \in Tasks : Take(t)
    <3>1. PICK t \in Tasks : Take(t)
      BY <2>4
    <3>2. PICK j \in keys[t] :
            /\ staging' = take(staging, j)
            /\ j \in DOMAIN staging.byIdempotency =>
                 /\ ev' = [ev EXCEPT ![t] = staging.byIdempotency[j].event]
                 /\ held' = [held EXCEPT ![t] = TRUE]
      BY <3>1 DEF Take
    <3>3. k = j
      BY <3>2 DEF take, Without
    <3> QED BY <3>2, <3>3 DEF TypeInv, TypeOK
  <2>5. CASE Crash
    <3>1. crashes' = crashes + 1 /\ crashes \in Nat
      BY <2>5 DEF Crash, TypeInv, TypeOK
    <3> QED BY <3>1
  <2>6. \/ UNCHANGED staging \/ Crash
        \/ \E t \in Tasks : Stage(t) \/ Restage(t) \/ Take(t)
    BY DEF Next, Terminated, Step, Lookup, LookupStaged, Enrich, Check, Register,
           Ingest, Record, Store, List, ListDone, CutShort, ReplyLost, Arrive,
           Reject, Tick, vars, service
  <2> QED BY <2>1, <2>2, <2>3, <2>4, <2>5, <2>6
<1> QED BY <1>1, TypeInvariant, PTL DEF Spec, StagedLeaveOnlySo

-----------------------------------------------------------------------------
(* What is accepted is kept *)

\* Some caller was told that what is sent under e's key, and waits for the
\* same as e, is staged.
Owed(e) ==
  \E u \in Tasks : /\ answer[u].status = "staged"
                   /\ RequestKey(req[u]) = EventKey(e)
                   /\ Pending(req[u]) = e.waits

\* Once e resolves, nothing but its own dependency can be refused.
Natural(e) ==
  /\ e.system = "aivcs_api" /\ e.waits # {} => AivcsForward(e) = "ingest"
  /\ e.system # "aivcs_api" => e.waits \subseteq {ReviewOf(e)}

CareOf(t) ==
  /\ answer[t].status = "staged" => pc[t] = "done"
  /\ pc[t] \in {"enrich", "check", "stage", "enrich_resolved"} =>
       Natural(ev[t])
  /\ pc[t] \in {"check", "stage"} => ev[t].waits # {}
  /\ pc[t] = "enrich_resolved" => ev[t].system # "aivcs_api"
  /\ pc[t] \in {"enrich", "check", "stage"} /\ ~held[t] =>
       Pending(req[t]) = ev[t].waits
  /\ held[t] /\ pc[t] # "done" =>
       /\ pc[t] \in {"check", "stage", "enrich_resolved", "ingest", "record"}
       /\ pc[t] \in {"check", "stage", "enrich_resolved"} =>
            ev[t].waits # {} /\ Owed(ev[t])

StagedCare ==
  \A k \in DOMAIN staging.byIdempotency :
    LET rec == staging.byIdempotency[k]
    IN  /\ Owed(rec.event) /\ Natural(rec.event)
        /\ rec.event.waits # {} /\ rec.expires >= TTL

\* Every event staged or taken from the store is owed to a caller and waits
\* for something.
CareInv == StagedCare /\ \A t \in Tasks : CareOf(t)

\* An event from a request can be refused over its dependency alone.
LEMMA NaturalEvent ==
  ASSUME ReviewsConsistent, NEW r \in Requests,
         r \in InboundAivcsEvent \cup InboundHitlEvent
  PROVE  /\ Natural(into_dfc_event(r))
         /\ FirstStep(r, into_dfc_event(r)) = "check" => Pending(r) # {}
         /\ FirstStep(r, into_dfc_event(r)) # "enrich_resolved"
<1> DEFINE e == into_dfc_event(r)
<1>1. FirstStep(r, e) # "enrich_resolved"
  BY StepLabels
<1>2. CASE r.api = "aivcs"
  <2>1. /\ e.system = "aivcs_api" /\ e.type = r.type /\ e.waits = Pending(r)
        /\ Pending(r) = aivcs_pending_correlations(r)
    BY <1>2 DEF into_dfc_event, AivcsEvent, Pending
  <2>2. Pending(r) # {} => e.type = "aivcs.branch.created"
    BY <2>1 DEF aivcs_pending_correlations
  <2>3. FirstStep(r, e) = "check" => Pending(r) # {}
    BY <1>2 DEF FirstStep, AivcsForward
  <2> HIDE DEF e
  <2>4. Natural(e)
    BY <2>1, <2>2 DEF Natural, AivcsForward
  <2> QED BY <1>1, <2>3, <2>4 DEF e
<1>3. CASE r.api # "aivcs"
  <2>1. r \in InboundHitlEvent /\ r.api = "hitl"
    BY <1>3 DEF InboundAivcsEvent, InboundHitlEvent
  <2>2. /\ e.waits = Pending(r) /\ e.system = "aivcs_hitl"
        /\ e.meta = [r.meta EXCEPT !.review = OrElse(@, r.review)]
        /\ Pending(r) = hitl_pending_correlations(r)
    BY <1>3 DEF into_dfc_event, HitlEvent, Pending
  <2>3. r.meta \in Metadata
    BY <2>1 DEF InboundHitlEvent
  <2>4. e.meta.review = OrElse(r.meta.review, r.review)
    BY <2>2, <2>3 DEF Metadata
  <2>5. r.review # None => r.meta.review \in {None, r.review}
    BY <2>1 DEF ReviewsConsistent
  <2>6. Pending(r) \subseteq {ReviewOf(e)}
    BY <2>2, <2>4, <2>5 DEF hitl_pending_correlations, ReviewOf, OrElse
  <2>7. FirstStep(r, e) = "check" => Pending(r) # {}
    BY <1>3 DEF FirstStep, HitlForward
  <2> HIDE DEF e
  <2>8. Natural(e)
    BY <2>2, <2>6 DEF Natural
  <2> QED BY <1>1, <2>7, <2>8 DEF e
<1> QED BY <1>2, <1>3

\* Enrichment leaves it so.
LEMMA EnrichedNatural ==
  ASSUME NEW e \in DfcEvent, Natural(e)
  PROVE  /\ Natural(Enriched(e)) /\ EventKey(Enriched(e)) = EventKey(e)
         /\ Enriched(e).waits = e.waits
<1>1. CASE ~NeedsRun(e) \/ ~Resolves(e.tenant, ReviewOf(e))
  BY <1>1 DEF Enriched
<1>2. CASE NeedsRun(e) /\ Resolves(e.tenant, ReviewOf(e))
  <2> DEFINE rec == Correlation(e.tenant, ReviewOf(e))
             task == OrElse(e.task, rec.task)
  <2>1. Enriched(e) = [e EXCEPT !.run = rec.run, !.task = task]
    BY <1>2 DEF Enriched
  <2> HIDE DEF rec, task
  <2>2. /\ Enriched(e).waits = e.waits /\ Enriched(e).system = e.system
        /\ Enriched(e).type = e.type /\ Enriched(e).ref = e.ref
        /\ Enriched(e).meta = e.meta /\ Enriched(e).tenant = e.tenant
        /\ Enriched(e).key = e.key
    BY <2>1 DEF DfcEvent
  <2> QED BY <2>2 DEF Natural, AivcsForward, snapshot_id_from_event, ReviewOf,
                      EventKey
<1> QED BY <1>1, <1>2

\* A caller told that its event is staged has its answer, and keeps it.
LEMMA AcceptedStay ==
  ASSUME TypeInv, CareInv, [Next]_vars, NEW u \in Tasks,
         answer[u].status = "staged"
  PROVE  UNCHANGED <<pc[u], answer[u], req[u]>>
<1>1. pc[u] = "done"
  BY DEF CareInv, CareOf
<1>2. CASE \E t \in Tasks :
             \/ Step(t) \/ CutShort(t) \/ ReplyLost(t)
             \/ \E r \in Requests : Arrive(t, r) \/ Reject(t, r)
  <2>1. PICK t \in Tasks :
             \/ Step(t) \/ CutShort(t) \/ ReplyLost(t)
             \/ \E r \in Requests : Arrive(t, r) \/ Reject(t, r)
    BY <1>2
  <2>2. pc[t] # "done"
    BY <2>1 DEF Step, Lookup, LookupStaged, Enrich, Check, Stage, Register,
         Ingest, Record, Store, List, ListDone, Take, Restage, CutShort,
         ReplyLost, LostWrite, Running, Arrive, Reject
  <2> QED BY <1>1, <2>1, <2>2, OthersStay
<1>3. CASE Crash
  BY <1>1, <1>3 DEF Crash, Running
<1>4. CASE Tick \/ UNCHANGED vars
  BY <1>4 DEF Tick, vars
<1> QED BY <1>2, <1>3, <1>4 DEF Next, Terminated

\* So what is owed stays owed.
LEMMA OwedStays ==
  ASSUME TypeInv, CareInv, [Next]_vars, NEW e, Owed(e)
  PROVE  Owed(e)'
<1>1. PICK u \in Tasks : /\ answer[u].status = "staged"
                         /\ RequestKey(req[u]) = EventKey(e)
                         /\ Pending(req[u]) = e.waits
  BY DEF Owed
<1>2. UNCHANGED <<answer[u], req[u]>>
  BY <1>1, AcceptedStay
<1>3. /\ answer'[u].status = "staged"
      /\ RequestKey(req[u])' = RequestKey(req[u])
      /\ Pending(req[u])' = Pending(req[u])
  BY <1>1, <1>2 DEF RequestKey, BodyTenant, Pending, aivcs_pending_correlations,
                    hitl_pending_correlations, snapshot_ref_from_aivcs
<1> QED BY <1>1, <1>3 DEF Owed, EventKey

\* An owed, natural event keeps its handler in CareOf.
LEMMA CareOfHolds ==
  ASSUME TypeInv, CareInv, [Next]_vars, NEW t \in Tasks, CareOf(t),
         UNCHANGED <<pc[t], req[t], ev[t], held[t], answer[t]>>
  PROVE  CareOf(t)'
<1>1. PICK e : e = ev[t]
  OBVIOUS
<1>2. Owed(e) => Owed(e)'
  BY OwedStays
<1>3. Owed(ev[t]) => Owed(ev[t])'
  BY <1>1, <1>2 DEF Owed, EventKey
<1>4. Natural(ev[t]) => Natural(ev[t])'
  BY DEF Natural, AivcsForward, snapshot_id_from_event, ReviewOf
<1>5. Pending(req[t])' = Pending(req[t])
  BY DEF Pending, aivcs_pending_correlations,
         hitl_pending_correlations, snapshot_ref_from_aivcs
<1> QED BY <1>3, <1>4, <1>5 DEF CareOf

\* A record taken from the store is owed to a caller, and natural.
LEMMA TakeCare ==
  ASSUME TypeInv, CareInv, NEW t \in Tasks, Take(t)
  PROVE  CareOf(t)'
<1>0. /\ pc \in [Tasks -> Labels] /\ held \in [Tasks -> BOOLEAN]
      /\ ev \in [Tasks -> DfcEvent \cup {NoEvent}]
      /\ CareOf(t) /\ pc[t] = "take"
  BY DEF TypeInv, TypeOK, CareInv, Take
<1>1. answer[t].status # "staged" /\ ~held[t]
  BY <1>0 DEF CareOf
<1>2. UNCHANGED <<req, answer>> /\ [Next]_vars
  BY DEF Take, Next, Step
<1>3. CASE UNCHANGED <<ev, held, pc>>
  BY <1>0, <1>2, <1>3, CareOfHolds
<1>4. CASE \E k \in DOMAIN staging.byIdempotency :
             /\ ev'[t] = staging.byIdempotency[k].event
             /\ held'[t] /\ pc'[t] = "check"
  <2>1. PICK e : ev'[t] = e
    OBVIOUS
  <2>2. Owed(e) /\ Natural(e) /\ e.waits # {}
    BY <1>4, <2>1 DEF CareInv, StagedCare
  <2>3. Owed(e)'
    BY <1>2, <2>2, OwedStays
  <2>4. Owed(ev[t])'
    BY <2>1, <2>3 DEF Owed, EventKey
  <2>5. Natural(ev[t])'
    BY <2>1, <2>2 DEF Natural, AivcsForward, snapshot_id_from_event, ReviewOf
  <2> QED BY <1>1, <1>2, <1>4, <2>1, <2>2, <2>4, <2>5 DEF CareOf
<1>5. \/ UNCHANGED <<ev, held, pc>>
      \/ \E k \in DOMAIN staging.byIdempotency :
           /\ ev'[t] = staging.byIdempotency[k].event
           /\ held'[t] /\ pc'[t] = "check"
  BY <1>0 DEF Take, Goto
<1> QED BY <1>3, <1>4, <1>5

\* A task that moves stays so, one case per action.
LEMMA CareStep ==
  ASSUME ReviewsConsistent, TypeInv, AnswersInv, WholeInv, CareInv,
         NEW t \in Tasks,
         \/ Step(t) \/ CutShort(t) \/ ReplyLost(t)
         \/ \E r \in Requests : Arrive(t, r) \/ Reject(t, r)
  PROVE  CareOf(t)'
<1> USE DEF Goto, Say, Finish, Failed, NoAnswer, Correlated, Accepted, Ingested
<1>0. /\ pc \in [Tasks -> Labels] /\ held \in [Tasks -> BOOLEAN]
      /\ ev \in [Tasks -> DfcEvent \cup {NoEvent}]
      /\ wait \in [Tasks -> SUBSET Lookups]
      /\ answer \in [Tasks -> Answers]
  BY DEF TypeInv, TypeOK
<1>1. [Next]_vars
  BY DEF Next
<1>2. CareOf(t) /\ AllPending(t) /\ Truthful(t)
  BY DEF CareInv, WholeInv, AnswersInv
<1>3. pc[t] # "done" => answer[t].status # "staged"
  BY <1>2 DEF CareOf
<1>4. CASE \/ CutShort(t) \/ ReplyLost(t)
           \/ \E r \in Requests : Arrive(t, r) \/ Reject(t, r)
  <2>1. pc'[t] \in {"done", "store", "lookup"}
    BY <1>0, <1>4 DEF Reject, CutShort, ReplyLost, Arrive
  <2>2. answer'[t].status # "staged"
    BY <1>0, <1>2, <1>4 DEF Reject, CutShort, ReplyLost, Arrive, Truthful
  <2>3. held'[t] => pc'[t] = "done"
    BY <1>0, <1>2, <1>4
       DEF Reject, CutShort, ReplyLost, Arrive, CareOf, job
  <2> QED BY <2>1, <2>2, <2>3 DEF CareOf
<1>5. CASE LookupStaged(t)
  <2> DEFINE r == req[t]
             e == into_dfc_event(r)
  <2>1. /\ r \in Requests \cap (InboundAivcsEvent \cup InboundHitlEvent)
        /\ ~held[t]
    BY <1>2, <1>5 DEF LookupStaged, TypeInv, PhaseOK, CareOf
  <2>2. /\ Natural(e) /\ FirstStep(r, e) # "enrich_resolved"
        /\ FirstStep(r, e) = "check" => Pending(r) # {}
        /\ e.waits = Pending(r)
        /\ FirstStep(r, e) \in {"register", "ingest", "enrich", "check"}
    BY <2>1, NaturalEvent, PendingOne, StepLabels
  <2>3. UNCHANGED <<req, held>>
    BY <1>5 DEF LookupStaged
  <2>4. CASE pc'[t] = "done"
    BY <2>4 DEF CareOf
  <2>5. CASE pc'[t] = FirstStep(r, e) /\ ev'[t] = e /\ UNCHANGED answer
    <3> HIDE DEF e, r
    <3>1. Natural(ev[t])'
      BY <2>2, <2>5
         DEF Natural, AivcsForward, snapshot_id_from_event, ReviewOf
    <3>2. Pending(req[t])' = Pending(r)
      BY <2>3 DEF Pending, aivcs_pending_correlations,
         hitl_pending_correlations, snapshot_ref_from_aivcs, r
    <3>3. answer'[t].status # "staged"
      BY <1>3, <1>5, <2>5 DEF LookupStaged
    <3> QED BY <2>1, <2>2, <2>3, <2>5, <3>1, <3>2, <3>3 DEF CareOf
  <2>6. \/ pc'[t] = "done"
        \/ pc'[t] = FirstStep(r, e) /\ ev'[t] = e /\ UNCHANGED answer
    BY <1>0, <1>5 DEF LookupStaged
  <2> QED BY <2>4, <2>5, <2>6
<1>6. CASE Enrich(t)
  <2> DEFINE f == Enriched(ev[t])
  <2>1. ev[t] \in DfcEvent /\ Natural(ev[t]) /\ UNCHANGED <<req, held>>
    BY <1>2, <1>6 DEF Enrich, TypeInv, PhaseOK, WithEvent, CareOf
  <2>2. Natural(f) /\ f.waits = ev[t].waits
    BY <2>1, EnrichedNatural
  <2> HIDE DEF f
  <2>3. CASE pc'[t] \in {"done", "ingest"} /\ answer'[t].status # "staged"
    BY <1>2, <1>6, <2>1, <2>3 DEF CareOf, Enrich
  <2>4. CASE /\ pc[t] = "enrich" /\ pc'[t] = "check" /\ ev'[t] = f
             /\ wait[t] # {} /\ UNCHANGED answer
    <3>1. Natural(ev[t])'
      BY <2>2, <2>4
         DEF Natural, AivcsForward, snapshot_id_from_event, ReviewOf
    <3>2. ~held[t] /\ Pending(req[t]) = ev[t].waits /\ wait[t] = ev[t].waits
      BY <1>2, <2>4 DEF CareOf, AllPending
    <3>3. Pending(req[t])' = Pending(req[t])
      BY <2>1 DEF Pending, aivcs_pending_correlations,
         hitl_pending_correlations, snapshot_ref_from_aivcs
    <3>4. answer'[t].status # "staged"
      BY <1>3, <2>4
    <3> QED BY <2>1, <2>2, <2>4, <3>1, <3>2, <3>3, <3>4 DEF CareOf
  <2>5. \/ pc'[t] \in {"done", "ingest"} /\ answer'[t].status # "staged"
        \/ /\ pc[t] = "enrich" /\ pc'[t] = "check" /\ ev'[t] = f
           /\ wait[t] # {} /\ UNCHANGED answer
    BY <1>0, <1>3, <1>6 DEF Enrich, HitlForward, f
  <2> QED BY <2>3, <2>4, <2>5
<1>7. CASE Check(t)
  <2>1. /\ Natural(ev[t]) /\ ev[t].waits # {} /\ pc[t] = "check"
        /\ UNCHANGED <<req, held, ev>> /\ answer[t].status # "staged"
    BY <1>2, <1>3, <1>7 DEF Check, CareOf
  <2>2. CASE pc'[t] = "done" /\ answer'[t].status # "staged"
    BY <2>2 DEF CareOf
  <2>3. CASE pc'[t] \in {ResolvedStep(ev[t]), "stage"} /\ UNCHANGED answer
    <3>1. \/ pc'[t] = "stage" \/ pc'[t] = "ingest"
          \/ pc'[t] = "enrich_resolved" /\ ev[t].system # "aivcs_api"
      BY <2>1, <2>3 DEF ResolvedStep, Natural
    <3>2. Natural(ev[t])'
      BY <2>1 DEF Natural, AivcsForward, snapshot_id_from_event, ReviewOf
    <3>3. Pending(req[t])' = Pending(req[t])
      BY <2>1 DEF Pending, aivcs_pending_correlations,
         hitl_pending_correlations, snapshot_ref_from_aivcs
    <3>4. PICK e : e = ev[t]
      OBVIOUS
    <3>5. Owed(e) => Owed(e)'
      BY <1>1, OwedStays
    <3>6. Owed(ev[t]) => Owed(ev[t])'
      BY <2>1, <3>4, <3>5 DEF Owed, EventKey
    <3> QED BY <1>2, <2>1, <2>3, <3>1, <3>2, <3>3, <3>6 DEF CareOf
  <2>4. \/ pc'[t] = "done" /\ answer'[t].status # "staged"
        \/ pc'[t] \in {ResolvedStep(ev[t]), "stage"} /\ UNCHANGED answer
    BY <1>0, <1>7 DEF Check
  <2> QED BY <2>2, <2>3, <2>4
<1>8. CASE \/ Lookup(t) \/ Stage(t) \/ Register(t) \/ Ingest(t) \/ Record(t)
           \/ Store(t) \/ List(t) \/ ListDone(t) \/ Restage(t)
  <2>1. pc'[t] \in {"lookup_staged", "done", "record", "take", "list",
                    "ingest"}
    BY <1>0, <1>8 DEF Lookup, Stage, Register, Ingest, Record, Store, List,
                      ListDone, Restage
  <2>2. pc'[t] # "done" => answer'[t].status # "staged"
    BY <1>0, <1>3, <1>8 DEF Lookup, Stage, Register, Ingest, Record, Store,
                            List, ListDone, Restage
  <2>3. held'[t] => pc'[t] \in {"done", "record"}
    BY <1>0, <1>2, <1>8 DEF Lookup, Stage, Register, Ingest, Record, Store,
                            List, ListDone, Restage, CareOf, job
  <2> QED BY <2>1, <2>2, <2>3 DEF CareOf
<1>9. CASE Take(t)
  BY <1>9, TakeCare
<1> QED BY <1>4, <1>5, <1>6, <1>7, <1>8, <1>9 DEF Step

\* Every staged record was staged before, or is the event a task stages now.
LEMMA StagedFrom ==
  ASSUME [Next]_vars, NEW k \in DOMAIN staging'.byIdempotency
  PROVE  LET rec == staging'.byIdempotency[k]
         IN  \/ /\ k \in DOMAIN staging.byIdempotency
                /\ rec = staging.byIdempotency[k]
             \/ \E t \in Tasks : /\ Stage(t) \/ Restage(t)
                                 /\ rec.event = ev[t]
                                 /\ rec.expires = now + TTL
<1>0. ASSUME NEW st, NEW e, NEW pending, NEW x,
             staging' = stage(st, e, pending, x)
      PROVE  \/ /\ k \in DOMAIN st.byIdempotency
                /\ staging'.byIdempotency[k] = st.byIdempotency[k]
             \/ /\ staging'.byIdempotency[k].event = e
                /\ staging'.byIdempotency[k].expires = x
  <2> DEFINE s == stage(st, e, pending, x)
             j == <<e.tenant, e.key>>
  <2>1. /\ DOMAIN s.byIdempotency = DOMAIN st.byIdempotency \cup {j}
        /\ s.byIdempotency[j].event = e /\ s.byIdempotency[j].expires = x
        /\ \A i \in DOMAIN st.byIdempotency \ {j} :
             s.byIdempotency[i] = st.byIdempotency[i]
    BY DEF stage
  <2> HIDE DEF s, j
  <2>2. staging' = s /\ k \in DOMAIN s.byIdempotency
    BY <1>0 DEF s
  <2> QED BY <2>1, <2>2
<1>1. CASE \E t \in Tasks : Stage(t)
  <2>1. PICK t \in Tasks : Stage(t)
    BY <1>1
  <2> DEFINE st == purge_expired(staging, now)
  <2>2. \A j \in DOMAIN st.byIdempotency :
          /\ j \in DOMAIN staging.byIdempotency
          /\ st.byIdempotency[j] = staging.byIdempotency[j]
    BY DEF purge_expired, Without
  <2>3. staging' = stage(st, ev[t], wait[t], now + TTL)
    BY <2>1 DEF Stage
  <2> HIDE DEF st
  <2> QED BY <1>0, <2>1, <2>2, <2>3
<1>2. CASE \E t \in Tasks : Restage(t)
  <2>1. PICK t \in Tasks : Restage(t)
    BY <1>2
  <2>2. staging' = stage(staging, ev[t], wait[t], now + TTL)
    BY <2>1 DEF Restage
  <2> QED BY <1>0, <2>1, <2>2
<1>3. CASE \E t \in Tasks : Take(t)
  BY <1>3 DEF Take, take, Without
<1>4. CASE Crash
  BY <1>4 DEF Crash, EmptyStore
<1>5. CASE UNCHANGED staging
  BY <1>5
<1>6. \/ UNCHANGED staging \/ Crash
      \/ \E t \in Tasks : Stage(t) \/ Restage(t) \/ Take(t)
  BY DEF Next, Terminated, Step, Lookup, LookupStaged, Enrich, Check, Register,
         Ingest, Record, Store, List, ListDone, CutShort, ReplyLost, Arrive,
         Reject, Tick, vars, service
<1> QED BY <1>1, <1>2, <1>3, <1>4, <1>5, <1>6

\* The event a task stages is owed: by the answer this step gives, or by the
\* one that was given when the event was staged first.
LEMMA StagesOwed ==
  ASSUME TypeInv, AnswersInv, CareInv, NEW t \in Tasks, Stage(t) \/ Restage(t),
         NEW e, e = ev[t]
  PROVE  Owed(e)'
<1>1. CASE Restage(t)
  <2>1. Owed(e) /\ [Next]_vars
    BY <1>1 DEF CareInv, CareOf, Restage, Next, Step
  <2> QED BY <2>1, OwedStays
<1>2. CASE Stage(t)
  <2>1. /\ Pending(req[t]) = e.waits /\ RequestKey(req[t]) = EventKey(e)
        /\ UNCHANGED req
    BY <1>2 DEF CareInv, CareOf, AnswersInv, Truthful, WithEvent, Stage
  <2>2. answer'[t].status = "staged"
    BY <1>2 DEF Stage, Finish, Say, Accepted, TypeInv, TypeOK
  <2>3. Pending(req[t])' = Pending(req[t])
    BY <2>1 DEF Pending, aivcs_pending_correlations,
         hitl_pending_correlations, snapshot_ref_from_aivcs
  <2>4. RequestKey(req[t])' = RequestKey(req[t])
    BY <2>1 DEF RequestKey, BodyTenant
  <2> QED BY <2>1, <2>2, <2>3, <2>4 DEF Owed, EventKey
<1> QED BY <1>1, <1>2

\* So every staged record stays owed to a caller.
LEMMA StagedCareStep ==
  ASSUME TypeInv, AnswersInv, CareInv, [Next]_vars
  PROVE  StagedCare'
<1> SUFFICES ASSUME NEW k \in DOMAIN staging'.byIdempotency,
                    NEW e, e = staging'.byIdempotency[k].event
             PROVE  /\ Owed(e)' /\ Natural(e) /\ e.waits # {}
                    /\ staging'.byIdempotency[k].expires >= TTL
  BY DEF StagedCare, Owed, Natural, EventKey, AivcsForward, ReviewOf,
         snapshot_id_from_event, OrElse
<1>2. CASE /\ k \in DOMAIN staging.byIdempotency
           /\ staging'.byIdempotency[k] = staging.byIdempotency[k]
  <2>1. /\ Owed(e) /\ Natural(e) /\ e.waits # {}
        /\ staging'.byIdempotency[k].expires >= TTL
    BY <1>2 DEF CareInv, StagedCare
  <2>2. Owed(e)'
    BY <2>1, OwedStays
  <2> QED BY <2>1, <2>2
<1>3. CASE \E t \in Tasks : /\ Stage(t) \/ Restage(t)
                            /\ staging'.byIdempotency[k].event = ev[t]
                            /\ staging'.byIdempotency[k].expires = now + TTL
  <2>1. PICK t \in Tasks : /\ Stage(t) \/ Restage(t)
                           /\ e = ev[t]
                           /\ staging'.byIdempotency[k].expires = now + TTL
    BY <1>3
  <2>2. Owed(e)'
    BY <2>1, StagesOwed
  <2>3. Natural(e) /\ e.waits # {}
    BY <2>1 DEF CareInv, CareOf, Stage, Restage
  <2>4. now + TTL >= TTL
    BY BoundsAssumption DEF TypeInv, TypeOK
  <2> QED BY <2>1, <2>2, <2>3, <2>4
<1> QED BY <1>2, <1>3, StagedFrom

\* Whatever is staged or taken is owed, in every run, faults or not.
LEMMA CareInvariant == ReviewsConsistent /\ Spec => []CareInv
<1> SUFFICES ASSUME ReviewsConsistent PROVE Spec => []CareInv
  OBVIOUS
<1>1. Init => CareInv
  BY DEF Init, EmptyStore, CareInv, StagedCare, CareOf, NoAnswer
<1>2. TypeInv /\ AnswersInv /\ WholeInv /\ CareInv /\ [Next]_vars => CareInv'
  <2> SUFFICES ASSUME TypeInv, AnswersInv, WholeInv, CareInv, [Next]_vars,
                      NEW u \in Tasks
               PROVE  CareOf(u)'
    BY StagedCareStep DEF CareInv
  <2>1. CareOf(u)
    BY DEF CareInv
  <2>2. CASE \E t \in Tasks :
               \/ Step(t) \/ CutShort(t) \/ ReplyLost(t)
               \/ \E r \in Requests : Arrive(t, r) \/ Reject(t, r)
    <3>1. PICK t \in Tasks :
               \/ Step(t) \/ CutShort(t) \/ ReplyLost(t)
               \/ \E r \in Requests : Arrive(t, r) \/ Reject(t, r)
      BY <2>2
    <3>2. CASE u = t
      BY <3>1, <3>2, CareStep
    <3>3. CASE u # t
      BY <2>1, <3>1, <3>3, OthersStay, CareOfHolds
    <3> QED BY <3>2, <3>3
  <2>3. CASE Crash
    <3>1. /\ pc'[u] \in {"idle", "done"} /\ ~held'[u]
          /\ answer'[u].status = "staged" => pc'[u] = "done"
      BY <2>1, <2>3 DEF Crash, Running, CareOf, Failed
    <3> QED BY <3>1 DEF CareOf
  <2>4. CASE Tick \/ UNCHANGED vars
    BY <2>1, <2>4, CareOfHolds DEF Tick, vars, job
  <2> QED BY <2>2, <2>3, <2>4 DEF Next, Terminated
<1> QED BY <1>1, <1>2, TypeInvariant, AnswersInvariant, WholeInvariant, PTL
        DEF Spec

\* What an event accepted under k, or another one sent under k, waits for is
\* another tenant's.
Excused(k) ==
  \E u \in Tasks : /\ answer[u].status = "staged" /\ RequestKey(req[u]) = k
                   /\ \E p \in Pending(req[u]) : HeldByOther(k[1], p)

Kept(k) == \/ k \in DOMAIN events \/ k \in DOMAIN staging.byIdempotency
           \/ InHand(k) \/ Excused(k)

\* It then stays another tenant's.
LEMMA ExcusedStays ==
  ASSUME TypeInv, CareInv, [Next]_vars, NEW k, Excused(k)
  PROVE  Excused(k)'
<1>0. PICK u \in Tasks :
        /\ answer[u].status = "staged" /\ RequestKey(req[u]) = k
        /\ \E p \in Pending(req[u]) : HeldByOther(k[1], p)
  BY DEF Excused
<1>1. PICK p \in Pending(req[u]) : HeldByOther(k[1], p)
  BY <1>0
<1>2. UNCHANGED <<answer[u], req[u]>>
  BY <1>0, AcceptedStay
<1>3. HeldByOther(k[1], p)'
  BY <1>1, UpstreamGrows DEF HeldByOther, Resolves, Slot
<1>4. RequestKey(req[u])' = RequestKey(req[u])
  BY <1>2 DEF RequestKey, BodyTenant
<1>5. Pending(req[u])' = Pending(req[u])
  BY <1>2 DEF Pending, aivcs_pending_correlations,
              hitl_pending_correlations, snapshot_ref_from_aivcs
<1> QED BY <1>0, <1>1, <1>2, <1>3, <1>4, <1>5 DEF Excused

\* A taken event refused over what it waits for is excused.
LEMMA RefusedIsExcused ==
  ASSUME NEW e, Owed(e), NEW p \in e.waits, Foreign(e.tenant, p)
  PROVE  Excused(EventKey(e))
BY DEF Owed, Excused, Foreign, EventKey

\* A step that is no fault, in a run without faults, while nothing staged is
\* old enough to be purged.
LEMMA NoFault ==
  ASSUME TypeInv, [Next]_vars, faults' = 0, crashes' = 0, now' < TTL
  PROVE  /\ faults = 0 /\ crashes = 0 /\ now < TTL
         /\ \/ \E t \in Tasks : Step(t)
            \/ \E t \in Tasks, r \in Requests : Arrive(t, r) \/ Reject(t, r)
            \/ Tick \/ UNCHANGED vars
<1>0. faults \in Nat /\ crashes \in Nat /\ now \in Nat /\ TTL \in Nat
  BY BoundsAssumption DEF TypeInv, TypeOK
<1>1. CASE \E t \in Tasks : Step(t)
  BY <1>1 DEF Step, Lookup, LookupStaged, Enrich, Check, Stage, Register,
       Ingest, Record, Store, List, ListDone, Take, Restage, counters, service
<1>2. CASE \E t \in Tasks, r \in Requests : Arrive(t, r) \/ Reject(t, r)
  BY <1>2 DEF Arrive, Reject, counters, service
<1>3. CASE \/ Crash \/ \E t \in Tasks : CutShort(t) \/ ReplyLost(t)
  <2>1. crashes' = crashes + 1 \/ faults' = faults + 1
    BY <1>3 DEF Crash, CutShort, ReplyLost
  <2> QED BY <1>0, <2>1
<1>4. CASE Tick
  <2>1. now' = now + 1 /\ UNCHANGED counters
    BY <1>4 DEF Tick
  <2> QED BY <1>0, <1>4, <2>1 DEF counters
<1>5. CASE UNCHANGED vars
  BY <1>5 DEF vars, counters, service
<1> QED BY <1>1, <1>2, <1>3, <1>4, <1>5 DEF Next, Terminated

\* What a reconcile holds is checked, put back, or forwarded.
LEMMA HandStep ==
  ASSUME TypeInv, AnswersInv, WholeInv, CareInv, NEW t \in Tasks, Step(t),
         pc[t] # "done", held[t], NEW k, EventKey(ev[t]) = k
  PROVE  \/ k \in DOMAIN events' \/ k \in DOMAIN staging'.byIdempotency
         \/ Excused(k)
         \/ /\ pc'[t] \notin {"idle", "done"} /\ held'[t]
            /\ EventKey(ev'[t]) = k
<1> USE DEF Goto, Say, Finish
<1>0. /\ pc \in [Tasks -> Labels] /\ held \in [Tasks -> BOOLEAN]
      /\ ev \in [Tasks -> DfcEvent \cup {NoEvent}]
      /\ CareOf(t) /\ Truthful(t) /\ AllPending(t)
  BY DEF TypeInv, TypeOK, CareInv, AnswersInv, WholeInv
<1>1. CASE Check(t)
  <2>1. /\ Owed(ev[t]) /\ wait[t] = ev[t].waits /\ UNCHANGED <<held, ev>>
    BY <1>0, <1>1 DEF CareOf, AllPending, Check
  <2>2. CASE \E p \in Unresolved(ev[t].tenant, wait[t]) :
               Foreign(ev[t].tenant, p)
    BY <2>1, <2>2, RefusedIsExcused DEF Unresolved
  <2>3. CASE pc'[t] \in {ResolvedStep(ev[t]), "stage"}
    BY <2>1, <2>3, StepLabels DEF EventKey
  <2>4. \/ \E p \in Unresolved(ev[t].tenant, wait[t]) :
             Foreign(ev[t].tenant, p)
        \/ pc'[t] \in {ResolvedStep(ev[t]), "stage"}
    BY <1>0, <1>1 DEF Check
  <2> QED BY <2>2, <2>3, <2>4
<1>2. CASE Enrich(t)
  <2>1. /\ pc[t] = "enrich_resolved" /\ Owed(ev[t]) /\ Natural(ev[t])
        /\ ev[t].waits # {} /\ ev[t].system # "aivcs_api"
        /\ ev[t] \in DfcEvent /\ UNCHANGED held
    BY <1>0, <1>2 DEF CareOf, Enrich, TypeInv, PhaseOK, WithEvent
  <2>2. ReviewOf(ev[t]) \in ev[t].waits
    BY <2>1 DEF Natural
  <2>3. CASE Foreign(ev[t].tenant, ReviewOf(ev[t]))
    BY <2>1, <2>2, <2>3, RefusedIsExcused
  <2>4. CASE ~Foreign(ev[t].tenant, ReviewOf(ev[t]))
    <3>1. pc'[t] = "ingest" /\ ev'[t] = Enriched(ev[t])
      BY <1>0, <1>2, <2>1, <2>4 DEF Enrich
    <3>2. EventKey(Enriched(ev[t])) = k
      BY <2>1, EnrichedNatural
    <3> QED BY <2>1, <3>1, <3>2
  <2> QED BY <2>3, <2>4
<1>3. CASE Restage(t)
  BY <1>3 DEF Restage, stage, EventKey
<1>4. CASE Ingest(t)
  <2>1. ev[t] \in DfcEvent /\ ingest_event(ev[t])
    BY <1>4 DEF Ingest, TypeInv, PhaseOK, WithEvent
  <2> QED BY <2>1, IngestEventType DEF TypeInv, TypeOK
<1>5. CASE Record(t)
  BY <1>0, <1>5 DEF Record, Truthful, upstream
<1> QED BY <1>0, <1>1, <1>2, <1>3, <1>4, <1>5
        DEF CareOf, Step, Lookup, LookupStaged, Stage, Register, Store, List,
            ListDone, Take

\* What is staged stays until it is taken.
LEMMA StagedStaysOrTaken ==
  ASSUME TypeInv, WholeInv, CareInv, now < TTL, NEW t \in Tasks, Step(t),
         NEW k \in DOMAIN staging.byIdempotency
  PROVE  \/ k \in DOMAIN staging'.byIdempotency
         \/ pc'[t] = "check" /\ held'[t] /\ EventKey(ev'[t]) = k
<1>0. /\ pc \in [Tasks -> Labels] /\ held \in [Tasks -> BOOLEAN]
      /\ ev \in [Tasks -> DfcEvent \cup {NoEvent}]
  BY DEF TypeInv, TypeOK
<1>1. CASE Stage(t)
  <2>1. /\ staging.byIdempotency[k].expires >= TTL
        /\ staging.byIdempotency[k].expires \in Nat
        /\ now \in Nat /\ TTL \in Nat
    BY BoundsAssumption
       DEF CareInv, StagedCare, TypeInv, TypeOK, IsStore, StagedRecord
  <2>2. k \notin Expired(staging, now)
    BY <2>1 DEF Expired
  <2>3. k \in DOMAIN purge_expired(staging, now).byIdempotency
    BY <2>2 DEF purge_expired, Without
  <2> QED BY <1>1, <2>3 DEF Stage, stage
<1>2. CASE Restage(t)
  BY <1>2 DEF Restage, stage
<1>3. CASE Take(t)
  <2>1. PICK j \in keys[t] :
          /\ staging' = take(staging, j)
          /\ j \in DOMAIN staging.byIdempotency =>
               /\ ev' = [ev EXCEPT ![t] = staging.byIdempotency[j].event]
               /\ held' = [held EXCEPT ![t] = TRUE]
               /\ pc' = [pc EXCEPT ![t] = "check"]
    BY <1>3 DEF Take, Goto
  <2>2. CASE k # j
    BY <2>1, <2>2 DEF take, Without
  <2>3. CASE k = j
    BY <1>0, <2>1, <2>3 DEF WholeInv, StagedWhole
  <2> QED BY <2>2, <2>3
<1>4. CASE UNCHANGED staging
  BY <1>4
<1> QED BY <1>1, <1>2, <1>3, <1>4 DEF Step, Lookup, LookupStaged, Enrich,
           Check, Register, Ingest, Record, Store, List, ListDone, service

\* What is kept stays kept, if nothing fails or grows too old.
LEMMA KeptStays ==
  ASSUME TypeInv, AnswersInv, WholeInv, CareInv, [Next]_vars,
         faults' = 0, crashes' = 0, now' < TTL, NEW k, Kept(k)
  PROVE  Kept(k)'
<1>1. CASE k \in DOMAIN events
  BY <1>1, UpstreamGrows DEF Kept
<1>2. CASE Excused(k)
  BY <1>2, ExcusedStays DEF Kept
<1>3. CASE k \in DOMAIN staging.byIdempotency
  <2>1. CASE \E t \in Tasks : Step(t)
    <3>1. PICK t \in Tasks : Step(t)
      BY <2>1
    <3>2. \/ k \in DOMAIN staging'.byIdempotency
          \/ pc'[t] = "check" /\ held'[t] /\ EventKey(ev'[t]) = k
      BY <1>3, <3>1, NoFault, StagedStaysOrTaken
    <3> QED BY <3>2 DEF Kept, InHand, Running, EventKey
  <2>2. CASE UNCHANGED staging
    BY <1>3, <2>2 DEF Kept
  <2> QED BY <2>1, <2>2, NoFault DEF Arrive, Reject, Tick, vars, service
<1>4. CASE InHand(k)
  <2>1. PICK t \in Tasks : /\ pc[t] \notin {"idle", "done"} /\ held[t]
                           /\ EventKey(ev[t]) = k
    BY <1>4 DEF InHand, Running
  <2>2. CASE UNCHANGED <<pc[t], held[t], ev[t]>>
    BY <2>1, <2>2 DEF Kept, InHand, Running, EventKey
  <2>3. CASE Step(t)
    <3>1. Excused(k) => Excused(k)'
      BY ExcusedStays
    <3>2. \/ k \in DOMAIN events' \/ k \in DOMAIN staging'.byIdempotency
          \/ Excused(k)
          \/ /\ pc'[t] \notin {"idle", "done"} /\ held'[t]
             /\ EventKey(ev'[t]) = k
      BY <2>1, <2>3, HandStep
    <3> QED BY <3>1, <3>2 DEF Kept, InHand, Running, EventKey
  <2>4. CASE \E u \in Tasks \ {t} :
               Step(u) \/ \E r \in Requests : Arrive(u, r) \/ Reject(u, r)
    BY <2>2, <2>4, OthersStay
  <2>5. ~\E r \in Requests : Arrive(t, r) \/ Reject(t, r)
    BY <2>1 DEF Arrive, Reject
  <2>6. Tick \/ UNCHANGED vars => UNCHANGED <<pc[t], held[t], ev[t]>>
    BY DEF Tick, vars, job
  <2> QED BY <2>2, <2>3, <2>4, <2>5, <2>6, NoFault
<1> QED BY <1>1, <1>2, <1>3, <1>4 DEF Kept

\* A caller told that its event is staged was told so before, or is told so
\* by a step that stages it or finds it staged.
LEMMA NewlyAccepted ==
  ASSUME TypeInv, AnswersInv, CareInv, [Next]_vars, NEW t \in Tasks,
         answer'[t].status = "staged"
  PROVE  /\ UNCHANGED req[t]
         /\ \/ answer[t].status = "staged"
            \/ RequestKey(req[t]) \in DOMAIN staging'.byIdempotency
<1> USE DEF Goto, Say, Finish, Failed, NoAnswer, Correlated, Accepted, Ingested
<1>0. /\ req \in [Tasks -> Requests \cup {None}]
      /\ answer \in [Tasks -> Answers] /\ Truthful(t) /\ CareOf(t)
  BY DEF TypeInv, TypeOK, AnswersInv, CareInv
<1>1. CASE Stage(t)
  BY <1>0, <1>1 DEF Stage, stage, Truthful, WithEvent, EventKey
<1>2. CASE LookupStaged(t)
  BY <1>0, <1>2 DEF LookupStaged, service
<1>3. CASE Crash \/ Tick \/ UNCHANGED vars
  BY <1>0, <1>3 DEF Crash, Tick, vars
<1>4. CASE \E u \in Tasks :
             \/ Step(u) \/ CutShort(u) \/ ReplyLost(u)
             \/ \E r \in Requests : Arrive(u, r) \/ Reject(u, r)
  <2>1. PICK u \in Tasks :
             \/ Step(u) \/ CutShort(u) \/ ReplyLost(u)
             \/ \E r \in Requests : Arrive(u, r) \/ Reject(u, r)
    BY <1>4
  <2>2. CASE u # t
    BY <2>1, <2>2, OthersStay
  <2>3. CASE \/ Lookup(t) \/ Enrich(t) \/ Check(t) \/ Register(t) \/ Ingest(t)
             \/ Record(t) \/ Store(t) \/ List(t) \/ ListDone(t) \/ Take(t)
             \/ Restage(t)
    BY <1>0, <2>3 DEF Lookup, Enrich, Check, Register, Ingest, Record, Store,
                      List, ListDone, Take, Restage
  <2>4. CASE \/ CutShort(t) \/ ReplyLost(t)
             \/ \E r \in Requests : Arrive(t, r) \/ Reject(t, r)
    BY <1>0, <2>4 DEF CutShort, ReplyLost, Arrive, Reject, Truthful
  <2> QED BY <1>1, <1>2, <2>1, <2>2, <2>3, <2>4 DEF Step
<1> QED BY <1>3, <1>4 DEF Next, Terminated

\* What was accepted is stored, staged, in hand or excused, in every run in
\* which nothing fails, restarts, or waits as long as the time to live.
THEOREM AcceptedIsKept == ReviewsConsistent /\ Spec => []AcceptedNotLost
<1> SUFFICES ASSUME ReviewsConsistent PROVE Spec => []AcceptedNotLost
  OBVIOUS
<1>1. Init => AcceptedNotLost
  BY DEF Init, AcceptedNotLost
<1>2. TypeInv /\ AnswersInv /\ WholeInv /\ CareInv /\ AcceptedNotLost
        /\ [Next]_vars => AcceptedNotLost'
  <2> SUFFICES ASSUME TypeInv, AnswersInv, WholeInv, CareInv, AcceptedNotLost,
                      [Next]_vars, faults' = 0, crashes' = 0, now' < TTL,
                      NEW t \in Tasks, answer'[t].status = "staged"
               PROVE  Kept(RequestKey(req[t]))'
    BY DEF AcceptedNotLost, Kept, Excused
  <2>0. PICK k : k = RequestKey(req[t])'
    OBVIOUS
  <2>1. /\ k = RequestKey(req[t])
        /\ \/ answer[t].status = "staged"
           \/ k \in DOMAIN staging'.byIdempotency
    BY <2>0, NewlyAccepted DEF RequestKey, BodyTenant
  <2>2. ASSUME answer[t].status = "staged" PROVE Kept(k)'
    <3>1. pc[t] = "done"
      BY <2>2 DEF CareInv, CareOf
    <3>2. Kept(k)
      BY <2>1, <2>2, <3>1, NoFault DEF AcceptedNotLost, Kept, Excused
    <3> QED BY <3>2, KeptStays
  <2>3. Kept(k)'
    BY <2>1, <2>2 DEF Kept
  <2> QED BY <2>0, <2>3 DEF Kept, InHand, Excused, HeldByOther, Resolves, Slot
<1> QED BY <1>1, <1>2, TypeInvariant, AnswersInvariant, WholeInvariant,
           CareInvariant, PTL DEF Spec

-----------------------------------------------------------------------------
(* Every step brings its handler nearer to its end *)

\* The index files finitely many keys, and no handler has more to take.
FiniteKeys ==
  FiniteIndex(staging) /\ \A t \in Tasks : IsFiniteSet(keys[t])

\* A handler's keys are those it had, some of them, or those it lists.
LEMMA KeysMove ==
  ASSUME TypeInv, [Next]_vars, NEW t \in Tasks
  PROVE  \/ keys'[t] \subseteq keys[t]
         \/ \E p : keys'[t] = keys_for(staging, RequestTenant(t), p)
<1>0. keys \in [Tasks -> SUBSET EventKeys]
  BY DEF TypeInv, TypeOK
<1>1. CASE \E u \in Tasks : List(u) \/ Take(u)
  BY <1>0, <1>1 DEF List, Take
<1>2. CASE \E u \in Tasks :
             \/ Lookup(u) \/ LookupStaged(u) \/ Enrich(u) \/ Check(u)
             \/ Stage(u) \/ Register(u) \/ Ingest(u) \/ Record(u)
             \/ Store(u) \/ ListDone(u) \/ Restage(u)
             \/ CutShort(u) \/ ReplyLost(u)
  BY <1>2 DEF Lookup, LookupStaged, Enrich, Check, Stage, Register, Ingest,
              Record, Store, ListDone, Restage, CutShort, ReplyLost, job
<1>3. CASE \/ \E u \in Tasks, r \in Requests : Arrive(u, r) \/ Reject(u, r)
           \/ Crash \/ Tick \/ UNCHANGED vars
  BY <1>3 DEF Arrive, Reject, Crash, Tick, vars, job
<1> QED BY <1>1, <1>2, <1>3 DEF Next, Terminated, Step

LEMMA FiniteKeysStep ==
  ASSUME TypeInv, FiniteKeys, [Next]_vars
  PROVE  FiniteKeys'
<1>1. FiniteIndex(staging')
  <2>1. \A K : FiniteIndex(Without(staging, K))
    BY WithoutFinite DEF FiniteKeys
  <2>2. \A e, p, x : FiniteIndex(stage(staging, e, p, x))
    BY StageFinite DEF FiniteKeys
  <2>3. \A e, p, x : FiniteIndex(stage(purge_expired(staging, now), e, p, x))
    BY <2>1, StageFinite DEF purge_expired
  <2> QED BY <2>1, <2>2, <2>3, EmptyStoreFinite, StagingMoves DEF FiniteKeys
<1>2. ASSUME NEW t \in Tasks PROVE IsFiniteSet(keys'[t])
  <2>1. CASE keys'[t] \subseteq keys[t]
    BY <2>1, FS_Subset DEF FiniteKeys
  <2>2. ASSUME NEW p, keys'[t] = keys_for(staging, RequestTenant(t), p)
        PROVE  IsFiniteSet(keys'[t])
    BY <2>2, FS_EmptySet DEF FiniteKeys, FiniteIndex, keys_for, FiledUnder
  <2> QED BY <2>1, <2>2, KeysMove
<1> QED BY <1>1, <1>2 DEF FiniteKeys

\* The steps on a request's own event, and on an event taken from staging.
LEMMA EventStepsNearer ==
  ASSUME TypeInv, NEW t \in Tasks,
         \/ Lookup(t) \/ LookupStaged(t) \/ Enrich(t) \/ Check(t) \/ Stage(t)
         \/ Register(t) \/ Ingest(t) \/ Restage(t)
  PROVE  Nearer(t)
<1>0. /\ pc \in [Tasks -> Labels] /\ held \in [Tasks -> BOOLEAN]
      /\ todo \in [Tasks -> Seq(Lookups)]
      /\ keys \in [Tasks -> SUBSET EventKeys]
  BY DEF TypeInv, TypeOK
<1>1. CASE Lookup(t)
  BY <1>0, <1>1 DEF Lookup, Goto, Say, Finish, Nearer, AtOwn, Awaits, job
<1>2. CASE LookupStaged(t)
  <2>1. CASE pc'[t] = "done"
    BY <2>1 DEF Nearer
  <2>2. CASE pc'[t] # "done"
    <3>1. /\ pc[t] = "lookup_staged" /\ UNCHANGED <<held, todo, keys>>
          /\ pc'[t] \in {"register", "ingest", "enrich", "check"}
      BY <1>0, <1>2, <2>2, StepLabels DEF LookupStaged, Goto, Say, Finish
    <3> QED BY <1>0, <3>1 DEF Nearer, AtOwn, Awaits
  <2> QED BY <2>1, <2>2
<1>3. CASE Enrich(t)
  <2>1. CASE pc'[t] = "done"
    BY <2>1 DEF Nearer
  <2>2. CASE pc'[t] # "done"
    <3>1. /\ pc[t] \in {"enrich", "enrich_resolved"}
          /\ UNCHANGED <<held, todo, keys>>
          /\ \/ pc'[t] = "ingest"
             \/ pc[t] = "enrich" /\ pc'[t] = "check"
      BY <1>0, <1>3, <2>2, StepLabels DEF Enrich, Goto, Say, Finish
    <3> QED BY <1>0, <3>1 DEF Nearer, AtOwn, Awaits
  <2> QED BY <2>1, <2>2
<1>4. CASE Check(t)
  <2>1. CASE pc'[t] = "done"
    BY <2>1 DEF Nearer
  <2>2. CASE pc'[t] # "done"
    <3>1. /\ pc[t] = "check" /\ UNCHANGED <<held, todo, keys>>
          /\ pc'[t] \in {"register", "ingest", "enrich_resolved", "stage"}
      BY <1>0, <1>4, <2>2, StepLabels DEF Check, Goto, Say, Finish
    <3> QED BY <1>0, <3>1 DEF Nearer, AtOwn, Awaits
  <2> QED BY <2>1, <2>2
<1>5. CASE Stage(t)
  BY <1>0, <1>5 DEF Stage, Goto, Say, Finish, Nearer
<1>6. CASE Register(t)
  BY <1>0, <1>6 DEF Register, Goto, Say, Finish, Nearer, AtOwn, Awaits, job
<1>7. CASE Ingest(t)
  BY <1>0, <1>7 DEF Ingest, Goto, Nearer, AtOwn, Awaits
<1>8. CASE Restage(t)
  BY <1>0, <1>8 DEF Restage, Goto, Nearer, AtOwn, Awaits
<1> QED BY <1>1, <1>2, <1>3, <1>4, <1>5, <1>6, <1>7, <1>8

\* The steps that store, list and take.
LEMMA ReconcileStepsNearer ==
  ASSUME TypeInv, FiniteKeys, NEW t \in Tasks,
         Record(t) \/ Store(t) \/ List(t) \/ ListDone(t) \/ Take(t)
  PROVE  Nearer(t)
<1>0. /\ pc \in [Tasks -> Labels] /\ held \in [Tasks -> BOOLEAN]
      /\ todo \in [Tasks -> Seq(Lookups)]
      /\ keys \in [Tasks -> SUBSET EventKeys]
  BY DEF TypeInv, TypeOK
<1>1. CASE Record(t)
  <2>1. CASE held[t]
    BY <1>0, <1>1, <2>1 DEF Record, Goto, Nearer, AtOwn, Awaits
  <2>2. CASE ~held[t]
    BY <1>0, <1>1, <2>2 DEF Record, Goto, Say, Nearer, AtOwn
  <2> QED BY <2>1, <2>2
<1>2. CASE Store(t)
  BY <1>0, <1>2 DEF Store, Goto, Say, Finish, Nearer, AtOwn
<1>3. CASE List(t)
  <2>1. /\ pc[t] = "list" /\ pc'[t] = "take" /\ todo'[t] = Tail(todo[t])
        /\ todo[t] \in Seq(Lookups)
    BY <1>0, <1>3 DEF List, Goto
  <2>2. todo[t] # <<>>
    BY <2>1 DEF TypeInv, PhaseOK
  <2>3. Len(todo'[t]) < Len(todo[t])
    BY <2>1, <2>2
  <2>4. AtOwn(t)' = AtOwn(t)
    BY <2>1 DEF AtOwn
  <2> QED BY <2>3, <2>4 DEF Nearer
<1>4. CASE ListDone(t)
  <2>1. /\ pc[t] = "take" /\ pc'[t] \in {"done", "list"}
        /\ UNCHANGED <<todo, keys>>
    BY <1>0, <1>4 DEF ListDone, Goto, job
  <2> QED BY <2>1 DEF Nearer, AtOwn, Awaits
<1>5. CASE Take(t)
  <2>1. PICK k \in keys[t] : keys' = [keys EXCEPT ![t] = keys[t] \ {k}]
    BY <1>5 DEF Take
  <2>2. keys'[t] = keys[t] \ {k}
    BY <1>0, <2>1
  <2>3. IsFiniteSet(keys[t])
    BY DEF FiniteKeys
  <2>4. /\ Cardinality(keys'[t]) = Cardinality(keys[t]) - 1
        /\ Cardinality(keys[t]) \in Nat
    BY <2>2, <2>3, FS_RemoveElement, FS_CardinalityType
  <2>5. Cardinality(keys'[t]) < Cardinality(keys[t])
    BY <2>4
  <2>6. pc[t] = "take" /\ todo'[t] = todo[t]
    BY <1>5 DEF Take
  <2>7. \/ pc'[t] = "take"
        \/ pc'[t] = "check" /\ held'[t]
    BY <1>0, <1>5, <2>6 DEF Take, Goto
  <2>8. AtOwn(t)' = AtOwn(t)
    BY <2>6, <2>7 DEF AtOwn
  <2> QED BY <2>5, <2>6, <2>8 DEF Nearer
<1> QED BY <1>1, <1>2, <1>3, <1>4, <1>5

\* Every request runs out of steps to take, whatever interleaves with it: the
\* measure behind EveryRequestAnswered, which a test could only sample.  What
\* remains to liveness is that a handler with a step to take is scheduled.
THEOREM AlwaysRunsDown == Spec => StepsRunDown
<1>1. Init => FiniteKeys
  BY FS_EmptySet, EmptyStoreFinite DEF Init, FiniteKeys
<1>2. TypeInv /\ FiniteKeys /\ [Next]_vars => FiniteKeys'
  BY FiniteKeysStep
<1>3. TypeInv /\ FiniteKeys /\ [Next]_vars =>
        [\A t \in Running : Moves(t) => Nearer(t)]_vars
  <2> SUFFICES ASSUME TypeInv, FiniteKeys, Next, NEW t \in Running, Moves(t)
               PROVE  Nearer(t)
    BY DEF Moves, vars, job
  <2>0. t \in Tasks /\ pc[t] \notin {"idle", "done"}
    BY DEF Running
  <2>1. CASE Step(t)
    BY <2>0, <2>1, EventStepsNearer, ReconcileStepsNearer DEF Step
  <2>2. CASE CutShort(t) \/ ReplyLost(t)
    BY <2>0, <2>2 DEF CutShort, ReplyLost, Finish, Goto, Nearer, TypeInv, TypeOK
  <2>3. CASE Crash
    BY <2>0, <2>3 DEF Crash, Nearer
  <2>4. ASSUME NEW u \in Tasks, u # t,
               \/ Step(u) \/ CutShort(u) \/ ReplyLost(u)
               \/ \E r \in Requests : Arrive(u, r) \/ Reject(u, r)
        PROVE  FALSE
    <3>1. UNCHANGED <<pc[t], ev[t], held[t], wait[t], todo[t], keys[t]>>
      BY <2>0, <2>4, OthersStay, OthersKeep
    <3> QED BY <3>1 DEF Moves
  <2>5. ASSUME NEW r \in Requests, Arrive(t, r) \/ Reject(t, r) PROVE FALSE
    BY <2>0, <2>5 DEF Arrive, Reject
  <2>6. CASE Tick \/ Terminated
    BY <2>6 DEF Tick, Terminated, vars, job, Moves
  <2> QED BY <2>1, <2>2, <2>3, <2>4, <2>5, <2>6 DEF Next
<1> QED BY <1>1, <1>2, <1>3, TypeInvariant, PTL DEF Spec, StepsRunDown

-----------------------------------------------------------------------------
(* The counter keeps up *)

\* Counting is exact arithmetic only over finite sets.
CountedInv ==
  /\ IsFiniteSet(DOMAIN events) /\ IsFiniteSet(AtRecord)
  /\ CounterKeepsUp

\* A step of t ingests one event at most, and then has it to count or has lost
\* it; what it leaves uncounted it has counted or lost.
LEMMA CountedMoves ==
  ASSUME TypeInv, NEW t \in Tasks, Step(t) \/ CutShort(t) \/ ReplyLost(t)
  PROVE  /\ UNCHANGED crashes
         /\ \/ /\ pc[t] = "ingest" /\ UNCHANGED ingested
               /\ \E k : DOMAIN events' = DOMAIN events \cup {k}
               /\ \/ AtRecord' = AtRecord \cup {t} /\ UNCHANGED faults
                  \/ AtRecord' = AtRecord /\ faults' = faults + 1
            \/ /\ pc[t] = "record" /\ AtRecord' = AtRecord \ {t}
               /\ UNCHANGED events
               /\ \/ ingested' = ingested + 1 /\ UNCHANGED faults
                  \/ UNCHANGED ingested /\ faults' = faults + 1
            \/ /\ AtRecord' = AtRecord /\ UNCHANGED <<events, ingested>>
               /\ faults' \in {faults, faults + 1}
<1>0. /\ pc \in [Tasks -> Labels] /\ faults \in Nat /\ ingested \in Nat
      /\ \A u \in Tasks : u # t => pc'[u] = pc[u]
  BY OthersStay DEF TypeInv, TypeOK
<1>1. CASE Ingest(t)
  <2>1. AtRecord' = AtRecord \cup {t}
    BY <1>0, <1>1 DEF Ingest, Goto, AtRecord
  <2>2. \E k : DOMAIN events' = DOMAIN events \cup {k}
    BY <1>1 DEF Ingest, ingest_event, Overwritten
  <2> QED BY <1>1, <2>1, <2>2 DEF Ingest, service, counters
<1>2. CASE Record(t)
  <2>1. AtRecord' = AtRecord \ {t}
    BY <1>0, <1>2 DEF Record, Goto, AtRecord
  <2> QED BY <1>2, <2>1 DEF Record, Count, upstream, counters
<1>3. CASE CutShort(t)
  <2>1. AtRecord' = AtRecord \ {t} /\ (pc[t] # "record" => AtRecord' = AtRecord)
    BY <1>0, <1>3 DEF CutShort, Finish, Goto, AtRecord
  <2> QED BY <1>3, <2>1 DEF CutShort, upstream, service
<1>4. CASE ReplyLost(t)
  <2>1. /\ AtRecord' = AtRecord \ {t}
        /\ pc[t] # "record" => AtRecord' = AtRecord
        /\ faults' = faults + 1 /\ UNCHANGED <<ingested, crashes>>
    BY <1>0, <1>4 DEF ReplyLost, Finish, Goto, AtRecord
  <2>2. \/ pc[t] = "ingest" /\ \E k : DOMAIN events' = DOMAIN events \cup {k}
        \/ pc[t] \in {"store", "register", "record"} /\ UNCHANGED events
    BY <1>4 DEF ReplyLost, LostWrite, ingest_event, store_correlation,
                Overwritten, upstream
  <2> QED BY <2>1, <2>2
<1>5. CASE /\ Step(t) /\ ~Ingest(t) /\ ~Record(t)
  <2>1. AtRecord' = AtRecord
    BY <1>0, <1>5, StepLabels
       DEF Step, Lookup, LookupStaged, Enrich, Check, Stage, Register, Store,
           List, ListDone, Take, Restage, Goto, Finish, AtRecord
  <2> QED BY <1>5, <2>1
          DEF Step, Lookup, LookupStaged, Enrich, Check, Stage, Register,
              Store, List, ListDone, Take, Restage, upstream, service,
              counters, store_correlation
<1> QED BY <1>1, <1>2, <1>3, <1>4, <1>5

\* A step keeps the balance.
LEMMA CountedStep ==
  ASSUME TypeInv, CountedInv, NEW t \in Tasks,
         Step(t) \/ CutShort(t) \/ ReplyLost(t)
  PROVE  CountedInv'
<1> DEFINE D == Cardinality(DOMAIN events)
           R == Cardinality(AtRecord)
<1>0. /\ ingested \in Nat /\ faults \in Nat /\ crashes \in Nat
      /\ D \in Nat /\ R \in Nat
      /\ crashes = 0 => D <= ingested + R + faults
  BY FS_CardinalityType DEF TypeInv, TypeOK, CountedInv, CounterKeepsUp
<1>1. /\ IsFiniteSet(AtRecord \cup {t}) /\ IsFiniteSet(AtRecord \ {t})
      /\ Cardinality(AtRecord \cup {t}) = IF t \in AtRecord THEN R ELSE R + 1
      /\ Cardinality(AtRecord \ {t}) = IF t \in AtRecord THEN R - 1 ELSE R
  BY FS_AddElement, FS_RemoveElement DEF CountedInv
<1>2. CASE /\ pc[t] = "ingest" /\ UNCHANGED ingested
           /\ \E k : DOMAIN events' = DOMAIN events \cup {k}
           /\ \/ AtRecord' = AtRecord \cup {t} /\ UNCHANGED faults
              \/ AtRecord' = AtRecord /\ faults' = faults + 1
  <2>1. PICK k : DOMAIN events' = DOMAIN events \cup {k}
    BY <1>2
  <2>2. /\ IsFiniteSet(DOMAIN events')
        /\ Cardinality(DOMAIN events') \in {D, D + 1}
    BY <2>1, FS_AddElement DEF CountedInv
  <2>3. t \notin AtRecord
    BY <1>2 DEF AtRecord
  <2>4. IsFiniteSet(AtRecord') /\ UNCHANGED crashes
    BY <1>1, <1>2, CountedMoves DEF CountedInv
  <2>5. Cardinality(AtRecord') + faults' = R + faults + 1
    <3>1. CASE AtRecord' = AtRecord \cup {t} /\ UNCHANGED faults
      <4>1. Cardinality(AtRecord') = R + 1
        BY <1>1, <2>3, <3>1
      <4> QED BY <1>0, <3>1, <4>1
    <3>2. CASE AtRecord' = AtRecord /\ faults' = faults + 1
      <4>1. Cardinality(AtRecord') = R
        BY <3>2
      <4> QED BY <1>0, <3>2, <4>1
    <3> QED BY <1>2, <3>1, <3>2
  <2>6. Cardinality(AtRecord') \in Nat /\ faults' \in Nat
    BY <1>0, <1>2, <2>4, FS_CardinalityType
  <2> HIDE DEF D, R
  <2>7. crashes' = 0 =>
          Cardinality(DOMAIN events')
            <= ingested' + Cardinality(AtRecord') + faults'
    BY <1>0, <1>2, <2>2, <2>4, <2>5, <2>6
  <2> QED BY <2>2, <2>4, <2>7 DEF CountedInv, CounterKeepsUp
<1>3. CASE /\ pc[t] = "record" /\ AtRecord' = AtRecord \ {t}
           /\ UNCHANGED events
           /\ \/ ingested' = ingested + 1 /\ UNCHANGED faults
              \/ UNCHANGED ingested /\ faults' = faults + 1
  <2>1. t \in AtRecord /\ UNCHANGED crashes
    BY <1>3, CountedMoves DEF AtRecord
  <2> QED BY <1>0, <1>1, <1>3, <2>1 DEF CountedInv, CounterKeepsUp
<1>4. CASE /\ AtRecord' = AtRecord /\ UNCHANGED <<events, ingested>>
           /\ faults' \in {faults, faults + 1}
  <2>1. UNCHANGED crashes
    BY CountedMoves
  <2> QED BY <1>0, <1>4, <2>1 DEF CountedInv, CounterKeepsUp
<1> QED BY <1>2, <1>3, <1>4, CountedMoves

\* Over any number of handlers at once, with calls failing and replies lost,
\* no event data-fabric has taken in since the process started goes uncounted
\* but those whose handler was cut short or lost its reply.
THEOREM CounterAlwaysKeepsUp == Spec => []CounterKeepsUp
<1>1. Init => CountedInv
  <2> SUFFICES ASSUME Init PROVE CountedInv
    OBVIOUS
  <2>1. DOMAIN events = {} /\ AtRecord = {} /\ ingested = 0 /\ faults = 0
    BY DEF Init, UpstreamInit, AtRecord
  <2> QED BY <2>1, FS_EmptySet DEF CountedInv, CounterKeepsUp
<1>2. TypeInv /\ CountedInv /\ [Next]_vars => CountedInv'
  <2> SUFFICES ASSUME TypeInv, CountedInv, [Next]_vars PROVE CountedInv'
    OBVIOUS
  <2>1. CASE \E t \in Tasks, r \in Requests : Arrive(t, r) \/ Reject(t, r)
    <3>1. AtRecord' = AtRecord
      BY <2>1, OthersStay
         DEF Arrive, Reject, Goto, Finish, AtRecord, TypeInv, TypeOK
    <3> QED BY <2>1, <3>1 DEF Arrive, Reject, CountedInv, CounterKeepsUp,
                              upstream, service, counters
  <2>2. CASE Tick \/ UNCHANGED vars
    BY <2>2 DEF Tick, vars, CountedInv, CounterKeepsUp, AtRecord, upstream,
                service, counters
  <2>3. CASE Crash
    <3>1. crashes' # 0 /\ AtRecord' \subseteq AtRecord /\ UNCHANGED events
      BY <2>3 DEF Crash, AtRecord, Running, upstream, TypeInv, TypeOK
    <3> QED BY <3>1, FS_Subset DEF CountedInv, CounterKeepsUp
  <2> QED BY <2>1, <2>2, <2>3, CountedStep DEF Next, Terminated
<1>3. CountedInv => CounterKeepsUp
  BY DEF CountedInv
<1> QED BY <1>1, <1>2, <1>3, TypeInvariant, PTL DEF Spec

-----------------------------------------------------------------------------
(* The service implements EventLedger: storing a correlation is a Link, the *)
(* first ingest under a key an Append, an answer "ingested" a Tell, and     *)
(* every other step changes nothing of the ledger.                          *)

\* What task t's caller has been told of after a step that leaves its handler
\* and its answer where they are is what it was before.
LEMMA ToldFrame ==
  ASSUME NEW t \in Tasks, pc'[t] = pc[t], answer'[t] = answer[t]
  PROVE  Told'[t] = Told[t]
BY DEF Told

\* A task that stops with anything but an ingested event tells nobody of one.
LEMMA ToldNothing ==
  ASSUME NEW t \in Tasks, pc[t] # "done",
         pc'[t] # "done" \/ answer'[t].status # "ingested"
  PROVE  Told'[t] = Told[t]
BY DEF Told

\* A step tells no caller of an event, or one caller of one and leaves
\* data-fabric alone.
LEMMA TaskTells ==
  ASSUME TypeInv, NEW t \in Tasks,
         \/ Step(t) \/ CutShort(t) \/ ReplyLost(t)
         \/ \E r \in Requests : Arrive(t, r) \/ Reject(t, r)
  PROVE  \/ Told'[t] = Told[t]
         \/ /\ pc[t] # "done" /\ pc'[t] = "done"
            /\ answer'[t].status = "ingested"
            /\ UNCHANGED upstream
<1>0. pc \in [Tasks -> Labels] /\ answer \in [Tasks -> Answers]
  BY DEF TypeInv, TypeOK
<1>1. pc[t] # "done"
  BY DEF Step, Lookup, LookupStaged, Enrich, Check, Stage, Register, Ingest,
         Record, Store, List, ListDone, Take, Restage, CutShort, Running,
         ReplyLost, LostWrite, Arrive, Reject
<1>2. CASE UNCHANGED upstream
  BY <1>1, <1>2, ToldNothing
<1>3. CASE Store(t) \/ Register(t) \/ Ingest(t)
  <2>1. pc'[t] # "done" \/ answer'[t].status # "ingested"
    BY <1>0, <1>3 DEF Store, Register, Ingest, Goto, Say, Finish, Correlated,
                      Failed
  <2> QED BY <1>1, <2>1, ToldNothing
<1>4. CASE ReplyLost(t)
  <2>1. answer'[t].status # "ingested"
    BY <1>0, <1>4 DEF ReplyLost, Finish, Say, Failed
  <2> QED BY <1>1, <2>1, ToldNothing
<1>5. CASE \/ Lookup(t) \/ LookupStaged(t) \/ Enrich(t) \/ Check(t)
           \/ Stage(t) \/ Record(t) \/ List(t) \/ ListDone(t) \/ Take(t)
           \/ Restage(t) \/ CutShort(t)
           \/ \E r \in Requests : Arrive(t, r) \/ Reject(t, r)
  <2>1. UNCHANGED upstream
    BY <1>5 DEF Lookup, LookupStaged, Enrich, Check, Stage, Record, List,
                ListDone, Take, Restage, CutShort, Arrive, Reject
  <2> QED BY <1>2, <2>1
<1> QED BY <1>3, <1>4, <1>5 DEF Step

\* The same of every step, for all callers at once.
LEMMA ToldMoves ==
  ASSUME TypeInv, [Next]_vars
  PROVE  \/ Told' = Told
         \/ \E t \in Tasks :
              /\ Told[t] = None
              /\ pc'[t] = "done" /\ answer'[t].status = "ingested"
              /\ Told' = [Told EXCEPT ![t] = answer'[t].event]
              /\ UNCHANGED upstream
<1>0. Told = [t \in Tasks |-> Told[t]] /\ Told' = [t \in Tasks |-> Told'[t]]
  BY DEF Told
<1>1. ASSUME NEW t \in Tasks,
             \/ Step(t) \/ CutShort(t) \/ ReplyLost(t)
             \/ \E r \in Requests : Arrive(t, r) \/ Reject(t, r)
      PROVE  \/ Told' = Told
             \/ /\ Told[t] = None
                /\ pc'[t] = "done" /\ answer'[t].status = "ingested"
                /\ Told' = [Told EXCEPT ![t] = answer'[t].event]
                /\ UNCHANGED upstream
  <2>1. \A u \in Tasks : u # t => Told'[u] = Told[u]
    BY <1>1, OthersStay, ToldFrame
  <2>2. CASE Told'[t] = Told[t]
    BY <1>0, <2>1, <2>2
  <2>3. CASE /\ pc[t] # "done" /\ pc'[t] = "done"
             /\ answer'[t].status = "ingested"
             /\ UNCHANGED upstream
    <3>1. Told[t] = None /\ Told'[t] = answer'[t].event
      BY <2>3 DEF Told
    <3> QED BY <1>0, <2>1, <2>3, <3>1
  <2> QED BY <1>1, <2>2, <2>3, TaskTells
<1>2. CASE Crash
  <2>1. \A t \in Tasks : Told'[t] = Told[t]
    <3> SUFFICES ASSUME NEW t \in Tasks PROVE Told'[t] = Told[t]
      OBVIOUS
    <3>1. CASE t \in Running
      BY <1>2, <3>1, ToldNothing DEF Crash, Running, Failed
    <3>2. CASE t \notin Running
      BY <1>2, <3>2, ToldFrame DEF Crash
    <3> QED BY <3>1, <3>2
  <2> QED BY <1>0, <2>1
<1>3. CASE Tick \/ UNCHANGED vars
  BY <1>3 DEF Tick, vars, Told
<1> QED BY <1>1, <1>2, <1>3 DEF Next, Terminated

\* A step that tells a caller of an event is a Tell: the event is in the
\* ledger.
LEMMA TellStep ==
  ASSUME AnswersInv', NEW t \in Tasks, Told[t] = None, UNCHANGED upstream,
         pc'[t] = "done", answer'[t].status = "ingested",
         Told' = [Told EXCEPT ![t] = answer'[t].event]
  PROVE  Ledger!Tell
<1>1. PICK k \in DOMAIN events' : answer'[t].event = events'[k]
  BY DEF AnswersInv, Truthful
<1> QED BY <1>1 DEF Ledger!Tell, upstream

\* Storing a correlation is a Link.
LEMMA LinkStep ==
  ASSUME TypeInv, [Next]_vars, TenantExclusive', Told' = Told,
         NEW rec \in CorrelationRecord, store_correlation(rec)
  PROVE  Ledger!Link
<1>1. Ledger!NotShared(DOMAIN correlations')
  BY DEF Ledger!NotShared, TenantExclusive
<1> QED BY <1>1, UpstreamGrows DEF Ledger!Link, store_correlation

\* Ingesting an event is an Append, or nothing when its key has one already.
LEMMA AppendStep ==
  ASSUME TypeInv, DependencyInv, Told' = Told,
         NEW t \in Tasks, pc[t] = "ingest", ev[t] \in DfcEvent,
         ingest_event(ev[t])
  PROVE  Ledger!Append \/ UNCHANGED Ledger!ledgerVars
<1> DEFINE k == EventKey(ev[t])
<1>0. UpstreamTypeOK
  BY DEF TypeInv, TypeOK
<1>1. CASE k \in DOMAIN events
  <2>1. events' = events
    BY <1>0, <1>1 DEF ingest_event, Overwritten, Stored, UpstreamTypeOK
  <2> QED BY <2>1 DEF ingest_event, Ledger!ledgerVars
<1>2. CASE k \notin DOMAIN events
  <2>1. /\ DOMAIN events' = DOMAIN events \cup {k}
        /\ events' = [j \in DOMAIN events \cup {k} |->
                        IF j = k THEN ev[t] ELSE events[j]]
    BY <1>2 DEF ingest_event, Overwritten, Stored
  <2>2. events'[k] = ev[t] /\ k \in DOMAIN events' \ DOMAIN events
    BY <1>2, <2>1
  <2>3. Ledger!MayAppend(ev[t])
    BY DEF DependencyInv, Patient, WaitsOnlyFor, Resolves, Slot,
           Ledger!MayAppend
  <2>4. k = <<ev[t].tenant, ev[t].key>>
    BY DEF EventKey
  <2>5. events' = [j \in DOMAIN events \cup {k} |->
                     IF j = k THEN events'[k] ELSE events[j]]
    BY <2>1, <2>2
  <2>6. UNCHANGED <<DOMAIN correlations, Told>>
    BY DEF ingest_event
  <2> HIDE DEF k
  <2> QED BY <2>2, <2>3, <2>4, <2>5, <2>6 DEF Ledger!Append
<1> QED BY <1>1, <1>2

\* Every step of the service is a step of the ledger, or changes nothing of it.
LEMMA LedgerStep ==
  ASSUME TypeInv, DependencyInv, [Next]_vars, TenantExclusive', AnswersInv'
  PROVE  [Ledger!Next]_(Ledger!ledgerVars)
<1>1. CASE Told' = Told /\ UNCHANGED upstream
  BY <1>1 DEF Ledger!ledgerVars, upstream
<1>2. CASE Told' = Told /\ \E rec \in CorrelationRecord : store_correlation(rec)
  BY <1>2, LinkStep DEF Ledger!Next
<1>3. CASE /\ Told' = Told
           /\ \E t \in Tasks : /\ pc[t] = "ingest" /\ ev[t] \in DfcEvent
                               /\ ingest_event(ev[t])
  BY <1>3, AppendStep DEF Ledger!Next
<1>4. CASE Told' # Told
  BY <1>4, ToldMoves, TellStep DEF Ledger!Next
<1> QED BY <1>1, <1>2, <1>3, <1>4, UpstreamMoves

\* The service implements EventLedger: a ledger that only grows, each event
\* after what it depends on, links never withdrawn or shared, and callers told
\* what the ledger says, under any interleaving, failure and restart.
THEOREM ImplementsLedger == ReviewsConsistent /\ Spec => KeepsLedger
<1>1. Init => Ledger!Init
  BY DEF Init, UpstreamInit, Ledger!Init, Told, NoAnswer
<1>2. /\ TypeInv /\ DependencyInv /\ [Next]_vars
      /\ TenantExclusive' /\ AnswersInv'
      => [Ledger!Next]_(Ledger!ledgerVars)
  BY LedgerStep
<1> QED BY <1>1, <1>2, TypeInvariant, DependencyInvariant, TenantsApart,
           AnswersInvariant, PTL DEF Spec, KeepsLedger, Ledger!Spec
=============================================================================
