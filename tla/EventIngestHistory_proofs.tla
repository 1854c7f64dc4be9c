---------------------- MODULE EventIngestHistory_proofs ----------------------
(****************************************************************************)
(* What EventIngest keeps however many handlers run at once, said with the  *)
(* history variables of EventIngestHistory: the counter is exact at rest    *)
(* unless two requests raced for one new key, and no staged event is left   *)
(* behind by the correlation it waited for but at the moments that history  *)
(* names.  There is no premise on the requests.                             *)
(****************************************************************************)
EXTENDS EventIngestSafety_proofs, EventIngestHistory

\* History is only written: its steps are the service's.
LEMMA HistoryOnly == HistorySpec => Spec
<1>1. HistoryInit => Init
  BY DEF HistoryInit
<1>2. [HistoryNext]_hvars => [Next]_vars
  BY DEF HistoryNext, hvars
<1> QED BY <1>1, <1>2, PTL DEF HistorySpec, Spec

-----------------------------------------------------------------------------
(* Steps *)

\* Nothing was cut short or restarted, and the backend has forgotten nothing.
Undisturbed ==
  /\ faults = 0 /\ crashes = 0
  /\ Backend = "data_fabric" \/ now < TTL

\* A step that leaves the service undisturbed is a handler's, an arrival, the
\* clock's, or none, and found it undisturbed.
LEMMA CalmStep ==
  ASSUME TypeInv, [Next]_vars, Undisturbed'
  PROVE  /\ Undisturbed
         /\ \/ \E t \in Tasks : Step(t)
            \/ \E t \in Tasks, r \in Requests : Arrive(t, r) \/ Reject(t, r)
            \/ Tick \/ UNCHANGED vars
<1>0. faults \in Nat /\ crashes \in Nat /\ now \in Nat /\ TTL \in Nat
  BY BoundsAssumption DEF TypeInv, TypeOK
<1>1. CASE \E t \in Tasks : Step(t)
  BY <1>1 DEF Step, Lookup, LookupStaged, Enrich, Check, Stage, Register,
       Ingest, Record, Store, List, ListDone, Take, Restage, counters,
       service, Undisturbed
<1>2. CASE \E t \in Tasks, r \in Requests : Arrive(t, r) \/ Reject(t, r)
  BY <1>2 DEF Arrive, Reject, counters, service, Undisturbed
<1>3. CASE \/ Crash \/ \E t \in Tasks : CutShort(t) \/ ReplyLost(t)
  <2>1. crashes' = crashes + 1 \/ faults' = faults + 1
    BY <1>3 DEF Crash, CutShort, ReplyLost
  <2> QED BY <1>0, <2>1 DEF Undisturbed
<1>4. CASE Tick
  <2>1. now' = now + 1 /\ UNCHANGED counters
    BY <1>4 DEF Tick
  <2>2. now' < TTL => now < TTL
    BY <1>0, <2>1
  <2> QED BY <1>4, <2>1, <2>2 DEF counters, Undisturbed
<1>5. CASE UNCHANGED vars
  BY <1>5 DEF vars, counters, service, Undisturbed
<1> QED BY <1>1, <1>2, <1>3, <1>4, <1>5 DEF Next, Terminated

\* What is in the staging store after a step was in it, or was carried there.
LEMMA StagingAfter ==
  ASSUME NEW t \in Tasks, Step(t)
  PROVE  DOMAIN staging'.byIdempotency \subseteq
           DOMAIN staging.byIdempotency
             \cup {EventKey(ev[u]) : u \in {v \in {t} : pc[v] = "stage"}}
<1>1. CASE Stage(t) \/ Restage(t)
  BY <1>1 DEF Stage, Restage, stage, purge_expired, Without, EventKey
<1>2. CASE Take(t)
  BY <1>2 DEF Take, take, Without
<1>3. CASE UNCHANGED staging
  BY <1>3
<1> QED BY <1>1, <1>2, <1>3 DEF Step, Lookup, LookupStaged, Enrich,
           Check, Register, Ingest, Record, Store, List, ListDone, service

\* A step ingests no event but the one in hand.
LEMMA EventsAfter ==
  ASSUME TypeInv, NEW t \in Tasks, Step(t)
  PROVE  /\ DOMAIN events \subseteq DOMAIN events'
         /\ DOMAIN events' \subseteq DOMAIN events
              \cup {EventKey(ev[u]) : u \in {v \in {t} : pc[v] = "ingest"}}
<1>1. CASE Ingest(t)
  <2>1. ev[t] \in DfcEvent /\ ingest_event(ev[t]) /\ pc[t] = "ingest"
    BY <1>1 DEF Ingest, TypeInv, PhaseOK, WithEvent
  <2>2. DOMAIN events' = DOMAIN events \cup {EventKey(ev[t])}
    BY <2>1, IngestEventType DEF TypeInv, TypeOK
  <2> QED BY <2>1, <2>2
<1>2. CASE ~Ingest(t)
  BY <1>2 DEF Step, Lookup, LookupStaged, Enrich, Check, Stage, Register,
       Record, Store, List, ListDone, Take, Restage, upstream,
       store_correlation
<1> QED BY <1>1, <1>2

-----------------------------------------------------------------------------
(* The counter *)

\* The labels at which a task carries an event not ingested yet.
Carrying == WithEvent \ {"record"}

\* What a task carries has not been ingested, nor is it staged.
Fresh(t) ==
  /\ pc[t] = "lookup_staged" => RequestKey(req[t]) \notin DOMAIN events
  /\ pc[t] \in Carrying =>
       EventKey(ev[t]) \notin DOMAIN events \cup DOMAIN staging.byIdempotency

\* A backend of the service's own knows every event but those at hand.
Remembered ==
  Backend # "data_fabric" =>
    \A k \in DOMAIN events :
      \/ k \in DOMAIN idem /\ idem[k].expires >= TTL
      \/ \E t \in AtRecord : EventKey(ev[t]) = k

StagedFresh == DOMAIN staging.byIdempotency \cap DOMAIN events = {}

\* Why the counter is exact: no event is ingested twice.
CountInv ==
  /\ IsFiniteSet(DOMAIN events) /\ IsFiniteSet(AtRecord)
  /\ Cardinality(DOMAIN events) = ingested + Cardinality(AtRecord)
  /\ Remembered /\ StagedFresh /\ \A t \in Tasks : Fresh(t)

\* Two tasks are at work on one key only if the backend answers for it.
LEMMA NoRival ==
  ASSUME TypeInv, AnswersInv, Clashing = {}, NEW t \in Tasks, NEW u \in Tasks,
         t # u, NEW k, k \in AtWork(t), k \in AtWork(u)
  PROVE  k \in DOMAIN KnownEvents /\ k \in DOMAIN events
<1>1. k \in DOMAIN KnownEvents
  BY DEF Clashing
<1>2. DOMAIN KnownEvents \subseteq DOMAIN events
  BY DEF KnownEvents, Live, AnswersInv, BackendAgrees
<1> QED BY <1>1, <1>2

\* A key a backend does not answer for has not been ingested.
LEMMA UnknownIsNew ==
  ASSUME TypeInv, AnswersInv, Undisturbed, Remembered, Clashing = {},
         NEW t \in Tasks, pc[t] = "lookup",
         RequestKey(req[t]) \notin DOMAIN KnownEvents
  PROVE  RequestKey(req[t]) \notin DOMAIN events
<1>1. PICK k : k = RequestKey(req[t])
  OBVIOUS
<1>2. CASE Backend = "data_fabric"
  BY <1>2 DEF KnownEvents
<1>3. CASE Backend # "data_fabric"
  <2>1. /\ now \in Nat /\ TTL \in Nat /\ now < TTL
        /\ \A j \in DOMAIN idem : idem[j].expires \in Nat
    BY <1>3, BoundsAssumption DEF TypeInv, TypeOK, Undisturbed, IdemEntry
  <2>2. k \notin DOMAIN Live(idem)
    BY <1>1, <1>3 DEF KnownEvents
  <2>3. k \in DOMAIN idem => ~(idem[k].expires > now)
    BY <2>2 DEF Live
  <2>4. ASSUME NEW u \in AtRecord, EventKey(ev[u]) = k PROVE FALSE
    <3>1. k \in AtWork(u) /\ k \in AtWork(t) /\ u # t
      BY <1>1, <2>4 DEF AtWork, AtRecord, EventLabels
    <3> QED BY <1>1, <2>4, <3>1, NoRival DEF AtRecord
  <2> QED BY <1>1, <1>3, <2>1, <2>3, <2>4 DEF Remembered
<1> QED BY <1>2, <1>3

\* Enrichment changes neither whose event it is nor its key.
LEMMA EnrichedKey ==
  ASSUME NEW e \in DfcEvent
  PROVE  EventKey(Enriched(e)) = EventKey(e)
<1> DEFINE rec  == Correlation(e.tenant, ReviewOf(e))
           task == OrElse(e.task, rec.task)
<1>1. \/ Enriched(e) = e
      \/ Enriched(e) = [e EXCEPT !.run = rec.run, !.task = task]
  BY DEF Enriched
<1> HIDE DEF rec, task
<1> QED BY <1>1 DEF EventKey, DfcEvent

\* A task that steps carries nothing that has been ingested or staged.
LEMMA FreshStep ==
  ASSUME TypeInv, WholeInv, AnswersInv, Undisturbed, CountInv,
         Clashing = {}, NEW t \in Tasks, Step(t)
  PROVE  Fresh(t)'
<1> USE DEF Goto, Say, Finish
<1>0. /\ pc \in [Tasks -> Labels] /\ held \in [Tasks -> BOOLEAN]
      /\ ev \in [Tasks -> DfcEvent \cup {NoEvent}]
      /\ Fresh(t)
  BY DEF TypeInv, TypeOK, CountInv
<1>1. CASE Lookup(t)
  <2>2. CASE RequestKey(req[t]) \in DOMAIN KnownEvents
    BY <1>0, <1>1, <2>2 DEF Lookup, Fresh, Carrying, WithEvent
  <2>3. CASE RequestKey(req[t]) \notin DOMAIN KnownEvents
    <3>1. RequestKey(req[t]) \notin DOMAIN events
      BY <1>1, <2>3, UnknownIsNew DEF CountInv, Lookup
    <3>2. pc'[t] = "lookup_staged" /\ UNCHANGED <<events, req>>
      BY <1>0, <1>1, <2>3 DEF Lookup, upstream
    <3> QED BY <3>1, <3>2 DEF Fresh, Carrying, WithEvent, RequestKey,
                              BodyTenant, OrElse
  <2> QED BY <2>2, <2>3
<1>2. CASE LookupStaged(t)
  <2> DEFINE r == req[t]
             k == RequestKey(r)
             e == into_dfc_event(r)
  <2>1. CASE k \in DOMAIN staging.byIdempotency
    BY <1>0, <1>2, <2>1 DEF LookupStaged, Fresh, Carrying, WithEvent
  <2>2. CASE k \notin DOMAIN staging.byIdempotency
    <3>1. k \notin DOMAIN events
      BY <1>0, <1>2 DEF Fresh, LookupStaged
    <3>2. /\ ev'[t] = e /\ UNCHANGED <<events, staging>>
          /\ pc'[t] = FirstStep(r, e)
      BY <1>0, <1>2, <2>2 DEF LookupStaged, upstream, service
    <3>3. EventKey(e) = k
      BY <1>2, EventType DEF LookupStaged, TypeInv, PhaseOK, RequestKey
    <3>4. pc'[t] # "lookup_staged"
      BY <3>2, StepLabels
    <3> HIDE DEF e, k, r
    <3> QED BY <2>2, <3>1, <3>2, <3>3, <3>4 DEF Fresh, EventKey
  <2> QED BY <2>1, <2>2
<1>3. CASE Enrich(t)
  <2>1. ev[t] \in DfcEvent /\ pc[t] \in Carrying
    BY <1>3 DEF Enrich, TypeInv, PhaseOK, WithEvent, Carrying
  <2>2. EventKey(ev'[t]) = EventKey(ev[t])
    BY <1>0, <1>3, <2>1, EnrichedKey DEF Enrich, EventKey
  <2>3. UNCHANGED <<events, staging>> /\ pc'[t] # "lookup_staged"
    BY <1>0, <1>3, StepLabels DEF Enrich, upstream, service
  <2> QED BY <1>0, <2>1, <2>2, <2>3 DEF Fresh, EventKey
<1>4. CASE Check(t)
  <2>1. pc'[t] # "lookup_staged" /\ UNCHANGED <<ev, events, staging>>
    BY <1>0, <1>4, StepLabels DEF Check, upstream, service
  <2> QED BY <1>0, <1>4, <2>1 DEF Fresh, Check, Carrying, WithEvent, EventKey
<1>5. CASE Register(t)
  <2>1. /\ pc'[t] # "lookup_staged" /\ UNCHANGED <<ev, events, staging>>
    BY <1>0, <1>5 DEF Register, upstream, service, job, store_correlation
  <2> QED BY <1>0, <1>5, <2>1 DEF Fresh, Register, Carrying, WithEvent, EventKey
<1>6. CASE Take(t)
  <2>1. PICK k \in keys[t] :
          /\ staging' = take(staging, k)
          /\ IF k \in DOMAIN staging.byIdempotency
             THEN /\ ev' = [ev EXCEPT ![t] = staging.byIdempotency[k].event]
                  /\ pc' = [pc EXCEPT ![t] = "check"]
             ELSE UNCHANGED pc
    BY <1>6 DEF Take
  <2>2. CASE k \notin DOMAIN staging.byIdempotency
    BY <1>6, <2>1, <2>2 DEF Take, Fresh, Carrying, WithEvent
  <2>3. CASE k \in DOMAIN staging.byIdempotency
    <3>1. EventKey(ev'[t]) = k /\ pc'[t] = "check" /\ UNCHANGED events
      BY <1>0, <1>6, <2>1, <2>3
         DEF Take, WholeInv, StagedWhole, EventKey, upstream
    <3>2. k \notin DOMAIN staging'.byIdempotency
      BY <2>1 DEF take, Without
    <3>3. k \notin DOMAIN events
      BY <2>3 DEF CountInv, StagedFresh
    <3> QED BY <3>1, <3>2, <3>3 DEF Fresh, EventKey
  <2> QED BY <2>2, <2>3
<1>7. CASE Stage(t) \/ Ingest(t) \/ Record(t) \/ Store(t) \/ List(t)
             \/ ListDone(t) \/ Restage(t)
  <2>1. pc'[t] \in {"done", "record", "take", "list"}
    BY <1>0, <1>7 DEF Stage, Ingest, Record, Store, List, ListDone, Restage
  <2> QED BY <2>1 DEF Fresh, Carrying, WithEvent
<1> QED BY <1>1, <1>2, <1>3, <1>4, <1>5, <1>6, <1>7 DEF Step

\* What the others carry stays fresh: they are not at work on the same key.
LEMMA OthersFresh ==
  ASSUME TypeInv, AnswersInv, CountInv, Clashing = {},
         NEW t \in Tasks, NEW u \in Tasks, u # t, Step(t)
  PROVE  Fresh(u)'
<1>0. /\ UNCHANGED <<pc[u], req[u], ev[u]>> /\ Fresh(u)
  BY OthersStay DEF CountInv
<1>1. PICK r : r = RequestKey(req[u])
  OBVIOUS
<1>2. PICK e : e = EventKey(ev[u])
  OBVIOUS
<1>3. PICK mine : mine = EventKey(ev[t])
  OBVIOUS
<1>4. /\ RequestKey(req[u])' = r /\ EventKey(ev[u])' = e
  BY <1>0, <1>1, <1>2 DEF RequestKey, BodyTenant, OrElse, EventKey
<1>5. pc[t] \in {"ingest", "stage"} => mine \in AtWork(t)
  BY <1>3 DEF AtWork, EventLabels
<1>6. /\ pc[u] = "lookup_staged" => r \in AtWork(u)
      /\ pc[u] \in Carrying => e \in AtWork(u)
  BY <1>1, <1>2 DEF AtWork, EventLabels, Carrying, WithEvent
<1>7. /\ pc[u] = "lookup_staged" => r \notin DOMAIN events
      /\ pc[u] \in Carrying =>
           e \notin DOMAIN events \cup DOMAIN staging.byIdempotency
  BY <1>0, <1>1, <1>2 DEF Fresh
<1>8. pc[t] \in {"ingest", "stage"} =>
        /\ pc[u] = "lookup_staged" => r # mine
        /\ pc[u] \in Carrying => e # mine
  BY <1>5, <1>6, <1>7, NoRival
<1>9. /\ pc[u] = "lookup_staged" => r \notin DOMAIN events'
      /\ pc[u] \in Carrying =>
           e \notin DOMAIN events' \cup DOMAIN staging'.byIdempotency
  BY <1>3, <1>7, <1>8, EventsAfter, StagingAfter
<1> QED BY <1>0, <1>4, <1>9 DEF Fresh

\* Ingesting an event nobody has ingested adds one to what is to be counted.
LEMMA IngestCounts ==
  ASSUME TypeInv, Undisturbed, CountInv, NEW t \in Tasks, Ingest(t)
  PROVE  /\ IsFiniteSet(DOMAIN events') /\ IsFiniteSet(AtRecord')
         /\ Cardinality(DOMAIN events') = ingested' + Cardinality(AtRecord')
         /\ Remembered' /\ StagedFresh'
<1>0. PICK k : k = EventKey(ev[t])
  OBVIOUS
<1>1. ev[t] \in DfcEvent /\ ingest_event(ev[t]) /\ pc[t] = "ingest"
  BY DEF Ingest, TypeInv, PhaseOK, WithEvent
<1>2. k \notin DOMAIN events \cup DOMAIN staging.byIdempotency
  BY <1>0, <1>1 DEF CountInv, Fresh, Carrying, WithEvent
<1>3. DOMAIN events' = DOMAIN events \cup {k}
  BY <1>0, <1>1, IngestEventType DEF TypeInv, TypeOK
<1>4. /\ AtRecord' = AtRecord \cup {t} /\ t \notin AtRecord
      /\ UNCHANGED <<idem, staging, ingested>>
  <2>1. pc' = [pc EXCEPT ![t] = "record"] /\ pc \in [Tasks -> Labels]
    BY DEF Ingest, Goto, TypeInv, TypeOK
  <2> QED BY <1>1, <2>1 DEF Ingest, service, AtRecord
<1>5. EventKey(ev[t])' = k /\ \A u \in Tasks \ {t} : ev'[u] = ev[u]
  <2>1. ev'[t] = ev[t]
    BY <1>0, <1>2 DEF Ingest, Stored, TypeInv, TypeOK
  <2> QED BY <1>0, <2>1, OthersStay DEF EventKey, Step
<1>6. ingested \in Nat /\ Cardinality(AtRecord) \in Nat
  BY FS_CardinalityType DEF TypeInv, TypeOK, CountInv
<1>7. /\ IsFiniteSet(DOMAIN events')
      /\ Cardinality(DOMAIN events') = Cardinality(DOMAIN events) + 1
  BY <1>2, <1>3, FS_AddElement DEF CountInv
<1>8. /\ IsFiniteSet(AtRecord')
      /\ Cardinality(AtRecord') = Cardinality(AtRecord) + 1
  BY <1>4, FS_AddElement DEF CountInv
<1>9. Remembered'
  <2> SUFFICES ASSUME Backend # "data_fabric", NEW j \in DOMAIN events'
               PROVE  \/ j \in DOMAIN idem' /\ idem'[j].expires >= TTL
                      \/ \E u \in AtRecord' : EventKey(ev[u])' = j
    BY DEF Remembered
  <2>1. CASE j = k
    BY <1>4, <1>5, <2>1
  <2>2. CASE j # k
    <3>1. \/ j \in DOMAIN idem /\ idem[j].expires >= TTL
          \/ \E u \in AtRecord : EventKey(ev[u]) = j
      BY <1>3, <2>2 DEF CountInv, Remembered
    <3>2. ASSUME NEW u \in AtRecord PROVE EventKey(ev[u])' = EventKey(ev[u])
      BY <1>4, <1>5, <3>2 DEF EventKey, AtRecord
    <3> QED BY <1>4, <3>1, <3>2
  <2> QED BY <2>1, <2>2
<1>10. StagedFresh'
  BY <1>2, <1>3, <1>4 DEF CountInv, StagedFresh
<1>11. Cardinality(DOMAIN events') = ingested' + Cardinality(AtRecord')
  BY <1>4, <1>6, <1>7, <1>8 DEF CountInv
<1> QED BY <1>7, <1>8, <1>9, <1>10, <1>11

\* Recording counts it, and the backend knows it from then on.
LEMMA RecordCounts ==
  ASSUME TypeInv, Undisturbed, CountInv, NEW t \in Tasks, Record(t)
  PROVE  /\ IsFiniteSet(DOMAIN events') /\ IsFiniteSet(AtRecord')
         /\ Cardinality(DOMAIN events') = ingested' + Cardinality(AtRecord')
         /\ Remembered' /\ StagedFresh'
<1>1. /\ AtRecord' = AtRecord \ {t} /\ t \in AtRecord
      /\ UNCHANGED <<events, staging, ev>>
      /\ ingested' = ingested + 1 /\ idem' = PutIdem(ev[t])
  <2>1. /\ pc \in [Tasks -> Labels] /\ pc[t] = "record" /\ pc'[t] # "record"
        /\ \A u \in Tasks \ {t} : pc'[u] = pc[u]
    BY OthersStay DEF Record, Goto, TypeInv, TypeOK, Step
  <2> QED BY <2>1 DEF Record, Count, upstream, AtRecord
<1>2. Remembered'
  <2> SUFFICES ASSUME Backend # "data_fabric", NEW k \in DOMAIN events
               PROVE  \/ k \in DOMAIN idem' /\ idem'[k].expires >= TTL
                      \/ \E u \in AtRecord' : EventKey(ev[u])' = k
    BY <1>1 DEF Remembered
  <2>1. \/ k \in DOMAIN idem /\ idem[k].expires >= TTL
        \/ \E u \in AtRecord : EventKey(ev[u]) = k
    BY DEF CountInv, Remembered
  <2>2. idem' = Overwritten(idem, {EventKey(ev[t])},
                            [event |-> ev[t], expires |-> now + TTL])
    BY <1>1 DEF PutIdem
  <2>3. now + TTL >= TTL
    BY BoundsAssumption DEF TypeInv, TypeOK
  <2>4. CASE EventKey(ev[t]) = k
    BY <2>2, <2>3, <2>4 DEF Overwritten
  <2>5. CASE EventKey(ev[t]) # k
    <3>1. k \in DOMAIN idem /\ idem[k].expires >= TTL =>
            k \in DOMAIN idem' /\ idem'[k].expires >= TTL
      BY <2>2, <2>5 DEF Overwritten
    <3>2. \A u \in AtRecord : EventKey(ev[u]) = k => u \in AtRecord'
      BY <1>1, <2>5
    <3>3. \A u : EventKey(ev[u])' = EventKey(ev[u])
      BY <1>1 DEF EventKey
    <3> QED BY <2>1, <3>1, <3>2, <3>3
  <2> QED BY <2>4, <2>5
<1>3. StagedFresh'
  BY <1>1 DEF CountInv, StagedFresh
<1>4. /\ IsFiniteSet(AtRecord')
      /\ Cardinality(AtRecord') = Cardinality(AtRecord) - 1
  BY <1>1, FS_RemoveElement DEF CountInv
<1>5. ingested \in Nat /\ Cardinality(AtRecord) \in Nat
  BY FS_CardinalityType DEF TypeInv, TypeOK, CountInv
<1>6. Cardinality(DOMAIN events') = ingested' + Cardinality(AtRecord')
  BY <1>1, <1>4, <1>5 DEF CountInv
<1> QED BY <1>1, <1>2, <1>3, <1>4, <1>6 DEF CountInv

\* No other step ingests or counts.
LEMMA OthersCount ==
  ASSUME TypeInv, Undisturbed, CountInv, NEW t \in Tasks, Step(t),
         ~Ingest(t), ~Record(t)
  PROVE  /\ DOMAIN events' = DOMAIN events /\ ingested' = ingested
         /\ Remembered' /\ StagedFresh'
         /\ AtRecord' = AtRecord
<1>1. DOMAIN events' = DOMAIN events /\ ingested' = ingested
  BY DEF Step, Lookup, LookupStaged, Enrich, Check, Stage, Register, Store,
         List, ListDone, Take, Restage, upstream, service, store_correlation
<1>2. pc[t] # "record" /\ pc'[t] # "record"
  <2>0. pc \in [Tasks -> Labels]
    BY DEF TypeInv, TypeOK
  <2>1. CASE LookupStaged(t)
    BY <2>0, <2>1, StepLabels DEF LookupStaged, Goto, Finish
  <2>2. CASE Enrich(t)
    BY <2>0, <2>2, StepLabels DEF Enrich, Goto, Finish
  <2>3. CASE Check(t)
    BY <2>0, <2>3, StepLabels DEF Check, Goto, Finish
  <2>4. CASE Lookup(t) \/ Stage(t) \/ Register(t) \/ Store(t) \/ List(t)
               \/ ListDone(t) \/ Take(t) \/ Restage(t)
    BY <2>0, <2>4 DEF Lookup, Stage, Register, Store, List, ListDone, Take,
                      Restage, Goto, Finish
  <2> QED BY <2>1, <2>2, <2>3, <2>4 DEF Step
<1>3. AtRecord' = AtRecord
  BY <1>2, OthersStay DEF AtRecord
<1>4. idem' = idem \/ idem' = Live(idem)
  BY DEF Step, Lookup, LookupStaged, Enrich, Check, Stage, Register, Store,
         List, ListDone, Take, Restage, service
<1>5. Remembered'
  <2> SUFFICES ASSUME Backend # "data_fabric", NEW k \in DOMAIN events
               PROVE  \/ k \in DOMAIN idem' /\ idem'[k].expires >= TTL
                      \/ \E u \in AtRecord : EventKey(ev[u])' = k
    BY <1>1, <1>3 DEF Remembered
  <2>1. CASE k \in DOMAIN idem /\ idem[k].expires >= TTL
    <3>1. now < TTL /\ now \in Nat /\ TTL \in Nat /\ idem[k].expires \in Nat
      BY <2>1, BoundsAssumption DEF Undisturbed, TypeInv, TypeOK, IdemEntry
    <3>2. idem[k].expires > now
      BY <2>1, <3>1
    <3> QED BY <1>4, <2>1, <3>2 DEF Live
  <2>2. ASSUME NEW u \in AtRecord, EventKey(ev[u]) = k
        PROVE  EventKey(ev[u])' = k
    BY <1>2, <2>2, OthersStay DEF AtRecord, EventKey
  <2> QED BY <2>1, <2>2 DEF CountInv, Remembered
<1>6. StagedFresh'
  <2>1. pc[t] = "stage" => EventKey(ev[t]) \notin DOMAIN events
    BY DEF CountInv, Fresh, Carrying, WithEvent
  <2> QED BY <1>1, <2>1, StagingAfter DEF CountInv, StagedFresh
<1> QED BY <1>1, <1>3, <1>5, <1>6

\* A step keeps the count.
LEMMA CountStep ==
  ASSUME TypeInv, WholeInv, AnswersInv, Undisturbed, CountInv, Clashing = {},
         NEW t \in Tasks, Step(t)
  PROVE  CountInv'
<1>1. ASSUME NEW u \in Tasks PROVE Fresh(u)'
  BY FreshStep, OthersFresh
<1>2. CASE Ingest(t)
  BY <1>1, <1>2, IngestCounts DEF CountInv
<1>3. CASE Record(t)
  BY <1>1, <1>3, RecordCounts DEF CountInv
<1>4. CASE ~Ingest(t) /\ ~Record(t)
  BY <1>1, <1>4, OthersCount DEF CountInv
<1> QED BY <1>2, <1>3, <1>4

\* Arrivals and the clock leave it alone.
LEMMA CountFrame ==
  ASSUME TypeInv, CountInv,
         \/ \E t \in Tasks, r \in Requests : Arrive(t, r) \/ Reject(t, r)
         \/ Tick \/ UNCHANGED vars
  PROVE  CountInv'
<1>0. pc \in [Tasks -> Labels]
  BY DEF TypeInv, TypeOK
<1>1. UNCHANGED <<events, staging, idem, ingested, ev>>
  BY DEF Arrive, Reject, Tick, vars, upstream, service, job
<1>2. /\ \A u \in Tasks : pc'[u] # pc[u] =>
            pc[u] = "idle" /\ pc'[u] \in {"store", "lookup", "done"}
      /\ \A u \in Tasks : pc'[u] = pc[u] => req'[u] = req[u]
  <2>1. CASE \E t \in Tasks, r \in Requests : Arrive(t, r) \/ Reject(t, r)
    BY <1>0, <2>1, OthersStay DEF Arrive, Reject, Goto, Finish
  <2>2. CASE Tick \/ UNCHANGED vars
    BY <2>2 DEF Tick, vars
  <2> QED BY <2>1, <2>2
<1>3. AtRecord' = AtRecord
  BY <1>2 DEF AtRecord
<1>4. Remembered'
  BY <1>1, <1>3 DEF CountInv, Remembered, EventKey
<1>5. ASSUME NEW u \in Tasks PROVE Fresh(u)'
  BY <1>1, <1>2 DEF CountInv, Fresh, Carrying, WithEvent, EventKey,
     RequestKey, BodyTenant, OrElse
<1> QED BY <1>1, <1>3, <1>4, <1>5 DEF CountInv, StagedFresh

\* What races is remembered, and while nothing has raced every event is
\* counted once.
LEMMA CountInvariant ==
  HistorySpec =>
    [](Clashing \subseteq raced /\ (Undisturbed /\ raced = {} => CountInv))
<1> DEFINE Inv == /\ Clashing \subseteq raced
                  /\ Undisturbed /\ raced = {} => CountInv
<1>1. HistoryInit => Inv
  <2> SUFFICES ASSUME HistoryInit PROVE Clashing = {} /\ CountInv
    OBVIOUS
  <2>1. AtRecord = {} /\ Clashing = {}
    BY DEF HistoryInit, Init, AtRecord, Clashing, AtWork, EventLabels
  <2>2. DOMAIN events = {} /\ DOMAIN staging.byIdempotency = {} /\ ingested = 0
    BY DEF HistoryInit, Init, UpstreamInit, EmptyStore
  <2>3. \A t \in Tasks : Fresh(t)
    BY DEF HistoryInit, Init, Fresh, Carrying, WithEvent
  <2> QED BY <2>1, <2>2, <2>3, FS_EmptySet
          DEF CountInv, Remembered, StagedFresh
<1>2. TypeInv /\ WholeInv /\ AnswersInv /\ Inv /\ [HistoryNext]_hvars => Inv'
  <2> SUFFICES ASSUME TypeInv, WholeInv, AnswersInv, Inv, [HistoryNext]_hvars
               PROVE  Inv'
    OBVIOUS
  <2>1. CASE HistoryNext
    <3>1. raced' = raced \cup Clashing' /\ [Next]_vars
      BY <2>1 DEF HistoryNext
    <3>2. ASSUME Undisturbed', raced' = {} PROVE CountInv'
      <4>1. raced = {} /\ Clashing = {}
        BY <3>1, <3>2
      <4> QED BY <3>1, <3>2, <4>1, CalmStep, CountStep, CountFrame
    <3> QED BY <3>1, <3>2
  <2>2. CASE UNCHANGED hvars
    <3>1. UNCHANGED vars /\ UNCHANGED raced
      BY <2>2 DEF hvars, history
    <3>2. Clashing' = Clashing
      BY <3>1 DEF vars, service, upstream, job, Clashing, AtWork, KnownEvents, Live,
                  RequestKey, BodyTenant, OrElse, EventKey
    <3>3. [Next]_vars
      BY <3>1
    <3>4. ASSUME Undisturbed', raced' = {} PROVE CountInv'
      BY <3>1, <3>3, <3>4, CalmStep, CountFrame
    <3> QED BY <3>1, <3>2, <3>4
  <2> QED BY <2>1, <2>2
<1>3. HistorySpec => [](TypeInv /\ WholeInv /\ AnswersInv)
  BY HistoryOnly, TypeInvariant, WholeInvariant, AnswersInvariant, PTL
<1> QED BY <1>1, <1>2, <1>3, PTL DEF HistorySpec

\* With any number of handlers at once, dfc_events_ingested_total is the
\* number of events data-fabric holds whenever the server is at rest, over
\* every sequence of requests, reused keys, reconciles and purges included:
\* until a call fails, the process restarts, a backend entry expires, or two
\* requests are at work on one key the backend does not know yet.
THEOREM CounterExact == HistorySpec => []CounterIsExact
<1>1. TypeInv /\ (Undisturbed /\ raced = {} => CountInv) => CounterIsExact
  <2> SUFFICES ASSUME TypeInv, CountInv, Running = {}
               PROVE  ingested = Cardinality(DOMAIN events)
    BY DEF CounterIsExact, Quiescent, Undisturbed
  <2>1. AtRecord = {}
    BY DEF Running, AtRecord
  <2>2. ingested \in Nat /\ Cardinality(AtRecord) = 0
    BY <2>1, FS_EmptySet DEF TypeInv, TypeOK
  <2> QED BY <2>2 DEF CountInv
<1>2. HistorySpec => []TypeInv
  BY HistoryOnly, TypeInvariant, PTL
<1> QED BY <1>1, <1>2, CountInvariant, PTL

-----------------------------------------------------------------------------
(* No staged event is left behind *)

\* Nothing is to be reconciled yet.
Before(t) == \/ pc[t] \in {"idle", "lookup", "lookup_staged", "store"}
             \/ pc[t] \in WithEvent /\ ~held[t]

\* t is about to reconcile the snapshot its own event announces, in slot x.
Announcing(t, x) ==
  /\ pc[t] \in {"ingest", "record"} /\ ~held[t] /\ Announces(req[t], ev[t])
  /\ x = Slot(RequestTenant(t), <<"snapshot", snapshot_id_from_event(ev[t])>>)

InTodo(t, x) ==
  \E i \in DOMAIN todo[t] : Slot(RequestTenant(t), todo[t][i]) = x

\* t has still to list what waits for x, or to take what is staged under k.
ToList(t, x) == Announcing(t, x) \/ InTodo(t, x)
ComesTo(t, k) == k \in keys[t] \/ \E x \in SlotsAwaited(k) : ToList(t, x)

\* The event staged under k still waits, missed its wake-up, or will be come
\* to by a handler, unless that handler has been refused.
Accounted(k) ==
  \/ \E x \in SlotsAwaited(k) : x \notin DOMAIN correlations
  \/ SlotsAwaited(k) \cap missed # {}
  \/ \E t \in Tasks : ComesTo(t, k)

\* How a task stands while nothing has been cut short.
Standing(t) ==
  /\ pc[t] = "stage" =>
       /\ wait[t] # {}
       /\ \A p \in wait[t] : \/ ~Resolves(ev[t].tenant, p)
                            \/ Slot(ev[t].tenant, p) \in missed
  /\ pc[t] = "list" => keys[t] = {}
  /\ Before(t) \/ (pc[t] = "done" /\ answer[t] # Failed) =>
       todo[t] = <<>> /\ keys[t] = {}
  /\ pc[t] \in Carrying /\ ~held[t] /\ ev[t].system = "aivcs_api" =>
       req[t].api = "aivcs"
  /\ pc[t] = "register" => /\ ev[t].system = "aivcs_api"
                           /\ snapshot_id_from_event(ev[t]) # None

WakeInv ==
  /\ \A k \in DOMAIN staging.byIdempotency : Accounted(k)
  /\ \A t \in Tasks : Standing(t)

\* What a step of HistoryNext adds to missed.
MissedMoves == missed' = missed \cup Overtaken \cup Unnamed \cup Supplanted

\* How a step changes the staging store, record by record.
LEMMA StagedAfter ==
  ASSUME TypeInv, WholeInv, NEW t \in Tasks, Step(t),
         NEW k \in DOMAIN staging'.byIdempotency
  PROVE  \/ /\ k \in DOMAIN staging.byIdempotency
            /\ staging'.byIdempotency[k] = staging.byIdempotency[k]
         \/ /\ pc[t] = "stage" /\ k = EventKey(ev[t])
            /\ staging'.byIdempotency[k].event = ev[t]
            /\ staging'.byIdempotency[k].pending = wait[t]
<1>1. CASE Stage(t)
  BY <1>1 DEF Stage, stage, purge_expired, Without, EventKey
<1>2. CASE Restage(t)
  BY <1>2 DEF Restage, stage, EventKey
<1>3. CASE Take(t)
  BY <1>3 DEF Take, take, Without
<1>4. CASE UNCHANGED staging
  BY <1>4
<1> QED BY <1>1, <1>2, <1>3, <1>4 DEF Step, Lookup, LookupStaged, Enrich,
           Check, Register, Ingest, Record, Store, List, ListDone, service

\* Of a handler's steps only Register and Store move the correlations.
LEMMA CorrelationsStay ==
  ASSUME NEW t \in Tasks, Step(t), ~Register(t), ~Store(t)
  PROVE  correlations' = correlations
BY DEF Step, Lookup, LookupStaged, Enrich, Check, Stage, Ingest, Record, List,
       ListDone, Take, Restage, upstream, ingest_event

\* Each of a mapping's run, snapshot and review is reconciled.
LEMMA TargetsListed ==
  ASSUME NEW rec \in CorrelationRecord,
         NEW p \in {<<"run", rec.run>>, <<"snapshot", rec.snapshot>>,
                   <<"review", rec.links.review>>},
         p[2] # None
  PROVE  \E i \in DOMAIN ReconcileTargets(rec) : ReconcileTargets(rec)[i] = p
<1> DEFINE a == One("run", rec.run)
           b == One("snapshot", rec.snapshot)
           c == One("review", rec.links.review)
<1>1. a \in Seq(Lookups) /\ b \in Seq(Lookups) /\ c \in Seq(Lookups)
  BY OneType DEF CorrelationRecord, Metadata, CorrelationKinds
<1>2. ReconcileTargets(rec) = (a \o b) \o c
  BY DEF ReconcileTargets
<1>3. a = <<p>> \/ b = <<p>> \/ c = <<p>>
  BY DEF One
<1> HIDE DEF a, b, c
<1>4. CASE a = <<p>>
  <2>1. 1 \in DOMAIN ((a \o b) \o c) /\ ((a \o b) \o c)[1] = p
    BY <1>1, <1>4
  <2> QED BY <1>2, <2>1
<1>5. CASE b = <<p>>
  <2>1. /\ Len(a) + 1 \in DOMAIN ((a \o b) \o c)
        /\ ((a \o b) \o c)[Len(a) + 1] = p
    BY <1>1, <1>5
  <2> QED BY <1>2, <2>1
<1>6. CASE c = <<p>>
  <2>1. /\ Len(a \o b) + 1 \in DOMAIN ((a \o b) \o c)
        /\ ((a \o b) \o c)[Len(a \o b) + 1] = p
    BY <1>1, <1>6
  <2> QED BY <1>2, <2>1
<1> QED BY <1>3, <1>4, <1>5, <1>6

\* A correlation a handler makes known it will list, or it is missed.
LEMMA NewlyListed ==
  ASSUME TypeInv, NEW t \in Tasks, Standing(t), Step(t), MissedMoves,
         NEW x, x \in NewlyKnown
  PROVE  x \in missed' \/ ToList(t, x)'
<1>0. pc \in [Tasks -> Labels] /\ todo \in [Tasks -> Seq(Lookups)]
  BY DEF TypeInv, TypeOK
<1>1. CASE x \notin ToReconcile(t)
  <2>1. x \in Unnamed
    BY <1>1, OthersStay DEF Unnamed
  <2> QED BY <2>1 DEF MissedMoves
<1>2. CASE x \in ToReconcile(t) /\ Store(t)
  <2> DEFINE rec == RecordOf(req[t])
  <2>1. /\ rec \in CorrelationRecord /\ UNCHANGED req /\ pc[t] = "store"
        /\ store_correlation(rec)
    BY <1>2, RecordOfType DEF Store, TypeInv, PhaseOK, NewlyKnown, upstream
  <2>2. x \in CorrelationKeys
    BY <2>1, StoreCorrelationType
       DEF TypeInv, TypeOK, NewlyKnown, UpstreamTypeOK
  <2>3. PICK p \in {<<"run", rec.run>>, <<"snapshot", rec.snapshot>>,
                    <<"review", rec.links.review>>} :
          x = Slot(RequestTenant(t), p)
    BY <1>2, <2>1 DEF ToReconcile, RecordOf
  <2>4. p[2] # None
    BY <2>2, <2>3, IdsAssumption DEF Slot, CorrelationKeys
  <2>5. PICK i \in DOMAIN ReconcileTargets(rec) : ReconcileTargets(rec)[i] = p
    BY <2>1, <2>3, <2>4, TargetsListed
  <2> HIDE DEF rec
  <2>6. todo'[t] = ReconcileTargets(rec)
    BY <1>0, <1>2 DEF Store, rec, NewlyKnown, upstream
  <2>7. InTodo(t, x)'
    BY <2>1, <2>3, <2>5, <2>6 DEF InTodo, RequestTenant
  <2> QED BY <2>7 DEF ToList
<1>3. CASE x \in ToReconcile(t) /\ Register(t)
  <2>1. /\ pc[t] = "register" /\ ~held[t] /\ req[t].api = "aivcs"
        /\ snapshot_id_from_event(ev[t]) # None
        /\ x = Slot(RequestTenant(t), <<"snapshot", snapshot_id_from_event(ev[t])>>)
    BY <1>3 DEF Register, ToReconcile, Standing, Carrying, WithEvent
  <2>2. pc'[t] = "ingest" /\ UNCHANGED <<req, ev, held>>
    BY <1>0, <1>3 DEF Register, Goto, job, NewlyKnown, upstream
  <2>3. Announcing(t, x)'
    BY <2>1, <2>2 DEF Announcing, Announces, snapshot_id_from_event, OrElse,
                      RequestTenant
  <2> QED BY <2>3 DEF ToList
<1> QED BY <1>1, <1>2, <1>3, CorrelationsStay DEF NewlyKnown

\* What a handler is to list it still is, but what it lists now and the
\* snapshot of an event that turns out to be stored already.
LEMMA ToListStep ==
  ASSUME TypeInv, AnswersInv, NEW t \in Tasks, Standing(t), Step(t), ~List(t),
         MissedMoves, NEW x, ToList(t, x)
  PROVE  x \in missed' \/ ToList(t, x)'
<1>0. /\ pc \in [Tasks -> Labels] /\ todo \in [Tasks -> Seq(Lookups)]
      /\ ev \in [Tasks -> DfcEvent \cup {NoEvent}] /\ UNCHANGED req
  BY DEF TypeInv, TypeOK, Step, Lookup, LookupStaged, Enrich, Check, Stage,
         Register, Ingest, Record, Store, List, ListDone, Take, Restage
<1>1. CASE InTodo(t, x) /\ UNCHANGED todo[t]
  BY <1>0, <1>1 DEF ToList, InTodo, RequestTenant
<1>2. CASE Ingest(t)
  <2>1. /\ pc[t] = "ingest" /\ pc'[t] = "record" /\ UNCHANGED <<todo, held>>
        /\ ev[t] \in DfcEvent
    BY <1>0, <1>2 DEF Ingest, Goto, TypeInv, PhaseOK, WithEvent
  <2>2. CASE Announcing(t, x)
    <3>1. ev[t].tenant = RequestTenant(t)
      BY <2>1, <2>2 DEF AnswersInv, Truthful, WithEvent, Announcing, EventKey,
                        RequestKey, RequestTenant
    <3>2. CASE snapshot_id_from_event(ev[t]) # snapshot_id_from_event(ev'[t])
      <4>1. x \in Supplanted
        BY <2>1, <2>2, <3>1, <3>2 DEF Supplanted, Announcing
      <4> QED BY <4>1 DEF MissedMoves
    <3>3. CASE snapshot_id_from_event(ev[t]) = snapshot_id_from_event(ev'[t])
      <4>1. Announcing(t, x)'
        BY <1>0, <2>1, <2>2, <3>3
           DEF Announcing, Announces, RequestTenant, snapshot_id_from_event,
               OrElse
      <4> QED BY <4>1 DEF ToList
    <3> QED BY <3>2, <3>3
  <2> QED BY <1>1, <2>1, <2>2 DEF ToList
<1>3. CASE Record(t) /\ ~held[t]
  <2>1. pc[t] = "record" /\ todo[t] = <<>>
    BY <1>3 DEF Record, Standing, Before, WithEvent
  <2>2. Announcing(t, x)
    BY <2>1 DEF ToList, InTodo
  <2>3. todo'[t] = <<<<"snapshot", snapshot_id_from_event(ev[t])>>>>
    BY <1>0, <1>3, <2>2 DEF Record, Announcing, Announces, One
  <2>4. PICK p : /\ p = <<"snapshot", snapshot_id_from_event(ev[t])>>
                 /\ x = Slot(RequestTenant(t), p)
    BY <2>2 DEF Announcing
  <2>5. 1 \in DOMAIN todo'[t] /\ todo'[t][1] = p
    BY <2>3, <2>4
  <2>6. InTodo(t, x)'
    BY <1>0, <2>4, <2>5 DEF InTodo, RequestTenant
  <2> QED BY <2>6 DEF ToList
<1>4. CASE Record(t) /\ held[t]
  BY <1>1, <1>4 DEF Record, ToList, Announcing
<1>5. CASE Store(t)
  <2>1. pc[t] = "store" /\ todo[t] = <<>>
    BY <1>5 DEF Store, Standing, Before
  <2> QED BY <2>1 DEF ToList, InTodo, Announcing
<1>6. CASE ~Ingest(t) /\ ~Record(t) /\ ~Store(t)
  <2>1. UNCHANGED todo /\ pc[t] \notin {"ingest", "record"}
    BY <1>6 DEF Step, Lookup, LookupStaged, Enrich, Check, Stage, Register,
                ListDone, Take, Restage, job
  <2> QED BY <1>1, <2>1 DEF ToList, Announcing
<1> QED BY <1>2, <1>3, <1>4, <1>5, <1>6

\* A handler that will come to an event still will, until it takes it.
LEMMA ComesToStep ==
  ASSUME TypeInv, WholeInv, AnswersInv, StagedAreFindable, NEW t \in Tasks,
         Standing(t), Step(t), MissedMoves,
         NEW k \in DOMAIN staging.byIdempotency,
         k \in DOMAIN staging'.byIdempotency,
         SlotsAwaited(k)' = SlotsAwaited(k), ComesTo(t, k)
  PROVE  SlotsAwaited(k) \cap missed' # {} \/ ComesTo(t, k)'
<1>0. /\ pc \in [Tasks -> Labels] /\ todo \in [Tasks -> Seq(Lookups)]
      /\ keys \in [Tasks -> SUBSET EventKeys]
  BY DEF TypeInv, TypeOK
<1>1. CASE List(t)
  <2>1. /\ todo[t] \in Seq(Lookups) /\ todo[t] # <<>> /\ keys[t] = {}
        /\ pc[t] = "list" /\ todo'[t] = Tail(todo[t]) /\ UNCHANGED req
        /\ keys'[t] = keys_for(staging, RequestTenant(t), Head(todo[t]))
    BY <1>0, <1>1 DEF List, Standing, TypeInv, PhaseOK
  <2>2. PICK x \in SlotsAwaited(k) : InTodo(t, x)
    BY <2>1 DEF ComesTo, ToList, Announcing
  <2>3. PICK i \in DOMAIN todo[t] : Slot(RequestTenant(t), todo[t][i]) = x
    BY <2>2 DEF InTodo
  <2>4. CASE i = 1
    <3>1. Head(todo[t]) = todo[t][i]
      BY <2>1, <2>4
    <3>2. x \in IndexKeys(staging.byIdempotency[k])
      BY <2>2 DEF SlotsAwaited, IndexKeys, Slot, WholeInv, StagedWhole, EventKey
    <3>3. k \in FiledUnder(staging, x)
      BY <3>2 DEF StagedAreFindable, Findable
    <3>4. k \in keys'[t]
      BY <2>1, <2>3, <3>1, <3>3 DEF keys_for, Slot
    <3> QED BY <3>4 DEF ComesTo
  <2>5. CASE i # 1
    <3>1. i - 1 \in DOMAIN Tail(todo[t]) /\ Tail(todo[t])[i - 1] = todo[t][i]
      BY <2>1, <2>5
    <3>2. InTodo(t, x)'
      BY <2>1, <2>3, <3>1 DEF InTodo, RequestTenant
    <3> QED BY <2>2, <3>2 DEF ComesTo, ToList
  <2> QED BY <2>4, <2>5
<1>2. CASE ~List(t) /\ \E x \in SlotsAwaited(k) : ToList(t, x)
  <2>1. PICK x \in SlotsAwaited(k) : ToList(t, x)
    BY <1>2
  <2>2. x \in missed' \/ ToList(t, x)'
    BY <1>2, <2>1, ToListStep
  <2> QED BY <2>1, <2>2 DEF ComesTo
<1>3. CASE ~List(t) /\ k \in keys[t]
  <2>1. CASE Take(t)
    <3>1. PICK j \in keys[t] : /\ keys' = [keys EXCEPT ![t] = @ \ {j}]
                               /\ staging' = take(staging, j)
      BY <2>1 DEF Take
    <3>2. k # j
      BY <3>1 DEF take, Without
    <3> QED BY <1>0, <1>3, <3>1, <3>2 DEF ComesTo
  <2>2. CASE ~Take(t)
    <3>1. UNCHANGED keys
      BY <1>3, <2>2 DEF Step, Lookup, LookupStaged, Enrich, Check, Stage,
                        Register, Ingest, Record, Store, ListDone, Restage, job
    <3> QED BY <1>3, <3>1 DEF ComesTo
  <2> QED BY <2>1, <2>2
<1> QED BY <1>1, <1>2, <1>3 DEF ComesTo

\* What a handler will come to is no other handler's business.
LEMMA OthersCome ==
  ASSUME TypeInv, NEW t \in Tasks, NEW u \in Tasks, u # t,
         Step(t) \/ \E r \in Requests : Arrive(t, r) \/ Reject(t, r),
         NEW k, SlotsAwaited(k)' = SlotsAwaited(k), ComesTo(u, k)
  PROVE  ComesTo(u, k)'
<1>1. UNCHANGED <<pc[u], req[u], ev[u], held[u], todo[u], keys[u]>>
  BY OthersStay, OthersKeep
<1> QED BY <1>1 DEF ComesTo, ToList, InTodo, Announcing, Announces,
           RequestTenant, BodyTenant, OrElse, snapshot_id_from_event

\* Every event staged after a step is accounted for.
LEMMA AccountedStep ==
  ASSUME TypeInv, WholeInv, AnswersInv, StagedAreFindable, WakeInv, MissedMoves,
         NEW t \in Tasks, Step(t), NEW k \in DOMAIN staging'.byIdempotency
  PROVE  Accounted(k)'
<1>0. Standing(t) /\ missed \subseteq missed'
  BY DEF WakeInv, MissedMoves
<1>1. CASE /\ k \in DOMAIN staging.byIdempotency
           /\ staging'.byIdempotency[k] = staging.byIdempotency[k]
  <2>1. SlotsAwaited(k)' = SlotsAwaited(k)
    BY <1>1 DEF SlotsAwaited, Slot
  <2>2. ASSUME NEW x \in SlotsAwaited(k), x \notin DOMAIN correlations
        PROVE  Accounted(k)'
    <3>1. CASE x \notin DOMAIN correlations'
      BY <2>1, <2>2, <3>1 DEF Accounted
    <3>2. CASE x \in DOMAIN correlations'
      <4>1. x \in missed' \/ ToList(t, x)'
        BY <1>0, <2>2, <3>2, NewlyListed DEF NewlyKnown
      <4> QED BY <2>1, <2>2, <4>1 DEF Accounted, ComesTo
    <3> QED BY <3>1, <3>2
  <2>3. CASE SlotsAwaited(k) \cap missed # {}
    BY <1>0, <2>1, <2>3 DEF Accounted
  <2>4. ASSUME NEW u \in Tasks, ComesTo(u, k) PROVE Accounted(k)'
    <3>1. CASE u = t
      BY <1>0, <1>1, <2>1, <2>4, <3>1, ComesToStep DEF Accounted
    <3>2. CASE u # t
      BY <2>1, <2>4, <3>2, OthersCome DEF Accounted
    <3> QED BY <3>1, <3>2
  <2> QED BY <1>1, <2>2, <2>3, <2>4 DEF WakeInv, Accounted
<1>2. CASE /\ pc[t] = "stage" /\ k = EventKey(ev[t])
           /\ staging'.byIdempotency[k].pending = wait[t]
  <2>1. correlations' = correlations
    BY <1>2, CorrelationsStay DEF Register, Store
  <2>2. PICK p \in wait[t] : \/ ~Resolves(ev[t].tenant, p)
                            \/ Slot(ev[t].tenant, p) \in missed
    BY <1>0, <1>2 DEF Standing
  <2>3. k[1] = ev[t].tenant /\ Slot(ev[t].tenant, p) \in SlotsAwaited(k)'
    BY <1>2 DEF SlotsAwaited, EventKey, Slot
  <2> QED BY <1>0, <2>1, <2>2, <2>3 DEF Accounted, Resolves
<1> QED BY <1>1, <1>2, StagedAfter

\* Enrichment does not change which API an event came through.
LEMMA EnrichedSystem ==
  ASSUME NEW e \in DfcEvent
  PROVE  Enriched(e).system = e.system
<1> DEFINE rec  == Correlation(e.tenant, ReviewOf(e))
           task == OrElse(e.task, rec.task)
<1>1. \/ Enriched(e) = e
      \/ Enriched(e) = [e EXCEPT !.run = rec.run, !.task = task]
  BY DEF Enriched
<1> HIDE DEF rec, task
<1> QED BY <1>1 DEF DfcEvent

\* An event goes on to register only if it announces a snapshot.
LEMMA OnlySnapshotsRegister ==
  /\ \A r \in InboundAivcsEvent \cup InboundHitlEvent :
       LET e == into_dfc_event(r)
       IN  /\ e.system = "aivcs_api" => r.api = "aivcs"
           /\ FirstStep(r, e) = "register" =>
                e.system = "aivcs_api" /\ snapshot_id_from_event(e) # None
  /\ \A e : ResolvedStep(e) = "register" =>
              e.system = "aivcs_api" /\ snapshot_id_from_event(e) # None
<1>1. ASSUME NEW r \in InboundAivcsEvent \cup InboundHitlEvent
      PROVE  into_dfc_event(r).system = "aivcs_api" <=> r.api = "aivcs"
  BY DEF into_dfc_event, AivcsEvent, HitlEvent, InboundHitlEvent
<1>2. \A r, e : FirstStep(r, e) = "register" =>
        r.api = "aivcs" /\ snapshot_id_from_event(e) # None
  BY DEF FirstStep, AivcsForward, HitlForward
<1>3. \A e : ResolvedStep(e) = "register" =>
        e.system = "aivcs_api" /\ snapshot_id_from_event(e) # None
  BY DEF ResolvedStep, AivcsForward
<1> QED BY <1>1, <1>2, <1>3

\* A handler's own step leaves it standing so.
LEMMA StandingStep ==
  ASSUME TypeInv, NEW t \in Tasks, Standing(t), Step(t)
  PROVE  Standing(t)'
<1> USE DEF Goto, Say, Finish
<1>0. /\ pc \in [Tasks -> Labels] /\ held \in [Tasks -> BOOLEAN]
      /\ ev \in [Tasks -> DfcEvent \cup {NoEvent}]
      /\ wait \in [Tasks -> SUBSET Lookups]
      /\ todo \in [Tasks -> Seq(Lookups)]
      /\ keys \in [Tasks -> SUBSET EventKeys]
      /\ answer \in [Tasks -> Answers]
  BY DEF TypeInv, TypeOK
<1>1. CASE Lookup(t)
  <2>1. /\ pc[t] = "lookup" /\ pc'[t] \in {"lookup_staged", "done"}
        /\ UNCHANGED job
    BY <1>0, <1>1 DEF Lookup
  <2> QED BY <2>1 DEF Standing, Before, Carrying, WithEvent, job
<1>2. CASE LookupStaged(t)
  <2> DEFINE e == into_dfc_event(req[t])
  <2>1. /\ req[t] \in InboundAivcsEvent \cup InboundHitlEvent
        /\ pc[t] = "lookup_staged" /\ UNCHANGED <<req, held, todo, keys>>
    BY <1>2 DEF LookupStaged, TypeInv, PhaseOK
  <2>2. \/ pc'[t] = "done"
        \/ ev'[t] = e /\ pc'[t] = FirstStep(req[t], e)
    BY <1>0, <1>2 DEF LookupStaged
  <2>3. FirstStep(req[t], e) \in {"register", "ingest", "enrich", "check"}
    BY StepLabels
  <2>4. /\ e.system = "aivcs_api" => req[t].api = "aivcs"
        /\ FirstStep(req[t], e) = "register" =>
             e.system = "aivcs_api" /\ snapshot_id_from_event(e) # None
    BY <2>1, OnlySnapshotsRegister
  <2>5. todo[t] = <<>> /\ keys[t] = {}
    BY <2>1 DEF Standing, Before
  <2> HIDE DEF e
  <2> QED BY <2>1, <2>2, <2>3, <2>4, <2>5
          DEF Standing, Before, Carrying, WithEvent, snapshot_id_from_event,
              OrElse
<1>3. CASE Enrich(t)
  <2>1. /\ ev[t] \in DfcEvent /\ UNCHANGED <<req, held, todo, keys>>
        /\ pc[t] \in {"enrich", "enrich_resolved"}
    BY <1>3 DEF Enrich, TypeInv, PhaseOK, WithEvent
  <2>2. \/ pc'[t] = "done" /\ answer'[t] = Failed
        \/ ev'[t] = Enriched(ev[t]) /\ pc'[t] \in {"ingest", "check"}
    BY <1>0, <1>3, StepLabels DEF Enrich
  <2>3. Before(t)' => Before(t)
    BY <2>1, <2>2 DEF Before, WithEvent
  <2> QED BY <2>1, <2>2, <2>3, EnrichedSystem
          DEF Standing, Before, Carrying, WithEvent
<1>4. CASE Check(t)
  <2> DEFINE left == Unresolved(ev[t].tenant, wait[t])
  <2>1. pc[t] = "check" /\ UNCHANGED <<correlations, req, ev, held, todo, keys>>
    BY <1>4 DEF Check, upstream
  <2>2. \/ pc'[t] = "done" /\ answer'[t] = Failed
        \/ pc'[t] = "stage" /\ wait'[t] = left /\ left # {}
        \/ pc'[t] = ResolvedStep(ev[t])
    BY <1>0, <1>4 DEF Check
  <2>3. \A p \in left : ~Resolves(ev[t].tenant, p)
    BY DEF Unresolved
  <2>4. /\ ResolvedStep(ev[t]) \in {"register", "ingest", "enrich_resolved"}
        /\ ResolvedStep(ev[t]) = "register" =>
             /\ ev[t].system = "aivcs_api"
             /\ snapshot_id_from_event(ev[t]) # None
    BY StepLabels, OnlySnapshotsRegister
  <2> HIDE DEF left
  <2>5. Before(t)' => Before(t)
    BY <2>1, <2>2, <2>4 DEF Before, WithEvent
  <2>6. CASE pc'[t] = "stage" /\ wait'[t] = left /\ left # {}
    BY <2>1, <2>3, <2>5, <2>6
       DEF Standing, Before, Carrying, WithEvent, Resolves, Slot
  <2>7. CASE pc'[t] = "done" /\ answer'[t] = Failed
    BY <2>7 DEF Standing, Before, Carrying, WithEvent
  <2>8. CASE pc'[t] = ResolvedStep(ev[t])
    BY <2>1, <2>4, <2>5, <2>8
       DEF Standing, Carrying, WithEvent, snapshot_id_from_event, OrElse
  <2> QED BY <2>2, <2>6, <2>7, <2>8
<1>5. CASE Stage(t)
  BY <1>0, <1>5 DEF Stage, Standing, Before, Carrying, WithEvent, job
<1>6. CASE Register(t)
  BY <1>0, <1>6 DEF Register, Standing, Before, Carrying, WithEvent, job
<1>7. CASE Ingest(t)
  BY <1>0, <1>7 DEF Ingest, Standing, Before, Carrying, WithEvent
<1>8. CASE Record(t)
  BY <1>0, <1>8 DEF Record, Standing, Before, Carrying, WithEvent
<1>9. CASE Store(t)
  <2>1. pc[t] = "store" /\ todo[t] = <<>> /\ keys[t] = {} /\ keys' = keys
    BY <1>9 DEF Store, Standing, Before, job
  <2>2. \/ pc'[t] = "done" /\ answer'[t] = Failed
        \/ pc'[t] = "list"
        \/ pc'[t] = "done" /\ todo'[t] = <<>>
    BY <1>0, <1>9 DEF Store
  <2> QED BY <2>1, <2>2 DEF Standing, Before, Carrying, WithEvent
<1>10. CASE List(t)
  BY <1>0, <1>10 DEF List, Standing, Before, Carrying, WithEvent
<1>11. CASE ListDone(t)
  BY <1>0, <1>11 DEF ListDone, Standing, Before, Carrying, WithEvent, job
<1>12. CASE Take(t)
  <2>1. \/ pc'[t] = "take"
        \/ pc'[t] = "check" /\ held'[t] = TRUE
    BY <1>0, <1>12 DEF Take
  <2> QED BY <2>1 DEF Standing, Before, Carrying, WithEvent
<1>13. CASE Restage(t)
  BY <1>0, <1>13 DEF Restage, Standing, Before, Carrying, WithEvent
<1> QED BY <1>1, <1>2, <1>3, <1>4, <1>5, <1>6, <1>7, <1>8, <1>9, <1>10,
           <1>11, <1>12, <1>13 DEF Step

\* A handler that does not move stands as it did: a correlation that becomes
\* known while it is about to stage is remembered as missed.
LEMMA StandsStill ==
  ASSUME MissedMoves, NEW u \in Tasks, Standing(u),
         UNCHANGED <<pc[u], req[u], ev[u], held[u], wait[u], answer[u],
                     todo[u], keys[u]>>
  PROVE  Standing(u)'
<1>1. ASSUME pc[u] = "stage", NEW p \in wait[u]
      PROVE  \/ Slot(ev[u].tenant, p) \notin DOMAIN correlations'
             \/ Slot(ev[u].tenant, p) \in missed'
  <2>1. \/ Slot(ev[u].tenant, p) \notin DOMAIN correlations
        \/ Slot(ev[u].tenant, p) \in missed
    BY <1>1 DEF Standing, Resolves
  <2>2. Slot(ev[u].tenant, p) \in NewlyKnown =>
          Slot(ev[u].tenant, p) \in Overtaken
    BY <1>1 DEF Overtaken
  <2> QED BY <2>1, <2>2 DEF MissedMoves, NewlyKnown
<1>2. (Before(u)' <=> Before(u)) /\ (pc[u] = "stage" => wait[u] # {})
  BY DEF Before, Standing
<1> QED BY <1>1, <1>2
        DEF Standing, Resolves, Slot, snapshot_id_from_event, OrElse

\* An arrival, a restart and the clock wake nobody and leave nobody behind.
LEMMA WakeFrame ==
  ASSUME TypeInv, WakeInv, MissedMoves,
         \/ \E t \in Tasks, r \in Requests : Arrive(t, r) \/ Reject(t, r)
         \/ Crash \/ Tick \/ UNCHANGED vars
  PROVE  WakeInv'
<1>0. pc \in [Tasks -> Labels] /\ answer \in [Tasks -> Answers]
  BY DEF TypeInv, TypeOK
<1>1. CASE \E t \in Tasks, r \in Requests : Arrive(t, r) \/ Reject(t, r)
  <2>1. PICK t \in Tasks, r \in Requests : Arrive(t, r) \/ Reject(t, r)
    BY <1>1
  <2>2. /\ pc[t] = "idle" /\ Standing(t) /\ todo[t] = <<>> /\ keys[t] = {}
        /\ UNCHANGED <<correlations, staging, todo, keys>>
        /\ missed \subseteq missed'
    BY <2>1 DEF Arrive, Reject, WakeInv, Standing, Before, upstream, service,
                job, MissedMoves
  <2>3. \/ pc'[t] \in {"store", "lookup"}
        \/ pc'[t] = "done" /\ answer'[t] = Failed
    BY <1>0, <2>1 DEF Arrive, Reject, Goto, Say, Finish
  <2>4. Standing(t)'
    BY <2>2, <2>3 DEF Standing, Before, Carrying, WithEvent
  <2>5. ASSUME NEW u \in Tasks \ {t} PROVE Standing(u)'
    BY <2>1, <2>5, OthersStay, OthersKeep, StandsStill DEF WakeInv
  <2>6. ASSUME NEW k \in DOMAIN staging'.byIdempotency PROVE Accounted(k)'
    <3>1. Accounted(k) /\ SlotsAwaited(k)' = SlotsAwaited(k)
      BY <2>2, <2>6 DEF WakeInv, SlotsAwaited, Slot
    <3>2. ~ComesTo(t, k)
      BY <2>2 DEF ComesTo, ToList, InTodo, Announcing
    <3>3. \A u \in Tasks : ComesTo(u, k) => ComesTo(u, k)'
      BY <2>1, <3>1, <3>2, OthersCome
    <3> QED BY <2>2, <3>1, <3>3 DEF Accounted
  <2> QED BY <2>4, <2>5, <2>6 DEF WakeInv
<1>2. CASE Crash
  <2>1. DOMAIN staging'.byIdempotency = {}
    BY <1>2 DEF Crash, EmptyStore
  <2>2. ASSUME NEW u \in Tasks PROVE Standing(u)'
    <3>1. UNCHANGED <<todo[u], keys[u]>> /\ Standing(u)
      BY <1>2 DEF Crash, WakeInv
    <3>2. \/ pc'[u] = "done" /\ answer'[u] = Failed
          \/ pc[u] \in {"idle", "done"} /\ UNCHANGED <<pc[u], answer[u]>>
      BY <1>2 DEF Crash, Running
    <3> QED BY <3>1, <3>2 DEF Standing, Before, Carrying, WithEvent
  <2> QED BY <2>1, <2>2 DEF WakeInv
<1>3. CASE Tick \/ UNCHANGED vars
  <2>1. /\ UNCHANGED <<correlations, staging, pc, req, job, answer>>
        /\ missed \subseteq missed'
    BY <1>3 DEF Tick, vars, upstream, service, MissedMoves
  <2>2. ASSUME NEW u \in Tasks PROVE Standing(u)'
    BY <2>1, StandsStill DEF WakeInv, job
  <2>3. ASSUME NEW k \in DOMAIN staging'.byIdempotency PROVE Accounted(k)'
    <3>1. Accounted(k) /\ SlotsAwaited(k)' = SlotsAwaited(k)
      BY <2>1, <2>3 DEF WakeInv, SlotsAwaited, Slot
    <3>2. \A u \in Tasks : ComesTo(u, k) => ComesTo(u, k)'
      BY <2>1, <3>1 DEF ComesTo, ToList, InTodo, Announcing, Announces, job,
                        RequestTenant, BodyTenant, OrElse,
                        snapshot_id_from_event
    <3> QED BY <2>1, <3>1, <3>2 DEF Accounted
  <2> QED BY <2>2, <2>3 DEF WakeInv
<1> QED BY <1>1, <1>2, <1>3

\* While no call has failed, every staged event is accounted for.
LEMMA WakeInvariant == HistorySpec => [](faults = 0 => WakeInv)
<1>1. HistoryInit => WakeInv
  <2> SUFFICES ASSUME HistoryInit PROVE WakeInv
    OBVIOUS
  <2>1. DOMAIN staging.byIdempotency = {}
    BY DEF HistoryInit, Init, EmptyStore
  <2>2. \A t \in Tasks : Standing(t)
    BY DEF HistoryInit, Init, Standing, Before, Carrying, WithEvent
  <2> QED BY <2>1, <2>2 DEF WakeInv
<1>2. /\ TypeInv /\ WholeInv /\ AnswersInv /\ StagedAreFindable
      /\ (faults = 0 => WakeInv) /\ [HistoryNext]_hvars
      => (faults = 0 => WakeInv)'
  <2> SUFFICES ASSUME TypeInv, WholeInv, AnswersInv, StagedAreFindable,
                      faults = 0 => WakeInv, [HistoryNext]_hvars, faults' = 0
               PROVE  WakeInv'
    OBVIOUS
  <2>1. CASE UNCHANGED hvars
    <3>1. UNCHANGED vars /\ UNCHANGED missed /\ faults = 0
      BY <2>1 DEF hvars, history, vars, counters
    <3> QED BY <3>1 DEF WakeInv, Accounted, SlotsAwaited, Standing, ComesTo,
              ToList, InTodo, Announcing, Announces, Before, Resolves, Slot,
              RequestTenant, BodyTenant, OrElse, snapshot_id_from_event,
              vars, upstream, service, job
  <2>2. CASE HistoryNext
    <3>0. MissedMoves /\ faults \in Nat
      BY <2>2 DEF HistoryNext, MissedMoves, TypeInv, TypeOK
    <3>1. CASE \E t \in Tasks : Step(t)
      <4>1. PICK t \in Tasks : Step(t)
        BY <3>1
      <4>2. WakeInv
        BY <4>1 DEF Step, Lookup, LookupStaged, Enrich, Check, Stage, Register,
             Ingest, Record, Store, List, ListDone, Take, Restage, counters
      <4>3. ASSUME NEW u \in Tasks PROVE Standing(u)'
        <5>1. Standing(u)
          BY <4>2 DEF WakeInv
        <5>2. CASE u = t
          BY <4>1, <5>1, <5>2, StandingStep
        <5>3. CASE u # t
          BY <3>0, <4>1, <5>1, <5>3, OthersStay, OthersKeep, StandsStill
        <5> QED BY <5>2, <5>3
      <4>4. ASSUME NEW k \in DOMAIN staging'.byIdempotency PROVE Accounted(k)'
        BY <3>0, <4>1, <4>2, <4>4, AccountedStep
      <4> QED BY <4>3, <4>4 DEF WakeInv
    <3>2. CASE \E t \in Tasks : CutShort(t) \/ ReplyLost(t)
      BY <3>0, <3>2 DEF CutShort, ReplyLost
    <3>3. CASE \/ \E t \in Tasks, r \in Requests : Arrive(t, r) \/ Reject(t, r)
               \/ Crash \/ Tick \/ UNCHANGED vars
      <4>1. faults = 0
        BY <3>3 DEF Arrive, Reject, Crash, Tick, vars, counters
      <4> QED BY <3>0, <3>3, <4>1, WakeFrame
    <3> QED BY <2>2, <3>1, <3>2, <3>3 DEF HistoryNext, Next, Terminated
  <2> QED BY <2>1, <2>2
<1>3. HistorySpec =>
        [](TypeInv /\ WholeInv /\ AnswersInv /\ StagedAreFindable)
  BY HistoryOnly, TypeInvariant, WholeInvariant, AnswersInvariant,
     StagedFindable, PTL
<1> QED BY <1>1, <1>2, <1>3, PTL DEF HistorySpec

\* Whatever requests arrive and however their handlers interleave, a restart
\* and a purge included, while no call has failed an event whose correlation
\* is known is left in the staging store at rest only if that correlation came
\* at one of the three moments EventIngestHistory names, or the reconcile that
\* was to take the event was refused (TenantMismatch) on its way.
THEOREM OnlyMissedStay == HistorySpec => []NoOtherWakeupLost
<1>1. TypeInv /\ WholeInv /\ (faults = 0 => WakeInv) => NoOtherWakeupLost
  <2> SUFFICES ASSUME TypeInv, WholeInv, WakeInv, Running = {},
                      NEW k \in DOMAIN staging.byIdempotency, Woken(k)
               PROVE  LeftBehind(k)
    BY DEF NoOtherWakeupLost, Quiescent
  <2>1. Accounted(k)
    BY DEF WakeInv
  <2>2. \A x \in SlotsAwaited(k) : x \in DOMAIN correlations
    BY DEF Woken, SlotsAwaited, Unresolved, Resolves, WholeInv, StagedWhole,
           EventKey
  <2>3. ASSUME NEW t \in Tasks, ComesTo(t, k) PROVE Abandoned(t, k)
    <3>1. pc[t] \in {"idle", "done"} /\ Standing(t)
      BY DEF Running, WakeInv
    <3>2. k \in keys[t] \/ \E x \in SlotsAwaited(k) : InTodo(t, x)
      BY <2>3, <3>1 DEF ComesTo, ToList, Announcing
    <3>3. answer[t] = Failed
      BY <3>1, <3>2 DEF Standing, Before, InTodo
    <3> QED BY <3>2, <3>3 DEF Abandoned, InTodo
  <2> QED BY <2>1, <2>2, <2>3 DEF Accounted, LeftBehind
<1>2. HistorySpec => [](TypeInv /\ WholeInv)
  BY HistoryOnly, TypeInvariant, WholeInvariant, PTL
<1> QED BY <1>1, <1>2, WakeInvariant, PTL
=============================================================================
