----------------------------- MODULE EventIngest -----------------------------
(****************************************************************************)
(* EventIngestService behind its three routes: POST /v1/events/aivcs,       *)
(* POST /v1/events/hitl and POST /v1/correlate.  Each request is a task     *)
(* running its handler to the end; handlers interleave at their awaits      *)
(* (calls to data-fabric, to the idempotency backend, and for the staging   *)
(* lock), so one action is the code between two awaits.                     *)
(*                                                                          *)
(* An event whose dependency is unknown is accepted (202) and staged.  A    *)
(* request that makes a correlation known then reconciles: it lists the     *)
(* keys staged on it and takes, checks and forwards (or re-stages) each.    *)
(****************************************************************************)
EXTENDS DataFabric, StagingStore, Sequences, FiniteSets

CONSTANTS
  Tasks,        \* one per request handled
  Requests,     \* the requests callers may send
  Backend,      \* DFC_IDEMPOTENCY_BACKEND
  TTL,          \* idempotency and staging time to live
  MaxTime,      \* bound: the clock stops here
  MaxInFlight,  \* bound: handlers running at once
  MaxFaults,    \* bound: handlers cut short or replies lost
  MaxCrashes    \* bound: restarts of the process

ASSUME RequestsAssumption ==
  Requests \subseteq InboundAivcsEvent \cup InboundHitlEvent
                       \cup CorrelateRequest

ASSUME BackendAssumption == Backend \in {"data_fabric", "memory", "redis"}

ASSUME BoundsAssumption ==
  {TTL, MaxTime, MaxInFlight, MaxFaults, MaxCrashes} \subseteq Nat

VARIABLES
  idem,      \* the memory or redis backend: key -> [event, expires]
  staging,   \* the StagingStore
  now,       \* the clock
  ingested,  \* dfc_events_ingested_total
  pc,        \* where each task's handler is
  req,       \* the request it serves
  ev,        \* the event it is working on
  held,      \* whether ev was taken from staging by a reconcile
  wait,      \* the lookups ev is pending on
  todo,      \* correlations still to reconcile, in order
  keys,      \* listed staged keys still to take
  answer,    \* the response prepared; the caller has it once pc is "done"
  faults, crashes   \* used up so far

service  == <<idem, staging, now, ingested>>
job      == <<ev, held, wait, todo, keys>>
counters == <<faults, crashes>>
vars == <<upstream, service, pc, req, job, answer, counters>>

Labels == {"idle", "lookup", "lookup_staged", "enrich", "check", "stage",
           "enrich_resolved", "register", "ingest", "record", "store",
           "list", "take", "done"}

NoEvent == [tenant |-> None]
Ingested(e)   == [status |-> "ingested", event |-> e]
Accepted(pending) == [status |-> "staged", pending |-> pending]
Correlated    == [status |-> "correlated"]
Failed        == [status |-> "error"]
NoAnswer      == [status |-> "none"]

Answers == [status : {"ingested"}, event : DfcEvent]
             \cup [status : {"staged"}, pending : SUBSET Lookups]
             \cup {Correlated, Failed, NoAnswer}

IdemEntry == [event : DfcEvent, expires : Nat]

TypeOK ==
  /\ UpstreamTypeOK
  /\ DOMAIN idem \subseteq EventKeys
  /\ idem \in [DOMAIN idem -> IdemEntry]
  /\ IsStore(staging)
  /\ now \in Nat /\ ingested \in Nat
  /\ pc \in [Tasks -> Labels]
  /\ req \in [Tasks -> Requests \cup {None}]
  /\ ev \in [Tasks -> DfcEvent \cup {NoEvent}]
  /\ held \in [Tasks -> BOOLEAN]
  /\ wait \in [Tasks -> SUBSET Lookups]
  /\ todo \in [Tasks -> Seq(Lookups)]
  /\ keys \in [Tasks -> SUBSET EventKeys]
  /\ answer \in [Tasks -> Answers]
  /\ faults \in Nat /\ crashes \in Nat

Init ==
  /\ UpstreamInit
  /\ idem = [k \in {} |-> None]
  /\ staging = EmptyStore
  /\ now = 0 /\ ingested = 0
  /\ pc = [t \in Tasks |-> "idle"]
  /\ req = [t \in Tasks |-> None]
  /\ ev = [t \in Tasks |-> NoEvent]
  /\ held = [t \in Tasks |-> FALSE]
  /\ wait = [t \in Tasks |-> {}]
  /\ todo = [t \in Tasks |-> <<>>]
  /\ keys = [t \in Tasks |-> {}]
  /\ answer = [t \in Tasks |-> NoAnswer]
  /\ faults = 0 /\ crashes = 0

-----------------------------------------------------------------------------
(* Helpers *)

Goto(t, l) == pc' = [pc EXCEPT ![t] = l]
Say(t, a)  == answer' = [answer EXCEPT ![t] = a]
Finish(t, a) == Goto(t, "done") /\ Say(t, a)

Running == {t \in Tasks : pc[t] \notin {"idle", "done"}}

RequestKey(r)    == <<BodyTenant(r), r.key>>
RequestTenant(t) == BodyTenant(req[t])

\* The entries of the memory or redis backend that have not expired: memory
\* purges the others on every get, redis by itself.
Live(entries) ==
  LET fresh == {k \in DOMAIN entries : entries[k].expires > now}
  IN  [k \in fresh |-> entries[k]]

\* Faulty: the backend never remembers.
NothingKnown == [k \in {} |-> None]

\* What IdempotencyStore::get answers from.
KnownEvents ==
  IF Backend = "data_fabric" THEN events
  ELSE [k \in DOMAIN Live(idem) |-> idem[k].event]

\* What IdempotencyStore::put leaves: data-fabric keeps its own record.
PutIdem(e) ==
  IF Backend = "data_fabric" THEN idem
  ELSE Overwritten(idem, {EventKey(e)}, [event |-> e, expires |-> now + TTL])

\* Where ingest_aivcs_event starts.
AivcsForward(e) ==
  IF e.type = "aivcs.snapshot.created" /\ snapshot_id_from_event(e) # None
  THEN "register" ELSE "ingest"

\* Faulty: an event that names a review is forwarded as if it had a run.
HitlForwardAnyway(e, pending) ==
  IF e.meta.review # None \/ pending = {} THEN "ingest" ELSE "check"

\* Faulty: the handler asks again until the review has a run.
HitlPoll(e, pending) ==
  IF e.run # None \/ pending = {} THEN "ingest" ELSE "enrich"

\* Where ingest_hitl goes on once enrichment has been tried.
HitlForward(e, pending) ==
  IF e.run # None \/ pending = {} THEN "ingest" ELSE "check"

\* Enrichment looks the review up only for an event without a run.
NeedsRun(e) == e.run = None /\ e.meta.review # None

\* Faulty: an AIVCS event is forwarded whatever it depends on.
FirstStepAnyway(r, e) ==
  IF r.api = "aivcs" THEN AivcsForward(e)
  ELSE IF NeedsRun(e) THEN "enrich" ELSE HitlForward(e, Pending(r))

\* Where an event goes after both idempotency lookups missed.
FirstStep(r, e) ==
  IF r.api = "aivcs"
  THEN IF Pending(r) = {} THEN AivcsForward(e) ELSE "check"
  ELSE IF NeedsRun(e) THEN "enrich" ELSE HitlForward(e, Pending(r))

\* Where an event goes when everything it waited for is known.
ResolvedStep(e) ==
  IF e.system = "aivcs_api" THEN AivcsForward(e) ELSE "enrich_resolved"

ReviewOf(e) == <<"review", e.meta.review>>

\* enrich_hitl_from_correlation
Enriched(e) ==
  IF ~NeedsRun(e) \/ ~Resolves(e.tenant, ReviewOf(e)) THEN e
  ELSE LET rec == Correlation(e.tenant, ReviewOf(e))
       IN  [e EXCEPT !.run = rec.run, !.task = OrElse(@, rec.task)]

\* unresolved
Unresolved(tenant, pending) == {p \in pending : ~Resolves(tenant, p)}

\* Faulty: an absent id is reconciled like any other.
OneUnchecked(kind, id) == <<<<kind, id>>>>

One(kind, id) == IF id = None THEN <<>> ELSE <<<<kind, id>>>>

\* reconcile_record
ReconcileTargets(rec) ==
  One("run", rec.run) \o One("snapshot", rec.snapshot)
                      \o One("review", rec.links.review)

-----------------------------------------------------------------------------
(* The request arrives *)

Arrive(t, r) ==
  /\ pc[t] = "idle"
  /\ Cardinality(Running) < MaxInFlight
  /\ WellFormed(r)
  /\ req' = [req EXCEPT ![t] = r]
  /\ Goto(t, IF r.api = "correlate" THEN "store" ELSE "lookup")
  /\ UNCHANGED <<upstream, service, job, answer, counters>>

\* Refused before anything is read or written.
Reject(t, r) ==
  /\ pc[t] = "idle"
  /\ ~WellFormed(r)
  /\ req' = [req EXCEPT ![t] = r]
  /\ Finish(t, Failed)
  /\ UNCHANGED <<upstream, service, job, counters>>

-----------------------------------------------------------------------------
(* ingest_aivcs and ingest_hitl *)

\* idempotency.get
Lookup(t) ==
  /\ pc[t] = "lookup"
  /\ idem' = Live(idem)
  /\ LET k == RequestKey(req[t])
     IN  IF k \in DOMAIN KnownEvents
         THEN Finish(t, Ingested(KnownEvents[k]))
         ELSE Goto(t, "lookup_staged") /\ UNCHANGED answer
  /\ UNCHANGED <<upstream, staging, now, ingested, req, job, counters>>

\* staging.read, then the event is normalised.
LookupStaged(t) ==
  /\ pc[t] = "lookup_staged"
  /\ LET r == req[t]
         k == RequestKey(r)
         e == into_dfc_event(r)
     IN  IF k \in DOMAIN staging.byIdempotency
         THEN /\ Finish(t, Accepted(staging.byIdempotency[k].pending))
              /\ UNCHANGED <<ev, wait>>
         ELSE /\ ev' = [ev EXCEPT ![t] = e]
              /\ wait' = [wait EXCEPT ![t] = Pending(r)]
              /\ Goto(t, FirstStep(r, e))
              /\ UNCHANGED answer
  /\ UNCHANGED <<upstream, service, req, held, todo, keys, counters>>

\* enrich_hitl_from_correlation: on arrival, or once ev is resolved.
Enrich(t) ==
  /\ pc[t] \in {"enrich", "enrich_resolved"}
  /\ IF NeedsRun(ev[t]) /\ Foreign(ev[t].tenant, ReviewOf(ev[t]))
     THEN Finish(t, Failed) /\ UNCHANGED ev
     ELSE /\ ev' = [ev EXCEPT ![t] = Enriched(ev[t])]
          /\ Goto(t, IF pc[t] = "enrich"
                     THEN HitlForward(Enriched(ev[t]), wait[t])
                     ELSE "ingest")
          /\ UNCHANGED answer
  /\ UNCHANGED <<upstream, service, req, held, wait, todo, keys, counters>>

\* unresolved: at most one lookup is ever pending, so it is one call.
Check(t) ==
  /\ pc[t] = "check"
  /\ LET left == Unresolved(ev[t].tenant, wait[t])
     IN  IF \E p \in left : Foreign(ev[t].tenant, p)
         THEN Finish(t, Failed) /\ UNCHANGED wait
         ELSE /\ IF left = {}
                 THEN Goto(t, ResolvedStep(ev[t])) /\ UNCHANGED wait
                 ELSE Goto(t, "stage") /\ wait' = [wait EXCEPT ![t] = left]
              /\ UNCHANGED answer
  /\ UNCHANGED <<upstream, service, req, ev, held, todo, keys, counters>>

\* staging.write, first time: purge, stage, answer 202.
Stage(t) ==
  /\ pc[t] = "stage" /\ ~held[t]
  /\ staging' = stage(purge_expired(staging, now), ev[t], wait[t], now + TTL)
  /\ Finish(t, Accepted(wait[t]))
  /\ UNCHANGED <<upstream, idem, now, ingested, req, job, counters>>

\* register_snapshot_correlation
Register(t) ==
  /\ pc[t] = "register"
  /\ IF StoreConflicts(SnapshotRecord(ev[t]))
     THEN Finish(t, Failed) /\ UNCHANGED upstream
     ELSE /\ store_correlation(SnapshotRecord(ev[t]))
          /\ Goto(t, "ingest")
          /\ UNCHANGED answer
  /\ UNCHANGED <<service, req, job, counters>>

\* client.ingest_event: from here on ev is the event as stored.
Ingest(t) ==
  /\ pc[t] = "ingest"
  /\ ingest_event(ev[t])
  /\ ev' = [ev EXCEPT ![t] = Stored(ev[t])]
  /\ Goto(t, "record")
  /\ UNCHANGED <<service, req, held, wait, todo, keys, answer, counters>>

\* Faulty: only the metadata is looked at.
AnnouncesMeta(r, e) == r.api = "aivcs" /\ e.meta.snapshot # None

\* What forward_aivcs reconciles after a request's own event is stored.
Announces(r, e) == r.api = "aivcs" /\ snapshot_id_from_event(e) # None

\* Faulty: what a reconcile ingests is not counted.
CountOwn(t) == IF held[t] THEN ingested ELSE ingested + 1

\* inc_events_ingested
Count(t) == ingested + 1

\* record_ingested; then the handler reconciles, answers, or takes the next
\* listed key.
Record(t) ==
  /\ pc[t] = "record"
  /\ idem' = PutIdem(ev[t])
  /\ ingested' = Count(t)
  /\ held' = [held EXCEPT ![t] = FALSE]
  /\ IF held[t]
     THEN Goto(t, "take") /\ UNCHANGED <<answer, todo>>
     ELSE /\ Say(t, Ingested(ev[t]))
          /\ IF Announces(req[t], ev[t])
             THEN /\ todo' = [todo EXCEPT ![t] =
                                One("snapshot", snapshot_id_from_event(ev[t]))]
                  /\ Goto(t, "list")
             ELSE Goto(t, "done") /\ UNCHANGED todo
  /\ UNCHANGED <<upstream, staging, now, req, ev, wait, keys, counters>>

-----------------------------------------------------------------------------
(* correlate_create and reconcile_correlation *)

Store(t) ==
  /\ pc[t] = "store"
  /\ LET rec == RecordOf(req[t])
     IN  IF StoreConflicts(rec)
         THEN Finish(t, Failed) /\ UNCHANGED <<upstream, todo>>
         ELSE /\ store_correlation(rec)
              /\ todo' = [todo EXCEPT ![t] = ReconcileTargets(rec)]
              /\ Say(t, Correlated)
              /\ Goto(t, IF ReconcileTargets(rec) = <<>> THEN "done"
                                                         ELSE "list")
  /\ UNCHANGED <<service, req, ev, held, wait, keys, counters>>

\* staging.read: keys_for the next correlation to reconcile.
List(t) ==
  /\ pc[t] = "list"
  /\ keys' = [keys EXCEPT ![t] =
                keys_for(staging, RequestTenant(t), Head(todo[t]))]
  /\ todo' = [todo EXCEPT ![t] = Tail(@)]
  /\ Goto(t, "take")
  /\ UNCHANGED <<upstream, service, req, ev, held, wait, answer, counters>>

\* Every listed key has been seen to.
ListDone(t) ==
  /\ pc[t] = "take" /\ keys[t] = {}
  /\ Goto(t, IF todo[t] = <<>> THEN "done" ELSE "list")
  /\ UNCHANGED <<upstream, service, req, job, answer, counters>>

\* staging.write: take one listed key, in the order of the hash set.
Take(t) ==
  /\ pc[t] = "take"
  /\ \E k \in keys[t] :
       /\ keys' = [keys EXCEPT ![t] = @ \ {k}]
       /\ staging' = take(staging, k)
       /\ IF k \in DOMAIN staging.byIdempotency
          THEN LET rec == staging.byIdempotency[k]
               IN  /\ ev' = [ev EXCEPT ![t] = rec.event]
                   /\ wait' = [wait EXCEPT ![t] = rec.pending]
                   /\ held' = [held EXCEPT ![t] = TRUE]
                   /\ Goto(t, "check")
          ELSE UNCHANGED <<ev, wait, held, pc>>
  /\ UNCHANGED <<upstream, idem, now, ingested, req, todo, answer, counters>>

\* Faulty: a record put back is taken up again at once.
RestageAgain(t) ==
  /\ pc[t] = "stage" /\ held[t]
  /\ staging' = stage(staging, ev[t], wait[t], now + TTL)
  /\ held' = [held EXCEPT ![t] = FALSE]
  /\ keys' = [keys EXCEPT ![t] = @ \cup {EventKey(ev[t])}]
  /\ Goto(t, "take")
  /\ UNCHANGED <<upstream, idem, now, ingested, req, ev, wait, todo, answer,
                 counters>>

\* staging.write: a taken record that still waits goes back, without a purge.
Restage(t) ==
  /\ pc[t] = "stage" /\ held[t]
  /\ staging' = stage(staging, ev[t], wait[t], now + TTL)
  /\ held' = [held EXCEPT ![t] = FALSE]
  /\ Goto(t, "take")
  /\ UNCHANGED <<upstream, idem, now, ingested, req, ev, wait, todo, keys,
                 answer, counters>>

-----------------------------------------------------------------------------
(* Faults and time *)

\* The handler stops between two awaits: a call fails before it takes effect,
\* or the caller is gone and the server drops the handler.  What the handler
\* held in its locals is dropped with it.
CutShort(t) ==
  /\ t \in Running /\ faults < MaxFaults
  /\ faults' = faults + 1
  /\ Finish(t, Failed)
  /\ held' = [held EXCEPT ![t] = FALSE]
  /\ UNCHANGED <<upstream, service, req, ev, wait, todo, keys, crashes>>

\* A writing call takes effect but its reply is lost.
LostWrite(t) ==
  \/ /\ pc[t] = "store" /\ store_correlation(RecordOf(req[t]))
     /\ UNCHANGED idem
  \/ /\ pc[t] = "register" /\ store_correlation(SnapshotRecord(ev[t]))
     /\ UNCHANGED idem
  \/ /\ pc[t] = "ingest" /\ ingest_event(ev[t])
     /\ UNCHANGED idem
  \/ /\ pc[t] = "record" /\ Backend = "redis" /\ idem' = PutIdem(ev[t])
     /\ UNCHANGED upstream

ReplyLost(t) ==
  /\ faults < MaxFaults
  /\ LostWrite(t)
  /\ faults' = faults + 1
  /\ Finish(t, Failed)
  /\ held' = [held EXCEPT ![t] = FALSE]
  /\ UNCHANGED <<staging, now, ingested, req, ev, wait, todo, keys, crashes>>

\* What a restart leaves of the idempotency backend.
SurvivingIdem == IF Backend = "memory" THEN [k \in {} |-> None] ELSE idem

\* The process dies and restarts: the staging store, the memory backend, the
\* counter and every running handler are gone.
Crash ==
  /\ crashes < MaxCrashes
  /\ crashes' = crashes + 1
  /\ staging' = EmptyStore
  /\ idem' = SurvivingIdem
  /\ ingested' = 0
  /\ pc' = [t \in Tasks |-> IF t \in Running THEN "done" ELSE pc[t]]
  /\ answer' = [t \in Tasks |-> IF t \in Running THEN Failed ELSE answer[t]]
  /\ held' = [t \in Tasks |-> FALSE]
  /\ UNCHANGED <<upstream, now, req, ev, wait, todo, keys, faults>>

Tick ==
  /\ now < MaxTime
  /\ now' = now + 1
  /\ UNCHANGED <<upstream, idem, staging, ingested, pc, req, job, answer,
                 counters>>

\* Every request has been answered: nothing more is asked of the service.
Terminated ==
  /\ \A t \in Tasks : pc[t] = "done"
  /\ UNCHANGED vars

-----------------------------------------------------------------------------
Step(t) == \/ Lookup(t) \/ LookupStaged(t) \/ Enrich(t) \/ Check(t)
           \/ Stage(t) \/ Register(t) \/ Ingest(t) \/ Record(t)
           \/ Store(t) \/ List(t) \/ ListDone(t) \/ Take(t) \/ Restage(t)

Next ==
  \/ \E t \in Tasks : \/ Step(t) \/ CutShort(t) \/ ReplyLost(t)
                      \/ \E r \in Requests : Arrive(t, r) \/ Reject(t, r)
  \/ Crash \/ Tick \/ Terminated

Spec == Init /\ [][Next]_vars

\* The runtime schedules every ready handler and every call it awaits
\* returns; nothing obliges callers to send, or faults to happen.
FairSpec == Spec /\ \A t \in Tasks : WF_vars(Step(t))
-----------------------------------------------------------------------------
\* A HITL event whose metadata names a review names the one of its review_id.
ReviewsConsistent ==
  \A r \in Requests :
    r.api = "hitl" /\ r.review # None => r.meta.review \in {None, r.review}

\* What is sent under one key waits for the same, whatever else it says.
KeysWaitAlike ==
  \A r, s \in Requests \cap (InboundAivcsEvent \cup InboundHitlEvent) :
    RequestKey(r) = RequestKey(s) => Pending(r) = Pending(s)

-----------------------------------------------------------------------------
(* Safety *)

\* Nothing is running and nothing will run until the next request.
Quiescent == Running = {}

\* No staged record is lost by the index (reconcile_correlation reaches
\* records only through keys_for), whatever interleaves with it.
StagedAreFindable == Findable(staging)

\* The index holds no entry of a record that has left: what take and
\* remove_staged must leave behind.  Holds where KeysWaitAlike does: a record
\* overwritten under its key by one that waits for something else leaves its
\* entries behind.
IndexIsTight == NothingStale(staging)

\* An event reaches data-fabric only after every correlation it was pending
\* on exists ("A correlation lookup that must exist before the event can be
\* forwarded"), on the direct path and through staging alike.  Holds where
\* ReviewsConsistent does.
DependencyBeforeForward ==
  \A k \in DOMAIN events : Unresolved(events[k].tenant, events[k].waits) = {}

\* A caller told its event was ingested was told what data-fabric holds
\* under the tenant and key it sent, whichever of several requests stored it,
\* and from whichever backend the answer came.
AnswersAgree ==
  \A t \in Tasks :
    answer[t].status = "ingested" =>
      LET k == RequestKey(req[t])
      IN  k \in DOMAIN events /\ answer[t].event = events[k]

\* The idempotency backend never disagrees with data-fabric.
BackendAgrees ==
  \A k \in DOMAIN idem : k \in DOMAIN events /\ idem[k].event = events[k]

\* The event under k is in a handler's hands between take and re-stage.
InHand(k) == \E t \in Running : held[t] /\ EventKey(ev[t]) = k

\* An event answered 202 is stored, staged or being reconciled, as long as
\* nothing was cut short, restarted, or old enough to be purged.  The one way
\* out left: another tenant holds what it, or another event sent under its
\* key, waits for, and the reconcile that took it ended in TenantMismatch.
AcceptedNotLost ==
  faults = 0 /\ crashes = 0 /\ now < TTL =>
    \A t \in Tasks :
      pc[t] = "done" /\ answer[t].status = "staged" =>
        LET k == RequestKey(req[t])
        IN  k \in DOMAIN events \/ k \in DOMAIN staging.byIdempotency
              \/ InHand(k)
              \/ \E u \in Tasks :
                   /\ answer[u].status = "staged" /\ RequestKey(req[u]) = k
                   /\ \E p \in Pending(req[u]) : HeldByOther(k[1], p)

\* A snapshot event is refused only because another tenant holds one of the
\* ids it names.
RefusedOnlyForNamedIds ==
  \A t \in Tasks :
    /\ faults = 0 /\ crashes = 0 /\ pc[t] = "done" /\ answer[t] = Failed
    /\ WellFormed(req[t]) /\ req[t].api = "aivcs"
    /\ Pending(req[t]) = {} /\ Quiescent
    => \E p \in correlation_lookup_keys(SnapshotRecord(AivcsEvent(req[t]))) :
         p[2] # Placeholder /\ HeldByOther(BodyTenant(req[t]), p)

\* When the server is at rest every staged event really waits: none has had
\* its correlation registered without being forwarded.
StagedStillWait ==
  Quiescent =>
    \A k \in DOMAIN staging.byIdempotency :
      LET rec == staging.byIdempotency[k]
      IN  Unresolved(rec.event.tenant, rec.pending) # {}

\* The tasks whose event is stored and not yet counted.
AtRecord == {t \in Tasks : pc[t] = "record"}

\* dfc_events_ingested_total never falls behind data-fabric: each event stored
\* since the process started is counted, about to be, or was lost to a fault.
\* It may run ahead: one key sent twice at the same time is counted twice.
CounterKeepsUp ==
  crashes = 0 =>
    Cardinality(DOMAIN events) <= ingested + Cardinality(AtRecord) + faults

\* Nothing leaves the staging store but into a handler's hands, by expiry,
\* or with the process.
StagedLeave ==
  \A k \in DOMAIN staging.byIdempotency \ DOMAIN staging'.byIdempotency :
    LET rec == staging.byIdempotency[k]
    IN  \/ rec.expires <= now
        \/ \E t \in Tasks : held'[t] /\ ev'[t] = rec.event
        \/ crashes' # crashes

StagedLeaveOnlySo == [][StagedLeave]_vars

-----------------------------------------------------------------------------
(* Refinement and liveness *)

\* The event each caller has been told of.
Told == [t \in Tasks |->
           IF pc[t] = "done" /\ answer[t].status = "ingested"
           THEN answer[t].event ELSE None]

Ledger == INSTANCE EventLedger WITH
  linked <- DOMAIN correlations, ledger <- events, told <- Told

\* The service keeps the promise of EventLedger.
KeepsLedger == Ledger!Spec

\* How many awaits a handler has before it on one event, at most.
Awaits(label) ==
  CASE label = "lookup" -> 9        [] label = "lookup_staged" -> 8
    [] label = "enrich" -> 7        [] label = "check" -> 6
    [] label = "stage" -> 5         [] label = "enrich_resolved" -> 5
    [] label = "register" -> 4      [] label = "ingest" -> 3
    [] label \in {"record", "store"} -> 2
    [] label = "take" -> 1          [] OTHER -> 0

\* The handler is at what its request brought, not at what it reconciles.
AtOwn(t) ==
  \/ pc[t] \in {"lookup", "lookup_staged", "store"}
  \/ pc[t] \notin {"idle", "list", "take", "done"} /\ ~held[t]

\* Its own event first, then what is to be reconciled, then the keys listed
\* for it, then the event in hand: each step uses up one of these without
\* adding to those before it.
Nearer(t) ==
  \/ pc'[t] = "done"
  \/ AtOwn(t) /\ ~AtOwn(t)'
  \/ /\ AtOwn(t)' = AtOwn(t)
     /\ \/ Len(todo'[t]) < Len(todo[t])
        \/ /\ todo'[t] = todo[t]
           /\ \/ Cardinality(keys'[t]) < Cardinality(keys[t])
              \/ keys'[t] = keys[t] /\ Awaits(pc'[t]) < Awaits(pc[t])

Moves(t) ==
  <<pc[t], ev[t], held[t], wait[t], todo[t], keys[t]>>'
    # <<pc[t], ev[t], held[t], wait[t], todo[t], keys[t]>>

\* Whatever else happens, every step a running handler takes brings it nearer
\* to its end: reconcile_correlation never comes back to a key it has seen
\* to, though it puts records back under the index it lists.
StepsRunDown == [][\A t \in Running : Moves(t) => Nearer(t)]_vars

\* Every request taken up is answered: no handler waits on another for ever,
\* and no reconcile goes round in circles.
EveryRequestAnswered ==
  \A t \in Tasks : pc[t] # "idle" ~> pc[t] = "done"
=============================================================================
