# A verification development of the data-fabric connector (DFC)

TLA+ specifications of the connector in `crates/`, checked with TLC on small
instances, and theorems about them checked with TLAPS for every instance.
Paths below are relative to the repository.

## 1. The system

DFC stands between callers (aivcs-api, the human-in-the-loop service), the
durable store *data-fabric*, and *aivcs-api* as the executor of replays. It is
an axum server; every request runs in a task of its own and shares a few
`Arc`s with the others. What one handler does between two awaits is atomic;
between awaits anything may happen.

| Component | Source | State | Operations | Hard behaviour |
|---|---|---|---|---|
| Vocabulary | `dfc-core/src/{event,ingest,correlate,tenant,error}.rs` | none | validate, normalise, derive what an event depends on | two places an event can name its snapshot or review |
| data-fabric client | `dfc-data-fabric/src/client.rs` | events by (tenant, key); correlations by (tenant, kind, id); review revisions | ingest_event, get_event_by_idempotency, store/get_correlation, bump_review_revision | first write wins; two tenants may not share an id |
| Staging store | `dfc-data-fabric/src/ingest.rs` (32-128) | records by key, and an index by what they wait for | purge_expired, stage, take, keys_for, get | the two maps must agree; overwriting, expiry |
| Event ingest | `dfc-data-fabric/src/ingest.rs` (130-414), routes in `dfc-server/src/main.rs` | staging store behind a `RwLock`, idempotency store, counter | ingest_aivcs, ingest_hitl, correlate_create, reconcile_correlation | check-then-stage, take-then-fail, duplicates in flight, retries, restarts |
| Idempotency backends | `dfc-data-fabric/src/idempotency.rs` | none, a map with a TTL, or Redis | get, put | copies of events with a life of their own |
| Replay bridge | `dfc-replay/src/{bridge,audit}.rs` | events `K:requested`, `K:completed`, `K:failed`; DLQ counter | handle_replay, handle_rollback | a call to another system between two writes |
| Decision and bundle | `main.rs` (323-416), `dfc-hitl/src` | review revisions in data-fabric; what aivcs-api was told | hitl_review_decision, hitl_review_get | three awaited writes to two systems; four reads at different times under one ETag |
| HTTP client, retries | `client.rs`, `retry.rs`, `http.rs` | attempts and backoff of each call; the retry counter | every call, up to four attempts by default | calls that are not idempotent sent again; no timeout |
| AIVCS client | `dfc-aivcs/src` | none | request_replay, request_rollback, submit_review_decision | lost replies |
| The rest | ids, errors, metrics, telemetry, configuration, health routes, schemas, manifests | | | |

An event whose dependency is unknown to data-fabric (a branch whose parent
snapshot is not registered, a review event whose review has no run) is answered
202 and *staged*. A request that makes a correlation known (POST /v1/correlate,
or a snapshot event) *reconciles*: in its own task it lists the keys staged on
that correlation, takes each from the store, checks it again, and forwards it
or puts it back.

What makes the parts correct:

- **Staging store**: every record can be found from what it waits for; the
  index holds nothing else; a record leaves for a reason.
- **Ingest**: an event is forwarded once per key and only after what it waits
  for; callers with one key are told one event; what was answered 202 is not
  lost; what can be forwarded is.
- **Data-fabric**: no id belongs to two tenants.
- **Replay bridge**: the trail is written before the act and says what
  happened; what is recorded as completed is what later callers are told, and
  is not run again.
- **Decision and bundle**: data-fabric and aivcs-api hold the same decisions; no
  revision is lost; of two views with a decision between them, the second does
  not confirm the first one's ETag.
- **Retries**: a call is sent no more often than configured and given up no
  sooner; "ok" means it was carried out; it ends.

`PROJECT.json` lists the hazards behind these, each at its line.

## 2. The modules

| Module | Models | State | Abstracts |
|---|---|---|---|
| `DfcCore` | dfc-core | constants and operators only | ids are drawn from one set and never blank, `None` is an absent field, an `aivcs_ref` is the snapshot it names; hashes, timestamps and text are left out |
| `DataFabric` | the in-process data-fabric | `correlations`, `events` | the map keys `"tenant:key"` and `(tenant, kind, id)` are tuples |
| `StagingStore` | the struct of that name | a value; its methods are functions on it | – |
| `EventIngest` | the ingest service and its three routes | `idem`, `staging`, `now`, `ingested`; per task `pc`, `req`, `ev`, `held`, `wait`, `todo`, `keys`, `answer` | below |
| `EventIngestHistory` | `EventIngest` with two histories that remember which handlers met | `raced`, `missed` | – |
| `EventLedger` | nothing in the code: what ingest promises | `linked`, `ledger`, `told` | – |
| `ReplayBridge` | the bridge and its two routes | `ledger`, `operations`, `dlq`; per task `pc`, `req`, `op`, `answer`; `raced` is a history | a tenant and its key are one element of `Keys`; what the audit events say of lineage is left out |
| `ReviewDecision` | decision, review bundle, and the store of `/v1/correlate` | `revisions`, `submissions`; per task `pc`, `req`, `corr`, `stored`, `left`, `frag`, `rev`, `match`, `tries`, `answer`; `before` is a history | comments, reviewers; the fragments of aivcs-api are the decisions it was told of; what a bundle shows of data-fabric's own fragment is constant |
| `RetryCall` | `with_retry` and the calls of the HTTP client | `max_attempts`, `retries`; per call `pc`, `method`, `attempt`, `backoff`, `status`, `outcome`, `applied` | statuses are six classes; URLs and bodies are left out |
| `AtLeastOnce` | nothing in the code: what a call promises its caller | `limit`, `applied`, `outcome` | – |
| `MCEventIngest`, `MCEventIngestHistory`, `MCReplayBridge`, `MCReviewDecision`, `MCRetryCall` | – | – | the requests of each run |
| `DataFabric_proofs`, `StagingStore_proofs`, `EventIngest_proofs`, `EventIngestSafety_proofs`, `EventIngestHistory_proofs`, `ReplayBridge_proofs`, `ReviewDecision_proofs`, `RetryCall_proofs` | – | – | theorems and proofs |

```
DfcCore <- DataFabric <- EventIngest    --implements-->  EventLedger
                ^            |  uses StagingStore             ^
                |            ^                                |
                |            +-- EventIngestHistory           |
                +------- ReviewDecision  --implements---------+
RetryCall  --implements-->  AtLeastOnce   (the terms on which the calls
                                           of ReviewDecision are awaited)
ReplayBridge  (a ledger of its own three events per key)
```

`EventIngest` composes `DataFabric` (the upstream) with `StagingStore` (a value
held in its variable `staging`). A task is one request. `pc[t]` names the await
its handler stands at, and each action is the code from that await to the next:

| Action | Code (`dfc-data-fabric/src/ingest.rs` unless said) |
|---|---|
| `Arrive`, `Reject` | route handlers and validation, `main.rs` 191-199, 266-304 |
| `Lookup` | `idempotency.get`, 370-375 |
| `LookupStaged` | `staging.read`, 376-381, then normalisation |
| `Enrich` | `enrich_hitl_from_correlation`, 338-368 |
| `Check` | `unresolved`, 396-414 |
| `Stage` / `Restage` | 185-187 / 249-253 |
| `Register` | `register_snapshot_correlation`, 293-336 |
| `Ingest`, `Record` | `client.ingest_event`, then `record_ingested`, 274-291, 383-394 |
| `Store` | `store_correlation` of `correlate_create`, `main.rs` 191-218 |
| `List`, `Take`, `ListDone` | `reconcile_correlation`, 225-272 |
| `CutShort` | any `?` on a failed call, or axum dropping the handler of a caller that has gone |
| `ReplyLost` | a writing call took effect and answered with an error |
| `Crash` | the process restarts |
| `Tick` | time passes; TTLs count it |

`ReviewDecision` is laid out alike (`main.rs` unless said):

| Action | Code |
|---|---|
| `Arrive` | validation of the three routes, 191-208, 328-329, 355-360; what If-None-Match may name |
| `Store` | `store_correlation` of `correlate_create`, 208-213 |
| `GetCorrelation`, `Ingest`, `Bump`, `Submit` | the four awaits of `hitl_review_decision`, 362-407, and its answer |
| `Read` | one of the four futures of `tokio::join!` completes, `dfc-hitl/src/bundle.rs` 46-66 |
| `Assemble` | `build_bundle`, `etag` and the 304, `bundle.rs` 26-28, 79-110, `main.rs` 337-346 |
| `Repeated` | a write took effect, a 5xx came back, and `with_retry` sends it again |
| `CutShort` | a `?` on a failed call, its effect kept or not, or the handler dropped |

and in `RetryCall` (`dfc-data-fabric/src/retry.rs`) `Begin` is the call and its
first sending, `Return` the arms that leave the loop, `Retry` the arm that
counts and sleeps, `Wake` the end of the sleep, `Drop` axum dropping the handler.

Choices that a reader may want to question:

- `answer[t]` is set where the code has computed it and reaches the caller when
  `pc[t] = "done"`; a reconcile that fails afterwards turns it into an error.
- An inbound event has at most one pending lookup (`dfc-core/src/ingest.rs`
  58-85), so `unresolved` makes one call and is one action.
- `waits`, a field of the modelled `DfcEvent`, is a history: what the inbound
  event was pending on. No action reads it.
- `None` is what the code takes for absent. Where it filters blank strings
  (`metadata_string`, `dfc-core/src/ingest.rs` 102-108) they are `None` too. Where it
  does not (`review_id` in the pending lookups, `dfc-core/src/ingest.rs` 72-85;
  the snapshot in the metadata of an event, `dfc-data-fabric/src/ingest.rs`
  293-300; the fields `reconcile_record` reads) a blank would be an id like any
  other; requests with blanks there are outside the model.
- The memory backend's `get` purges and reads under two locks; nothing can be
  told apart by splitting them, so `Lookup` is one step.
- data-fabric is the in-process implementation, whose operations hold one lock.
  An HTTP data-fabric is covered as far as it keeps the same promises.
- The retry loop is a module of its own. What a handler sees of it is
  `AtLeastOnce`: a call answered "ok" was carried out at least once and at most
  `max_attempts` times; one answered otherwise, any number of times up to that.
  `ReviewDecision` takes this as `Repeated` and `CutShort`. `EventIngest` and
  `ReplayBridge` have the lost reply alone: an event sent again is answered with
  the one stored. A correlation sent again overwrites what another correlate has
  stored in between; `ReviewDecision` has that case (`Repeated` at `store`).
- In `ReplayBridge` aivcs-api is external and may start an operation for every
  call, the weakest assumption, but for one thing: it never gives two operations
  one id (`MayStart`).
- `ReplayBridge` has a ledger of its own. In data-fabric `K:requested` and
  `K:completed` are keys like others, and an event sent to `/v1/events/aivcs` or a
  decision may carry one; the module covers callers that keep off them.
- A history is read by no guard: `raced` and `missed` of `EventIngestHistory` and
  `raced` of `ReplayBridge` record that two handlers met, so that properties of
  concurrent handlers can except the meeting and nothing else.
  `HistoryOnly` proves that a behaviour with histories is one of `EventIngest`.
- What a view reads of aivcs-api (the fragments of a run) is taken to be the
  decisions it was told of, an assumption on aivcs-api: `src/` only fetches them.
- The body of a 304 in `ReviewDecision` is a history: what a 200 would have
  carried. So are `before` and the fields of `answer` the response leaves out.
- A review's correlation in `ReviewDecision` is registered by `/v1/correlate`
  alone; the reconcile that follows it touches events of `EventIngest` only.

Operators whose comment says *Faulty* are plausible bugs, one or more for each
property of a passing run: put in the place of the definition that follows them
they make TLC find that property violated (`PROJECT.json`, "mutants"). No
specification uses them.

To repeat a run: `tlc -config ingest_race.cfg MCEventIngest`; to check the
proofs: `tlapm EventIngest_proofs.tla`, and so on.

## 3. What the runs show

Bounds appear in every `.cfg`: number of tasks (requests handled in all),
`MaxInFlight` (handlers at once), `MaxFaults`, `MaxCrashes`, `MaxTime`.

| Run | Instance | Properties | Shows |
|---|---|---|---|
| `ingest_key_reuse` | 4 tasks, 3 at once; memory backend, one tick, TTL 1; one key for two payloads that wait for different things, two events on one snapshot, a second tenant that names the same snapshot and run | TypeOK, StagedAreFindable, AnswersAgree, DependencyBeforeForward, AcceptedNotLost, TenantExclusive | overwriting, duplicates and re-staging lose nothing; tenants stay apart |
| `ingest_race` | 3 tasks, all at once, one payload per key, a review mapped in both forms, fairness | IndexIsTight, StepsRunDown, EveryRequestAnswered | the index keeps no stale entry; no reconcile goes round in circles; every handler ends |
| `ingest_faults` | 3 tasks, 2 at once; redis; one key for two payloads; one fault, one restart, one tick with TTL 1 | BackendAgrees, CounterKeepsUp, KeepsLedger, StagedLeaveOnlySo | with failures the service still implements `EventLedger`; the counter falls behind by no more than the faults |
| `ingest_wakeup` | 3 tasks, all at once, data-fabric as backend; branches, snapshots, review events and mappings in both forms; fairness | CounterIsExact, NoOtherWakeupLost, WokenIsForwarded | when handlers interleave, a staged event is left behind only by a correlation that came at one of three moments, and the counter is off only where two handlers raced for one new key |
| `replay_duplicates` | 4 tasks, 2 at once, 2 faults, a replay and a rollback under one key | AnswersMatchRecord, ToldOfItsOwn, StartsAccountedFor, NeverRepeated | the completed event makes a retry safe beside other requests; every start has its account; the other kind's event is never taken for one's own |
| `replay_race` | 3 tasks at once, 1 fault, kinds under separate keys | TypeOK, AuditedBeforeStarted, TrailIsTrue | the trail is truthful under any interleaving |
| `decision_race` | 4 tasks, 3 at once; two decisions on one review under two keys, duplicates, views with and without If-None-Match, another tenant; 1 fault, 2 attempts | TypeOK, DecisionOnRecord, RecordedIsSubmitted, NoBumpLost, EtagMovesOn, KeepsLedger | the two systems agree on decisions; the ETag moves |
| `retry_calls` | 2 calls at once, three ways of sending and reading; limits 0, 1 and 4; backoff 2 capped at 7, reached in the second doubling; fairness | TypeOK, GivesUpInTime, RetriesAreCounted, BackoffIsCappedDoubling, KeepsPromise, EveryCallEnds | the loop at its bounds |

Why the bounds suffice: every hazard of ingest involves one staged event, one
request that makes its correlation known, and one more request beside them (a
duplicate, an overwriting payload, another tenant), that is three tasks; the run
on reused keys has a fourth. A property of the bundle relates a view, a decision
and a later view, with the mapping before them: four tasks. A second start for
one request takes a race, and what others are told of it a request before and
one after: four. Two calls are enough for what calls share, a counter; four
attempts are the default and reach the cap. Runs without liveness properties use
the symmetry of tasks, of which nothing but their number matters. TTL 1 with one
tick has entries expire and not expire. One fault at every await of every
handler, and one restart at every point, are all the single failures; a second
matters for retries only, and `replay_duplicates` has it.

Four runs are **expected to fail**: each checks something the repository says
of itself and TLC shows a behaviour of the code against it.

| Run | Property | What happens |
|---|---|---|
| `lost_wakeup` | StagedStillWait | A branch is checked, its snapshot is registered and reconciled, the branch is staged. Nothing wakes it; it expires. |
| `placeholder_conflict` | RefusedOnlyForNamedIds | The placeholder `"pending"` is stored as an id, and belongs to the first tenant that had no run. |
| `key_changed_mind` | DecisionOnRecord | A key is sent with a second decision: data-fabric keeps the first, aivcs-api is told the second. |
| `stale_not_modified` | NotModifiedIsTrue | A review is viewed, mapped to another run, and viewed again with its ETag: 304, although the bundle has changed. |

Where a property needs more than the code guarantees, the run meets a condition
and the theorem names it:

- `NoOtherWakeupLost` and `WokenIsForwarded` except the events whose correlation
  became known at a moment the code has no guard against. There are three, and
  the history `missed` collects their correlations: *Overtaken*, between the
  check of `unresolved` and the staging lock (`ingest.rs` 180-185; `lost_wakeup`
  shows it); *Unnamed*, stored by a canonical record whose source or target no
  flat field names, so that `reconcile_record` passes it by (`main.rs` 220);
  *Supplanted*, registered for a snapshot event whose key turns out to be taken by
  one that announces another snapshot (`ingest.rs` 286). A fourth exception is a
  reconcile that is refused on its way (TenantMismatch) and comes to nothing
  after that. The property says that there is no fifth, whatever interleaves.
- `CounterIsExact` excepts runs in which two handlers were at work on one key the
  backend did not know yet (`raced`): both miss the lookup, and both count. A
  fault, a restart, or an expired entry of a backend of its own also ends
  it. `CounterKeepsUp` has no exception: the counter is never behind but by the
  faults and the events about to be recorded.
- `AnswersMatchRecord` speaks of callers that did not run beside another request
  of their key before it was completed (`raced`): two that do both miss the
  lookup, and each is told of the operation its own call started.
  `NeverRepeated` excepts the call of such a request, and `StartsAccountedFor`
  counts what is left: an operation that is neither recorded, nor about to be,
  nor a racing caller's, is one fault's.
- `RecordedIsSubmitted` allows one decision left out per fault, and only one
  whose caller was told of an error.
- `IndexIsTight` holds where a key always waits for the same things
  (`KeysWaitAlike`): `stage` over a record with another dependency leaves the
  old index entry behind.
- `DependencyBeforeForward` holds where no HITL event names two reviews
  (`ReviewsConsistent`): `metadata.review_id` takes the place of `review_id` in
  enrichment but not in what the event waits for.
- `DecisionOnRecord` holds where no key names two decisions (`KeysNameOne`).
- `AcceptedNotLost` states the three ways an accepted event is lost (a fault, a
  restart, expiry) and a fourth that is none of those: another tenant registers
  the id that it, or an event sent under the same key, waits for, and the
  reconcile that had taken it ends in TenantMismatch.

Known limits that no property states: the failed event of a replay is counted as
dead-lettered whether its write succeeded or not; a duplicate decision sent after
its review was mapped to another run submits the new run under a key recorded
with the old one; a view that overlaps a decision may carry the older ETag on
the newer contents, or the other way round (`EtagMovesOn` speaks of views with
the decision between them); a retry finds its snapshot event stored and never
runs the reconcile that the first attempt did not reach (`ingest.rs` 165); what
an HITL event that names two reviews is forwarded on (`ReviewsConsistent`).

### Fairness

`FairSpec` asks for weak fairness of each task's `Step`: the tokio runtime polls
every ready handler, and every call a handler awaits returns. The second is an
assumption on data-fabric: the HTTP client sets no timeout of its own. In
`RetryCall` the same is said of each call's `Step`: a timer fires, and a request
on the wire is answered or its connection breaks. `EveryCallEnds` shows what is
left to the code, that the loop itself ends. Nothing
is assumed of callers, faults, restarts or time. The `RwLock` around the staging
store is never held across an await, so no step waits for another task's.

## 4. What is proved

| Theorem | Statement | Module |
|---|---|---|
| `TypeCorrect` | Spec ⇒ □TypeOK | `EventIngest_proofs` |
| `TenantsApart` | Spec ⇒ □TenantExclusive | `EventIngestSafety_proofs` |
| `StagedFindable` | Spec ⇒ □StagedAreFindable | ″ |
| `AnswersAgreeAlways` | Spec ⇒ □AnswersAgree | ″ |
| `BackendNeverDisagrees` | Spec ⇒ □BackendAgrees | ″ |
| `DependencyFirst` | ReviewsConsistent ∧ Spec ⇒ □DependencyBeforeForward | ″ |
| `ImplementsLedger` | ReviewsConsistent ∧ Spec ⇒ KeepsLedger | ″ |
| `IndexAlwaysTight` | KeysWaitAlike ∧ Spec ⇒ □IndexIsTight | ″ |
| `StagedLeaveSafely` | Spec ⇒ StagedLeaveOnlySo | ″ |
| `AcceptedIsKept` | ReviewsConsistent ∧ Spec ⇒ □AcceptedNotLost | ″ |
| `CounterAlwaysKeepsUp` | Spec ⇒ □CounterKeepsUp | ″ |
| `AlwaysRunsDown` | Spec ⇒ StepsRunDown | ″ |
| `CounterExact` | HistorySpec ⇒ □CounterIsExact | `EventIngestHistory_proofs` |
| `OnlyMissedStay` | HistorySpec ⇒ □NoOtherWakeupLost | ″ |
| `BridgeTypes` | Spec ⇒ □TypeOK (of `ReplayBridge`) | `ReplayBridge_proofs` |
| `TrailAlwaysTrue` | Spec ⇒ □TrailIsTrue | ″ |
| `AuditComesFirst` | KeysApart ∧ Spec ⇒ □AuditedBeforeStarted | ″ |
| `ToldWhatIsRecorded` | Spec ⇒ □AnswersMatchRecord | ″ |
| `CompletedNotRepeated` | Spec ⇒ NeverRepeated | ″ |
| `EveryStartAccounted` | Spec ⇒ □StartsAccountedFor | ″ |
| `AlwaysToldOfItsOwn` | Spec ⇒ □ToldOfItsOwn | ″ |
| `DecisionTypes` | Spec ⇒ □TypeOK (of `ReviewDecision`) | `ReviewDecision_proofs` |
| `DecisionsOnRecord` | KeysNameOne ∧ Spec ⇒ □DecisionOnRecord | ″ |
| `RecordedSubmitted` | Spec ⇒ □RecordedIsSubmitted | ″ |
| `DecisionsKeepLedger` | Spec ⇒ KeepsLedger | ″ |
| `BumpsCounted` | Spec ⇒ □NoBumpLost | ″ |
| `EtagsMoveOn` | Spec ⇒ □EtagMovesOn | ″ |
| `RetryTypes` | Spec ⇒ □TypeOK (of `RetryCall`) | `RetryCall_proofs` |
| `AttemptsBounded` | Spec ⇒ □GivesUpInTime | ″ |
| `ImplementsPromise` | Spec ⇒ KeepsPromise | ″ |
| `RetriesCounted` | Spec ⇒ □RetriesAreCounted | ″ |
| `BackoffCapped` | Spec ⇒ □BackoffIsCappedDoubling | ″ |

They hold for every set of tenants, keys, ids, tasks and requests, every
backend, TTL and bound, with failures, lost replies, restarts and expiry. They
assume `IdsAssumption` (None is no id; the placeholder is one),
`KindsAssumption` (None is no kind of correlation),
`RequestsAssumption`, `BackendAssumption` and `BoundsAssumption` (for the bridge
`ReplayAssumption`, for the retry loop `RetryAssumption` and `CalledAssumption`),
which TLC evaluates on every run. Tasks and calls need not be finitely many.

- **Types.** `TypeOK` is not inductive: what a handler may do depends on how far
  it has come. `TypeInv` adds `PhaseOK`, what each label implies of the task's
  request and event (a running task serves a well-formed request; from `enrich`
  to `record` it holds an event; at `list` something is left to reconcile). One
  lemma per action.
- **Tenants.** `store_correlation` refuses a conflict under the lock it writes
  under, so the invariant is inductive by itself; the work is that no other step
  writes correlations (`UpstreamMoves`).
- **Findable.** A property of the staging store's functions: `stage` and removal
  preserve `Findable` (`StagingStore_proofs`), and every step of the service is
  one of them, leaves the store alone, or empties it (`StagingMoves`).
- **Answers.** `AnswersInv` says what each task must know: outside a reconcile it
  works on the event of its own request, past `ingest` on the event as
  data-fabric stored it. Stored events never change (`UpstreamGrows`), so what
  was true when the answer was prepared stays true. `BackendAgrees` is part of
  it: the backend answers lookups and is filled from `ev` at `record`.
- **Dependencies.** `DependencyInv` carries, for every task and staged record,
  what the event waited for and has not been seen to resolve. The step that
  needs `ReviewsConsistent` is enrichment: an event leaves `enrich` with a run
  only because the review it names resolves, which is what it waits for only if
  it names one review.
- **Refinement.** Under the mapping linked = DOMAIN correlations, ledger =
  events, told = `Told`: storing a correlation is a `Link` (by
  `TenantExclusive'`), the first ingest under a key an `Append` (by
  `DependencyInv`), an "ingested" answer a `Tell` (by `AnswersInv'`), and every
  other step stutters, crashes included.
- **Index.** `IndexIsTight` is not inductive on its own: stale entries come from
  staging over a record that waits for something else. `WholeInv` says that every
  staged record, every event in hand and every request behind a key has the
  dependencies of some request with that key, which `KeysWaitAlike` makes equal;
  then `stage` and removal preserve tightness (`StageTight`, `WithoutTight`).
- **Accepted events.** `CareInv` says to whom each event is owed: every staged
  record, and every event a reconcile holds, has a caller who was answered 202 for
  its key and for the same dependency, and its record does not expire before TTL.
  It also says that such an event, once what it waits for resolves, can be refused
  over nothing else (`Natural`; this needs `ReviewsConsistent`: enrichment looks up
  the one review the event waited for). `CareInv` holds in every run, faulty or
  not. Then, for a fixed key, `Kept` (stored, staged, in hand, or excused because
  the dependency is another tenant's) survives every step of a run without faults
  or restarts before TTL (`KeptStays`): the purge finds nothing old enough, what
  leaves the store is in hand (`StagedStaysOrTaken`), and what is in hand is put
  back, stored or excused (`HandStep`).
- **The counter.** `CounterKeepsUp` is counted one event and one task at a time
  over finite sets (`CountedInv`): a step that stores an event puts its task at
  `record` or spends a fault. That it is *exact* needs a service that has been
  `Undisturbed` (no fault, no restart, no entry of a backend of its own expired)
  and in which no two handlers raced for a new key. `CountInv` then says that no
  event is ingested twice: what is carried to `ingest` is neither stored nor
  staged (`Fresh`, `StagedFresh`), because every stored event is known to the
  backend that was asked (`Remembered`, `UnknownIsNew`). Another handler's step
  keeps a task `Fresh` because it is at work on another key, or on a key the
  backend answers for (`NoRival`).
- **Nothing left behind.** `WakeInv` gives an account of every staged event: it
  waits for something unknown, or for something in `missed`, or some handler will
  come to it (`ComesTo`: the correlation is in its `todo`, the key in its `keys`,
  or it will announce the snapshot). `Standing` says of a task at `stage` that
  what it waits for is unknown or was just missed, so that what it stages is
  accounted for. A correlation that becomes known is announced by the handler
  that stores it, or is `Unnamed` (`TargetsListed`, `ToListStep`); a handler that
  lists it has every record staged on it among its keys (`NewlyListed`, by
  `StagedAreFindable`). At rest nobody comes to anything but a handler that was
  refused. No premise on the requests is needed.
- **Running down.** `StepsRunDown` compares, in this order: whether the handler
  is at its own event, the correlations it has left to reconcile, the keys listed,
  and the awaits left on the event in hand. The listed keys are finitely many
  because the index is (`FiniteIndex`, kept by each method of the store), and
  nobody else touches what a handler has left (`OthersStay`, `OthersKeep`). This
  is `EveryRequestAnswered` but for scheduling.
- **Replay.** `TrailInv` says what a task knows past `request`: its requested
  event is stored, and at `complete` its operation was started. For
  `AuditComesFirst`, `RequestsRecorded` adds that a requested event is some
  request's, and `KeysApart` that it is of the task's own kind. `RaceInv` is about what a
  task past its lookup knows: unless it has raced, no other task is at work on
  its key (`NoRival`), so that nothing is completed there before it writes
  (`NotYet`). `NeverRepeated` follows as an action property,
  `AnswersMatchRecord` because the event written is the first under its key.
  `AccountInv` counts the operations neither recorded nor claimed: the one that a
  task gives up, by a lost reply or cut short before `complete`, costs a fault,
  and one that a racing task cannot record is told to its caller.
  `AlwaysToldOfItsOwn` needs none of this (`Own`): a handler
  that ends well answers with what its own call started, or with a recorded
  operation of its kind, which by `TrailIsTrue` was started for its key; what was
  started stays in `operations`.
- **Decisions.** `StoredInv` ties what a handler past `ingest` holds to the event
  under its key, which never changes. `DecisionOnRecord` follows at `submit`,
  where `KeysNameOne` makes the stored event the caller's own. For
  `RecordedIsSubmitted`, `LeftInv`: an event is left out by a step that cuts its
  last handler short, which spends a fault, leaves out no other and answers its
  caller with an error (`LeftOutMoves`).
- **Revisions.** `BumpInv` counts: the tasks past their bump of a review number
  at most its revision less one, and at least that less the faults; each step adds
  at most one to both sides. `EtagInv` carries what each handler may know of the
  revision: a view's ETag is not above it, a decision past its bump was preceded
  by the views answered before it arrived, and a view that came after reads at
  least the revision that decision left.
- **Retries.** `LimitInv` bounds attempts by `Limit` and says what each label
  implies of the last status; the refinement maps `Receive` with an effect to
  `CarryOut` or `End`. `CountInv` states the counter as resendings plus the calls
  asleep or dropped asleep, over finite sets that grow by one element at a time.

- **Backoff.** The power of two in `BackoffIsCappedDoubling` is primitive to the
  provers, so `PowerOfTwo` finds its equations by counting: 1..n has 2^n subsets,
  1..n+1 those and as many with n+1 in them. Capping a doubled wait again loses
  nothing (`CapOfDouble`), so the backoff is at every step the cap of the uncapped
  wait (`BackoffInv`).

Only model-checked: liveness (`EveryRequestAnswered`, `WokenIsForwarded`,
`EveryCallEnds`), because the backends have no rules for fairness and ENABLED.
Not provable because not true: `StagedStillWait` (what is true of it is
`NoOtherWakeupLost`), `RefusedOnlyForNamedIds`, `NotModifiedIsTrue`, and
`DecisionOnRecord` of keys that change their mind. Where a theorem has a
hypothesis the run checks the property on requests that meet it.

## 5. Plan

Done: 1. `DfcCore`, `DataFabric`, `StagingStore`, `EventIngest`; 2.
`EventLedger`; 3. their proofs, the refinement included; 4. `ReplayBridge` and
its proofs, those of duplicates beside one another included; 5.
`ReviewDecision`, its refinement of `EventLedger` and its proofs; 6.
`RetryCall`, its refinement of `AtLeastOnce` and its proofs; 7. the staging
index, what leaves the store and what is accepted as theorems; 8. the wake-ups
and the counter of handlers that interleave, termination, the backoff and what
callers of the bridge are told as theorems.

Left: a measure for the retry loop and for the decision handler, like
`StepsRunDown`; a bound on how far the counter runs ahead where duplicates raced
for a key (`CounterIsExact` says only that it does nowhere else).

Not modelled:

- the contents of hashes, ids and timestamps: functions of fields the models keep;
- the mapping of errors to status codes: the models tell success from failure, and
  in `RetryCall` the classes of status the code branches on;
- `resolve_snapshot_lineage`, whose result is what an audit event says of
  snapshots; no handler branches on it;
- the in-memory stub of aivcs-api, an external system whose answers the models
  leave open;
- metrics rendering, telemetry, configuration, upstream selection, health and
  version routes: start-up and formatting, without state that a later step reads;
- schemas, contract fixtures, deployment manifests: no behaviour of their own.
