----------------------------- MODULE DataFabric -----------------------------
(****************************************************************************)
(* The data-fabric upstream as the connector sees it through the trait      *)
(* DataFabricClient: the in-process implementation, whose every operation   *)
(* holds one lock and is therefore one atomic step.  Events are kept once   *)
(* per (tenant, idempotency key); correlations once per (tenant, kind, id), *)
(* no two tenants holding the same (kind, id).                              *)
(*                                                                          *)
(* The map keys "tenant:key" and (tenant, kind, id) are tuples here.        *)
(****************************************************************************)
EXTENDS DfcCore

VARIABLES
  correlations,  \* <<tenant, kind, id>> -> CorrelationRecord
  events         \* <<tenant, key>> -> DfcEvent

upstream == <<correlations, events>>

EventKeys       == Tenants \X Keys
CorrelationKeys == Tenants \X CorrelationKinds \X Ids

EventKey(e) == <<e.tenant, e.key>>
Slot(tenant, p) == <<tenant, p[1], p[2]>>

\* f with every key of S mapped to v.
Overwritten(f, S, v) ==
  [k \in DOMAIN f \cup S |-> IF k \in S THEN v ELSE f[k]]

UpstreamTypeOK ==
  /\ DOMAIN correlations \subseteq CorrelationKeys
  /\ correlations \in [DOMAIN correlations -> CorrelationRecord]
  /\ DOMAIN events \subseteq EventKeys
  /\ events \in [DOMAIN events -> DfcEvent]

UpstreamInit ==
  /\ correlations = [k \in {} |-> None]
  /\ events = [k \in {} |-> None]

-----------------------------------------------------------------------------
(* get_correlation *)

\* get_correlation succeeds: the tenant has a record under (kind, id).
Resolves(tenant, p) == Slot(tenant, p) \in DOMAIN correlations

\* Another tenant holds (kind, id).
HeldByOther(tenant, p) == \E u \in Tenants \ {tenant} : Resolves(u, p)

\* get_correlation fails with TenantMismatch; with neither, it is NotFound.
Foreign(tenant, p) == ~Resolves(tenant, p) /\ HeldByOther(tenant, p)

Correlation(tenant, p) == correlations[Slot(tenant, p)]

-----------------------------------------------------------------------------
(* store_correlation *)

SlotsOf(rec) == {Slot(rec.tenant, p) : p \in correlation_lookup_keys(rec)}

\* Faulty: only the canonical source is compared.
SourceConflicts(rec) == HeldByOther(rec.tenant, <<rec.kind, rec.source>>)

\* The tenant conflict that store_correlation refuses.
StoreConflicts(rec) ==
  \E p \in correlation_lookup_keys(rec) : HeldByOther(rec.tenant, p)

store_correlation(rec) ==
  /\ ~StoreConflicts(rec)
  /\ correlations' = Overwritten(correlations, SlotsOf(rec), rec)
  /\ UNCHANGED events

-----------------------------------------------------------------------------
(* ingest_event, get_event_by_idempotency *)

\* Faulty: the last event under a key wins.
LastStored(e) == e

\* The event a call of ingest_event(e) returns: the first one stored.
Stored(e) ==
  IF EventKey(e) \in DOMAIN events THEN events[EventKey(e)] ELSE e

ingest_event(e) ==
  /\ events' = Overwritten(events, {EventKey(e)}, Stored(e))
  /\ UNCHANGED correlations

-----------------------------------------------------------------------------
(* No two tenants hold the same (kind, id): what store_correlation's check  *)
(* under the lock (client.rs, "Try to map same PR ID to a different tenant" *)
(* in the server's tests) promises to every later lookup.                   *)
TenantExclusive ==
  \A k, l \in DOMAIN correlations :
    k[2] = l[2] /\ k[3] = l[3] => k[1] = l[1]
=============================================================================
