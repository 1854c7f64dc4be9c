-------------------------- MODULE DataFabric_proofs --------------------------
(****************************************************************************)
(* Facts about the vocabulary of DfcCore and the operations of DataFabric:  *)
(* what normalisation and enrichment build, which lookups a record answers, *)
(* what a store leaves resolvable, and that it keeps tenants apart.         *)
(****************************************************************************)
EXTENDS DataFabric, TLAPS

-----------------------------------------------------------------------------
(* Normalisation builds what the types say *)

\* An event waits only for lookups (aivcs_ and hitl_pending_correlations).
LEMMA PendingType ==
  ASSUME NEW r \in InboundAivcsEvent \cup InboundHitlEvent
  PROVE  Pending(r) \subseteq Lookups
<1>1. CASE r \in InboundAivcsEvent
  <2>1. r.api = "aivcs" /\ snapshot_ref_from_aivcs(r) \in Opt(Ids)
    BY <1>1 DEF InboundAivcsEvent, Metadata, snapshot_ref_from_aivcs, OrElse, Opt
  <2> QED BY <2>1 DEF Pending, aivcs_pending_correlations, Lookups,
                      CorrelationKinds, Opt
<1>2. CASE r \in InboundHitlEvent
  <2>1. r.api # "aivcs" /\ r.review \in Opt(Ids)
    BY <1>2 DEF InboundHitlEvent
  <2> QED BY <2>1 DEF Pending, hitl_pending_correlations, Lookups,
                      CorrelationKinds, Opt
<1> QED BY <1>1, <1>2

\* into_dfc_event of an accepted request is an event of its tenant and key.
LEMMA EventType ==
  ASSUME NEW r \in InboundAivcsEvent \cup InboundHitlEvent, WellFormed(r)
  PROVE  /\ into_dfc_event(r) \in DfcEvent
         /\ EventKey(into_dfc_event(r)) = <<BodyTenant(r), r.key>>
<1>1. Pending(r) \subseteq Lookups
  BY PendingType
<1>2. CASE r \in InboundAivcsEvent
  <2>1. /\ r.api = "aivcs" /\ r.tenant \in Tenants /\ r.key \in Keys
        /\ r.type \in EventTypes /\ r.run \in Opt(Ids) /\ r.task \in Opt(Ids)
        /\ r.ref \in Opt(Ids) /\ r.meta \in Metadata
    BY <1>2 DEF InboundAivcsEvent, WellFormed, BodyTenant, Opt
  <2> QED BY <2>1, <1>1 DEF into_dfc_event, AivcsEvent, DfcEvent, EventKey,
                            BodyTenant
<1>3. CASE r \in InboundHitlEvent
  <2>1. /\ r.api = "hitl" /\ r.tenant \in Tenants /\ r.key \in Keys
        /\ r.type \in EventTypes /\ r.run \in Opt(Ids)
        /\ r.review \in Opt(Ids) /\ r.meta \in Metadata
    BY <1>3 DEF InboundHitlEvent, WellFormed, BodyTenant, Opt
  <2>2. [r.meta EXCEPT !.review = OrElse(@, r.review)] \in Metadata
    BY <2>1 DEF Metadata, OrElse
  <2>3. None \in Opt(Ids)
    BY DEF Opt
  <2> QED BY <2>1, <2>2, <2>3, <1>1 DEF into_dfc_event, HitlEvent, DfcEvent,
                                        EventKey, BodyTenant
<1> QED BY <1>2, <1>3

\* A correlate request becomes a well-typed record of a known tenant.
LEMMA RecordOfType ==
  ASSUME NEW r \in CorrelateRequest, WellFormed(r)
  PROVE  RecordOf(r) \in CorrelationRecord
<1>1. BodyTenant(r) \in Tenants
  BY DEF WellFormed, CorrelateRequest, BodyTenant, OrElse, Opt
<1> QED BY <1>1 DEF RecordOf, CorrelateRequest, CorrelationRecord

\* So does a snapshot event that names its snapshot.
LEMMA SnapshotRecordType ==
  ASSUME NEW e \in DfcEvent
  PROVE  SnapshotRecord(e) \in CorrelationRecord
<1>1. /\ e.tenant \in Tenants /\ e.run \in Opt(Ids) /\ e.task \in Opt(Ids)
      /\ e.ref \in Opt(Ids) /\ e.meta \in Metadata
  BY DEF DfcEvent
<1>2. e.meta.snapshot \in Opt(Ids) /\ e.meta.branch \in Opt(Ids)
  BY <1>1 DEF Metadata
<1>3. snapshot_id_from_event(e) \in Opt(Ids)
  BY <1>1, <1>2 DEF snapshot_id_from_event, OrElse
<1>4. OrElse(e.run, Placeholder) \in Opt(Ids)
  BY <1>1, IdsAssumption DEF OrElse, Opt
<1>5. "snapshot" \in Opt(CorrelationKinds)
  BY DEF Opt, CorrelationKinds
<1> QED BY <1>1, <1>2, <1>3, <1>4, <1>5 DEF SnapshotRecord, CorrelationRecord

\* correlation_lookup_keys: each key is a kind and an id that is present.
LEMMA LookupKeysType ==
  ASSUME NEW rec \in CorrelationRecord
  PROVE  correlation_lookup_keys(rec) \subseteq Lookups
<1>1. /\ rec.kind \in Opt(CorrelationKinds) /\ rec.links \in Metadata
      /\ {rec.source, rec.target, rec.run, rec.task, rec.snapshot, rec.branch}
           \subseteq Opt(Ids)
  BY DEF CorrelationRecord
<1>2. {rec.links.review, rec.links.session, rec.links.pr} \subseteq Opt(Ids)
  BY <1>1 DEF Metadata
<1> QED BY <1>1, <1>2 DEF correlation_lookup_keys, Lookups, CorrelationKinds, Opt

-----------------------------------------------------------------------------
(* The store *)

\* store_correlation keeps the types and withdraws no correlation.
LEMMA StoreCorrelationType ==
  ASSUME NEW rec \in CorrelationRecord, UpstreamTypeOK, store_correlation(rec)
  PROVE  /\ UpstreamTypeOK'
         /\ DOMAIN correlations' = DOMAIN correlations \cup SlotsOf(rec)
<1>1. rec.tenant \in Tenants
  BY DEF CorrelationRecord
<1>2. SlotsOf(rec) \subseteq CorrelationKeys
  BY <1>1, LookupKeysType DEF SlotsOf, Slot, CorrelationKeys, Lookups
<1>3. /\ DOMAIN correlations' = DOMAIN correlations \cup SlotsOf(rec)
      /\ DOMAIN correlations' \subseteq CorrelationKeys
      /\ correlations' \in [DOMAIN correlations' -> CorrelationRecord]
  BY <1>2 DEF UpstreamTypeOK, store_correlation, Overwritten
<1> QED BY <1>3 DEF UpstreamTypeOK, store_correlation

\* ingest_event keeps the types; the first event under a key stays.
LEMMA IngestEventType ==
  ASSUME NEW e \in DfcEvent, UpstreamTypeOK, ingest_event(e)
  PROVE  /\ UpstreamTypeOK'
         /\ Stored(e) \in DfcEvent
         /\ DOMAIN events' = DOMAIN events \cup {EventKey(e)}
         /\ events'[EventKey(e)] = Stored(e)
         /\ \A k \in DOMAIN events : events'[k] = events[k]
<1>1. EventKey(e) \in EventKeys
  BY DEF EventKey, EventKeys, DfcEvent
<1>2. Stored(e) \in DfcEvent
  BY DEF Stored, UpstreamTypeOK
<1>3. /\ DOMAIN events' = DOMAIN events \cup {EventKey(e)}
      /\ DOMAIN events' \subseteq EventKeys
      /\ events' \in [DOMAIN events' -> DfcEvent]
      /\ \A k \in DOMAIN events' :
           events'[k] = IF k \in {EventKey(e)} THEN Stored(e) ELSE events[k]
  BY <1>1, <1>2 DEF UpstreamTypeOK, ingest_event, Overwritten
<1>4. \A k \in DOMAIN events : events'[k] = events[k]
  BY <1>3 DEF Stored
<1> QED BY <1>2, <1>3, <1>4 DEF UpstreamTypeOK, ingest_event

\* What resolves keeps resolving: nothing removes a correlation.
LEMMA ResolvesGrows ==
  ASSUME NEW tenant, NEW p, DOMAIN correlations \subseteq DOMAIN correlations',
         Resolves(tenant, p)
  PROVE  Resolves(tenant, p)'
BY DEF Resolves

\* The conflict check under the lock keeps every (kind, id) with one tenant.
LEMMA StoreKeepsExclusive ==
  ASSUME NEW rec \in CorrelationRecord, UpstreamTypeOK, TenantExclusive,
         store_correlation(rec)
  PROVE  TenantExclusive'
<1>1. DOMAIN correlations' = DOMAIN correlations \cup SlotsOf(rec)
  BY StoreCorrelationType
<1>2. \A k \in SlotsOf(rec), l \in DOMAIN correlations :
        k[2] = l[2] /\ k[3] = l[3] => k[1] = l[1]
  <2> SUFFICES ASSUME NEW k \in SlotsOf(rec), NEW l \in DOMAIN correlations,
                      k[2] = l[2], k[3] = l[3], k[1] # l[1]
               PROVE  FALSE
    OBVIOUS
  <2>1. PICK p \in correlation_lookup_keys(rec) : k = Slot(rec.tenant, p)
    BY DEF SlotsOf
  <2>2. l \in CorrelationKeys /\ l[1] \in Tenants
    BY DEF UpstreamTypeOK, CorrelationKeys
  <2>3. l = Slot(l[1], p)
    BY <2>1, <2>2 DEF Slot, CorrelationKeys
  <2>4. HeldByOther(rec.tenant, p)
    BY <2>1, <2>2, <2>3 DEF HeldByOther, Resolves, Slot
  <2> QED BY <2>4 DEF store_correlation, StoreConflicts
<1>3. \A k, l \in SlotsOf(rec) : k[1] = l[1]
  BY DEF SlotsOf, Slot
<1> QED BY <1>1, <1>2, <1>3 DEF TenantExclusive
=============================================================================
