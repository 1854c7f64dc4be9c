------------------------------- MODULE DfcCore -------------------------------
(****************************************************************************)
(* The vocabulary of dfc-core: what an inbound request says, which other    *)
(* identifiers it depends on, and the canonical event or correlation record *)
(* it is normalised into.                                                   *)
(*                                                                          *)
(* Identifiers are drawn from one set Ids and are never blank; a field that *)
(* may be absent holds None, and so does one whose blank string the code    *)
(* filters out.  Blank strings in the fields it does not filter are left    *)
(* out.  An aivcs_ref is represented by the snapshot id it names (None when *)
(* it has another shape).  Hashes that are functions of the other fields    *)
(* (event_id, correlation_id), timestamps and free text are left out.       *)
(****************************************************************************)
CONSTANTS
  Tenants,       \* tenant ids
  Keys,          \* idempotency keys chosen by callers
  Ids,           \* run, task, snapshot, branch, review, session and PR ids
  None,          \* an absent field
  Placeholder    \* the literal "pending" written for a missing target_id

ASSUME IdsAssumption ==
  /\ None \notin Tenants \cup Keys \cup Ids
  /\ Placeholder \in Ids

Opt(S) == S \cup {None}

\* Option::or
OrElse(a, b) == IF a # None THEN a ELSE b

-----------------------------------------------------------------------------
(* Types *)

CorrelationKinds ==
  {"run", "task", "branch", "pr", "review", "snapshot", "session"}

ASSUME KindsAssumption == None \notin CorrelationKinds

\* What a correlation is looked up by.
Lookups == CorrelationKinds \X Ids

\* The metadata entries some handler reads.
Metadata == [snapshot : Opt(Ids), parent : Opt(Ids), branch : Opt(Ids),
             review : Opt(Ids), session : Opt(Ids), pr : Opt(Ids)]

AivcsTypes == {"aivcs.snapshot.created", "aivcs.branch.created",
               "aivcs.replay.requested"}
HitlTypes  == {"hitl.review.opened", "hitl.decision.recorded",
               "hitl.comment.added"}
OtherTypes == {"other"}

\* What the decision route writes; no caller sends these.
HumanTypes == {"human.approved", "human.rejected", "human.requested_changes",
               "human.escalated"}

EventTypes == AivcsTypes \cup HitlTypes \cup HumanTypes \cup OtherTypes

\* Request bodies, each with the X-Tenant-Id header it came with.
InboundAivcsEvent ==
  [api : {"aivcs"}, header : Opt(Tenants), tenant : Opt(Tenants),
   key : Opt(Keys), type : EventTypes, run : Opt(Ids), task : Opt(Ids),
   ref : Opt(Ids), meta : Metadata]

InboundHitlEvent ==
  [api : {"hitl"}, header : Opt(Tenants), tenant : Opt(Tenants),
   key : Opt(Keys), type : EventTypes, review : Opt(Ids), run : Opt(Ids),
   meta : Metadata]

\* systems: both source_system and target_system are present.
CorrelateRequest ==
  [api : {"correlate"}, header : Opt(Tenants), tenant : Opt(Tenants),
   kind : Opt(CorrelationKinds), systems : BOOLEAN, source : Opt(Ids),
   target : Opt(Ids), run : Opt(Ids), task : Opt(Ids), snapshot : Opt(Ids),
   branch : Opt(Ids), meta : Metadata]

CorrelationRecord ==
  [tenant : Tenants, kind : Opt(CorrelationKinds), source : Opt(Ids),
   target : Opt(Ids), run : Opt(Ids), task : Opt(Ids), snapshot : Opt(Ids),
   branch : Opt(Ids), links : Metadata]

\* waits is a history field: the lookups the inbound event was pending on.
\* No action reads it; the properties do.
DfcEvent ==
  [tenant : Tenants, key : Keys, type : EventTypes,
   system : {"aivcs_api", "aivcs_hitl"}, run : Opt(Ids), task : Opt(Ids),
   ref : Opt(Ids), meta : Metadata, waits : SUBSET Lookups]

-----------------------------------------------------------------------------
(* Which snapshot or review an event names, and what it must wait for *)

\* The snapshot a branch event depends on: metadata first, then aivcs_ref.
snapshot_ref_from_aivcs(r) ==
  OrElse(OrElse(r.meta.snapshot, r.meta.parent), r.ref)

\* The snapshot a forwarded event announces: aivcs_ref first, then metadata.
snapshot_id_from_event(e) == OrElse(e.ref, e.meta.snapshot)

aivcs_pending_correlations(r) ==
  {<<"snapshot", id>> :
     id \in {i \in {snapshot_ref_from_aivcs(r)} :
               r.type = "aivcs.branch.created" /\ i # None}}

hitl_pending_correlations(r) ==
  {<<"review", id>> : id \in {i \in {r.review} : r.run = None /\ i # None}}

Pending(r) == IF r.api = "aivcs" THEN aivcs_pending_correlations(r)
                                 ELSE hitl_pending_correlations(r)

-----------------------------------------------------------------------------
(* Normalisation *)

AivcsEvent(r) ==
  [tenant |-> r.tenant, key |-> r.key, type |-> r.type,
   system |-> "aivcs_api", run |-> r.run, task |-> r.task, ref |-> r.ref,
   meta |-> r.meta, waits |-> Pending(r)]

\* The metadata the caller sent is laid over the entry made from review_id.
HitlEvent(r) ==
  [tenant |-> r.tenant, key |-> r.key, type |-> r.type,
   system |-> "aivcs_hitl", run |-> r.run, task |-> None, ref |-> None,
   meta |-> [r.meta EXCEPT !.review = OrElse(@, r.review)],
   waits |-> Pending(r)]

into_dfc_event(r) == IF r.api = "aivcs" THEN AivcsEvent(r) ELSE HitlEvent(r)

\* A correlate request's tenant defaults to the header's.
BodyTenant(r) ==
  IF r.api = "correlate" THEN OrElse(r.tenant, r.header) ELSE r.tenant

RecordOf(r) ==
  [tenant |-> BodyTenant(r), kind |-> r.kind, source |-> r.source,
   target |-> r.target, run |-> r.run, task |-> r.task,
   snapshot |-> r.snapshot, branch |-> r.branch, links |-> r.meta]

\* The record a snapshot event registers before it is forwarded.
SnapshotRecord(e) ==
  [tenant |-> e.tenant, kind |-> "snapshot",
   source |-> snapshot_id_from_event(e),
   target |-> OrElse(e.run, Placeholder), run |-> e.run, task |-> e.task,
   snapshot |-> snapshot_id_from_event(e), branch |-> e.meta.branch,
   links |-> e.meta]

-----------------------------------------------------------------------------
(* Validation, and the lookups a record answers *)

has_canonical(r) == /\ r.kind # None /\ r.systems
                    /\ r.source # None /\ r.target # None

has_legacy(r) == \E id \in {r.run, r.task, r.snapshot, r.branch} : id # None

\* What the handlers and validators accept; everything else is a 4xx that
\* leaves no trace.
WellFormed(r) ==
  /\ r.header # None
  /\ BodyTenant(r) = r.header
  /\ CASE r.api = "aivcs" -> r.key # None /\ r.type \in AivcsTypes
       [] r.api = "hitl"  -> r.key # None /\ r.type \in HitlTypes
       [] OTHER           -> has_canonical(r) \/ has_legacy(r)

correlation_lookup_keys(rec) ==
  {p \in {<<rec.kind, rec.source>>, <<rec.kind, rec.target>>,
          <<"run", rec.run>>, <<"task", rec.task>>,
          <<"snapshot", rec.snapshot>>, <<"branch", rec.branch>>,
          <<"review", rec.links.review>>, <<"session", rec.links.session>>,
          <<"pr", rec.links.pr>>} : p[1] # None /\ p[2] # None}
=============================================================================
