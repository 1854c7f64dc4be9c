---------------------------- MODULE MCEventIngest ----------------------------
(****************************************************************************)
(* Instances of EventIngest for TLC: the request bodies callers send in     *)
(* each run, over a few tenants, keys and ids.                              *)
(****************************************************************************)
EXTENDS EventIngest, TLC

CONSTANTS
  t1, t2, t3, t4,     \* tasks
  A, B,               \* tenants
  k1, k2, k3, k4,     \* idempotency keys
  s1, s2,             \* snapshots
  r1, r2,             \* runs
  v1, v2              \* reviews

ThreeTasks == {t1, t2, t3}
FourTasks  == {t1, t2, t3, t4}
AllIds     == {s1, s2, r1, r2, v1, v2, Placeholder}
TwoTasks   == {t1, t2}
TaskSymmetry == Permutations(Tasks)

NoMeta == [f \in {"snapshot", "parent", "branch", "review", "session", "pr"} |->
             None]
ReviewMeta(v) == [NoMeta EXCEPT !.review = v]

Aivcs(tenant, key, type, run, ref, meta) ==
  [api |-> "aivcs", header |-> tenant, tenant |-> tenant, key |-> key,
   type |-> type, run |-> run, task |-> None, ref |-> ref, meta |-> meta]

Branch(tenant, key, s) ==
  Aivcs(tenant, key, "aivcs.branch.created", None, None,
        [NoMeta EXCEPT !.parent = s])
Snapshot(tenant, key, s, run) ==
  Aivcs(tenant, key, "aivcs.snapshot.created", run, s, NoMeta)
Replay(tenant, key, s) ==
  Aivcs(tenant, key, "aivcs.replay.requested", None, s, NoMeta)

Hitl(tenant, key, v, meta) ==
  [api |-> "hitl", header |-> tenant, tenant |-> tenant, key |-> key,
   type |-> "hitl.review.opened", review |-> v, run |-> None, meta |-> meta]

NoCorrelation ==
  [api |-> "correlate", header |-> None, tenant |-> None, kind |-> None,
   systems |-> FALSE, source |-> None, target |-> None, run |-> None,
   task |-> None, snapshot |-> None, branch |-> None, meta |-> NoMeta]

\* The flat form: run to snapshot, run to review; the tenant from the header.
Flat(tenant, run, s, v) ==
  [NoCorrelation EXCEPT !.header = tenant, !.run = run, !.snapshot = s,
                        !.meta = ReviewMeta(v)]

\* The canonical form: a kind with a source and a target.
Canonical(tenant, kind, source, target) ==
  [NoCorrelation EXCEPT !.header = tenant, !.tenant = tenant, !.kind = kind,
                        !.systems = TRUE, !.source = source,
                        !.target = target]

\* A refused request: the body names another tenant than the header.
Mismatched(tenant, other, key, s) ==
  [Branch(other, key, s) EXCEPT !.header = tenant]

-----------------------------------------------------------------------------
(* The requests of each run *)

\* Events before, after and beside the correlations they wait for, each of
\* them also sent more than once, a review mapped in both forms, and one event
\* that announces a snapshot nobody has registered.
RacingRequests ==
  {Branch(A, k1, s1), Snapshot(A, k2, s1, r1), Hitl(A, k3, v1, NoMeta),
   Flat(A, r1, None, v1), Canonical(A, "review", v1, r1), Replay(A, k4, s1)}

\* One key sent with two payloads that wait for different things, two events
\* on one snapshot, another tenant that holds it and waits on it too, and a
\* request that is refused.
SharedKeysAndIds ==
  {Branch(A, k1, s1), Hitl(A, k1, v1, NoMeta), Branch(A, k3, s1),
   Snapshot(A, k2, s1, r1), Flat(A, r2, None, v1),
   Branch(B, k3, s1), Flat(B, r1, s1, None), Mismatched(A, B, k4, s1)}

\* One key sent with two payloads, only one of which waits, and a review event
\* staged beside it.
FaultyRequests ==
  {Branch(A, k1, s1), Replay(A, k1, s1), Snapshot(A, k2, s1, r1),
   Hitl(A, k3, v1, NoMeta), Flat(A, r1, None, v1)}

\* Events that wait and the correlations that wake them, by every route: a
\* snapshot event, two of them under one key, a mapping from a run, and a
\* review mapped in the flat form and in the canonical one.
WakingRequests ==
  {Branch(A, k1, s1), Snapshot(A, k2, s1, None), Snapshot(A, k2, s2, None),
   Hitl(A, k3, v1, NoMeta), Flat(A, r1, s1, None), Flat(A, r2, None, v1),
   Canonical(A, "review", v1, r1)}

\* One branch and the snapshot it waits for.
BranchAndSnapshot == {Branch(A, k1, s1), Snapshot(A, k2, s1, r1)}

\* Snapshots of two tenants, neither with a run yet.
RunlessSnapshots == {Snapshot(A, k1, s1, None), Snapshot(B, k1, s2, None)}
=============================================================================
