-------------------------- MODULE MCReviewDecision --------------------------
(****************************************************************************)
(* Instances of ReviewDecision for TLC.                                     *)
(****************************************************************************)
EXTENDS ReviewDecision, TLC

CONSTANTS t1, t2, t3, t4, t5, A, B, k1, k2, v1, v2, r1, r2

ThreeTasks   == {t1, t2, t3}
FourTasks    == {t1, t2, t3, t4}
FiveTasks    == {t1, t2, t3, t4, t5}
AllIds       == {v1, v2, r1, r2, Placeholder}
TaskSymmetry == Permutations(Tasks)

NoMeta == [f \in {"snapshot", "parent", "branch", "review", "session", "pr"} |->
             None]

\* POST /v1/correlate, flat: a run and the review it is under.
Mapped(tenant, v, run) ==
  [api |-> "correlate", header |-> tenant, tenant |-> None, kind |-> None,
   systems |-> FALSE, source |-> None, target |-> None, run |-> run,
   task |-> None, snapshot |-> None, branch |-> None,
   meta |-> [NoMeta EXCEPT !.review = v]]

Decide(tenant, key, v, decision) ==
  [api |-> "decision", header |-> tenant, review |-> v, key |-> key,
   decision |-> decision]

View(tenant, v) == [api |-> "view", header |-> tenant, review |-> v]

\* Two decisions on one review, each sent again and again, views of it, a
\* request without a key, and another tenant's decision on the same review.
ReviewRequests ==
  {Mapped(A, v1, r1), Decide(A, k1, v1, "approved"),
   Decide(A, k2, v1, "rejected"), View(A, v1),
   Decide(A, None, v1, "approved"), Decide(B, k1, v1, "escalated")}

\* One key for two decisions.
ChangedMind ==
  {Mapped(A, v1, r1), Decide(A, k1, v1, "approved"),
   Decide(A, k1, v1, "rejected")}

\* A review mapped to a run and later to another, and views of it.
Remapped == {Mapped(A, v1, r1), Mapped(A, v1, r2), View(A, v1)}
=============================================================================
