--------------------------- MODULE MCReplayBridge ---------------------------
(****************************************************************************)
(* Instances of ReplayBridge for TLC.                                       *)
(****************************************************************************)
EXTENDS ReplayBridge, TLC

CONSTANTS t1, t2, t3, t4, k1, k2, o1, o2, o3, o4

ThreeTasks   == {t1, t2, t3}
FourTasks    == {t1, t2, t3, t4}
TaskSymmetry == Permutations(Tasks)

\* aivcs-api's ids are as alike as the tasks.
FullSymmetry == TaskSymmetry \cup Permutations(Operations)

RequestOf(kind, key) == [kind |-> kind, key |-> key, valid |-> TRUE]

\* Replays under one key and rollbacks under another, sent again and again,
\* and a request that is refused.
TwoKeys ==
  {RequestOf("replay", k1), RequestOf("rollback", k2),
   [RequestOf("replay", k1) EXCEPT !.valid = FALSE]}

\* A replay and a rollback under one key, and a rollback under another.
SharedKey ==
  {RequestOf("replay", k1), RequestOf("rollback", k1),
   RequestOf("rollback", k2)}
=============================================================================
