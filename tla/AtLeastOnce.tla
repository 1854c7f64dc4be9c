----------------------------- MODULE AtLeastOnce -----------------------------
(****************************************************************************)
(* What a call to data-fabric promises its caller: the upstream carries it  *)
(* out at most limit times, "ok" means at least once, and any other outcome *)
(* says nothing of how often.  ReviewDecision awaits its calls on these     *)
(* terms.                                                                   *)
(****************************************************************************)
EXTENDS Naturals

CONSTANTS Calls, None

VARIABLES
  limit,    \* how often a call may be sent
  applied,  \* how often each call has been carried out
  outcome   \* what its caller was answered, None while it waits

promiseVars == <<limit, applied, outcome>>

Outcomes == {"ok", "absent", "error", "dropped"}

Init ==
  /\ limit \in Nat \ {0}
  /\ applied = [c \in Calls |-> 0]
  /\ outcome = [c \in Calls |-> None]

CarryOut(c) ==
  /\ outcome[c] = None /\ applied[c] < limit
  /\ applied' = [applied EXCEPT ![c] = @ + 1]
  /\ outcome' = outcome
  /\ UNCHANGED limit

\* The upstream may carry the call out in the step that ends it.
End(c) ==
  /\ outcome[c] = None
  /\ \E n \in {0, 1}, o \in Outcomes :
       /\ applied[c] + n <= limit
       /\ o = "ok" => applied[c] + n >= 1
       /\ applied' = [applied EXCEPT ![c] = @ + n]
       /\ outcome' = [outcome EXCEPT ![c] = o]
  /\ UNCHANGED limit

Next == \E c \in Calls : CarryOut(c) \/ End(c)

Spec == Init /\ [][Next]_promiseVars
=============================================================================
