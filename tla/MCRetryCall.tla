---------------------------- MODULE MCRetryCall ----------------------------
(****************************************************************************)
(* Instances of RetryCall for TLC.  Time is in units of 100 ms: the default *)
(* policy waits 2, doubling; the cap is lowered so that the default number  *)
(* of attempts reaches it.                                                  *)
(****************************************************************************)
EXTENDS RetryCall, TLC

CONSTANTS c1, c2

TwoCalls     == {c1, c2}
CallSymmetry == Permutations(Calls)

\* No attempts at all, one, and the default.
SomeLimits == {0, 1, 4}

\* One method of each way to send and to read the answer.
EachWay == {"bump_review_revision", "store_correlation", "get_correlation"}
=============================================================================
