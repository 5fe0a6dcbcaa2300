------------------------- MODULE MCSubscriptionCache -------------------------
(***************************************************************************)
(* SubscriptionCache for TLC; the configurations give the constants.       *)
(***************************************************************************)
EXTENDS SubscriptionCache, TLC

NoThrottling == -1

\* Request threads are interchangeable (for the runs without liveness).
RequestSymmetry == Permutations(Request)
=============================================================================
