---------------------------- MODULE MCFreshness ----------------------------
(* Freshness on small instances: see MCFreshness.cfg and MCFreshnessVintage.cfg. *)
EXTENDS Freshness, TLC

\* Refreshes are interchangeable.
JobSymmetry == Permutations(Jobs)
============================================================================
