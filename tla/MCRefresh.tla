----------------------------- MODULE MCRefresh -----------------------------
(* The jobs of the run of Refresh: see MCRefresh.cfg.                       *)
EXTENDS Refresh

CONSTANTS j1, j2

MCJobs == {j1, j2}
MCFlaky == {j1}
============================================================================
