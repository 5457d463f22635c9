----------------------------- MODULE MCHarborJobs -----------------------------
(***************************************************************************)
(* Small Harbor deployments for TLC: one or two workers, one or two        *)
(* targets, lineages of two attempts.                                      *)
(***************************************************************************)
EXTENDS HarborJobs, TLC

CONSTANTS wa, wb, ta, tb

(* The targets are interchangeable, and so are the workers.                *)
Symmetry == Permutations({ta, tb}) \cup Permutations({wa, wb})

=============================================================================
