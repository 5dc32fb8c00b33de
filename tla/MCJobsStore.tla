---------------------------- MODULE MCJobsStore ----------------------------
(***************************************************************************)
(* Instances of JobsStore for TLC: the identifiers are model values, which  *)
(* the store only ever compares.                                            *)
(***************************************************************************)
EXTENDS JobsStore, TLC

CONSTANTS j1, j2, r1

Symmetry == Permutations(JobIds)
=============================================================================
