------------------------------- MODULE Totals -------------------------------
(***************************************************************************)
(* The sum of the values of a function, naturals, as a number of elements:   *)
(* of the pairs of an argument and a natural up to its value.  The code sums  *)
(* with sum() over lists and dictionaries.                                   *)
(***************************************************************************)
EXTENDS Integers, FiniteSets

Below(f) == UNION {{x} \X (1..f[x]) : x \in DOMAIN f}
Total(f) == Cardinality(Below(f))
=============================================================================
