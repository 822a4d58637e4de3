----------------------------- MODULE MCEnrollment -----------------------------
(* Enrollment on small sets of model values, for TLC.                      *)
EXTENDS Enrollment, TLC

(* Students, requests and editors are only compared for equality.          *)
Symmetry == Permutations(Students) \union Permutations(Requests)
===============================================================================
