-------------------------- MODULE MCPersonalAssignment ------------------------
(* PersonalAssignment on small sets, for TLC.                              *)
EXTENDS PersonalAssignment, TLC

(* Teachers and requests are only compared for equality.                   *)
Symmetry == Permutations(Reviewers) \union Permutations(Gradebooks)
              \union Permutations(Submitters) \union Permutations(Teachers)
===============================================================================
