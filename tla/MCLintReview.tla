------------------------------ MODULE MCLintReview ------------------------------
(* LintReview on a small instance for TLC. *)
EXTENDS LintReview, TLC

Symmetry == Permutations(Runs)
OneDismissed == {<<2, 2>>}
================================================================================
