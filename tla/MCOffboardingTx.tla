-------------------------- MODULE MCOffboardingTx --------------------------
(* OffboardingTx with two workers: two requests at a time.                 *)
EXTENDS OffboardingTx, TLC

\* Neither workers nor departments are told apart by any handler.
Symmetry == Permutations(Workers) \cup Permutations(Departments)
=============================================================================
