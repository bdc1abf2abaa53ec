--------------------------- MODULE MCOffboarding ---------------------------
(* Offboarding with the three departments the code names.                  *)
EXTENDS Offboarding

MCDepartments == {"admin", "it", "hse"}
=============================================================================
