------------------------ MODULE MCOffboardingAssets ------------------------
(* The three departments of the code; two have an item, one has none.      *)
EXTENDS OffboardingAssets

MCDepartments == {"admin", "it", "hse"}
MCItems       == {"fuel_card", "laptop"}
MCOwner       == [i \in MCItems |-> IF i = "fuel_card" THEN "admin" ELSE "it"]
=============================================================================
