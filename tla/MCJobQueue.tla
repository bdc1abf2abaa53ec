----------------------------- MODULE MCJobQueue -----------------------------
EXTENDS JobQueue, TLC

CONSTANTS mother, father, child, r1, r2

\* The child waits for both parents, which wait for nothing.
MCJobs == {mother, father, child}
MCGraphs == {MCJobs}
MCParents == [j \in MCJobs |-> IF j = child THEN {mother, father} ELSE {}]

\* The parents are alike, and so are the runners.
MCSymmetry == Permutations({mother, father}) \cup Permutations({r1, r2})
=============================================================================
