---------------------------- MODULE MCJobRunner ----------------------------
EXTENDS JobRunner

CONSTANTS a, b, w1, w2, root, sub

\* a waits for nothing and goes through a channel of its own, b waits for a.
MCParents == [j \in Jobs |-> IF j = b THEN {a} ELSE {}]
MCAncestors == [d \in Channels |-> IF d = sub THEN {root} ELSE {}]
MCChannelOf == [j \in Jobs |-> IF j = b THEN root ELSE sub]
\* The root has one place and the other channel two.
MCCapacity == [d \in Channels |-> IF d = sub THEN 2 ELSE 1]
=============================================================================
