----------------------------- MODULE MCMeshNode -----------------------------
(* Small instances of MeshNode for TLC. *)
EXTENDS MeshNode

CONSTANTS A, B, C, D

\* Both directions of each pair.
BothWays(R) == R \cup {<<r[2], r[1]>> : r \in R}

\* A - B - C - D: A and D only reach each other through two relays.
Line == BothWays({<<A, B>>, <<B, C>>, <<C, D>>})

\* A - B - C: one relay; and the same, but A does not hear anybody.
Relay == BothWays({<<A, B>>, <<B, C>>})
DeafA == Relay \ {<<B, A>>}

\* How often each station beacons, and how often it is started.
CBeacons  == [n \in Nodes |-> IF n = C THEN 1 ELSE 0]
DBeacons  == [n \in Nodes |-> IF n = D THEN 2 ELSE 0]
NoBeacons == [n \in Nodes |-> 0]
NoRestart == [n \in Nodes |-> 1]
ARestarts == [n \in Nodes |-> IF n = A THEN 2 ELSE 1]
BRestarts == [n \in Nodes |-> IF n = B THEN 2 ELSE 1]

\* Who may send to whom.
AtoB  == {<<A, B>>}
AtoD  == {<<A, D>>}
AtoBC == {<<A, B>>, <<A, C>>}

\* Who cannot decode whom: nobody, or C lacks A's key.
None == {}
CvsA == {<<C, A>>}
=============================================================================
