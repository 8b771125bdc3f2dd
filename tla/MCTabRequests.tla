---------------------------- MODULE MCTabRequests ----------------------------
(* Two services that have an entity set of the same name, one of them also *)
(* one of its own.                                                         *)
EXTENDS TabRequests, TLC

CONSTANTS p1, p2, s1, s2, e1, e2, t1, t2, t3, q1, q2

MCEntitiesOf == [s \in Services |-> IF s = s1 THEN {e1} ELSE {e1, e2}]
MCSymmetry == Permutations(Profiles) \cup Permutations(Tabs) \cup Permutations(Queries)
=============================================================================
