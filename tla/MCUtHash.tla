------------------------------ MODULE MCUtHash ------------------------------
EXTENDS UtHash, TLC
CONSTANTS i1, i2, i3, i4, i5, k1, k2, k3

(* k1 and k2 are in one bucket until there are four, k3 mostly elsewhere *)
MCHash == [k \in Key |-> CASE k = k1 -> 0 [] k = k2 -> 2 [] k = k3 -> 1]
Symmetry == Permutations(Item)
=============================================================================
