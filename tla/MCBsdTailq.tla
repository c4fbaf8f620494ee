----------------------------- MODULE MCBsdTailq -----------------------------
EXTENDS BsdTailq, TLC
CONSTANTS a1, a2, a3, e1, e2, e3, e4, x1, x2

Symmetry == Permutations(Array) \cup Permutations(Elem) \cup Permutations(Node)
=============================================================================
