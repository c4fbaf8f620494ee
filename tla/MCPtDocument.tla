---------------------------- MODULE MCPtDocument ----------------------------
EXTENDS PtDocumentValues
CONSTANTS n1, n2, n3, n4, c1, c2, c3, k1, k2

MCNode == {n1, n2, n3, n4}
MCCell == {c1, c2, c3}
MCKey == {k1, k2}
MCCKey == {k1}

Symm == Permutations(MCNode) \cup Permutations(MCCell)
=============================================================================
