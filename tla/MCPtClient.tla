------------------------------ MODULE MCPtClient ------------------------------
EXTENDS PtClient, TLC
CONSTANTS n1, n2, n3, c1, c2, k1, r1, r2, b1

MCNode == {n1, n2, n3}
MCCell == {c1, c2}
MCKey == {k1}
MCResp == {r1, r2}
MCCode == {200, 500}
MCBody == {<<>>, <<b1>>}

Symm == Permutations(MCNode) \cup Permutations(MCCell) \cup Permutations(MCResp)
=============================================================================
