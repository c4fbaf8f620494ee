------------------------------ MODULE MCPtHttp ------------------------------
EXTENDS PtHttp
CONSTANTS a, b

MCByte == {a, b}
MCCode == {201, 404, 500}
MCBody == {<<>>, <<b>>, <<a, b, a, a>>}
MCDoc == {<<>>, <<a>>, <<a, b, b, a>>}
=============================================================================
