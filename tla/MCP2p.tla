------------------------------- MODULE MCP2p -------------------------------
EXTENDS P2p
CONSTANTS A, B, X, a1, a2, a3

MCClient == {A, B}
MCPeerOf == [c \in MCClient |-> IF c = A THEN B ELSE A]
\* X asks for B and is in the hash line of A
MCOther == {[kind |-> "request", from |-> a3, to |-> Server, src |-> X, dst |-> B]}
MCAddr == {a1, a2, a3}
MChash_index == [u \in {A, B, X} |-> IF u = B THEN 2 ELSE 1]
=============================================================================
