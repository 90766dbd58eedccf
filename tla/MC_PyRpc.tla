------------------------------ MODULE MC_PyRpc ------------------------------
(* One request on its own and one bound to a connection, over two of them.  *)
EXTENDS PyRpc

CONSTANTS r1, b1, c1, c2

MCCalls == {r1, b1}
MCBound == {b1}
MCConns == {c1, c2}
MCOneCall == {r1}
MCNobody == {}

=============================================================================
