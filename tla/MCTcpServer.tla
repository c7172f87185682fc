---------------------------- MODULE MCTcpServer ----------------------------
(* Two connections: one may come on the descriptor that the other left,    *)
(* and each may be the highest while the other closes.                     *)
EXTENDS TcpServer

CONSTANTS c1, c2

MCConns == {c1, c2}
=============================================================================
