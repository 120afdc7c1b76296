----------------------------- MODULE MCTcpServer -----------------------------
(* Small instances of TcpServer for TLC.                                   *)
EXTENDS TcpServer

CONSTANTS c1, k1

None      == {}
OneConn   == {c1}
OneClient == {k1}
AllFiles  == Conns \cup Clients \cup {Listen}
=============================================================================
