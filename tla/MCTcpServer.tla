---------------------------- MODULE MCTcpServer ----------------------------
(* TLC instances of TcpServer. *)
EXTENDS TcpServer

MCAddrs == <<"a1", "a2">>
=============================================================================
