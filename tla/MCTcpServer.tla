---------------------------- MODULE MCTcpServer ----------------------------
(* One server, started until it runs and stopped at any point, and clients *)
(* that connect at any time, log in or not, and leave or not.              *)
EXTENDS TcpServer
=============================================================================
