---------------------------- MODULE MCTcpServer ----------------------------
(* A small instance of TcpServer for TLC. *)
EXTENDS TcpServer

(* The first connection receives, the second sends. *)
MCMaxIn == [c \in Conns |-> IF c = 1 THEN 4 ELSE 0]
MCMaxOut == [c \in Conns |-> IF c = 2 THEN 5 ELSE 0]
=============================================================================
