------------------------------- MODULE MCTcp -------------------------------
(***************************************************************************)
(* The two halves of tcp/tcp.c in one run: a behaviour is one of the       *)
(* server or one of the stand-alone clients.  They share no variable of    *)
(* the code: the tables of structures are separate.                        *)
(***************************************************************************)
EXTENDS MCTcpServer, TcpClient

VARIABLE subject

(* One stand-alone connection carries bytes; the others are opened so that *)
(* their structures are used again.                                        *)
MCMaxFromPeer == [c \in Links |-> IF c = 2 THEN 2 ELSE 0]
MCMaxToPeer == [c \in Links |-> IF c = 2 THEN 2 ELSE 0]

MCInit == Init /\ ClientInit /\ subject \in {"server", "client"}

MCNext ==
    \/ subject = "server" /\ Next /\ UNCHANGED <<clientVars, subject>>
    \/ subject = "client" /\ ClientNext /\ UNCHANGED <<vars, subject>>

MCSpec == MCInit /\ [][MCNext]_<<vars, clientVars, subject>> /\ Fairness
=============================================================================
