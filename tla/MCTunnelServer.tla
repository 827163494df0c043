--------------------------- MODULE MCTunnelServer ---------------------------
(***************************************************************************)
(* TunnelServer for TLC: connections that all ask for the same tunnel id,  *)
(* so that each can meet a session the other left behind.                  *)
(***************************************************************************)
EXTENDS TunnelServer

CONSTANT t1

MCTunnelOf == [c \in Conns |-> t1]

=============================================================================
