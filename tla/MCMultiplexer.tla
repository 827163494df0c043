---------------------------- MODULE MCMultiplexer ---------------------------
(***************************************************************************)
(* Multiplexer for TLC: stream 2 with normal, stream 4 with high priority. *)
(***************************************************************************)
EXTENDS Multiplexer

CONSTANTS ServerData, ClientData

MCPriorityOf == [i \in Ids |-> IF i = 4 THEN 1 ELSE 2]
MCMaxData == [e \in Ends |-> IF e = "server" THEN ServerData ELSE ClientData]

=============================================================================
