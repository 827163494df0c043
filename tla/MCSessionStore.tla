--------------------------- MODULE MCSessionStore ---------------------------
(***************************************************************************)
(* Three sessions that all want the same tunnel id, as a client does that  *)
(* reconnects while its earlier sessions are being taken down, and one     *)
(* reader of that tunnel.                                                  *)
(***************************************************************************)
EXTENDS SessionStore

CONSTANT t1

MCTunnelOf == [s \in Ids |-> t1]
=============================================================================
