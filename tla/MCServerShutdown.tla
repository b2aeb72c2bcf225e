--------------------------- MODULE MCServerShutdown ---------------------------
(***************************************************************************)
(* ServerShutdown with two connections and a few messages.                 *)
(***************************************************************************)
EXTENDS ServerShutdown

CONSTANTS c1, c2

MCConn == {c1, c2}
=============================================================================
