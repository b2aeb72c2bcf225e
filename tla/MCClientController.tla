-------------------------- MODULE MCClientController --------------------------
(***************************************************************************)
(* ClientController with one server or two.                                *)
(***************************************************************************)
EXTENDS ClientController

CONSTANTS here, there

MCAddr == {here, there}
MCOneAddr == {here}
=============================================================================
