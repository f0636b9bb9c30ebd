------------------------------ MODULE MCServer ------------------------------
(***************************************************************************)
(* The server with two clients, each of which sends frames of every kind.  *)
(***************************************************************************)
EXTENDS Server

=============================================================================
