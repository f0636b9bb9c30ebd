------------------------------ MODULE MCDialog ------------------------------
(***************************************************************************)
(* The dialog under every sequence of a few calls, with every refusal.     *)
(***************************************************************************)
EXTENDS Dialog

=============================================================================
