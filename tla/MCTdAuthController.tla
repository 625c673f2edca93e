------------------------- MODULE MCTdAuthController -------------------------
(* Instances of TdAuthController for TLC: the .cfg files give the bounds. *)
EXTENDS TdAuthController
=============================================================================
