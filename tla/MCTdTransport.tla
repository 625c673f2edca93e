---------------------------- MODULE MCTdTransport ----------------------------
(* Instances of TdTransport for TLC: the three .cfg files give the bounds. *)
EXTENDS TdTransport
=============================================================================
