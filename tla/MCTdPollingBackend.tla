-------------------------- MODULE MCTdPollingBackend --------------------------
(* Instances of TdPollingBackend for TLC: the .cfg file gives the bounds. *)
EXTENDS TdPollingBackend
=============================================================================
