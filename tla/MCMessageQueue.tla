---------------------------- MODULE MCMessageQueue ----------------------------
(* Instances of MessageQueue for TLC: the .cfg files give the bounds. *)
EXTENDS MessageQueue
=============================================================================
