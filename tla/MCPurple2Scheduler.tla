-------------------------- MODULE MCPurple2Scheduler --------------------------
(* Instances of Purple2Scheduler for TLC: the .cfg file gives the bounds. *)
EXTENDS Purple2Scheduler
=============================================================================
