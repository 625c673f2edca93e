--------------------------- MODULE MCPurple3Session ---------------------------
(* Instances of Purple3Session for TLC: the .cfg files give the bounds. *)
EXTENDS Purple3Session
===============================================================================
