------------------------------ MODULE MCClient ------------------------------
(***************************************************************************)
(* The client for TLC: time in tenths of a second, an instance that sends  *)
(* no limit or one of its own, and the walks of MCPaginate.                *)
(***************************************************************************)
EXTENDS Client, MCPaginate

JitterDrawn == {-30, 0, 30}
ItemLimits == {0, 20}
=============================================================================
