-------------------------- MODULE MCPriorityQueue --------------------------
(* Up to two packets on each of the three levels, so that one waits behind *)
(* the packet in service on its own level and on every other one.          *)
EXTENDS PriorityQueue
=============================================================================
