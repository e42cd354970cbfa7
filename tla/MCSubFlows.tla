----------------------------- MODULE MCSubFlows -----------------------------
(* Two paths and at most two sub-flows, so that one is retired while the   *)
(* other goes on and the pool hands a packet of the first to the second;   *)
(* five updates, so that a path comes, goes and comes again; one control   *)
(* packet and one data packet of a sub-flow under way at a time.           *)
EXTENDS SubFlows
=============================================================================
