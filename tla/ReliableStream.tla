--------------------------- MODULE ReliableStream ---------------------------
(***************************************************************************)
(* What a transport flow promises: the receiver delivers the stream in     *)
(* order, the sender learns of it only afterwards, neither takes anything  *)
(* back, and in the end the sender knows that all of it has arrived.       *)
(***************************************************************************)
EXTENDS Naturals

CONSTANT Total   \* the last sequence number of the stream

VARIABLES delivered, acked
vars == <<delivered, acked>>

Init == delivered = 0 /\ acked = 0

Deliver == delivered' > delivered /\ UNCHANGED acked
Learn == acked' > acked /\ acked' <= delivered /\ UNCHANGED delivered

Next == Deliver \/ Learn

Safe == Init /\ [][Next]_vars

Spec == Safe /\ <>(acked >= Total)
=============================================================================
