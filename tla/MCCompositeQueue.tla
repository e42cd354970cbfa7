-------------------------- MODULE MCCompositeQueue --------------------------
(* Room for one data packet or for two, and for one header or two, with    *)
(* data packets of one size or of two.  There are six packets, so that one *)
(* of each kind can still come when every place is taken.  The code's      *)
(* weights are 10 and 1; with 2 and 1 the count of turns wraps as well.    *)
EXTENDS CompositeQueue
=============================================================================
