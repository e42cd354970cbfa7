---------------------------- MODULE LinkFactory ----------------------------
(***************************************************************************)
(* The factory of links on its own: links are handed out and taken back in *)
(* any order.  (In the constellation the links between satellites stay and *)
(* the links of the cities come and go in pairs: module Constellation.)    *)
(***************************************************************************)
EXTENDS LinkPool

CONSTANT PoolSize   \* _pool_size at the start, not 0

VARIABLES
  pool,        \* the arrays
  up,          \* the links that are handed out, Link::_up
  aborted      \* whether the assert has failed, which ends the program

vars == <<pool, up, aborted>>

Init ==
  /\ pool = EmptyPool(PoolSize)
  /\ up = {}
  /\ aborted = FALSE

ActivateLink(l) ==
  /\ ~ aborted
  /\ l = HandedOut(pool)
  /\ pool' = Activate(pool)
  /\ up' = up \cup {l}
  /\ UNCHANGED aborted

DropLink(l) ==
  /\ ~ aborted
  /\ l \in up
  /\ IF DropAsserts(pool, l)
       THEN pool' = Drop(pool, l) /\ up' = up \ {l} /\ UNCHANGED aborted
       ELSE aborted' = TRUE /\ UNCHANGED <<pool, up>>

Next == \E l \in Link : ActivateLink(l) \/ DropLink(l)

Spec == Init /\ [][Next]_vars

(* assert(_active_links[ix] == &link) never fails. *)
NoAssertFails == ~ aborted
=============================================================================
