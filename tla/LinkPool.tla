----------------------------- MODULE LinkPool ------------------------------
(***************************************************************************)
(* The arrays of the factory that hands out the links of the constellation *)
(* and takes them back (Link_factory in starlink/isl.cpp), as operators on *)
(* a record.  Two arrays of one size hold the active and the free links; a *)
(* link knows its index in the array it is in.  When the active array is   *)
(* full both arrays are grown: the code reallocates the active array       *)
(* twice, so that from then on one memory block serves as both arrays.     *)
(***************************************************************************)
EXTENDS Naturals

CONSTANT MaxLinks   \* bound: the number of links that exist

ASSUME LinkPoolAssumption == MaxLinks \in Nat

(* Links are numbered in the order they are made in; 0 is an empty cell.   *)
Link == 1 .. MaxLinks
NoLink == 0

(* _pool_size, _active_links, _free_links, _active_link_count,             *)
(* _free_link_count, the _link_index of each link, how many links were     *)
(* made, and whether the pool has grown, so that one block is both arrays. *)
IsPool(p) ==
  /\ p.size \in Nat \ {0}
  /\ p.active \in [0 .. p.size - 1 -> Link \cup {NoLink}]
  /\ p.free \in [0 .. p.size - 1 -> Link \cup {NoLink}]
  /\ p.activeCount \in 0 .. p.size
  /\ p.freeCount \in 0 .. p.size
  /\ p.index \in [Link -> 0 .. p.size - 1]
  /\ p.made \in 0 .. MaxLinks
  /\ p.shared \in BOOLEAN

EmptyPool(size) ==
  [size |-> size, active |-> [i \in 0 .. size - 1 |-> NoLink],
   free |-> [i \in 0 .. size - 1 |-> NoLink], activeCount |-> 0,
   freeCount |-> 0, index |-> [l \in Link |-> 0], made |-> 0, shared |-> FALSE]

(* The pool with room for one more active link. *)
Grown(p) ==
  LET block == [i \in 0 .. 2 * p.size - 1 |->
                  IF i < p.size THEN p.active[i] ELSE NoLink]
  IN  IF p.activeCount < p.size THEN p
      ELSE [p EXCEPT !.size = 2 * @, !.active = block, !.free = block,
                     !.shared = TRUE]

(* A write to an array, which the other array sees in a shared block.  The *)
(* cells of separate blocks that no count reaches are kept empty.          *)
WriteActive(p, i, l) ==
  [p EXCEPT !.active[i] = l, !.free = IF p.shared THEN [@ EXCEPT ![i] = l] ELSE @]
WriteFree(p, i, l) ==
  [p EXCEPT !.free[i] = l, !.active = IF p.shared THEN [@ EXCEPT ![i] = l] ELSE @]

(* The link activate_link() hands out: a new one, or the one freed last.   *)
HandedOut(p) == IF p.freeCount = 0 THEN p.made + 1 ELSE Grown(p).free[p.freeCount - 1]

(* Fault: the count of free links is not lowered. *)
ActivateFault(p) ==
  LET l == HandedOut(p)
  IN  [WriteActive(Grown(p), p.activeCount, l) EXCEPT
         !.index[l] = p.activeCount, !.activeCount = @ + 1,
         !.made = IF p.freeCount = 0 THEN l ELSE @]

(* The pool after activate_link(). *)
Activate(p) ==
  LET l == HandedOut(p)
  IN  [WriteActive(Grown(p), p.activeCount, l) EXCEPT
         !.index[l] = p.activeCount, !.activeCount = @ + 1,
         !.freeCount = IF @ = 0 THEN 0 ELSE @ - 1,
         !.free = IF Grown(p).shared \/ p.freeCount = 0 THEN @
                  ELSE [@ EXCEPT ![p.freeCount - 1] = NoLink],
         !.made = IF p.freeCount = 0 THEN l ELSE @]

(* The link goes to the end of the free array. *)
Freed(p, l) ==
  [WriteFree(p, p.freeCount, l) EXCEPT !.index[l] = p.freeCount, !.freeCount = @ + 1]

(* The assert of drop_link(), once the link is on the free array.          *)
DropAsserts(p, l) ==
  p.index[l] < p.activeCount - 1 => Freed(p, l).active[p.index[l]] = l

(* Fault: the link that fills the hole keeps its index. *)
DropFault(p, l) ==
  LET ix == p.index[l]
      q == Freed(p, l)
      last == q.active[p.activeCount - 1]
  IN  [IF ix < p.activeCount - 1 THEN WriteActive(q, ix, last) ELSE q
         EXCEPT !.activeCount = @ - 1]

(* The pool after drop_link(): the last active link fills the hole.        *)
Drop(p, l) ==
  LET ix == p.index[l]
      q == Freed(p, l)
      last == q.active[p.activeCount - 1]
  IN  [IF ix < p.activeCount - 1
         THEN [WriteActive(q, ix, last) EXCEPT !.index[last] = ix]
         ELSE q
         EXCEPT !.activeCount = @ - 1,
           !.active = IF p.shared THEN @ ELSE [@ EXCEPT ![p.activeCount - 1] = NoLink]]
=============================================================================
