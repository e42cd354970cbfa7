----------------------------- MODULE BinaryHeap -----------------------------
(***************************************************************************)
(* The heap of nodes of the route search (starlink/binary_heap.cpp).  It   *)
(* is intrusive: a node holds its distance, by which the heap is ordered,  *)
(* and its index in the heap.  A heap is a record                          *)
(*    cells : 0 .. n -> node    the array, also the cells behind its end   *)
(*    size  : Nat               _size                                      *)
(*    ix    : node -> index     heap_ix of every node, in the heap or not  *)
(* and dist is a function from nodes to distances.                         *)
(***************************************************************************)
EXTENDS Naturals, Sequences

Parent(i) == (i - 1) \div 2
Left(i) == 2 * i + 1
Right(i) == 2 * i + 2

SetNode(h, i, n) == [h EXCEPT !.cells[i] = n, !.ix[n] = i]

(* Fault: the nodes change places, one of them without its index. *)
SwapByIxFault(h, x, y) ==
  [SetNode(h, x, h.cells[y]) EXCEPT !.cells[y] = h.cells[x]]

SwapByIx(h, x, y) == SetNode(SetNode(h, x, h.cells[y]), y, h.cells[x])

(* Whether the node in cell i has to move up. *)
Above(h, dist, i) == i # 0 /\ dist[h.cells[Parent(i)]] > dist[h.cells[i]]

(* One turn of the loop of move_up(), for a heap h and the cell at which   *)
(* the node is that moves up: p is both.                                   *)
Up(p, dist) ==
  IF Above(p.h, dist, p.at)
    THEN [h |-> SwapByIx(p.h, Parent(p.at), p.at), at |-> Parent(p.at)]
    ELSE p

(* After as many turns as there are cells below i the node is in place.    *)
MoveUp(h, dist, i) ==
  LET up[k \in 0 .. i] ==
        IF k = 0 THEN [h |-> h, at |-> i] ELSE Up(up[k - 1], dist)
  IN  up[i].h

(* insert() and insert_at_infinity(): the new node goes to the end; the    *)
(* former moves it up, which does nothing for the first node.              *)
Insert(h, n) == [SetNode(h, h.size, n) EXCEPT !.size = @ + 1]

(* The first of the cell i and its children with the least distance; like  *)
(* the code, this takes in the cell right at the end, which extract_min()  *)
(* has just left and which still holds the node that is being moved down.  *)
Smallest(h, dist, i) ==
  LET nearer(j, k) == j <= h.size /\ dist[h.cells[j]] < dist[h.cells[k]]
      s == IF nearer(Left(i), i) THEN Left(i) ELSE i
  IN  IF nearer(Right(i), s) THEN Right(i) ELSE s

(* Fault: the larger child is left out of account. *)
MinHeapifyFault(h, dist, i) ==
  IF Left(i) < h.size /\ dist[h.cells[Left(i)]] < dist[h.cells[i]]
    THEN SwapByIx(h, Left(i), i) ELSE h

(* One call of min_heapify(), which ends with a call of itself for the     *)
(* cell that the node has moved to.                                        *)
Down(p, dist) ==
  LET j == Smallest(p.h, dist, p.at)
  IN  IF j = p.at THEN p ELSE [h |-> SwapByIx(p.h, j, p.at), at |-> j]

MinHeapify(h, dist, i) ==
  LET down[k \in 0 .. h.size] ==
        IF k = 0 THEN [h |-> h, at |-> i] ELSE Down(down[k - 1], dist)
  IN  down[h.size].h

ExtractMin(h, dist) ==
  MinHeapify([SetNode(h, 0, h.cells[h.size - 1]) EXCEPT !.size = @ - 1], dist, 0)

(* The nodes are inserted one after the other. *)
InsertAll(h, nodes) ==
  LET filled[k \in 0 .. Len(nodes)] ==
        IF k = 0 THEN h ELSE Insert(filled[k - 1], nodes[k])
  IN  filled[Len(nodes)]

Nodes(h) == {h.cells[i] : i \in 0 .. h.size - 1}

(* What makes it a heap: no node is nearer than its parent, and each knows *)
(* its index.                                                              *)
IsHeap(h, dist) ==
  \A i \in 0 .. h.size - 1 : ~ Above(h, dist, i) /\ h.ix[h.cells[i]] = i
=============================================================================
