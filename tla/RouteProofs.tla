----------------------------- MODULE RouteProofs -----------------------------
(***************************************************************************)
(* Proofs about the route search, for any cities and satellites, any links *)
(* and delays, any number of routes and of calls of get_paths(), and       *)
(* whatever an uninitialised heap_ix holds.                                *)
(*                                                                         *)
(* First the heap: move_up(), min_heapify(), extract_min() and insert()    *)
(* keep its order and the indices of its nodes.  Then the search: RouteInv *)
(* is kept by every step.  From it follow that the heap is in order, that  *)
(* the routes of one get_paths() are disjoint, and that the distances are  *)
(* those of the shortest ways.                                             *)
(***************************************************************************)
EXTENDS RouteSearch, SequenceLemmas

-----------------------------------------------------------------------------
(* The heap.                                                               *)

(* Every record of the heap of nodes that the state may hold. *)
Heaps == [cells : [Cells -> Node \cup {NoNode}], size : 0 .. Len(Sats) + 2,
          ix : [Node -> Cells \cup {Wild}]]

(* Every node in the heap knows its place, and so none is there twice.     *)
Placed(h) ==
  \A i \in 0 .. h.size - 1 : h.cells[i] \in Node /\ h.ix[h.cells[i]] = i

Ordered(h, d) == \A i \in 0 .. h.size - 1 : ~ Above(h, d, i)

(* The indices of the nodes outside of S are the same in both heaps. *)
SameIndices(S, g, h) == \A n \in Node \ S : g.ix[n] = h.ix[n]

(* g holds the nodes of h, maybe in other places. *)
Rearranged(g, h) ==
  /\ g \in Heaps /\ Placed(g)
  /\ g.size = h.size /\ Nodes(g) = Nodes(h)
  /\ SameIndices(Nodes(h), g, h)

(* The sizes of the array, and that no node is taken for none. *)
LEMMA Numbers ==
  /\ Len(Sats) \in Nat /\ Cells = 0 .. Len(Sats) + 1 /\ Wild = Len(Sats) + 2
  /\ NoNode \notin Node
<1>1. Len(Sats) \in Nat
  BY RouteSearchAssumption, LenProperties
<1> QED BY <1>1, RouteSearchAssumption DEF Cells, Wild, Node, SatSet, NoNode

(* The places of a binary tree that is kept in an array. *)
LEMMA Family ==
  ASSUME NEW i \in Nat
  PROVE  /\ Left(i) \in Nat /\ Right(i) \in Nat /\ i < Left(i) /\ Left(i) < Right(i)
         /\ Parent(Left(i)) = i /\ Parent(Right(i)) = i
         /\ i # 0 => Parent(i) \in Nat /\ Parent(i) < i
         /\ \A j \in Nat \ {0} : Parent(j) = i => j = Left(i) \/ j = Right(i)
BY DEF Parent, Left, Right

(* A node put into a cell knows its index; the other cells and nodes keep  *)
(* what they hold.                                                         *)
LEMMA SetNodeProperties ==
  ASSUME NEW h \in Heaps, NEW i \in Cells, NEW n \in Node
  PROVE  LET g == SetNode(h, i, n)
         IN  /\ g \in Heaps /\ g.size = h.size
             /\ \A j \in Cells : g.cells[j] = IF j = i THEN n ELSE h.cells[j]
             /\ \A m \in Node : g.ix[m] = IF m = n THEN i ELSE h.ix[m]
<1> DEFINE g == SetNode(h, i, n)
<1>1. /\ h.cells \in [Cells -> Node \cup {NoNode}]
      /\ h.ix \in [Node -> Cells \cup {Wild}]
  BY DEF Heaps
<1>2. g.cells = [h.cells EXCEPT ![i] = n]
  BY DEF SetNode, Heaps
<1>3. g.ix = [h.ix EXCEPT ![n] = i]
  BY DEF SetNode, Heaps
<1>4. g.size = h.size
  BY DEF SetNode, Heaps
<1>5. g \in Heaps
  BY DEF SetNode, Heaps
<1> QED BY <1>1, <1>2, <1>3, <1>4, <1>5

(* Two nodes of the heap change places. *)
LEMMA SwapProperties ==
  ASSUME NEW h \in Heaps, Placed(h),
         NEW x \in 0 .. h.size - 1, NEW y \in 0 .. h.size - 1, x # y
  PROVE  LET g == SwapByIx(h, x, y)
         IN  /\ Rearranged(g, h)
             /\ \A j \in Cells : g.cells[j] = IF j = x THEN h.cells[y]
                                              ELSE IF j = y THEN h.cells[x] ELSE h.cells[j]
<1> DEFINE f == SetNode(h, x, h.cells[y])
           g == SwapByIx(h, x, y)
<1>1. /\ x \in Cells /\ y \in Cells /\ h.size \in Nat
      /\ \A i \in 0 .. h.size - 1 : i \in Cells
  BY Numbers DEF Heaps
<1>2. h.cells[x] \in Node /\ h.cells[y] \in Node
  BY DEF Placed
<1>3. /\ f \in Heaps /\ f.size = h.size
      /\ \A j \in Cells : f.cells[j] = IF j = x THEN h.cells[y] ELSE h.cells[j]
      /\ \A m \in Node : f.ix[m] = IF m = h.cells[y] THEN x ELSE h.ix[m]
  <2> DEFINE n == h.cells[y]
             e == SetNode(h, x, n)
  <2>1. x \in Cells /\ n \in Node
    BY <1>1, <1>2
  <2> HIDE DEF n
  <2>2. /\ e \in Heaps /\ e.size = h.size
        /\ \A j \in Cells : e.cells[j] = IF j = x THEN n ELSE h.cells[j]
        /\ \A m \in Node : e.ix[m] = IF m = n THEN x ELSE h.ix[m]
    BY <2>1, SetNodeProperties
  <2> HIDE DEF e
  <2>3. f = e
    BY DEF f, e, n
  <2> HIDE DEF f
  <2> QED BY <2>2, <2>3 DEF n
<1> HIDE DEF f
<1>4. /\ g \in Heaps /\ g.size = f.size
      /\ \A j \in Cells : g.cells[j] = IF j = y THEN h.cells[x] ELSE f.cells[j]
      /\ \A m \in Node : g.ix[m] = IF m = h.cells[x] THEN y ELSE f.ix[m]
  <2>1. g = SetNode(f, y, h.cells[x])
    BY Zenon DEF SwapByIx, f
  <2> HIDE DEF g
  <2> DEFINE e == SetNode(f, y, h.cells[x])
  <2>2. /\ e \in Heaps /\ e.size = f.size
        /\ \A j \in Cells : e.cells[j] = IF j = y THEN h.cells[x] ELSE f.cells[j]
        /\ \A m \in Node : e.ix[m] = IF m = h.cells[x] THEN y ELSE f.ix[m]
    <3>1. f \in Heaps /\ y \in Cells /\ h.cells[x] \in Node
      BY <1>1, <1>2, <1>3
    <3> HIDE DEF e
    <3> QED BY <3>1, SetNodeProperties DEF e
  <2> QED BY <2>1, <2>2
<1> HIDE DEF g
<1>5. \A j \in Cells : g.cells[j] = IF j = x THEN h.cells[y]
                                    ELSE IF j = y THEN h.cells[x] ELSE h.cells[j]
  BY <1>3, <1>4
<1>6. \A m \in Node : g.ix[m] = IF m = h.cells[x] THEN y
                                ELSE IF m = h.cells[y] THEN x ELSE h.ix[m]
  BY <1>3, <1>4
<1>7. \A i, j \in 0 .. h.size - 1 : h.cells[i] = h.cells[j] => i = j
  BY DEF Placed
<1>8. Placed(g)
  <2> SUFFICES ASSUME NEW i \in 0 .. h.size - 1
               PROVE  g.cells[i] \in Node /\ g.ix[g.cells[i]] = i
    BY <1>3, <1>4 DEF Placed
  <2>1. h.cells[i] \in Node /\ h.ix[h.cells[i]] = i
    BY DEF Placed
  <2>2. h.cells[x] # h.cells[y]
    BY <1>7
  <2>3. CASE i = x
    BY <1>1, <1>2, <1>5, <1>6, <2>2, <2>3
  <2>4. CASE i = y
    BY <1>1, <1>2, <1>5, <1>6, <2>2, <2>4
  <2>5. CASE i # x /\ i # y
    BY <1>1, <1>5, <1>6, <1>7, <2>1, <2>5
  <2> QED BY <2>3, <2>4, <2>5
<1>9. Nodes(g) = Nodes(h)
  <2>1. \A i \in 0 .. h.size - 1 : \E j \in 0 .. h.size - 1 : g.cells[i] = h.cells[j]
    BY <1>1, <1>5
  <2>2. \A i \in 0 .. h.size - 1 : \E j \in 0 .. h.size - 1 : h.cells[i] = g.cells[j]
    <3> SUFFICES ASSUME NEW i \in 0 .. h.size - 1
                 PROVE  \E j \in 0 .. h.size - 1 : h.cells[i] = g.cells[j]
      OBVIOUS
    <3>1. CASE i = x
      <4>1. h.cells[i] = g.cells[y]
        BY <1>1, <1>5, <3>1
      <4> QED BY <4>1
    <3>2. CASE i = y
      <4>1. h.cells[i] = g.cells[x]
        BY <1>1, <1>5, <3>2
      <4> QED BY <4>1
    <3>3. CASE i # x /\ i # y
      <4>1. h.cells[i] = g.cells[i]
        BY <1>1, <1>5, <3>3
      <4> QED BY <4>1
    <3> QED BY <3>1, <3>2, <3>3
  <2>3. g.size = h.size
    BY <1>3, <1>4
  <2>4. \A n : n \in Nodes(g) <=> \E i \in 0 .. h.size - 1 : g.cells[i] = n
    BY <2>3 DEF Nodes
  <2>5. \A n : n \in Nodes(h) <=> \E i \in 0 .. h.size - 1 : h.cells[i] = n
    BY DEF Nodes
  <2>6. \A n : n \in Nodes(g) <=> n \in Nodes(h)
    BY <2>1, <2>2, <2>4, <2>5, Zenon
  <2> QED BY <2>6, Zenon
<1>10. SameIndices(Nodes(h), g, h)
  <2>1. h.cells[x] \in Nodes(h) /\ h.cells[y] \in Nodes(h)
    BY DEF Nodes
  <2> QED BY <1>6, <2>1 DEF SameIndices
<1> QED BY <1>3, <1>4, <1>5, <1>8, <1>9, <1>10 DEF Rearranged, g

(* Two changes of the places are one. *)
LEMMA Transitive ==
  ASSUME NEW f, NEW g, NEW h, Rearranged(f, g), Rearranged(g, h)
  PROVE  Rearranged(f, h)
BY DEF Rearranged, SameIndices

(* A heap whose node at the place p.at alone may be nearer than its parent; *)
(* those below it are no nearer than that parent.                          *)
Rising(p, d) ==
  /\ p.at \in 0 .. p.h.size - 1
  /\ \A j \in 0 .. p.h.size - 1 : j # p.at => ~ Above(p.h, d, j)
  /\ p.at # 0 => \A j \in 1 .. p.h.size - 1 :
       Parent(j) = p.at => d[p.h.cells[Parent(p.at)]] <= d[p.h.cells[j]]

(* One turn of move_up() takes the node up, or finds it in place. *)
LEMMA UpProperties ==
  ASSUME NEW d \in [Node -> Nat], NEW h \in Heaps, Placed(h), NEW i,
         Rising([h |-> h, at |-> i], d)
  PROVE  LET q == Up([h |-> h, at |-> i], d)
         IN  /\ Rearranged(q.h, h) /\ Rising(q, d)
             /\ q.at < i \/ (q.at = i /\ ~ Above(q.h, d, i))
<1> DEFINE p == [h |-> h, at |-> i]
           q == Up(p, d)
           z == h.size
<1>0. p.h = h /\ p.at = i
  OBVIOUS
<1>1. /\ i \in 0 .. z - 1 /\ z \in Nat
      /\ \A j \in 0 .. z - 1 : j \in Cells /\ h.cells[j] \in Node /\ d[h.cells[j]] \in Nat
  <2>1. i \in 0 .. z - 1 /\ z \in Nat /\ \A j \in 0 .. z - 1 : j \in Cells
    BY Numbers DEF Heaps, Rising
  <2> QED BY <2>1 DEF Placed
<1>2. CASE ~ Above(h, d, i)
  <2>1. q = p
    BY <1>0, <1>2, Zenon DEF Up
  <2>2. Rearranged(h, h)
    BY DEF Rearranged, SameIndices
  <2> QED BY <1>0, <1>2, <2>1, <2>2
<1>3. CASE Above(h, d, i)
  <2> DEFINE a == Parent(i)
             g == SwapByIx(h, a, i)
  <2>1. i # 0 /\ a \in Nat /\ a < i /\ a \in 0 .. z - 1
    <3>1. i # 0
      BY <1>3 DEF Above
    <3>2. i \in Nat
      BY <1>1
    <3>3. a \in Nat /\ a < i
      BY <3>1, <3>2, Family
    <3> HIDE DEF a, z
    <3> QED BY <1>1, <3>1, <3>3
  <2>2. d[h.cells[a]] > d[h.cells[i]]
    BY <1>3 DEF Above
  <2>3. q = [h |-> g, at |-> a]
    BY <1>0, <1>3, Zenon DEF Up
  <2>4. /\ Rearranged(g, h)
        /\ \A j \in Cells : g.cells[j] = IF j = a THEN h.cells[i]
                                         ELSE IF j = i THEN h.cells[a] ELSE h.cells[j]
    <3> HIDE DEF a
    <3> QED BY <1>1, <2>1, SwapProperties
  <2> HIDE DEF g, q
  <2>5. q.h = g /\ q.at = a /\ g.size = z
    BY <2>3, <2>4 DEF Rearranged
  <2> HIDE DEF a
  <2>6. \A j \in 1 .. z - 1 : Parent(j) \in Nat /\ Parent(j) < j /\ Parent(j) \in 0 .. z - 1
    <3> SUFFICES ASSUME NEW j \in 1 .. z - 1
                 PROVE  Parent(j) \in Nat /\ Parent(j) < j /\ Parent(j) \in 0 .. z - 1
      OBVIOUS
    <3>1. j \in Nat /\ j # 0
      OBVIOUS
    <3>2. Parent(j) \in Nat /\ Parent(j) < j
      BY <3>1, Family
    <3> QED BY <1>1, <3>2
  <2>7. ASSUME NEW j \in 1 .. z - 1, j # i
        PROVE  d[h.cells[Parent(j)]] <= d[h.cells[j]]
    <3>1. ~ Above(h, d, j)
      BY <1>0, <1>1, <2>7 DEF Rising
    <3> QED BY <1>1, <2>6, <2>7, <3>1 DEF Above
  <2>8. ASSUME NEW j \in 1 .. z - 1, Parent(j) = i
        PROVE  d[h.cells[a]] <= d[h.cells[j]]
    BY <1>0, <1>1, <2>1, <2>8 DEF Rising, a
  <2>9. ASSUME NEW j \in 1 .. z - 1, j # a
        PROVE  d[g.cells[Parent(j)]] <= d[g.cells[j]]
    <3>0. /\ j \in Cells /\ Parent(j) \in Cells /\ Parent(j) # j
          /\ d[h.cells[a]] \in Nat /\ d[h.cells[i]] \in Nat
          /\ d[h.cells[j]] \in Nat /\ d[h.cells[Parent(j)]] \in Nat
      BY <1>1, <2>1, <2>6
    <3>1. CASE j = i
      <4>1. Parent(j) = a /\ g.cells[a] = h.cells[i] /\ g.cells[i] = h.cells[a]
        BY <1>1, <2>1, <2>4, <3>1 DEF a
      <4> QED BY <1>1, <2>1, <2>2, <3>1, <4>1
    <3>2. CASE j # i
      <4>1. g.cells[j] = h.cells[j]
        BY <2>4, <2>9, <3>0, <3>2
      <4>2. CASE Parent(j) = a
        <5>1. g.cells[a] = h.cells[i] /\ d[h.cells[a]] <= d[h.cells[j]]
          BY <1>1, <2>1, <2>4, <2>7, <3>2, <4>2
        <5> QED BY <2>2, <3>0, <4>1, <4>2, <5>1
      <4>3. CASE Parent(j) = i
        <5>1. g.cells[i] = h.cells[a]
          BY <1>1, <2>1, <2>4
        <5> QED BY <2>8, <4>1, <4>3, <5>1
      <4>4. CASE Parent(j) # a /\ Parent(j) # i
        <5>1. g.cells[Parent(j)] = h.cells[Parent(j)]
          BY <2>4, <3>0, <4>4
        <5> QED BY <2>7, <3>2, <4>1, <5>1
      <4> QED BY <4>2, <4>3, <4>4
    <3> QED BY <3>1, <3>2
  <2>10. ASSUME NEW j \in 0 .. z - 1, j # a
         PROVE  ~ Above(g, d, j)
    <3>1. CASE j = 0
      BY <3>1 DEF Above
    <3>2. CASE j # 0
      <4>1. j \in 1 .. z - 1
        BY <3>2
      <4>2. d[g.cells[Parent(j)]] <= d[g.cells[j]]
        BY <2>9, <2>10, <4>1
      <4>3. d[g.cells[Parent(j)]] \in Nat /\ d[g.cells[j]] \in Nat
        BY <2>4, <2>5, <2>6, <4>1 DEF Rearranged, Placed
      <4> QED BY <4>2, <4>3 DEF Above
    <3> QED BY <3>1, <3>2
  <2>11. ASSUME a # 0, NEW j \in 1 .. z - 1, Parent(j) = a
         PROVE  d[g.cells[Parent(a)]] <= d[g.cells[j]]
    <3>1. a \in 1 .. z - 1 /\ Parent(a) \in 0 .. z - 1 /\ Parent(a) < a
      BY <2>1, <2>6, <2>11
    <3>2. g.cells[Parent(a)] = h.cells[Parent(a)]
      BY <1>1, <2>1, <2>4, <3>1
    <3>3. d[h.cells[Parent(a)]] <= d[h.cells[a]]
      BY <2>1, <2>7, <3>1
    <3>4. CASE j = i
      <4>1. g.cells[j] = h.cells[a]
        BY <1>1, <2>1, <2>4, <3>4
      <4> QED BY <3>2, <3>3, <4>1
    <3>5. CASE j # i
      <4>1. j \in Cells /\ j # a
        BY <1>1, <2>6, <2>11
      <4>2. g.cells[j] = h.cells[j]
        BY <2>4, <3>5, <4>1
      <4>3. d[h.cells[a]] <= d[h.cells[j]]
        BY <2>7, <2>11, <3>5
      <4>4. /\ d[h.cells[a]] \in Nat /\ d[h.cells[j]] \in Nat
            /\ d[h.cells[Parent(a)]] \in Nat
        BY <1>1, <2>1, <3>1
      <4> QED BY <3>2, <3>3, <4>2, <4>3, <4>4
    <3> QED BY <3>4, <3>5
  <2>12. Rising(q, d)
    BY <2>1, <2>5, <2>10, <2>11 DEF Rising
  <2> QED BY <2>1, <2>4, <2>5, <2>12 DEF q
<1> QED BY <1>2, <1>3

(* decrease_distance() puts the node of the cell i in its place again. *)
LEMMA MoveUpProperties ==
  ASSUME NEW d \in [Node -> Nat], NEW h \in Heaps, Placed(h), NEW i,
         Rising([h |-> h, at |-> i], d)
  PROVE  Rearranged(MoveUp(h, d, i), h) /\ Ordered(MoveUp(h, d, i), d)
<1> DEFINE S == {p \in [h : Heaps, at : Nat] : Rearranged(p.h, h) /\ Rising(p, d)}
           start == [h |-> h, at |-> i]
           Rec(g) == [k \in 0 .. i |-> IF k = 0 THEN start ELSE Up(g[k - 1], d)]
           up == CHOOSE g : g = Rec(g)
           step == [k \in 1 .. i |-> [p \in S |-> Up(p, d)]]
<1>1. i \in Nat /\ h.size \in Nat
  BY Numbers DEF Rising, Heaps
<1>2. MoveUp(h, d, i) = up[i].h
  BY DEF MoveUp
<1>3. start \in S
  BY <1>1 DEF Rearranged, SameIndices
<1>4. ASSUME NEW p \in S
      PROVE  /\ Up(p, d) \in S
             /\ Up(p, d).at < p.at \/ (Up(p, d).at = p.at /\ ~ Above(Up(p, d).h, d, p.at))
  <2>1. /\ p = [h |-> p.h, at |-> p.at] /\ p.h \in Heaps /\ Placed(p.h)
        /\ Rearranged(p.h, h) /\ Rising(p, d)
    BY DEF Rearranged
  <2> DEFINE q == Up(p, d)
  <2>2. /\ Rearranged(q.h, p.h) /\ Rising(q, d)
        /\ q.at < p.at \/ (q.at = p.at /\ ~ Above(q.h, d, p.at))
    <3> HIDE DEF S
    <3> QED BY <2>1, UpProperties
  <2>3. Rearranged(q.h, h)
    <3> HIDE DEF S, q
    <3> QED BY <2>1, <2>2, Transitive
  <2>4. q \in [h : Heaps, at : Nat]
    <3>1. q.h \in Heaps /\ q.at \in Nat
      <4> HIDE DEF q
      <4> QED BY <2>2, <2>3 DEF Rearranged, Rising, Heaps
    <3>2. q = [h |-> q.h, at |-> q.at]
      <4>1. q = p \/ q = [h |-> SwapByIx(p.h, Parent(p.at), p.at), at |-> Parent(p.at)]
        BY Zenon DEF Up
      <4> HIDE DEF q
      <4>2. CASE q = p
        BY <2>1, <4>2
      <4>3. CASE q = [h |-> SwapByIx(p.h, Parent(p.at), p.at), at |-> Parent(p.at)]
        BY <4>3
      <4> QED BY <4>1, <4>2, <4>3
    <3> HIDE DEF q
    <3> QED BY <3>1, <3>2
  <2> QED BY <2>2, <2>3, <2>4
<1> HIDE DEF S
<1>5. \A k \in 1 .. i : \A p \in S : step[k][p] \in S
  BY <1>4
<1> HIDE DEF start, step
<1>6. PICK f : Iterated(f, i, S, start, step)
  BY <1>1, <1>3, <1>5, Iterates
<1>7. f = Rec(f)
  <2>1. ASSUME NEW k \in 0 .. i
        PROVE  f[k] = IF k = 0 THEN start ELSE Up(f[k - 1], d)
    <3>1. CASE k = 0
      BY <1>6, <3>1 DEF Iterated
    <3>2. CASE k # 0
      <4>1. k \in 1 .. i /\ k - 1 \in 0 .. i
        BY <1>1, <3>2
      <4>2. f[k - 1] \in S /\ f[k] = step[k][f[k - 1]]
        BY <1>6, <4>1 DEF Iterated
      <4> QED BY <3>2, <4>1, <4>2 DEF step
    <3> QED BY <3>1, <3>2
  <2> QED BY <1>6, <2>1 DEF Iterated
<1>8. up = Rec(up)
  BY <1>7
<1> HIDE DEF up
<1>9. up[0] = start /\ \A k \in 1 .. i : up[k] = Up(up[k - 1], d)
  BY <1>1, <1>8
<1> DEFINE P == {k \in 0 .. i : /\ up[k] \in S
                                /\ up[k].at <= i - k \/ ~ Above(up[k].h, d, up[k].at)}
<1>10. 0 \in P
  BY <1>1, <1>3, <1>9 DEF start
<1>11. ASSUME NEW k \in 1 .. i, k - 1 \in P PROVE k \in P
  <2> DEFINE p == up[k - 1]
  <2>1. p \in S /\ (p.at <= i - (k - 1) \/ ~ Above(p.h, d, p.at)) /\ k - 1 \in Nat
    BY <1>11
  <2>2. up[k] = Up(p, d) /\ up[k] \in S
    BY <1>4, <1>9, <2>1
  <2>3. CASE ~ Above(p.h, d, p.at)
    <3>1. up[k] = p
      BY <2>2, <2>3, Zenon DEF Up
    <3> QED BY <2>1, <2>3, <3>1
  <2>4. CASE Above(p.h, d, p.at)
    <3>1. up[k].at < p.at \/ (up[k].at = p.at /\ ~ Above(up[k].h, d, p.at))
      BY <1>4, <2>1, <2>2
    <3>2. p.at \in Nat /\ up[k].at \in Nat
      BY <2>1, <2>2 DEF S
    <3> HIDE DEF p
    <3>3. up[k].at <= i - k \/ ~ Above(up[k].h, d, up[k].at)
      BY <1>1, <2>1, <2>4, <3>1, <3>2
    <3> QED BY <2>2, <3>3
  <2> QED BY <2>3, <2>4
<1> HIDE DEF P
<1>12. i \in P
  <2>1. \A k \in 1 .. i : k - 1 \in P => k \in P
    BY <1>11
  <2>2. \A k \in 0 .. i : k \in P
    BY <1>1, <1>10, <2>1, UpTo, Zenon
  <2> QED BY <1>1, <2>2
<1> DEFINE q == up[i]
<1>13. /\ Rearranged(q.h, h) /\ Rising(q, d) /\ q.at \in Nat
       /\ q.at <= 0 \/ ~ Above(q.h, d, q.at)
  BY <1>1, <1>12 DEF P, S
<1> HIDE DEF q
<1>14. Ordered(q.h, d)
  <2>1. ~ Above(q.h, d, q.at)
    <3>1. CASE q.at <= 0
      BY <1>13, <3>1 DEF Above
    <3> QED BY <1>13, <3>1
  <2> QED BY <1>13, <2>1 DEF Rising, Ordered
<1> QED BY <1>2, <1>13, <1>14 DEF q

(* The first node of the heap is in place in any case. *)
LEMMA MoveUpFirst ==
  ASSUME NEW d, NEW h
  PROVE  MoveUp(h, d, 0) = h
<1> DEFINE start == [h |-> h, at |-> 0]
           Rec(g) == [k \in 0 .. 0 |-> IF k = 0 THEN start ELSE Up(g[k - 1], d)]
           up == CHOOSE g : g = Rec(g)
<1>1. MoveUp(h, d, 0) = up[0].h
  BY DEF MoveUp
<1>2. [k \in 0 .. 0 |-> start] = Rec([k \in 0 .. 0 |-> start])
  OBVIOUS
<1>3. up = Rec(up)
  BY <1>2
<1> HIDE DEF up
<1>4. up[0] = start
  BY <1>3
<1> QED BY <1>1, <1>4

-----------------------------------------------------------------------------
(* A heap whose node at the place p.at alone may be farther than its        *)
(* children, which are no nearer than its parent.  The cell right behind   *)
(* the end holds the same node.                                            *)
Sinking(p, d) ==
  /\ p.at \in 0 .. p.h.size - 1 /\ p.h.size \in Cells
  /\ p.h.cells[p.h.size] = p.h.cells[p.at]
  /\ \A j \in 1 .. p.h.size - 1 :
       Parent(j) # p.at => d[p.h.cells[Parent(j)]] <= d[p.h.cells[j]]
  /\ p.at # 0 => \A j \in 1 .. p.h.size - 1 :
       Parent(j) = p.at => d[p.h.cells[Parent(p.at)]] <= d[p.h.cells[j]]

(* What the places hold that min_heapify() compares. *)
LEMMA SinkingPlaces ==
  ASSUME NEW d \in [Node -> Nat], NEW h \in Heaps, Placed(h), NEW i,
         Sinking([h |-> h, at |-> i], d)
  PROVE  /\ i \in 0 .. h.size - 1 /\ h.size \in Nat /\ h.size \in Cells
         /\ h.cells[h.size] = h.cells[i]
         /\ \A j \in 0 .. h.size : j \in Cells /\ h.cells[j] \in Node /\ d[h.cells[j]] \in Nat
         /\ \A j \in 1 .. h.size - 1 : Parent(j) \in 0 .. h.size - 1 /\ Parent(j) < j
<1> DEFINE z == h.size
<1>1. i \in 0 .. z - 1 /\ z \in Nat /\ z \in Cells /\ h.cells[z] = h.cells[i]
  BY Numbers DEF Heaps, Sinking
<1>2. \A j \in 0 .. z : j \in Cells
  BY <1>1, Numbers
<1>3. \A j \in 0 .. z - 1 : h.cells[j] \in Node
  BY DEF Placed
<1>4. \A j \in 0 .. z : h.cells[j] \in Node
  BY <1>1, <1>3
<1>5. ASSUME NEW j \in 1 .. z - 1 PROVE Parent(j) \in 0 .. z - 1 /\ Parent(j) < j
  <2>1. j \in Nat /\ j # 0
    OBVIOUS
  <2>2. Parent(j) \in Nat /\ Parent(j) < j
    BY <2>1, Family
  <2> HIDE DEF z
  <2> QED BY <1>1, <2>2
<1> QED BY <1>1, <1>2, <1>4, <1>5

(* The cell behind the end is never taken for a child. *)
LEMMA SmallestProperties ==
  ASSUME NEW d \in [Node -> Nat], NEW h \in Heaps, Placed(h), NEW i,
         Sinking([h |-> h, at |-> i], d)
  PROVE  LET s == Smallest(h, d, i)
         IN  /\ \/ s = i
                \/ /\ s \in 1 .. h.size - 1 /\ Parent(s) = i
                   /\ d[h.cells[s]] < d[h.cells[i]]
             /\ \A j \in 1 .. h.size - 1 : Parent(j) = i => d[h.cells[s]] <= d[h.cells[j]]
<1> DEFINE z == h.size
           nearer(j, k) == j <= z /\ d[h.cells[j]] < d[h.cells[k]]
           t == IF nearer(Left(i), i) THEN Left(i) ELSE i
           s == Smallest(h, d, i)
<1>1. /\ i \in 0 .. z - 1 /\ z \in Nat /\ h.cells[z] = h.cells[i]
      /\ \A j \in 0 .. z : d[h.cells[j]] \in Nat
  BY SinkingPlaces
<1>2. /\ Left(i) \in Nat /\ Right(i) \in Nat /\ i < Left(i) /\ Left(i) < Right(i)
      /\ Parent(Left(i)) = i /\ Parent(Right(i)) = i
      /\ \A j \in Nat \ {0} : Parent(j) = i => j = Left(i) \/ j = Right(i)
  BY <1>1, Family
<1>3. s = IF nearer(Right(i), t) THEN Right(i) ELSE t
  BY DEF Smallest
<1> HIDE DEF s, z
<1>4. \/ t = i
      \/ t \in 1 .. z - 1 /\ Parent(t) = i /\ d[h.cells[t]] < d[h.cells[i]]
  <2>1. CASE nearer(Left(i), i)
    <3>1. Left(i) # z
      BY <1>1, <2>1
    <3> QED BY <1>1, <1>2, <2>1, <3>1
  <2> QED BY <2>1
<1>5. t \in 0 .. z - 1 /\ d[h.cells[t]] <= d[h.cells[i]]
      /\ (Left(i) \in 1 .. z - 1 => d[h.cells[t]] <= d[h.cells[Left(i)]])
  <2>1. t \in 0 .. z - 1
    BY <1>1, <1>4
  <2>2. CASE nearer(Left(i), i)
    BY <1>1, <1>2, <2>1, <2>2
  <2>3. CASE ~ nearer(Left(i), i)
    BY <1>1, <1>2, <2>1, <2>3
  <2> QED BY <2>2, <2>3
<1> HIDE DEF t
<1>6. CASE nearer(Right(i), t)
  <2>1. Right(i) # z
    BY <1>1, <1>5, <1>6
  <2>2. s = Right(i) /\ s \in 1 .. z - 1 /\ Parent(s) = i
    BY <1>1, <1>2, <1>3, <1>6, <2>1
  <2>3. /\ d[h.cells[s]] < d[h.cells[t]]
        /\ d[h.cells[s]] \in Nat /\ d[h.cells[t]] \in Nat /\ d[h.cells[i]] \in Nat
    BY <1>1, <1>5, <1>6, <2>2
  <2>4. ASSUME NEW j \in 1 .. z - 1, Parent(j) = i PROVE d[h.cells[s]] <= d[h.cells[j]]
    <3>1. j = Left(i) \/ j = Right(i)
      BY <1>2, <2>4
    <3>2. d[h.cells[j]] \in Nat
      BY <1>1
    <3> QED BY <1>5, <2>2, <2>3, <3>1, <3>2
  <2>5. d[h.cells[s]] < d[h.cells[i]]
    BY <1>5, <2>3
  <2> QED BY <2>2, <2>4, <2>5 DEF s, z
<1>7. CASE ~ nearer(Right(i), t)
  <2>1. s = t
    BY <1>3, <1>7
  <2>2. ASSUME NEW j \in 1 .. z - 1, Parent(j) = i PROVE d[h.cells[s]] <= d[h.cells[j]]
    <3>1. j = Left(i) \/ j = Right(i)
      BY <1>2, <2>2
    <3>2. d[h.cells[j]] \in Nat /\ d[h.cells[t]] \in Nat
      BY <1>1, <1>5
    <3> QED BY <1>1, <1>5, <1>7, <2>1, <3>1, <3>2
  <2> QED BY <1>4, <2>1, <2>2 DEF s, z
<1> QED BY <1>6, <1>7

(* One turn of min_heapify() takes the node down, or finds it in place. *)
LEMMA DownProperties ==
  ASSUME NEW d \in [Node -> Nat], NEW h \in Heaps, Placed(h), NEW i,
         Sinking([h |-> h, at |-> i], d)
  PROVE  LET q == Down([h |-> h, at |-> i], d)
         IN  /\ Rearranged(q.h, h) /\ Sinking(q, d)
             /\ q.at \in Nat
             /\ q.at > i \/ (q.h = h /\ q.at = i /\ Smallest(h, d, i) = i)
<1> DEFINE p == [h |-> h, at |-> i]
           q == Down(p, d)
           z == h.size
           s == Smallest(h, d, i)
<1>0. p.h = h /\ p.at = i
  OBVIOUS
<1>1. /\ i \in 0 .. z - 1 /\ z \in Nat /\ z \in Cells /\ h.cells[z] = h.cells[i]
      /\ \A j \in 0 .. z : j \in Cells /\ h.cells[j] \in Node /\ d[h.cells[j]] \in Nat
      /\ \A j \in 1 .. z - 1 : Parent(j) \in 0 .. z - 1 /\ Parent(j) < j
  BY SinkingPlaces
<1>2. /\ s = i \/ (s \in 1 .. z - 1 /\ Parent(s) = i /\ d[h.cells[s]] < d[h.cells[i]])
      /\ \A j \in 1 .. z - 1 : Parent(j) = i => d[h.cells[s]] <= d[h.cells[j]]
  BY SmallestProperties
<1>3. CASE s = i
  <2>1. q = p
    BY <1>0, <1>3, Zenon DEF Down
  <2>2. Rearranged(h, h)
    BY DEF Rearranged, SameIndices
  <2> QED BY <1>0, <1>1, <1>3, <2>1, <2>2
<1>4. CASE s # i
  <2> DEFINE g == SwapByIx(h, s, i)
  <2>1. q = [h |-> g, at |-> s]
    BY <1>0, <1>4, Zenon DEF Down
  <2>2. s \in 1 .. z - 1 /\ Parent(s) = i /\ i < s /\ d[h.cells[s]] < d[h.cells[i]]
    <3> HIDE DEF s, z
    <3> QED BY <1>1, <1>2, <1>4
  <2> HIDE DEF s, q
  <2>3. /\ Rearranged(g, h)
        /\ \A j \in Cells : g.cells[j] = IF j = s THEN h.cells[i]
                                         ELSE IF j = i THEN h.cells[s] ELSE h.cells[j]
    <3>1. s \in 0 .. h.size - 1 /\ i \in 0 .. h.size - 1
      BY <1>1, <2>2
    <3> QED BY <1>4, <3>1, SwapProperties
  <2> HIDE DEF g
  <2>4. q.h = g /\ q.at = s /\ g.size = z
    BY <2>1, <2>3 DEF Rearranged
  <2> HIDE DEF z
  <2>5. g.cells[s] = h.cells[i] /\ g.cells[i] = h.cells[s] /\ g.cells[z] = h.cells[z]
    BY <1>1, <2>2, <2>3
  <2>6. /\ \A j \in 1 .. z - 1 : Parent(j) # i => d[h.cells[Parent(j)]] <= d[h.cells[j]]
        /\ i # 0 => \A j \in 1 .. z - 1 :
                      Parent(j) = i => d[h.cells[Parent(i)]] <= d[h.cells[j]]
    BY <1>0 DEF Sinking, z
  <2>7. ASSUME NEW j \in 1 .. z - 1, Parent(j) # s
        PROVE  d[g.cells[Parent(j)]] <= d[g.cells[j]]
    <3>0. j \in 0 .. z /\ Parent(j) \in 0 .. z /\ j \in Cells /\ Parent(j) \in Cells
      BY <1>1
    <3>1. CASE Parent(j) = i
      <4>1. d[h.cells[s]] <= d[h.cells[j]]
        BY <1>2, <3>1 DEF z
      <4>2. CASE j = s
        BY <1>1, <2>2, <2>5, <3>0, <3>1, <4>2
      <4>3. CASE j # s
        <5>1. j # i
          BY <1>1, <3>1
        <5>2. g.cells[j] = h.cells[j]
          BY <2>3, <3>0, <4>3, <5>1
        <5> QED BY <2>5, <3>1, <4>1, <5>2
      <4> QED BY <4>2, <4>3
    <3>2. CASE Parent(j) # i
      <4>1. g.cells[Parent(j)] = h.cells[Parent(j)] /\ j # s
        BY <2>2, <2>3, <2>7, <3>0, <3>2
      <4>2. CASE j = i
        <5>1. d[h.cells[Parent(i)]] <= d[h.cells[s]]
          <6>1. i # 0
            BY <4>2
          <6> QED BY <2>2, <2>6, <6>1
        <5> QED BY <2>5, <4>1, <4>2, <5>1
      <4>3. CASE j # i
        <5>1. g.cells[j] = h.cells[j]
          BY <2>3, <3>0, <4>1, <4>3
        <5> QED BY <2>6, <3>2, <4>1, <5>1
      <4> QED BY <4>2, <4>3
    <3> QED BY <3>1, <3>2
  <2>8. ASSUME NEW j \in 1 .. z - 1, Parent(j) = s
        PROVE  d[g.cells[Parent(s)]] <= d[g.cells[j]]
    <3>1. j \in Cells /\ j # s /\ j # i /\ Parent(j) # i
      BY <1>1, <2>2, <2>8
    <3>2. g.cells[j] = h.cells[j]
      BY <2>3, <3>1
    <3> QED BY <2>2, <2>5, <2>6, <2>8, <3>1, <3>2
  <2>9. Sinking(q, d)
    <3>1. s \in 0 .. z - 1 /\ z \in Cells /\ g.cells[z] = g.cells[s]
      BY <1>1, <2>2, <2>5
    <3> QED BY <2>4, <2>7, <2>8, <3>1 DEF Sinking
  <2>10. q.at \in Nat /\ q.at > i
    BY <1>1, <2>2, <2>4
  <2> QED BY <2>3, <2>4, <2>9, <2>10 DEF q
<1> QED BY <1>3, <1>4

(* When the node is in place, the heap is ordered. *)
LEMMA SunkIsOrdered ==
  ASSUME NEW d \in [Node -> Nat], NEW h \in Heaps, Placed(h), NEW i,
         Sinking([h |-> h, at |-> i], d), Smallest(h, d, i) = i
  PROVE  Ordered(h, d)
<1> DEFINE z == h.size
<1>1. /\ i \in 0 .. z - 1 /\ z \in Nat
      /\ \A j \in 0 .. z : d[h.cells[j]] \in Nat
      /\ \A j \in 1 .. z - 1 : Parent(j) \in 0 .. z - 1
  BY SinkingPlaces
<1>2. \A j \in 1 .. z - 1 : Parent(j) = i => d[h.cells[i]] <= d[h.cells[j]]
  BY SmallestProperties
<1>3. \A j \in 1 .. z - 1 : Parent(j) # i => d[h.cells[Parent(j)]] <= d[h.cells[j]]
  BY DEF Sinking
<1> SUFFICES ASSUME NEW j \in 0 .. z - 1, j # 0
             PROVE  ~ (d[h.cells[Parent(j)]] > d[h.cells[j]])
  BY DEF Ordered, Above
<1>4. j \in 1 .. z - 1
  BY <1>1
<1>5. d[h.cells[Parent(j)]] <= d[h.cells[j]]
  BY <1>2, <1>3, <1>4
<1>6. d[h.cells[Parent(j)]] \in Nat /\ d[h.cells[j]] \in Nat
  <2> HIDE DEF z
  <2> QED BY <1>1, <1>4
<1> QED BY <1>5, <1>6

(* min_heapify() puts the node of the cell i in its place. *)
LEMMA MinHeapifyProperties ==
  ASSUME NEW d \in [Node -> Nat], NEW h \in Heaps, Placed(h), NEW i,
         Sinking([h |-> h, at |-> i], d)
  PROVE  Rearranged(MinHeapify(h, d, i), h) /\ Ordered(MinHeapify(h, d, i), d)
<1> DEFINE z == h.size
           S == {p \in [h : Heaps, at : Nat] : Rearranged(p.h, h) /\ Sinking(p, d)}
           start == [h |-> h, at |-> i]
           Rec(g) == [k \in 0 .. z |-> IF k = 0 THEN start ELSE Down(g[k - 1], d)]
           down == CHOOSE g : g = Rec(g)
           step == [k \in 1 .. z |-> [p \in S |-> Down(p, d)]]
<1>1. i \in Nat /\ z \in Nat
  BY Numbers DEF Sinking, Heaps
<1>2. MinHeapify(h, d, i) = down[z].h
  BY DEF MinHeapify
<1>3. start \in S
  BY <1>1 DEF Rearranged, SameIndices
<1>4. ASSUME NEW p \in S
      PROVE  /\ Down(p, d) \in S
             /\ \/ Down(p, d).at > p.at
                \/ Down(p, d) = p /\ Smallest(p.h, d, p.at) = p.at
  <2>1. /\ p = [h |-> p.h, at |-> p.at] /\ p.h \in Heaps /\ Placed(p.h)
        /\ Rearranged(p.h, h) /\ Sinking(p, d)
    BY DEF Rearranged
  <2> DEFINE q == Down(p, d)
  <2>2. /\ Rearranged(q.h, p.h) /\ Sinking(q, d) /\ q.at \in Nat
        /\ \/ q.at > p.at
           \/ q.h = p.h /\ q.at = p.at /\ Smallest(p.h, d, p.at) = p.at
    <3> HIDE DEF S
    <3> QED BY <2>1, DownProperties
  <2>3. Rearranged(q.h, h)
    <3> HIDE DEF S, q
    <3> QED BY <2>1, <2>2, Transitive
  <2>4. q = [h |-> q.h, at |-> q.at]
    <3> DEFINE s == Smallest(p.h, d, p.at)
    <3>1. q = p \/ q = [h |-> SwapByIx(p.h, s, p.at), at |-> s]
      BY Zenon DEF Down
    <3> HIDE DEF q, s
    <3>2. CASE q = p
      BY <2>1, <3>2
    <3>3. CASE q = [h |-> SwapByIx(p.h, s, p.at), at |-> s]
      BY <3>3
    <3> QED BY <3>1, <3>2, <3>3
  <2> HIDE DEF q
  <2>5. q \in [h : Heaps, at : Nat]
    BY <2>2, <2>3, <2>4 DEF Rearranged
  <2>6. q.h = p.h /\ q.at = p.at => q = p
    BY <2>1, <2>4
  <2> QED BY <2>2, <2>3, <2>5, <2>6 DEF q
<1> HIDE DEF S
<1>5. \A k \in 1 .. z : \A p \in S : step[k][p] \in S
  BY <1>4
<1> HIDE DEF start, step
<1>6. PICK f : Iterated(f, z, S, start, step)
  BY <1>1, <1>3, <1>5, Iterates
<1>7. f = Rec(f)
  <2>1. ASSUME NEW k \in 0 .. z
        PROVE  f[k] = IF k = 0 THEN start ELSE Down(f[k - 1], d)
    <3>1. CASE k = 0
      BY <1>6, <3>1 DEF Iterated
    <3>2. CASE k # 0
      <4>1. k \in 1 .. z /\ k - 1 \in 0 .. z
        BY <1>1, <3>2
      <4>2. f[k - 1] \in S /\ f[k] = step[k][f[k - 1]]
        BY <1>6, <4>1 DEF Iterated
      <4> QED BY <3>2, <4>1, <4>2 DEF step
    <3> QED BY <3>1, <3>2
  <2> QED BY <1>6, <2>1 DEF Iterated
<1>8. down = Rec(down)
  BY <1>7
<1> HIDE DEF down
<1>9. down[0] = start /\ \A k \in 1 .. z : down[k] = Down(down[k - 1], d)
  BY <1>1, <1>8
<1> DEFINE Stays(p) == Smallest(p.h, d, p.at) = p.at
           P == {k \in 0 .. z : down[k] \in S /\ (down[k].at >= k \/ Stays(down[k]))}
<1>10. 0 \in P
  BY <1>1, <1>3, <1>9 DEF start
<1> HIDE DEF Stays
<1>11. ASSUME NEW k \in 1 .. z, k - 1 \in P PROVE k \in P
  <2> DEFINE p == down[k - 1]
  <2>1. p \in S /\ (p.at >= k - 1 \/ Stays(p))
    BY <1>11
  <2>2. down[k] = Down(p, d) /\ down[k] \in S
    BY <1>4, <1>9, <2>1
  <2>3. CASE Stays(p)
    <3>1. down[k] = p
      BY <2>2, <2>3, Zenon DEF Down, Stays
    <3> QED BY <2>1, <2>3, <3>1
  <2>4. CASE ~ Stays(p)
    <3>1. down[k].at > p.at
      BY <1>4, <2>1, <2>2, <2>4 DEF Stays
    <3>2. p.at \in Nat /\ down[k].at \in Nat
      BY <2>1, <2>2 DEF S
    <3> HIDE DEF p
    <3>3. down[k].at >= k
      BY <1>1, <2>1, <2>4, <3>1, <3>2
    <3> QED BY <2>2, <3>3
  <2> QED BY <2>3, <2>4
<1> HIDE DEF P
<1>12. z \in P
  <2>1. \A k \in 1 .. z : k - 1 \in P => k \in P
    BY <1>11
  <2>2. \A k \in 0 .. z : k \in P
    BY <1>1, <1>10, <2>1, UpTo, Zenon
  <2> QED BY <1>1, <2>2
<1> DEFINE q == down[z]
<1>13. /\ Rearranged(q.h, h) /\ Sinking(q, d) /\ q = [h |-> q.h, at |-> q.at]
       /\ q.at >= z \/ Smallest(q.h, d, q.at) = q.at
  BY <1>1, <1>12 DEF P, S, Stays
<1> HIDE DEF q
<1>14. Smallest(q.h, d, q.at) = q.at
  BY <1>1, <1>13 DEF Sinking, Rearranged
<1>15. Ordered(q.h, d)
  BY <1>13, <1>14, SunkIsOrdered DEF Rearranged
<1> QED BY <1>2, <1>13, <1>15 DEF q

(* Nothing is done to an empty heap. *)
LEMMA MinHeapifyEmpty ==
  ASSUME NEW d, NEW h, h.size = 0
  PROVE  MinHeapify(h, d, 0) = h
<1> DEFINE start == [h |-> h, at |-> 0]
           Rec(g) == [k \in 0 .. h.size |-> IF k = 0 THEN start ELSE Down(g[k - 1], d)]
           down == CHOOSE g : g = Rec(g)
<1>1. MinHeapify(h, d, 0) = down[h.size].h
  BY DEF MinHeapify
<1>2. [k \in 0 .. h.size |-> start] = Rec([k \in 0 .. h.size |-> start])
  OBVIOUS
<1>3. down = Rec(down)
  BY <1>2
<1> HIDE DEF down
<1>4. down[0] = start
  BY <1>3
<1> QED BY <1>1, <1>4

(* The first node of the heap is the nearest. *)
LEMMA FirstIsLeast ==
  ASSUME NEW d \in [Node -> Nat], NEW h \in Heaps, Placed(h), Ordered(h, d)
  PROVE  \A j \in 0 .. h.size - 1 : d[h.cells[0]] <= d[h.cells[j]]
<1> DEFINE z == h.size
           W == {j \in 0 .. z - 1 : ~ (d[h.cells[0]] <= d[h.cells[j]])}
<1> SUFFICES ASSUME W # {} PROVE FALSE
  OBVIOUS
<1>1. W \in SUBSET Nat
  OBVIOUS
<1>2. PICK j \in W : \A k \in W : j <= k
  <2> HIDE DEF W
  <2> QED BY <1>1, MinProperties
<1>3. \A k \in 0 .. z - 1 : d[h.cells[k]] \in Nat
  BY DEF Placed
<1>4. z \in Nat /\ j \in 0 .. z - 1 /\ j \in Nat
  BY Numbers DEF Heaps
<1>5. j # 0
  BY <1>2, <1>3, <1>4
<1>6. Parent(j) \in Nat /\ Parent(j) < j
  BY <1>4, <1>5, Family
<1>7. Parent(j) \in 0 .. z - 1 /\ Parent(j) \notin W /\ 0 \in 0 .. z - 1
  <2> HIDE DEF W, z
  <2> QED BY <1>2, <1>4, <1>6
<1>8. d[h.cells[0]] <= d[h.cells[Parent(j)]]
  BY <1>7
<1>9. ~ (d[h.cells[Parent(j)]] > d[h.cells[j]])
  BY <1>4, <1>5 DEF Ordered, Above
<1> HIDE DEF z
<1>10. d[h.cells[0]] <= d[h.cells[j]]
  BY <1>3, <1>4, <1>7, <1>8, <1>9
<1> QED BY <1>10

(* What extract_min() leaves behind of the node that it takes out is the   *)
(* index 0.                                                                *)
LEMMA ExtractMinProperties ==
  ASSUME NEW d \in [Node -> Nat], NEW h \in Heaps, Placed(h), Ordered(h, d), h.size > 0
  PROVE  LET g == ExtractMin(h, d)
         IN  /\ g \in Heaps /\ g.size = h.size - 1 /\ Placed(g) /\ Ordered(g, d)
             /\ h.cells[0] \in Nodes(h) /\ Nodes(g) = Nodes(h) \ {h.cells[0]}
             /\ g.ix[h.cells[0]] = 0
             /\ SameIndices(Nodes(h), g, h)
<1> DEFINE z == h.size - 1
           n == h.cells[0]
           m == h.cells[z]
           e == SetNode(h, 0, m)
           f == [e EXCEPT !.size = @ - 1]
           g == MinHeapify(f, d, 0)
<1>0. ExtractMin(h, d) = g
  BY DEF ExtractMin
<1>1. z \in Nat /\ z \in Cells /\ 0 \in Cells /\ h.size \in Nat
      /\ (\A j \in 0 .. z : j \in Cells /\ h.cells[j] \in Node)
  <2>1. h.size \in Nat /\ h.size <= Len(Sats) + 2 /\ Len(Sats) \in Nat
    BY Numbers DEF Heaps
  <2> QED BY <2>1, Numbers DEF Placed
<1>2. \A i, j \in 0 .. z : h.cells[i] = h.cells[j] => i = j
  BY DEF Placed
<1>3. n \in Node /\ m \in Node /\ h.ix[n] = 0 /\ n \in Nodes(h)
  BY <1>1 DEF Placed, Nodes
<1> HIDE DEF m
<1>4. /\ e \in Heaps /\ e.size = h.size
      /\ \A j \in Cells : e.cells[j] = IF j = 0 THEN m ELSE h.cells[j]
      /\ \A x \in Node : e.ix[x] = IF x = m THEN 0 ELSE h.ix[x]
  BY <1>1, <1>3, SetNodeProperties
<1> HIDE DEF e
<1>5. f \in Heaps /\ f.cells = e.cells /\ f.ix = e.ix /\ f.size = z
  <2>1. f.cells = e.cells /\ f.ix = e.ix /\ f.size = z
    BY <1>4 DEF Heaps
  <2>2. z \in 0 .. Len(Sats) + 2
    BY <1>1, Numbers DEF Cells
  <2>3. f \in Heaps
    BY <1>4, <2>2 DEF Heaps
  <2> QED BY <2>1, <2>3
<1> HIDE DEF f
<1>6. \A j \in 0 .. z : f.cells[j] = IF j = 0 THEN m ELSE h.cells[j]
  BY <1>1, <1>4, <1>5
<1>7. \A x \in Node : f.ix[x] = IF x = m THEN 0 ELSE h.ix[x]
  BY <1>4, <1>5
<1>8. Placed(f)
  <2> SUFFICES ASSUME NEW i \in 0 .. z - 1
               PROVE  f.cells[i] \in Node /\ f.ix[f.cells[i]] = i
    BY <1>5 DEF Placed
  <2>1. i \in 0 .. z /\ i # z
    BY <1>1
  <2>2. CASE i = 0
    BY <1>3, <1>6, <1>7, <2>1, <2>2
  <2>3. CASE i # 0
    <3>1. f.cells[i] = h.cells[i] /\ h.cells[i] \in Node /\ h.cells[i] # m
      BY <1>1, <1>2, <1>6, <2>1, <2>3 DEF m
    <3>2. h.ix[h.cells[i]] = i
      BY <1>1, <2>1 DEF Placed
    <3> QED BY <1>7, <3>1, <3>2
  <2> QED BY <2>2, <2>3
<1>9. Nodes(f) = Nodes(h) \ {n}
  <2>1. \A x : x \in Nodes(f) <=> \E i \in 0 .. z - 1 : f.cells[i] = x
    BY <1>5 DEF Nodes
  <2>2. \A x : x \in Nodes(h) <=> \E i \in 0 .. z : h.cells[i] = x
    BY DEF Nodes
  <2>3. ASSUME NEW i \in 0 .. z - 1
        PROVE  (\E j \in 0 .. z : f.cells[i] = h.cells[j]) /\ f.cells[i] # n
    <3>1. i \in 0 .. z /\ z \in 0 .. z /\ z # 0 /\ 0 \in 0 .. z
      BY <1>1
    <3>2. CASE i = 0
      <4>1. f.cells[i] = h.cells[z] /\ h.cells[z] # n
        BY <1>2, <1>6, <3>1, <3>2 DEF m
      <4> QED BY <3>1, <4>1
    <3>3. CASE i # 0
      <4>1. f.cells[i] = h.cells[i] /\ h.cells[i] # n
        BY <1>2, <1>6, <3>1, <3>3
      <4> QED BY <3>1, <4>1
    <3> QED BY <3>2, <3>3
  <2>4. ASSUME NEW j \in 0 .. z, h.cells[j] # n
        PROVE  \E i \in 0 .. z - 1 : f.cells[i] = h.cells[j]
    <3>1. j # 0 /\ z # 0
      BY <2>4
    <3>2. CASE j = z
      <4>1. 0 \in 0 .. z - 1 /\ f.cells[0] = h.cells[j]
        BY <1>1, <1>6, <3>1, <3>2 DEF m
      <4> QED BY <4>1
    <3>3. CASE j # z
      <4>1. j \in 0 .. z - 1 /\ f.cells[j] = h.cells[j]
        BY <1>1, <1>6, <3>1, <3>3
      <4> QED BY <4>1
    <3> QED BY <3>2, <3>3
  <2>5. ASSUME NEW x PROVE x \in Nodes(f) <=> x \in Nodes(h) /\ x # n
    <3>1. ASSUME x \in Nodes(f) PROVE x \in Nodes(h) /\ x # n
      BY <2>1, <2>2, <2>3, <3>1
    <3>2. ASSUME x \in Nodes(h), x # n PROVE x \in Nodes(f)
      BY <2>1, <2>2, <2>4, <3>2
    <3> QED BY <3>1, <3>2
  <2> HIDE DEF n
  <2> QED BY <2>5
<1>10. SameIndices(Nodes(h), f, h)
  <2>1. m \in Nodes(h)
    BY <1>1 DEF Nodes, m
  <2> QED BY <1>7, <2>1 DEF SameIndices
<1>11. Rearranged(g, f) /\ Ordered(g, d)
  <2>1. CASE z = 0
    <3>1. g = f
      BY <1>5, <2>1, MinHeapifyEmpty
    <3> HIDE DEF g
    <3> QED BY <1>5, <1>8, <2>1, <3>1 DEF Rearranged, SameIndices, Ordered
  <2>2. CASE z # 0
    <3>1. Sinking([h |-> f, at |-> 0], d)
      <4>1. 0 \in 0 .. z - 1 /\ f.cells[z] = f.cells[0]
        BY <1>1, <1>6, <2>2 DEF m
      <4>2. ASSUME NEW j \in 1 .. z - 1, Parent(j) # 0
            PROVE  d[f.cells[Parent(j)]] <= d[f.cells[j]]
        <5>1. j \in Nat /\ j # 0
          OBVIOUS
        <5>2. Parent(j) \in Nat /\ Parent(j) < j
          BY <5>1, Family
        <5>3. Parent(j) \in 0 .. z /\ j \in 0 .. z
          BY <1>1, <5>2
        <5>4. f.cells[j] = h.cells[j] /\ f.cells[Parent(j)] = h.cells[Parent(j)]
          BY <1>6, <4>2, <5>1, <5>3
        <5>5. ~ (d[h.cells[Parent(j)]] > d[h.cells[j]])
          BY <5>1, <5>3 DEF Ordered, Above
        <5>6. d[h.cells[Parent(j)]] \in Nat /\ d[h.cells[j]] \in Nat
          BY <1>1, <5>3
        <5> QED BY <5>4, <5>5, <5>6
      <4> QED BY <1>1, <1>5, <4>1, <4>2 DEF Sinking
    <3> QED BY <1>5, <1>8, <3>1, MinHeapifyProperties
  <2> QED BY <2>1, <2>2
<1> HIDE DEF g
<1>12. g.size = z /\ Nodes(g) = Nodes(h) \ {n} /\ g \in Heaps /\ Placed(g)
  BY <1>5, <1>9, <1>11 DEF Rearranged
<1>13. SameIndices(Nodes(h), g, h)
  BY <1>9, <1>10, <1>11 DEF Rearranged, SameIndices
<1>14. g.ix[n] = 0
  <2>1. g.ix[n] = f.ix[n]
    BY <1>3, <1>9, <1>11 DEF Rearranged, SameIndices
  <2> QED BY <1>3, <1>7, <2>1
<1> QED BY <1>0, <1>3, <1>11, <1>12, <1>13, <1>14

(* The nodes of a search go into the empty heap one behind the other. *)
LEMMA InsertAllProperties ==
  ASSUME NEW h \in Heaps, h.size = 0,
         NEW q \in Seq(Node), Len(q) <= Len(Sats) + 2,
         \A i, j \in 1 .. Len(q) : q[i] = q[j] => i = j
  PROVE  LET g == InsertAll(h, q)
         IN  /\ g \in Heaps /\ g.size = Len(q) /\ Placed(g)
             /\ \A i \in 0 .. Len(q) - 1 : g.cells[i] = q[i + 1]
             /\ Nodes(g) = {q[i] : i \in 1 .. Len(q)}
             /\ SameIndices(Nodes(g), g, h)
<1> DEFINE z == Len(q)
           S == [cells : [Cells -> Node \cup {NoNode}], size : Nat, ix : [Node -> Nat]]
           Rec(g) == [k \in 0 .. z |-> IF k = 0 THEN h ELSE Insert(g[k - 1], q[k])]
           filled == CHOOSE g : g = Rec(g)
           step == [k \in 1 .. z |-> [p \in S |-> Insert(p, q[k])]]
           Added(p, n, g) ==
             /\ g \in S /\ g.size = p.size + 1
             /\ \A j \in Cells : g.cells[j] = IF j = p.size THEN n ELSE p.cells[j]
             /\ \A m \in Node : g.ix[m] = IF m = n THEN p.size ELSE p.ix[m]
<1>1. z \in Nat /\ (\A k \in 1 .. z : q[k] \in Node) /\ \A k \in 0 .. z - 1 : k \in Cells
  BY Numbers, LenProperties
<1>2. InsertAll(h, q) = filled[z]
  BY DEF InsertAll
<1>3. h \in S
  BY Numbers DEF Heaps
<1>4. ASSUME NEW p \in S, NEW n \in Node
      PROVE  Added(p, n, Insert(p, n))
  <2> DEFINE g == Insert(p, n)
  <2>1. g.cells = [p.cells EXCEPT ![p.size] = n]
    BY DEF Insert, SetNode
  <2>2. g.ix = [p.ix EXCEPT ![n] = p.size]
    BY DEF Insert, SetNode
  <2>3. g.size = p.size + 1
    BY DEF Insert, SetNode
  <2>4. g \in S
    <3> DEFINE e == SetNode(p, p.size, n)
    <3>1. e \in S
      BY DEF SetNode
    <3>2. g = [e EXCEPT !.size = @ + 1]
      BY DEF Insert
    <3> HIDE DEF e, g
    <3>3. /\ e.size + 1 \in Nat
          /\ e = [cells |-> e.cells, size |-> e.size, ix |-> e.ix]
          /\ e.cells \in [Cells -> Node \cup {NoNode}] /\ e.ix \in [Node -> Nat]
      BY <3>1
    <3>4. g = [cells |-> e.cells, size |-> e.size + 1, ix |-> e.ix]
      BY <3>2, <3>3
    <3> QED BY <3>3, <3>4
  <2>5. p.cells \in [Cells -> Node \cup {NoNode}] /\ p.ix \in [Node -> Nat]
    OBVIOUS
  <2> HIDE DEF g
  <2> QED BY <2>1, <2>2, <2>3, <2>4, <2>5 DEF g
<1> HIDE DEF S
<1>5. \A k \in 1 .. z : \A p \in S : step[k][p] \in S
  BY <1>1, <1>4
<1> HIDE DEF step
<1>6. PICK f : Iterated(f, z, S, h, step)
  BY <1>1, <1>3, <1>5, Iterates
<1>7. f = Rec(f)
  <2>1. ASSUME NEW k \in 0 .. z
        PROVE  f[k] = IF k = 0 THEN h ELSE Insert(f[k - 1], q[k])
    <3>1. CASE k = 0
      BY <1>6, <3>1 DEF Iterated
    <3>2. CASE k # 0
      <4>1. k \in 1 .. z /\ k - 1 \in 0 .. z
        BY <1>1, <3>2
      <4>2. f[k - 1] \in S /\ f[k] = step[k][f[k - 1]]
        BY <1>6, <4>1 DEF Iterated
      <4> QED BY <3>2, <4>1, <4>2 DEF step
    <3> QED BY <3>1, <3>2
  <2> QED BY <1>6, <2>1 DEF Iterated
<1>8. filled = Rec(filled)
  BY <1>7
<1> HIDE DEF filled
<1>9. filled[0] = h /\ \A k \in 1 .. z : filled[k] = Insert(filled[k - 1], q[k])
  BY <1>1, <1>8
<1> DEFINE Filled(k, g) ==
             /\ g \in S /\ g.size = k
             /\ \A i \in 1 .. k : g.cells[i - 1] = q[i] /\ g.ix[q[i]] = i - 1
             /\ \A n \in Node : (\A i \in 1 .. k : q[i] # n) => g.ix[n] = h.ix[n]
           P == {k \in 0 .. z : Filled(k, filled[k])}
<1>10. 0 \in P
  BY <1>1, <1>3, <1>9
<1>11. ASSUME NEW k \in 1 .. z, k - 1 \in P PROVE k \in P
  <2> DEFINE p == filled[k - 1]
             g == Insert(p, q[k])
  <2>0. k \in 0 .. z /\ filled[k] = g
    BY <1>1, <1>9
  <2>1. Filled(k - 1, p) /\ q[k] \in Node /\ k - 1 \in Nat
    <3>1. q[k] \in Node /\ k - 1 \in Nat
      BY <1>1
    <3> HIDE DEF Filled
    <3> QED BY <1>11, <3>1
  <2> HIDE DEF p
  <2>2. /\ g \in S /\ g.size = p.size + 1
        /\ \A j \in Cells : g.cells[j] = IF j = p.size THEN q[k] ELSE p.cells[j]
        /\ \A m \in Node : g.ix[m] = IF m = q[k] THEN p.size ELSE p.ix[m]
    <3>1. p \in S /\ q[k] \in Node
      BY <2>1
    <3> HIDE DEF Added, g
    <3>2. Added(p, q[k], g)
      BY <1>4, <3>1 DEF g
    <3> QED BY <3>2 DEF Added
  <2> HIDE DEF g
  <2>3. g.size = k /\ p.size = k - 1
    BY <2>1, <2>2
  <2>4. ASSUME NEW i \in 1 .. k PROVE g.cells[i - 1] = q[i] /\ g.ix[q[i]] = i - 1
    <3>1. i - 1 \in Cells /\ q[i] \in Node /\ i \in 1 .. z
      BY <1>1
    <3>2. CASE i = k
      BY <2>2, <2>3, <3>1, <3>2
    <3>3. CASE i # k
      <4>1. i \in 1 .. k - 1 /\ i - 1 # k - 1 /\ q[i] # q[k]
        BY <3>1, <3>3
      <4>2. p.cells[i - 1] = q[i] /\ p.ix[q[i]] = i - 1
        BY <2>1, <4>1
      <4> QED BY <2>2, <2>3, <3>1, <4>1, <4>2
    <3> QED BY <3>2, <3>3
  <2>5. ASSUME NEW n \in Node, \A i \in 1 .. k : q[i] # n PROVE g.ix[n] = h.ix[n]
    <3>1. q[k] # n /\ \A i \in 1 .. k - 1 : q[i] # n
      BY <2>5
    <3> QED BY <2>1, <2>2, <3>1
  <2>6. Filled(k, g)
    BY <2>2, <2>3, <2>4, <2>5
  <2> HIDE DEF Filled
  <2> QED BY <2>0, <2>6
<1> HIDE DEF P
<1>12. \A k \in 0 .. z : k \in P
  <2>1. \A k \in 1 .. z : k - 1 \in P => k \in P
    BY <1>11
  <2> QED BY <1>1, <1>10, <2>1, UpTo, Zenon
<1> DEFINE g == filled[z]
<1>13. Filled(z, g)
  BY <1>1, <1>12 DEF P
<1> HIDE DEF g
<1>14. \A i \in 0 .. z - 1 : g.cells[i] = q[i + 1] /\ g.ix[q[i + 1]] = i
  <2> SUFFICES ASSUME NEW i \in 0 .. z - 1
               PROVE  g.cells[i] = q[i + 1] /\ g.ix[q[i + 1]] = i
    OBVIOUS
  <2>1. i + 1 \in 1 .. z /\ (i + 1) - 1 = i
    BY <1>1
  <2>2. g.cells[(i + 1) - 1] = q[i + 1] /\ g.ix[q[i + 1]] = (i + 1) - 1
    BY <1>13, <2>1
  <2> QED BY <2>1, <2>2
<1>15. \A i \in 0 .. z - 1 : i + 1 \in 1 .. z
  BY <1>1
<1>16. \A i \in 1 .. z : i - 1 \in 0 .. z - 1 /\ (i - 1) + 1 = i
  BY <1>1
<1>17. g \in Heaps
  <2>1. ASSUME NEW n \in Node PROVE g.ix[n] \in Cells \cup {Wild}
    <3>1. CASE \E i \in 1 .. z : q[i] = n
      <4>1. PICK i \in 1 .. z : q[i] = n
        BY <3>1
      <4>2. g.ix[n] = i - 1 /\ i - 1 \in Cells
        BY <1>1, <1>13, <1>16, <4>1
      <4> QED BY <4>2
    <3>2. CASE ~ \E i \in 1 .. z : q[i] = n
      <4>1. g.ix[n] = h.ix[n]
        BY <1>13, <3>2
      <4> QED BY <4>1 DEF Heaps
    <3> QED BY <3>1, <3>2
  <2>2. g.ix \in [Node -> Cells \cup {Wild}]
    <3>1. g.ix \in [Node -> Nat]
      BY <1>13 DEF S
    <3> QED BY <2>1, <3>1
  <2>3. g.size \in 0 .. Len(Sats) + 2
    <3>1. z \in 0 .. Len(Sats) + 2
      BY <1>1, Numbers
    <3> QED BY <1>13, <3>1
  <2>4. g = [cells |-> g.cells, size |-> g.size, ix |-> g.ix]
        /\ g.cells \in [Cells -> Node \cup {NoNode}]
    BY <1>13 DEF S
  <2> QED BY <2>2, <2>3, <2>4 DEF Heaps
<1>18. Placed(g)
  <2> SUFFICES ASSUME NEW i \in 0 .. z - 1
               PROVE  g.cells[i] \in Node /\ g.ix[g.cells[i]] = i
    BY <1>13 DEF Placed
  <2> QED BY <1>1, <1>14, <1>15
<1>19. Nodes(g) = {q[i] : i \in 1 .. z}
  <2>1. \A n : n \in Nodes(g) <=> \E i \in 0 .. z - 1 : g.cells[i] = n
    BY <1>13 DEF Nodes
  <2>2. \A n : n \in Nodes(g) <=> \E i \in 1 .. z : q[i] = n
    <3> SUFFICES ASSUME NEW n PROVE n \in Nodes(g) <=> \E i \in 1 .. z : q[i] = n
      OBVIOUS
    <3>1. ASSUME NEW i \in 0 .. z - 1, g.cells[i] = n PROVE \E j \in 1 .. z : q[j] = n
      BY <1>14, <1>15, <3>1
    <3>2. ASSUME NEW i \in 1 .. z, q[i] = n PROVE \E j \in 0 .. z - 1 : g.cells[j] = n
      <4>1. g.cells[i - 1] = q[(i - 1) + 1]
        BY <1>14, <1>16
      <4>2. g.cells[i - 1] = n
        BY <1>16, <3>2, <4>1
      <4> QED BY <1>16, <4>2
    <3> QED BY <2>1, <3>1, <3>2
  <2> HIDE DEF z
  <2> QED BY <2>2
<1>20. SameIndices(Nodes(g), g, h)
  <2>1. \A n \in Node \ Nodes(g) : \A i \in 1 .. z : q[i] # n
    BY <1>19
  <2> QED BY <1>13, <2>1 DEF SameIndices
<1> QED BY <1>2, <1>13, <1>14, <1>17, <1>18, <1>19, <1>20 DEF g

-----------------------------------------------------------------------------
(* The search.  The parts of its inductive invariant.                      *)

Types ==
  /\ TypeOK
  /\ heap \in Heaps
  /\ routes \in Seq(Seq(Node))
  /\ src # dst

(* Outside of a search nothing is left in the heap.  A city that has been  *)
(* in it knows the index 0.                                                *)
AtRest ==
  /\ phase # "search" => heap.size = 0 /\ u = NoNode /\ todo = {}
  /\ \A n \in searched \ Nodes(heap) : heap.ix[n] = 0

Settled == Cleared \ Nodes(heap)

HeapKept ==
  /\ Placed(heap) /\ Ordered(heap, dist)
  /\ Nodes(heap) \subseteq Cleared

(* The node taken out last is between those settled and those in the heap. *)
Frontier ==
  \/ u = NoNode /\ Settled = {} /\ todo = {}
  \/ /\ u \in Settled /\ todo \subseteq LooksAt(u)
     /\ \A n \in Nodes(heap) : dist[n] >= dist[u]
     /\ \A n \in Settled : dist[n] <= dist[u]

(* The links of settled nodes are looked at, but for those still to do. *)
Relaxed ==
  \A l \in Links \ downs :
    l[1] \in Settled /\ l \notin todo => dist[l[2]] <= dist[l[1]] + Delay(l)

(* The parents span a tree, along which the distances are lengths of ways. *)
Child(n) ==
  /\ parent[n] \in Settled
  /\ <<parent[n], n>> \in Links \ downs
  /\ dist[n] = dist[parent[n]] + Delay(<<parent[n], n>>)

Tree ==
  /\ dist[src] = 0 /\ parent[src] = NoNode
  /\ \A n \in AtInfinity :
       \/ parent[n] = NoNode /\ dist[n] = Infinity
       \/ parent[n] # NoNode /\ Child(n)

(* The nodes in the order in which they are settled: that there is one     *)
(* shows that the parents do not run in a circle, even where links have no *)
(* delay.                                                                  *)
Ranks(rank) ==
  /\ rank \in [Node -> Nat]
  /\ \A n \in Settled : rank[n] < Len(Sats) + 2 - heap.size
  /\ \A n \in Nodes(heap) : rank[n] = Len(Sats) + 2 - heap.size
  /\ \A n \in Cleared : parent[n] # NoNode => rank[parent[n]] < rank[n]

Ranked == \E rank : Ranks(rank)

Searching == HeapKept /\ Frontier /\ Relaxed /\ Tree /\ Ranked

Route(r) ==
  /\ r \in Seq(Node) /\ Len(r) >= 1
  /\ r[1] = src /\ r[Len(r)] = dst
  /\ \A i, j \in 1 .. Len(r) : r[i] = r[j] => i = j
  /\ \A j \in 2 .. Len(r) - 1 : r[j] \in SatSet

(* A link that was dropped since is out of range until get_paths() ends.   *)
Gone(l) ==
  \E c \in Cities : \E s \in SatSet \ sky.inRange[c] : l = <<c, s>> \/ l = <<s, c>>

Kept(l) == l \in downs \/ (l \notin Links /\ Gone(l))

Found ==
  /\ \A i \in 1 .. Len(routes) : Route(routes[i]) /\ \A l \in Edges(routes[i]) : Kept(l)
  /\ \A i, j \in 1 .. Len(routes) : i # j => Edges(routes[i]) \cap Edges(routes[j]) = {}

(* Once a heap_ix that was never set has moved a node, nothing is claimed. *)
RouteInv ==
  ~ strayed =>
    /\ Types /\ ~ aborted
    /\ AtRest /\ Found
    /\ phase = "search" => Searching

(* What the state is made of. *)
LEMMA TypeFacts ==
  ASSUME Types
  PROVE  /\ sky \in Skies /\ linked \in [Cities -> SUBSET SatSet] /\ downs \subseteq Links
         /\ dist \in [Node -> 0 .. Infinity] /\ parent \in [Node -> Node \cup {NoNode}]
         /\ src \in Cities /\ dst \in Cities /\ src # dst /\ ends = <<src, dst>>
         /\ u \in Node \cup {NoNode} /\ todo \subseteq Links /\ searched \subseteq Cities
         /\ calls \in 0 .. Calls /\ phase \in {"idle", "next", "search"}
         /\ heap \in Heaps /\ routes \in Seq(Seq(Node))
BY DEF Types, TypeOK, src, dst

(* Distances are numbers: DIST_INFINITY is one. *)
LEMMA Distances ==
  ASSUME Types
  PROVE  dist \in [Node -> Nat] /\ Infinity \in Nat
BY TypeFacts, RouteSearchAssumption

(* A link is between satellites, or between a city and a satellite that it *)
(* is linked with: update_uplinks() makes and drops them in pairs.         *)
LEMMA LinkKinds ==
  \A l : l \in Links <=> \/ l \in Isls
                         \/ \E c \in Cities : \E s \in linked[c] : l = <<c, s>> \/ l = <<s, c>>
BY DEF Links

(* So it is after the step. *)
LEMMA LinkKindsAfter ==
  \A l : l \in Links' <=> \/ l \in Isls
                          \/ \E c \in Cities : \E s \in linked'[c] : l = <<c, s>> \/ l = <<s, c>>
BY DEF Links

(* A link goes from a node to a node, and its delay is a number. *)
LEMMA LinkFacts ==
  ASSUME Types, NEW l \in Links
  PROVE  l = <<l[1], l[2]>> /\ l[1] \in Node /\ l[2] \in Node /\ Delay(l) \in Nat
<1>1. CASE l \in Isls
  <2>1. l \in Range(Sats) \X Range(Sats)
    BY <1>1, RouteSearchAssumption
  <2>2. sky.delay[{l[1], l[2]}] \in Nat
    BY <1>1, TypeFacts, RouteSearchAssumption
  <2> QED BY <2>1, <2>2 DEF Node, SatSet, Delay
<1>2. ASSUME NEW c \in Cities, NEW s \in linked[c], l = <<c, s>> \/ l = <<s, c>>
      PROVE  l = <<l[1], l[2]>> /\ l[1] \in Node /\ l[2] \in Node /\ Delay(l) \in Nat
  <2>1. s \in Range(Sats)
    BY TypeFacts DEF SatSet
  <2>2. l \in (Cities \X Range(Sats)) \cup (Range(Sats) \X Cities)
    BY <1>2, <2>1
  <2>3. sky.delay[{l[1], l[2]}] \in Nat
    BY <2>2, TypeFacts, RouteSearchAssumption
  <2> QED BY <1>2, <2>1, <2>3 DEF Node, SatSet, Delay
<1> QED BY <1>1, <1>2, LinkKinds

(* _sats holds every satellite once. *)
LEMMA Satellites ==
  /\ Sats \in Seq(SatSet) /\ SatSet = {Sats[i] : i \in 1 .. Len(Sats)}
  /\ \A i, j \in 1 .. Len(Sats) : Sats[i] = Sats[j] => i = j
  /\ IsFiniteSet(SatSet) /\ Cardinality(SatSet) = Len(Sats)
<1> DEFINE D == 1 .. Len(Sats)
<1>1. Sats \in Seq(SatSet) /\ IsInjective(Sats)
  BY RouteSearchAssumption DEF SatSet
<1>2. DOMAIN Sats = D /\ Len(Sats) \in Nat /\ Sats \in [D -> SatSet]
  BY <1>1, LenProperties
<1>3. SatSet = {Sats[i] : i \in D}
  BY <1>2, Zenon DEF SatSet, Range
<1>4. \A i, j \in D : Sats[i] = Sats[j] => i = j
  BY <1>1, <1>2 DEF IsInjective
<1>5. IsFiniteSet(D) /\ Cardinality(D) = Len(Sats)
  BY <1>2, FS_Interval
<1> HIDE DEF D
<1>6. Sats \in Surjection(D, SatSet) /\ Sats \in Injection(D, SatSet)
  <2>1. \A s \in SatSet : \E i \in D : Sats[i] = s
    BY <1>3
  <2> QED BY <1>1, <1>2, <2>1 DEF Surjection, Injection
<1>7. IsFiniteSet(SatSet) /\ Cardinality(SatSet) = Len(Sats)
  BY <1>5, <1>6, FS_Surjection
<1> QED BY <1>1, <1>3, <1>4, <1>7 DEF D

(* Cities are not satellites, and there are finitely many of both. *)
LEMMA NodeFacts ==
  /\ Cities \subseteq Node /\ SatSet \subseteq Node /\ Cities \cap SatSet = {}
  /\ IsFiniteSet(Node) /\ Cardinality(Node) \in Nat
<1>1. IsFiniteSet(SatSet)
  BY Satellites
<1>2. IsFiniteSet(Node)
  BY <1>1, FS_Union, RouteSearchAssumption DEF Node
<1> QED BY <1>2, FS_CardinalityType, RouteSearchAssumption DEF Node, SatSet

(* The cities and satellites that a search is about. *)
LEMMA ClearedFacts ==
  ASSUME Types
  PROVE  /\ Cleared \subseteq Node /\ Cleared = AtInfinity \cup {src}
         /\ src \notin AtInfinity /\ AtInfinity \subseteq Node
BY TypeFacts, NodeFacts DEF Cleared, AtInfinity

-----------------------------------------------------------------------------
(* Before the first get_paths() nothing is searched for and nothing found. *)
LEMMA InitHolds == Init => RouteInv
<1> SUFFICES ASSUME Init PROVE RouteInv
  OBVIOUS
<1> USE DEF Init
<1>1. ends \in Cities \X Cities /\ src # dst
  <2>1. PICK c \in Cities, d \in Cities : c # d
    BY RouteSearchAssumption
  <2>2. <<c, d>> \in Cities \X Cities /\ <<c, d>>[1] # <<c, d>>[2]
    BY <2>1
  <2>3. \E e \in Cities \X Cities : e[1] # e[2]
    BY <2>2
  <2>4. ends = CHOOSE e \in Cities \X Cities : e[1] # e[2]
    OBVIOUS
  <2>5. ends \in Cities \X Cities /\ ends[1] # ends[2]
    BY <2>3, <2>4, Zenon
  <2> QED BY <2>5 DEF src, dst
<1>2. heap \in Heaps /\ heap.size = 0
  <2>1. PICK g \in Garbage :
          heap = [cells |-> [i \in Cells |-> NoNode], size |-> 0, ix |-> [n \in Node |-> g]]
    OBVIOUS
  <2>2. g \in Cells \cup {Wild}
    BY RouteSearchAssumption, Numbers
  <2>3. 0 \in 0 .. Len(Sats) + 2
    BY Numbers
  <2> QED BY <2>1, <2>2, <2>3 DEF Heaps
<1>3. sky \in Skies /\ linked \in [Cities -> SUBSET SatSet]
  BY RouteSearchAssumption DEF SatSet
<1>4. dist \in [Node -> 0 .. Infinity] /\ parent \in [Node -> Node \cup {NoNode}]
  BY RouteSearchAssumption
<1>5. calls \in 0 .. Calls
  BY RouteSearchAssumption
<1>6. routes \in Seq(Seq(Node)) /\ Len(routes) = 0 /\ DOMAIN routes = {}
  OBVIOUS
<1>7. TypeOK
  BY <1>1, <1>2, <1>3, <1>4, <1>5, <1>6 DEF TypeOK, Heaps
<1>8. AtRest
  BY <1>2 DEF AtRest
<1>9. Found
  BY <1>6 DEF Found
<1> QED BY <1>1, <1>2, <1>6, <1>7, <1>8, <1>9 DEF RouteInv, Types

(* A step that changes nothing keeps it. *)
LEMMA StutterHolds ==
  ASSUME RouteInv, UNCHANGED vars
  PROVE  RouteInv'
<1>1. UNCHANGED <<sky, linked, downs, dist, parent, heap, ends, phase, u, todo, calls,
                  routes, searched, strayed, aborted>>
  BY DEF vars
<1>2. Links' = Links /\ src' = src /\ dst' = dst
  BY <1>1 DEF Links, src, dst
<1>3. Types' <=> Types
  BY <1>1, <1>2 DEF Types, TypeOK
<1>4. AtRest' <=> AtRest
  BY <1>1 DEF AtRest
<1>5. Found' <=> Found
  BY <1>1, <1>2 DEF Found, Route, Kept, Gone
<1>6. Cleared' = Cleared /\ AtInfinity' = AtInfinity /\ Settled' = Settled
  BY <1>1, <1>2 DEF Cleared, AtInfinity, Settled
<1>7. HeapKept' <=> HeapKept
  BY <1>1, <1>6 DEF HeapKept
<1>8. Frontier' <=> Frontier
  BY <1>1, <1>2, <1>6 DEF Frontier, LooksAt
<1>9. (Relaxed' <=> Relaxed) /\ (Tree' <=> Tree)
  BY <1>1, <1>2, <1>6 DEF Relaxed, Tree, Child, Delay
<1>10. Ranked' <=> Ranked
  BY <1>1, <1>6 DEF Ranked, Ranks
<1> QED BY <1>1, <1>3, <1>4, <1>5, <1>7, <1>8, <1>9, <1>10 DEF RouteInv, Searching

(* When get_paths() begins, all routes found so far are dropped. *)
LEMMA GetPathsHolds ==
  ASSUME RouteInv, NEW s \in Cities, NEW d \in Cities, GetPaths(s, d)
  PROVE  RouteInv'
<1> SUFFICES ASSUME ~ strayed' PROVE RouteInv'
  BY DEF RouteInv
<1>0. Types /\ ~ aborted /\ AtRest
  BY DEF RouteInv, GetPaths
<1>1. /\ ends' = <<s, d>> /\ src' = s /\ dst' = d /\ s # d
      /\ calls' \in 0 .. Calls
      /\ sky' \in Skies /\ downs' = {} /\ routes' = <<>> /\ phase' = "next" /\ phase = "idle"
      /\ UNCHANGED <<linked, dist, parent, heap, u, todo, searched, strayed, aborted>>
  BY <1>0, RouteSearchAssumption DEF GetPaths, src, dst, Types, TypeOK
<1>2. routes' \in Seq(Seq(Node)) /\ Len(routes') = 0 /\ DOMAIN routes' = {}
  BY <1>1
<1>3. Links' = Links
  BY <1>1 DEF Links
<1>4. TypeOK'
  BY <1>0, <1>1, <1>2, <1>3 DEF Types, TypeOK
<1>5. Types'
  BY <1>0, <1>1, <1>2, <1>4 DEF Types
<1>6. AtRest'
  BY <1>0, <1>1 DEF AtRest
<1>7. Found'
  BY <1>2 DEF Found
<1> QED BY <1>0, <1>1, <1>5, <1>6, <1>7 DEF RouteInv

(* What was found remains as long as neither it nor the links change. *)
LEMMA FoundStays ==
  ASSUME Found, UNCHANGED <<sky, linked, downs, ends, routes>>
  PROVE  Found'
<1>1. Links' = Links /\ src' = src /\ dst' = dst
  BY DEF Links, src, dst
<1>2. \A r : Route(r)' <=> Route(r)
  BY <1>1 DEF Route
<1>3. \A l : Kept(l)' <=> Kept(l)
  BY <1>1 DEF Kept, Gone
<1> QED BY <1>2, <1>3 DEF Found

(* The nearest node of the heap is settled. *)
LEMMA SettleHolds ==
  ASSUME RouteInv, Settle
  PROVE  RouteInv'
<1> SUFFICES ASSUME ~ strayed' PROVE RouteInv'
  BY DEF RouteInv
<1> DEFINE n == heap.cells[0]
           k == Len(Sats) + 2 - heap.size
<1>0. /\ phase = "search" /\ todo = {} /\ heap.size > 0 /\ ~ aborted
      /\ u' = n /\ todo' = LooksAt(n) /\ heap' = ExtractMin(heap, dist)
      /\ UNCHANGED <<sky, linked, downs, dist, parent, ends, phase, calls, routes,
                     searched, strayed, aborted>>
  <2>1. u' = n /\ todo' = LooksAt(u')
    BY DEF Settle
  <2> HIDE DEF n
  <2>2. todo' = LooksAt(n)
    BY <2>1
  <2> QED BY <2>1, <2>2 DEF Settle
<1>1. /\ Types /\ AtRest /\ Found
      /\ HeapKept /\ Frontier /\ Relaxed /\ Tree /\ Ranked
  BY <1>0 DEF RouteInv, Searching
<1>2. Placed(heap) /\ Ordered(heap, dist) /\ Nodes(heap) \subseteq Cleared
  BY <1>1 DEF HeapKept
<1>3. /\ heap' \in Heaps /\ heap'.size = heap.size - 1 /\ Placed(heap') /\ Ordered(heap', dist)
      /\ n \in Nodes(heap) /\ Nodes(heap') = Nodes(heap) \ {n}
      /\ heap'.ix[n] = 0 /\ SameIndices(Nodes(heap), heap', heap)
  BY <1>0, <1>1, <1>2, Distances, TypeFacts, ExtractMinProperties
<1>4. \A m \in Nodes(heap) : dist[n] <= dist[m]
  <2>1. \A j \in 0 .. heap.size - 1 : dist[n] <= dist[heap.cells[j]]
    BY <1>1, <1>2, Distances, TypeFacts, FirstIsLeast
  <2> HIDE DEF n
  <2> QED BY <2>1 DEF Nodes
<1> HIDE DEF n
<1>5. /\ Links' = Links /\ src' = src /\ dst' = dst
      /\ Cleared' = Cleared /\ AtInfinity' = AtInfinity
  BY <1>0 DEF Links, src, dst, Cleared, AtInfinity
<1>6. n \in Cleared /\ n \in Node /\ Settled' = Settled \cup {n} /\ n \notin Settled
  BY <1>1, <1>2, <1>3, <1>5, ClearedFacts DEF Settled
<1>7. Types'
  <2>1. todo' \subseteq Links
    BY <1>0 DEF LooksAt
  <2>2. TypeOK'
    BY <1>0, <1>1, <1>3, <1>5, <1>6, <2>1 DEF Types, TypeOK, Heaps
  <2> QED BY <1>0, <1>1, <1>3, <1>5, <2>2 DEF Types
<1>8. AtRest'
  <2>1. searched \subseteq Node
    BY <1>1, TypeFacts, NodeFacts
  <2> QED BY <1>0, <1>1, <1>3, <2>1 DEF AtRest, SameIndices
<1>9. Found'
  BY <1>0, <1>1, FoundStays
<1>10. HeapKept'
  BY <1>0, <1>2, <1>3, <1>5 DEF HeapKept
<1>11. Frontier'
  <2>1. u' = n /\ dist' = dist /\ u' \in Settled' /\ todo' \subseteq LooksAt(u)'
    <3>1. u' = n /\ dist' = dist /\ u' \in Settled'
      BY <1>0, <1>6
    <3>2. \A l \in todo' : l \in Links' \ downs' /\ l[1] = u'
      BY <1>0, <1>5, <3>1 DEF LooksAt
    <3> QED BY <3>1, <3>2 DEF LooksAt
  <2>2. \A m \in Nodes(heap') : dist[m] >= dist[n]
    <3>1. \A m \in Nodes(heap) : m \in Node
      BY <1>1, <1>2, ClearedFacts
    <3>2. dist[n] \in Nat /\ \A m \in Nodes(heap) : dist[m] \in Nat
      BY <1>1, <1>6, <3>1, Distances
    <3> QED BY <1>3, <1>4, <3>2
  <2>3. ASSUME NEW m \in Settled' PROVE dist[m] <= dist[n]
    <3>0. m \in Node /\ dist[m] \in Nat /\ dist[n] \in Nat
      BY <1>1, <1>5, <1>6, ClearedFacts, Distances DEF Settled
    <3>1. CASE m = n
      BY <3>0, <3>1
    <3>2. CASE m # n
      <4>1. m \in Settled
        BY <1>6, <3>2
      <4>2. u \in Settled /\ dist[n] >= dist[u] /\ dist[m] <= dist[u]
        BY <1>1, <1>3, <4>1 DEF Frontier
      <4>3. dist[u] \in Nat
        BY <1>1, <4>2, ClearedFacts, Distances DEF Settled
      <4> QED BY <3>0, <4>2, <4>3
    <3> QED BY <3>1, <3>2
  <2>4. /\ \A m \in Nodes(heap') : dist'[m] >= dist'[u']
        /\ \A m \in Settled' : dist'[m] <= dist'[u']
    BY <2>1, <2>2, <2>3
  <2> QED BY <2>1, <2>4 DEF Frontier
<1>12. Relaxed'
  <2> SUFFICES ASSUME NEW l \in Links \ downs, l[1] \in Settled', l \notin LooksAt(n)
               PROVE  dist[l[2]] <= dist[l[1]] + Delay(l)
    BY <1>0, <1>5 DEF Relaxed, Delay
  <2>1. l[1] # n
    BY DEF LooksAt
  <2>2. l[1] \in Settled /\ l \notin todo
    BY <1>0, <1>6, <2>1
  <2> QED BY <1>1, <2>2 DEF Relaxed
<1>13. Tree'
  <2>1. \A m : Child(m) => Child(m)'
    BY <1>0, <1>5, <1>6 DEF Child, Delay
  <2> QED BY <1>0, <1>1, <1>5, <2>1 DEF Tree
<1>14. Ranked'
  <2>1. PICK rank : Ranks(rank)
    BY <1>1 DEF Ranked
  <2> DEFINE r == [m \in Node |-> IF m \in Nodes(heap') THEN k + 1 ELSE rank[m]]
  <2>2. k \in Nat /\ Len(Sats) + 2 - heap'.size = k + 1
    <3>1. heap \in Heaps
      BY <1>1, TypeFacts
    <3>2. heap.size \in 0 .. Len(Sats) + 2 /\ Len(Sats) \in Nat
      BY <3>1, Numbers DEF Heaps
    <3> QED BY <1>3, <3>2
  <2>3. /\ rank \in [Node -> Nat]
        /\ \A m \in Settled : rank[m] < k
        /\ \A m \in Nodes(heap) : rank[m] = k
        /\ \A m \in Cleared : parent[m] # NoNode => rank[parent[m]] < rank[m]
    BY <2>1 DEF Ranks
  <2> HIDE DEF k
  <2>4. r \in [Node -> Nat]
    BY <2>2, <2>3
  <2>5. \A m \in Settled' : r[m] < k + 1
    <3> SUFFICES ASSUME NEW m \in Settled' PROVE r[m] < k + 1
      OBVIOUS
    <3>1. m \in Node /\ m \notin Nodes(heap')
      BY <1>1, <1>5, <1>6, ClearedFacts DEF Settled
    <3>2. r[m] = rank[m] /\ rank[m] \in Nat
      BY <2>3, <3>1
    <3>3. rank[m] < k \/ rank[m] = k
      BY <1>3, <1>6, <2>3
    <3> HIDE DEF r
    <3> QED BY <2>2, <3>2, <3>3
  <2>6. \A m \in Nodes(heap') : r[m] = k + 1
    BY <1>1, <1>2, <1>3, ClearedFacts
  <2>7. ASSUME NEW m \in Cleared, parent[m] # NoNode PROVE r[parent[m]] < r[m]
    <3>1. m \in AtInfinity
      BY <1>1, <2>7, ClearedFacts DEF Tree
    <3>2. parent[m] \in Settled
      BY <1>1, <2>7, <3>1 DEF Tree, Child
    <3>3. m \in Node /\ parent[m] \in Node /\ parent[m] \notin Nodes(heap')
      BY <1>1, <1>3, <3>2, ClearedFacts DEF Settled
    <3>4. r[parent[m]] = rank[parent[m]] /\ rank[parent[m]] < rank[m]
      BY <2>3, <2>7, <3>3
    <3>5. r[m] = rank[m] \/ (r[m] = k + 1 /\ rank[m] = k)
      BY <1>3, <2>3, <3>3
    <3>6. rank[m] \in Nat /\ rank[parent[m]] \in Nat
      BY <2>3, <3>3
    <3> HIDE DEF r
    <3> QED BY <2>2, <3>4, <3>5, <3>6
  <2> HIDE DEF r
  <2>8. PICK c : c = r
    OBVIOUS
  <2>9. Ranks(c)'
    <3>1. /\ \A m \in Settled' : r[m] < Len(Sats) + 2 - heap'.size
          /\ \A m \in Nodes(heap') : r[m] = Len(Sats) + 2 - heap'.size
      BY <2>2, <2>5, <2>6
    <3>2. \A m \in Cleared' : parent'[m] # NoNode => r[parent'[m]] < r[m]
      BY <1>0, <1>5, <2>7
    <3> QED BY <2>4, <2>8, <3>1, <3>2 DEF Ranks
  <2> QED BY <2>9 DEF Ranked
<1> QED BY <1>0, <1>7, <1>8, <1>9, <1>10, <1>11, <1>12, <1>13, <1>14 DEF RouteInv, Searching

(* A node whose distance becomes less has to move up at most. *)
LEMMA LessIsRising ==
  ASSUME NEW d \in [Node -> Nat], NEW h \in Heaps, Placed(h), Ordered(h, d),
         NEW i \in 0 .. h.size - 1, NEW e \in [Node -> Nat],
         e[h.cells[i]] <= d[h.cells[i]],
         \A n \in Node : n # h.cells[i] => e[n] = d[n]
  PROVE  Rising([h |-> h, at |-> i], e)
<1> DEFINE z == h.size
<1>1. z \in Nat /\ \A j \in 0 .. z - 1 : h.cells[j] \in Node
  BY Numbers DEF Heaps, Placed
<1>2. \A j \in 0 .. z - 1 : j # i => h.cells[j] # h.cells[i]
  BY DEF Placed
<1>3. \A j \in 0 .. z - 1 : /\ d[h.cells[j]] \in Nat /\ e[h.cells[j]] \in Nat
                            /\ e[h.cells[j]] <= d[h.cells[j]]
                            /\ j # i => e[h.cells[j]] = d[h.cells[j]]
  BY <1>1, <1>2
<1>4. ASSUME NEW j \in 1 .. z - 1
      PROVE  Parent(j) \in 0 .. z - 1 /\ Parent(j) < j
             /\ d[h.cells[Parent(j)]] <= d[h.cells[j]]
  <2>1. j \in Nat /\ j # 0 /\ j \in 0 .. z - 1
    OBVIOUS
  <2>2. Parent(j) \in Nat /\ Parent(j) < j
    BY <2>1, Family
  <2>3. ~ (d[h.cells[Parent(j)]] > d[h.cells[j]])
    BY <2>1 DEF Ordered, Above
  <2> HIDE DEF z
  <2>4. Parent(j) \in 0 .. z - 1
    BY <1>1, <2>1, <2>2
  <2> QED BY <1>3, <2>1, <2>2, <2>3, <2>4
<1>5. ASSUME NEW j \in 0 .. z - 1, j # i
      PROVE  ~ Above(h, e, j)
  <2> SUFFICES ASSUME j # 0 PROVE ~ (e[h.cells[Parent(j)]] > e[h.cells[j]])
    BY DEF Above
  <2>1. j \in 1 .. z - 1
    OBVIOUS
  <2>2. /\ Parent(j) \in 0 .. z - 1
        /\ d[h.cells[Parent(j)]] <= d[h.cells[j]]
    BY <1>4, <2>1
  <2> HIDE DEF z
  <2> QED BY <1>3, <1>5, <2>2
<1>6. ASSUME i # 0, NEW j \in 1 .. z - 1, Parent(j) = i
      PROVE  e[h.cells[Parent(i)]] <= e[h.cells[j]]
  <2>1. i \in 1 .. z - 1 /\ j \in 0 .. z - 1
    BY <1>6
  <2>2. /\ Parent(i) \in 0 .. z - 1 /\ i < j
        /\ d[h.cells[Parent(i)]] <= d[h.cells[i]] /\ d[h.cells[i]] <= d[h.cells[j]]
    BY <1>4, <1>6, <2>1
  <2> HIDE DEF z
  <2> QED BY <1>3, <2>1, <2>2
<1> QED BY <1>5, <1>6 DEF Rising

(* What the search knows of the link that it looks at. *)
LEMMA LinkLookedAt ==
  ASSUME Types, HeapKept, Frontier, NEW l \in todo
  PROVE  /\ l \in Links \ downs /\ l = <<u, l[2]>> /\ l[2] \in Node
         /\ u \in Settled /\ u \in Node
         /\ Delay(l) \in Nat /\ dist[u] \in Nat /\ dist[u] + Delay(l) \in Nat
         /\ dist[u] + Delay(l) < dist[l[2]] => l[2] \notin Settled
<1>1. /\ u \in Settled /\ l \in LooksAt(u)
      /\ \A n \in Settled : dist[n] <= dist[u]
  BY DEF Frontier
<1>2. l \in Links \ downs /\ l[1] = u
  BY <1>1 DEF LooksAt
<1>3. l = <<u, l[2]>> /\ l[2] \in Node /\ Delay(l) \in Nat /\ u \in Node
  BY <1>2, LinkFacts
<1>4. dist[u] \in Nat /\ dist[l[2]] \in Nat
  BY <1>3, Distances
<1> QED BY <1>1, <1>2, <1>3, <1>4

(* decrease_distance() works on the heap, or leaves it alone when the node *)
(* is not in it.                                                           *)
LEMMA RelaxHeap ==
  ASSUME Types, ~ aborted, AtRest, HeapKept, Frontier, ~ strayed',
         NEW l \in todo, Relax(l), dist[u] + Delay(l) < dist[l[2]]
  PROVE  /\ dist' = [dist EXCEPT ![l[2]] = dist[u] + Delay(l)]
         /\ dist' \in [Node -> 0 .. Infinity] /\ dist' \in [Node -> Nat]
         /\ ~ aborted' /\ Rearranged(heap', heap) /\ Ordered(heap', dist')
         /\ l[2] \in Nodes(heap) \/ l[2] \notin Cleared
<1> DEFINE n == l[2]
           newdist == dist[u] + Delay(l)
           i == heap.ix[n]
<1>1. /\ n \in Node /\ newdist \in Nat /\ n \notin Settled
      /\ dist \in [Node -> 0 .. Infinity] /\ dist \in [Node -> Nat] /\ Infinity \in Nat
  BY LinkLookedAt, TypeFacts, Distances
<1>2. /\ dist' = [dist EXCEPT ![n] = newdist]
      /\ strayed' = (strayed \/ (NeverSet(n) /\ i # 0))
      /\ IF i = Wild \/ (i # 0 /\ heap.cells[i] = NoNode)
           THEN aborted' = TRUE /\ UNCHANGED heap
           ELSE heap' = MoveUp(heap, dist', i) /\ UNCHANGED aborted
  BY DEF Relax
<1>3. /\ Placed(heap) /\ Ordered(heap, dist) /\ Nodes(heap) \subseteq Cleared
      /\ heap \in Heaps
  BY TypeFacts DEF HeapKept
<1> HIDE DEF n, i
<1>4. dist' \in [Node -> 0 .. Infinity] /\ dist' \in [Node -> Nat]
  <2>1. newdist < dist[n] /\ dist[n] \in 0 .. Infinity
    BY <1>1 DEF n
  <2> HIDE DEF newdist
  <2>2. newdist \in 0 .. Infinity
    BY <1>1, <2>1
  <2> QED BY <1>1, <1>2, <2>2
<1>5. /\ dist'[n] <= dist[n] /\ \A m \in Node : m # n => dist'[m] = dist[m]
  <2>1. newdist < dist[n] /\ dist[n] \in Nat
    BY <1>1 DEF n
  <2> HIDE DEF newdist
  <2> QED BY <1>1, <1>2, <2>1
<1> HIDE DEF newdist
<1>6. CASE n \in Nodes(heap)
  <2>1. PICK j \in 0 .. heap.size - 1 : heap.cells[j] = n
    BY <1>6 DEF Nodes
  <2>2. i = j /\ i \in Cells /\ i # Wild /\ heap.cells[i] # NoNode
    <3>1. i = j
      BY <1>3, <2>1 DEF Placed, i
    <3>2. j \in Cells /\ j # Wild
      BY <1>3, Numbers DEF Heaps
    <3> QED BY <1>1, <2>1, <3>1, <3>2, Numbers
  <2>3. heap' = MoveUp(heap, dist', i) /\ aborted' = aborted
    BY <1>2, <2>2
  <2>4. Rising([h |-> heap, at |-> i], dist')
    BY <1>1, <1>3, <1>4, <1>5, <2>1, <2>2, LessIsRising
  <2>5. Rearranged(heap', heap) /\ Ordered(heap', dist')
    BY <1>3, <1>4, <2>3, <2>4, MoveUpProperties
  <2> QED BY <1>2, <1>4, <1>6, <2>3, <2>5 DEF n, newdist
<1>7. CASE n \notin Nodes(heap)
  <2>1. n \notin Cleared
    BY <1>1, <1>7 DEF Settled
  <2>2. n \in Cities
    BY <1>1, <2>1 DEF Cleared, Node
  <2>3. i = 0
    <3>1. CASE n \in searched
      BY <1>7, <3>1 DEF AtRest, i
    <3>2. CASE n \notin searched
      BY <1>2, <2>2, <3>2 DEF NeverSet
    <3> QED BY <3>1, <3>2
  <2>4. heap' = heap /\ aborted' = aborted
    <3>1. i # Wild
      BY <2>3, Numbers
    <3>2. heap' = MoveUp(heap, dist', 0) /\ aborted' = aborted
      BY <1>2, <2>3, <3>1
    <3> QED BY <3>2, MoveUpFirst
  <2>5. Rearranged(heap, heap)
    BY <1>3 DEF Rearranged, SameIndices
  <2>6. Ordered(heap, dist')
    <3> SUFFICES ASSUME NEW j \in 0 .. heap.size - 1, j # 0
                 PROVE  ~ (dist'[heap.cells[Parent(j)]] > dist'[heap.cells[j]])
      BY DEF Ordered, Above
    <3>1. j \in Nat
      OBVIOUS
    <3>2. Parent(j) \in Nat /\ Parent(j) < j
      BY <3>1, Family
    <3>3. Parent(j) \in 0 .. heap.size - 1
      BY <1>3, <3>2 DEF Heaps
    <3>4. /\ heap.cells[j] \in Node /\ heap.cells[Parent(j)] \in Node
          /\ heap.cells[j] # n /\ heap.cells[Parent(j)] # n
      BY <1>3, <1>7, <3>3 DEF Placed, Nodes
    <3>5. ~ (dist[heap.cells[Parent(j)]] > dist[heap.cells[j]])
      BY <1>3 DEF Ordered, Above
    <3> QED BY <1>5, <3>4, <3>5
  <2> QED BY <1>2, <1>4, <2>1, <2>4, <2>5, <2>6 DEF n, newdist
<1> QED BY <1>6, <1>7

(* One pass of the loop: what becomes of distances, parents and the heap.  *)
LEMMA RelaxStep ==
  ASSUME Types, ~ aborted, AtRest, HeapKept, Frontier, ~ strayed',
         NEW l \in todo, Relax(l)
  PROVE  /\ dist' \in [Node -> 0 .. Infinity] /\ parent' \in [Node -> Node \cup {NoNode}]
         /\ ~ aborted' /\ Rearranged(heap', heap) /\ Ordered(heap', dist')
         /\ \A m \in Node : m # l[2] => dist'[m] = dist[m] /\ parent'[m] = parent[m]
         /\ dist'[l[2]] <= dist[l[2]] /\ dist'[l[2]] <= dist[u] + Delay(l)
         /\ \/ dist' = dist /\ parent' = parent
            \/ /\ dist'[l[2]] = dist[u] + Delay(l) /\ parent'[l[2]] = u
               /\ dist[u] + Delay(l) < dist[l[2]]
               /\ l[2] \notin Settled /\ (l[2] \in Nodes(heap) \/ l[2] \notin Cleared)
<1> DEFINE n == l[2]
           newdist == dist[u] + Delay(l)
<1>1. /\ n \in Node /\ newdist \in Nat /\ (newdist < dist[n] => n \notin Settled) /\ u \in Node
      /\ dist \in [Node -> 0 .. Infinity] /\ dist \in [Node -> Nat] /\ Infinity \in Nat
      /\ parent \in [Node -> Node \cup {NoNode}]
  BY LinkLookedAt, TypeFacts, Distances
<1>2. CASE newdist < dist[n]
  <2>1. parent' = [parent EXCEPT ![n] = u]
    BY <1>2 DEF Relax
  <2>2. /\ dist' = [dist EXCEPT ![n] = newdist]
        /\ dist' \in [Node -> 0 .. Infinity]
        /\ ~ aborted' /\ Rearranged(heap', heap) /\ Ordered(heap', dist')
        /\ n \in Nodes(heap) \/ n \notin Cleared
    BY <1>2, RelaxHeap
  <2> HIDE DEF n, newdist
  <2>3. dist'[n] = newdist /\ dist'[n] <= dist[n] /\ dist'[n] <= newdist /\ parent'[n] = u
    BY <1>1, <1>2, <2>1, <2>2
  <2>4. parent' \in [Node -> Node \cup {NoNode}]
    BY <1>1, <2>1
  <2>5. \A m \in Node : m # n => dist'[m] = dist[m] /\ parent'[m] = parent[m]
    BY <1>1, <2>1, <2>2
  <2> QED BY <1>1, <1>2, <2>2, <2>3, <2>4, <2>5 DEF n, newdist
<1>3. CASE ~ (newdist < dist[n])
  <2>1. UNCHANGED <<dist, parent, heap, aborted>>
    BY <1>3 DEF Relax
  <2>2. Rearranged(heap', heap) /\ Ordered(heap', dist')
    BY <2>1, TypeFacts DEF HeapKept, Rearranged, SameIndices
  <2>3. dist[n] <= dist[n] /\ dist[n] <= newdist
    <3> HIDE DEF newdist, n
    <3>1. dist[n] \in Nat
      BY <1>1
    <3> QED BY <1>1, <1>3, <3>1
  <2> QED BY <1>1, <2>1, <2>2, <2>3
<1> QED BY <1>2, <1>3

(* A link that is looked at may shorten the distance of its second node:   *)
(* the node taken out last becomes its parent, and it moves up in the heap.*)
LEMMA RelaxHolds ==
  ASSUME RouteInv, NEW l \in todo, Relax(l)
  PROVE  RouteInv'
<1> SUFFICES ASSUME ~ strayed' PROVE RouteInv'
  BY DEF RouteInv
<1> DEFINE n == l[2]
<1>0. /\ phase = "search" /\ ~ aborted /\ ~ strayed /\ todo' = todo \ {l}
      /\ UNCHANGED <<sky, linked, downs, ends, phase, u, calls, routes, searched>>
  <2>1. strayed' = strayed \/ strayed' = (strayed \/ (NeverSet(n) /\ heap.ix[n] # 0))
    BY DEF Relax
  <2>2. ~ strayed
    BY <2>1, Zenon
  <2> HIDE DEF n
  <2> QED BY <2>2 DEF Relax
<1>1. /\ Types /\ AtRest /\ Found
      /\ HeapKept /\ Frontier /\ Relaxed /\ Tree /\ Ranked
  BY <1>0 DEF RouteInv, Searching
<1>2. /\ l \in Links \ downs /\ l = <<u, n>> /\ n \in Node /\ u \in Settled /\ u \in Node
      /\ Delay(l) \in Nat /\ dist[u] \in Nat
  BY <1>1, LinkLookedAt
<1>3. /\ dist' \in [Node -> 0 .. Infinity] /\ parent' \in [Node -> Node \cup {NoNode}]
      /\ ~ aborted' /\ Rearranged(heap', heap) /\ Ordered(heap', dist')
      /\ \A m \in Node : m # n => dist'[m] = dist[m] /\ parent'[m] = parent[m]
      /\ dist'[n] <= dist[n] /\ dist'[n] <= dist[u] + Delay(l)
      /\ \/ dist' = dist /\ parent' = parent
         \/ /\ dist'[n] = dist[u] + Delay(l) /\ parent'[n] = u /\ dist[u] + Delay(l) < dist[n]
            /\ n \notin Settled /\ (n \in Nodes(heap) \/ n \notin Cleared)
  BY <1>0, <1>1, RelaxStep
<1> HIDE DEF n
<1>4. /\ heap' \in Heaps /\ Placed(heap') /\ heap'.size = heap.size
      /\ Nodes(heap') = Nodes(heap) /\ SameIndices(Nodes(heap), heap', heap)
  BY <1>3 DEF Rearranged
<1>5. /\ Links' = Links /\ src' = src /\ dst' = dst /\ Cleared' = Cleared
      /\ AtInfinity' = AtInfinity /\ Settled' = Settled /\ Settled \subseteq Node
      /\ Nodes(heap) \subseteq Node /\ \A m : Delay(m)' = Delay(m)
  <2>1. Links' = Links /\ src' = src /\ dst' = dst
    BY <1>0 DEF Links, src, dst
  <2>2. Cleared' = Cleared /\ AtInfinity' = AtInfinity
    BY <2>1 DEF Cleared, AtInfinity
  <2>3. Settled' = Settled
    BY <1>4, <2>2 DEF Settled
  <2>4. Settled \subseteq Node /\ Nodes(heap) \subseteq Node
    BY <1>1, ClearedFacts DEF Settled, HeapKept
  <2>5. \A m : Delay(m)' = Delay(m)
    BY <1>0 DEF Delay
  <2> QED BY <2>1, <2>2, <2>3, <2>4, <2>5
<1>6. \A m \in Node : dist[m] \in Nat /\ dist'[m] \in Nat /\ dist'[m] <= dist[m]
  <2>1. dist \in [Node -> Nat] /\ dist' \in [Node -> Nat]
    BY <1>1, <1>3, Distances
  <2>2. ASSUME NEW m \in Node PROVE dist[m] \in Nat /\ dist'[m] \in Nat /\ dist'[m] <= dist[m]
    <3>1. dist[m] \in Nat /\ dist'[m] \in Nat
      BY <2>1
    <3> QED BY <1>3, <3>1
  <2> QED BY <2>2
<1>7. \A m \in Settled : dist'[m] = dist[m] /\ parent'[m] = parent[m]
  BY <1>3, <1>5
<1>8. Types'
  <2>0. strayed' \in BOOLEAN /\ aborted' \in BOOLEAN
    <3>1. strayed \in BOOLEAN /\ aborted \in BOOLEAN
      BY <1>1 DEF Types, TypeOK
    <3> QED BY <3>1 DEF Relax
  <2>1. TypeOK'
    BY <1>0, <1>1, <1>3, <1>4, <1>5, <2>0 DEF Types, TypeOK, Heaps
  <2> QED BY <1>0, <1>1, <1>4, <1>5, <2>1 DEF Types
<1>9. AtRest'
  <2>1. searched \subseteq Node
    BY <1>1, TypeFacts, NodeFacts
  <2> QED BY <1>0, <1>1, <1>4, <2>1 DEF AtRest, SameIndices
<1>10. Found'
  BY <1>0, <1>1, FoundStays
<1>11. HeapKept'
  BY <1>1, <1>3, <1>4, <1>5 DEF HeapKept
<1>12. Frontier'
  <2>1. /\ todo \subseteq LooksAt(u)
        /\ \A m \in Nodes(heap) : dist[m] >= dist[u]
        /\ \A m \in Settled : dist[m] <= dist[u]
    BY <1>1 DEF Frontier
  <2>2. todo' \subseteq LooksAt(u)'
    BY <1>0, <1>5, <2>1 DEF LooksAt
  <2>3. ASSUME NEW m \in Nodes(heap') PROVE dist'[m] >= dist'[u]
    <3>1. m \in Nodes(heap) /\ m \in Node /\ dist'[u] = dist[u] /\ dist[m] >= dist[u]
      BY <1>2, <1>4, <1>5, <1>7, <2>1
    <3>2. dist'[m] = dist[m] \/ dist'[m] = dist[u] + Delay(l)
      BY <1>3, <3>1
    <3> QED BY <1>2, <1>6, <3>1, <3>2
  <2>4. \A m \in Settled' : dist'[m] <= dist'[u]
    BY <1>2, <1>5, <1>7, <2>1
  <2> QED BY <1>0, <1>2, <1>5, <2>2, <2>3, <2>4 DEF Frontier
<1>13. Relaxed'
  <2> SUFFICES ASSUME NEW k \in Links' \ downs', k[1] \in Settled', k \notin todo'
               PROVE  dist'[k[2]] <= dist'[k[1]] + Delay(k)'
    BY DEF Relaxed
  <2>1. /\ k \in Links \ downs /\ k[1] \in Settled /\ dist'[k[1]] = dist[k[1]]
        /\ Delay(k)' = Delay(k) /\ (k = l \/ k \notin todo)
    BY <1>0, <1>5, <1>7
  <2>2. k[1] \in Node /\ k[2] \in Node /\ Delay(k) \in Nat
    BY <1>1, <2>1, LinkFacts
  <2>3. CASE k = l
    BY <1>2, <1>3, <2>1, <2>3
  <2>4. CASE k # l
    <3>1. dist[k[2]] <= dist[k[1]] + Delay(k)
      BY <1>1, <2>1, <2>4 DEF Relaxed
    <3> QED BY <1>6, <2>1, <2>2, <3>1
  <2> QED BY <2>3, <2>4
<1>14. Tree'
  <2>1. AtInfinity \subseteq Node /\ src \in Node /\ src \in Cleared /\ NoNode \notin Node
    BY <1>1, ClearedFacts, Numbers
  <2>2. dist'[src] = 0 /\ parent'[src] = NoNode
    <3>1. dist[src] = 0 /\ parent[src] = NoNode
      BY <1>1 DEF Tree
    <3>2. CASE n # src
      BY <1>3, <2>1, <3>1, <3>2
    <3>3. CASE n = src
      <4>1. ~ (dist[u] + Delay(l) < dist[n])
        BY <1>2, <3>1, <3>3
      <4> QED BY <1>3, <3>1, <4>1
    <3> QED BY <3>2, <3>3
  <2>3. ASSUME NEW m \in AtInfinity
        PROVE  \/ parent'[m] = NoNode /\ dist'[m] = Infinity
               \/ parent'[m] # NoNode /\ Child(m)'
    <3>1. \/ parent[m] = NoNode /\ dist[m] = Infinity
          \/ parent[m] # NoNode /\ Child(m)
      BY <1>1 DEF Tree
    <3>2. CASE dist'[m] = dist[m] /\ parent'[m] = parent[m]
      <4>1. Child(m) => Child(m)'
        BY <1>0, <1>5, <1>7, <3>2 DEF Child
      <4> QED BY <3>1, <3>2, <4>1
    <3>3. CASE ~ (dist'[m] = dist[m] /\ parent'[m] = parent[m])
      <4>1. m = n /\ parent'[n] = u /\ dist'[n] = dist[u] + Delay(l)
        BY <1>3, <2>1, <3>3
      <4>2. /\ u \in Settled' /\ <<u, n>> \in Links' \ downs' /\ dist'[u] = dist[u]
            /\ Delay(l) = sky'.delay[{u, n}]
        BY <1>0, <1>2, <1>5, <1>7 DEF Delay
      <4>3. /\ parent'[m] \in Settled' /\ <<parent'[m], m>> \in Links' \ downs'
            /\ dist'[m] = dist'[parent'[m]] + sky'.delay[{parent'[m], m}]
        BY <4>1, <4>2
      <4>4. Child(m)'
        BY <4>3 DEF Child, Delay
      <4> QED BY <1>2, <2>1, <4>1, <4>4
    <3> QED BY <3>2, <3>3
  <2> QED BY <1>5, <2>2, <2>3 DEF Tree
<1>15. Ranked'
  <2>1. PICK rank : Ranks(rank)
    BY <1>1 DEF Ranked
  <2> DEFINE k == Len(Sats) + 2 - heap.size
  <2>2. /\ rank \in [Node -> Nat]
        /\ \A m \in Settled : rank[m] < k
        /\ \A m \in Nodes(heap) : rank[m] = k
        /\ \A m \in Cleared : parent[m] # NoNode => rank[parent[m]] < rank[m]
    BY <2>1 DEF Ranks
  <2>3. Len(Sats) + 2 - heap'.size = k
    BY <1>4
  <2> HIDE DEF k
  <2>4. ASSUME NEW m \in Cleared, parent'[m] # NoNode PROVE rank[parent'[m]] < rank[m]
    <3>0. m \in Node
      BY <1>1, ClearedFacts
    <3>1. CASE parent'[m] = parent[m]
      BY <2>2, <2>4, <3>1
    <3>2. CASE parent'[m] # parent[m]
      <4>1. m = n /\ parent'[m] = u /\ n \in Nodes(heap)
        BY <1>3, <3>0, <3>2
      <4> QED BY <1>2, <2>2, <4>1
    <3> QED BY <3>1, <3>2
  <2>5. Ranks(rank)'
    <3>1. /\ \A m \in Settled' : rank[m] < Len(Sats) + 2 - heap'.size
          /\ \A m \in Nodes(heap') : rank[m] = Len(Sats) + 2 - heap'.size
      BY <1>4, <1>5, <2>2, <2>3
    <3>2. \A m \in Cleared' : parent'[m] # NoNode => rank[parent'[m]] < rank[m]
      BY <1>5, <2>4
    <3> QED BY <2>2, <3>1, <3>2 DEF Ranks
  <2> QED BY <2>5 DEF Ranked
<1> QED BY <1>0, <1>3, <1>8, <1>9, <1>10, <1>11, <1>12, <1>13, <1>14, <1>15
        DEF RouteInv, Searching

-----------------------------------------------------------------------------
(* The nodes in the order in which a search puts them into its heap. *)
LEMMA SearchedNodes ==
  ASSUME Types
  PROVE  LET q == <<src>> \o Sats \o <<dst>>
         IN  /\ q \in Seq(Node) /\ Len(q) = Len(Sats) + 2
             /\ q[1] = src /\ \A i \in 2 .. Len(q) : q[i] \in AtInfinity
             /\ \A i, j \in 1 .. Len(q) : q[i] = q[j] => i = j
             /\ {q[i] : i \in 1 .. Len(q)} = Cleared
<1> DEFINE m == Len(Sats)
           p == <<src>> \o Sats
           q == p \o <<dst>>
<1>1. /\ src \in Node /\ dst \in Node /\ src # dst /\ src \notin SatSet /\ dst \notin SatSet
      /\ Sats \in Seq(SatSet) /\ Sats \in Seq(Node) /\ m \in Nat
      /\ SatSet = {Sats[i] : i \in 1 .. m}
      /\ \A i, j \in 1 .. m : Sats[i] = Sats[j] => i = j
  <2>1. src \in Cities /\ dst \in Cities /\ src # dst
    BY TypeFacts
  <2>2. \A s : s \in Seq(SatSet) => s \in Seq(Node)
    BY NodeFacts, SeqMonotonic
  <2> QED BY <2>1, <2>2, NodeFacts, Satellites, Numbers
<1>2. /\ <<src>> \in Seq(Node) /\ Len(<<src>>) = 1 /\ <<src>>[1] = src
      /\ <<dst>> \in Seq(Node) /\ Len(<<dst>>) = 1 /\ <<dst>>[1] = dst
  BY <1>1
<1>3. /\ p \in Seq(Node) /\ Len(p) = m + 1
      /\ \A i \in 1 .. m + 1 : p[i] = IF i <= 1 THEN src ELSE Sats[i - 1]
  <2>1. /\ p \in Seq(Node) /\ Len(p) = 1 + m
        /\ \A i \in 1 .. 1 + m : p[i] = IF i <= 1 THEN <<src>>[i] ELSE Sats[i - 1]
    BY <1>1, <1>2, ConcatProperties
  <2> HIDE DEF p
  <2> QED BY <1>1, <1>2, <2>1
<1> HIDE DEF p
<1>4. /\ q \in Seq(Node) /\ Len(q) = m + 2
      /\ \A i \in 1 .. m + 2 : q[i] = IF i <= m + 1 THEN p[i] ELSE dst
  <2>1. /\ q \in Seq(Node) /\ Len(q) = Len(p) + 1
        /\ \A i \in 1 .. Len(p) + 1 : q[i] = IF i <= Len(p) THEN p[i] ELSE <<dst>>[i - Len(p)]
    BY <1>2, <1>3, ConcatProperties
  <2> HIDE DEF q
  <2>2. \A i \in 1 .. m + 2 : i > m + 1 => i - (m + 1) = 1
    BY <1>1
  <2> QED BY <1>1, <1>2, <1>3, <2>1, <2>2
<1> HIDE DEF q
<1>5. /\ q[1] = src /\ q[m + 2] = dst /\ \A i \in 2 .. m + 1 : q[i] = Sats[i - 1]
  <2> HIDE DEF m
  <2>1. 1 \in 1 .. m + 1 /\ 1 \in 1 .. m + 2 /\ m + 2 \in 1 .. m + 2 /\ ~ (m + 2 <= m + 1)
    BY <1>1
  <2>2. q[1] = src /\ q[m + 2] = dst
    BY <1>1, <1>3, <1>4, <2>1
  <2>3. ASSUME NEW i \in 2 .. m + 1 PROVE q[i] = Sats[i - 1]
    <3>1. i \in 1 .. m + 1 /\ i \in 1 .. m + 2 /\ ~ (i <= 1) /\ i <= m + 1
      BY <1>1
    <3> QED BY <1>3, <1>4, <3>1
  <2> QED BY <2>2, <2>3
<1>6. \A i \in 2 .. m + 1 : i - 1 \in 1 .. m /\ q[i] \in SatSet
  <2> HIDE DEF m
  <2> SUFFICES ASSUME NEW i \in 2 .. m + 1 PROVE i - 1 \in 1 .. m /\ q[i] \in SatSet
    OBVIOUS
  <2>1. i - 1 \in 1 .. m
    BY <1>1
  <2> QED BY <1>1, <1>5, <2>1
<1>7. \A i \in 1 .. m + 2 : i = 1 \/ i = m + 2 \/ i \in 2 .. m + 1
  BY <1>1
<1>8. ASSUME NEW i \in 1 .. m + 2, NEW j \in 1 .. m + 2, q[i] = q[j] PROVE i = j
  <2>1. CASE i \in 2 .. m + 1 /\ j \in 2 .. m + 1
    <3>1. i - 1 \in 1 .. m /\ j - 1 \in 1 .. m /\ i \in Nat /\ j \in Nat
      BY <1>6, <2>1
    <3>2. Sats[i - 1] = Sats[j - 1]
      BY <1>5, <1>8, <2>1
    <3>3. i - 1 = j - 1
      BY <1>1, <3>1, <3>2
    <3> QED BY <3>1, <3>3
  <2>2. CASE ~ (i \in 2 .. m + 1 /\ j \in 2 .. m + 1)
    BY <1>1, <1>5, <1>6, <1>7, <1>8, <2>2
  <2> QED BY <2>1, <2>2
<1>9. \A i \in 2 .. m + 2 : q[i] \in AtInfinity
  BY <1>1, <1>5, <1>6, <1>7 DEF AtInfinity
<1>10. {q[i] : i \in 1 .. m + 2} = Cleared
  <2>1. \A i \in 1 .. m + 2 : q[i] \in Cleared
    BY <1>5, <1>6, <1>7 DEF Cleared
  <2>2. ASSUME NEW n \in Cleared PROVE \E i \in 1 .. m + 2 : q[i] = n
    <3>1. CASE n = src
      BY <1>1, <1>5, <3>1
    <3>2. CASE n = dst
      BY <1>1, <1>5, <3>2
    <3>3. CASE n \in SatSet
      <4>1. PICK i \in 1 .. m : Sats[i] = n
        BY <1>1, <3>3
      <4>2. i + 1 \in 2 .. m + 1 /\ i + 1 \in 1 .. m + 2 /\ (i + 1) - 1 = i
        BY <1>1
      <4>3. q[i + 1] = n
        BY <1>5, <4>1, <4>2
      <4> QED BY <4>2, <4>3
    <3> QED BY <3>1, <3>2, <3>3 DEF Cleared
  <2> HIDE DEF m
  <2> QED BY <2>1, <2>2
<1> QED BY <1>4, <1>5, <1>8, <1>9, <1>10 DEF q, p

(* The updates drop only links out of range, and make none that is there   *)
(* for them.                                                               *)
LEMMA UpdatesKeep ==
  ASSUME Types, NEW a \in Updates(src), NEW b \in Updates(dst),
         linked' = [linked EXCEPT ![src] = a, ![dst] = b]
  PROVE  /\ linked' \in [Cities -> SUBSET SatSet]
         /\ \A l : l \in Links /\ l \notin Links' => Gone(l)
         /\ \A l : l \notin Links /\ Gone(l) => l \notin Links'
<1>1. /\ src \in Cities /\ dst \in Cities /\ src # dst
      /\ linked \in [Cities -> SUBSET SatSet] /\ sky.inRange \in [Cities -> SUBSET SatSet]
  BY TypeFacts, RouteSearchAssumption DEF SatSet
<1>2. \A c \in Cities : /\ linked[c] \cap sky.inRange[c] \subseteq linked'[c]
                        /\ linked'[c] \subseteq linked[c] \cup sky.inRange[c]
  <2>1. /\ a \subseteq linked[src] \cup sky.inRange[src]
        /\ linked[src] \cap sky.inRange[src] \subseteq a
        /\ b \subseteq linked[dst] \cup sky.inRange[dst]
        /\ linked[dst] \cap sky.inRange[dst] \subseteq b
    BY DEF Updates
  <2>2. ASSUME NEW c \in Cities
        PROVE  linked'[c] = IF c = dst THEN b ELSE IF c = src THEN a ELSE linked[c]
    BY <1>1
  <2> QED BY <2>1, <2>2
<1>3. linked' \in [Cities -> SUBSET SatSet]
  <2>1. a \subseteq SatSet /\ b \subseteq SatSet
    BY <1>1 DEF Updates
  <2> QED BY <1>1, <2>1
<1>4. ASSUME NEW l, l \in Links, l \notin Links' PROVE Gone(l)
  <2>1. l \notin Isls
    BY <1>4, LinkKindsAfter
  <2>2. PICK c \in Cities : \E s \in linked[c] : l = <<c, s>> \/ l = <<s, c>>
    BY <1>4, <2>1, LinkKinds
  <2>3. PICK s \in linked[c] : l = <<c, s>> \/ l = <<s, c>>
    BY <2>2
  <2>4. s \notin linked'[c]
    BY <1>4, <2>3, LinkKindsAfter
  <2>5. s \in SatSet \ sky.inRange[c]
    BY <1>1, <1>2, <2>4
  <2> QED BY <2>3, <2>5 DEF Gone
<1>5. ASSUME NEW l, l \notin Links, Gone(l), l \in Links' PROVE FALSE
  <2>1. PICK c \in Cities : \E s \in SatSet \ sky.inRange[c] : l = <<c, s>> \/ l = <<s, c>>
    BY <1>5 DEF Gone
  <2>2. PICK s \in SatSet \ sky.inRange[c] : l = <<c, s>> \/ l = <<s, c>>
    BY <2>1
  <2>3. s \notin linked[c]
    BY <1>5, <2>2, LinkKinds
  <2>4. s \notin linked'[c]
    BY <1>2, <2>3
  <2>5. l \notin Isls
    BY <1>5, LinkKinds
  <2>6. PICK d \in Cities : \E t \in linked'[d] : l = <<d, t>> \/ l = <<t, d>>
    BY <1>5, <2>5, LinkKindsAfter
  <2>7. PICK t \in linked'[d] : l = <<d, t>> \/ l = <<t, d>>
    BY <2>6
  <2>8. t \in SatSet /\ s \in SatSet /\ c \notin SatSet /\ d \notin SatSet
    BY <1>3, NodeFacts
  <2>9. c = d /\ s = t
    BY <2>2, <2>7, <2>8
  <2> QED BY <2>4, <2>9
<1> QED BY <1>3, <1>4, <1>5

(* Routes keep their links from the next search, or have lost them.        *)
LEMMA BeginFound ==
  ASSUME Types, Found, UNCHANGED <<sky, ends, routes>>,
         \A l : l \in Links /\ l \notin Links' => Gone(l),
         \A l : l \notin Links /\ Gone(l) => l \notin Links',
         downs' = downs \cap (Links \cap Links')
  PROVE  Found'
<1>1. \A r : Route(r)' <=> Route(r)
  BY DEF Route, src, dst
<1>2. \A l : Gone(l)' <=> Gone(l)
  BY DEF Gone
<1>3. ASSUME NEW l, Kept(l) PROVE Kept(l)'
  <2>1. CASE l \in downs
    <3>1. l \in Links
      BY <2>1, TypeFacts
    <3> QED BY <1>2, <2>1, <3>1 DEF Kept
  <2>2. CASE l \notin downs
    <3>1. l \notin Links /\ Gone(l)
      BY <1>3, <2>2 DEF Kept
    <3>2. l \notin Links' /\ Gone(l)'
      BY <1>2, <3>1
    <3> QED BY <3>2 DEF Kept
  <2> QED BY <2>1, <2>2
<1> QED BY <1>1, <1>3 DEF Found

(* A search begins with all its nodes in the heap, the source first. *)
LEMMA BeginSearchHolds ==
  ASSUME RouteInv, BeginSearch
  PROVE  RouteInv'
<1> SUFFICES ASSUME ~ strayed' PROVE RouteInv'
  BY DEF RouteInv
<1> DEFINE q == <<src>> \o Sats \o <<dst>>
<1>0. /\ Types /\ AtRest /\ Found /\ ~ aborted /\ phase = "next"
      /\ heap.size = 0 /\ u = NoNode /\ todo = {}
  BY DEF BeginSearch, RouteInv, AtRest
<1>1. /\ \E a \in Updates(src), b \in Updates(dst) :
           linked' = [linked EXCEPT ![src] = a, ![dst] = b]
      /\ downs' = downs \cap (Links \cap Links')
      /\ heap' = InsertAll(heap, q)
      /\ dist' = [n \in Node |-> IF n = src THEN 0
                                 ELSE IF n \in AtInfinity THEN Infinity ELSE dist[n]]
      /\ parent' = [n \in Node |-> IF n \in Cleared THEN NoNode ELSE parent[n]]
      /\ phase' = "search" /\ searched' = searched \cup {src, dst}
      /\ UNCHANGED <<sky, ends, u, todo, calls, routes, strayed, aborted>>
  <2>1. ~ (heap.size > 0)
    BY <1>0
  <2> QED BY <2>1 DEF BeginSearch
<1>2. /\ q \in Seq(Node) /\ Len(q) = Len(Sats) + 2 /\ Len(Sats) \in Nat
      /\ q[1] = src /\ \A i \in 2 .. Len(q) : q[i] \in AtInfinity
      /\ \A i, j \in 1 .. Len(q) : q[i] = q[j] => i = j
      /\ {q[i] : i \in 1 .. Len(q)} = Cleared
  BY <1>0, SearchedNodes, Numbers
<1> HIDE DEF q
<1>3. /\ heap' \in Heaps /\ heap'.size = Len(q) /\ Placed(heap')
      /\ \A i \in 0 .. Len(q) - 1 : heap'.cells[i] = q[i + 1]
      /\ Nodes(heap') = {q[i] : i \in 1 .. Len(q)}
      /\ SameIndices(Nodes(heap'), heap', heap)
  <2>1. heap \in Heaps /\ Len(q) <= Len(Sats) + 2
    BY <1>0, <1>2, TypeFacts
  <2> QED BY <1>0, <1>1, <1>2, <2>1, InsertAllProperties
<1>4. heap'.size = Len(Sats) + 2 /\ Nodes(heap') = Cleared
  BY <1>2, <1>3
<1>5. /\ linked' \in [Cities -> SUBSET SatSet]
      /\ \A l : l \in Links /\ l \notin Links' => Gone(l)
      /\ \A l : l \notin Links /\ Gone(l) => l \notin Links'
  <2>1. PICK a \in Updates(src), b \in Updates(dst) :
          linked' = [linked EXCEPT ![src] = a, ![dst] = b]
    BY <1>1
  <2> QED BY <1>0, <2>1, UpdatesKeep
<1>6. /\ src' = src /\ dst' = dst /\ Cleared' = Cleared /\ AtInfinity' = AtInfinity
      /\ Settled' = {}
  <2>1. src' = src /\ dst' = dst
    BY <1>1 DEF src, dst
  <2>2. Cleared' = Cleared /\ AtInfinity' = AtInfinity
    BY <2>1 DEF Cleared, AtInfinity
  <2> QED BY <1>4, <2>1, <2>2 DEF Settled
<1>7. /\ Cleared \subseteq Node /\ AtInfinity \subseteq Node /\ src \in Node
      /\ Cleared = AtInfinity \cup {src} /\ src \notin AtInfinity
      /\ src \in Cities /\ dst \in Cities /\ src # dst
      /\ Infinity \in Nat /\ dist \in [Node -> 0 .. Infinity] /\ searched \subseteq Cities
      /\ parent \in [Node -> Node \cup {NoNode}]
  BY <1>0, ClearedFacts, TypeFacts, Distances
<1>8. /\ dist' \in [Node -> 0 .. Infinity] /\ dist'[src] = 0
      /\ \A n \in AtInfinity : dist'[n] = Infinity
  BY <1>1, <1>7
<1>9. /\ parent' \in [Node -> Node \cup {NoNode}]
      /\ \A n \in Cleared : parent'[n] = NoNode
  BY <1>1, <1>7
<1>10. Types'
  <2>1. TypeOK'
    BY <1>0, <1>1, <1>3, <1>5, <1>7, <1>8, <1>9 DEF Types, TypeOK, Heaps
  <2> QED BY <1>0, <1>1, <1>3, <1>6, <2>1 DEF Types
<1>11. AtRest'
  <2>1. Nodes(heap) = {}
    BY <1>0 DEF Nodes
  <2>2. ASSUME NEW n \in searched', n \notin Nodes(heap') PROVE heap'.ix[n] = 0
    <3>1. n \in searched /\ n \in Node
      BY <1>1, <1>4, <1>7, <2>2, NodeFacts DEF Cleared
    <3>2. heap'.ix[n] = heap.ix[n]
      BY <1>3, <2>2, <3>1 DEF SameIndices
    <3> QED BY <1>0, <2>1, <3>1, <3>2 DEF AtRest
  <2> QED BY <1>1, <2>2 DEF AtRest
<1>12. Found'
  BY <1>0, <1>1, <1>5, BeginFound
<1>13. HeapKept'
  <2>1. Ordered(heap', dist')
    <3> SUFFICES ASSUME NEW j \in 0 .. heap'.size - 1, j # 0
                 PROVE  ~ (dist'[heap'.cells[Parent(j)]] > dist'[heap'.cells[j]])
      BY DEF Ordered, Above
    <3>1. j \in Nat
      OBVIOUS
    <3>2. Parent(j) \in Nat /\ Parent(j) < j
      BY <3>1, Family
    <3>3. /\ j \in 0 .. Len(q) - 1 /\ j + 1 \in 2 .. Len(q)
          /\ Parent(j) \in 0 .. Len(q) - 1 /\ Parent(j) + 1 \in 1 .. Len(q)
      BY <1>2, <1>3, <3>2
    <3>4. dist'[heap'.cells[j]] = Infinity
      BY <1>2, <1>3, <1>8, <3>3
    <3>5. heap'.cells[Parent(j)] \in Node
      BY <1>3, <3>3 DEF Placed
    <3>6. dist'[heap'.cells[Parent(j)]] \in 0 .. Infinity
      BY <1>8, <3>5
    <3> QED BY <1>7, <3>4, <3>6
  <2> QED BY <1>3, <1>4, <1>6, <2>1 DEF HeapKept
<1>14. Frontier'
  BY <1>0, <1>1, <1>6 DEF Frontier
<1>15. Relaxed'
  BY <1>6 DEF Relaxed
<1>16. Tree'
  BY <1>6, <1>7, <1>8, <1>9 DEF Tree
<1>17. Ranked'
  <2> DEFINE rank == [n \in Node |-> 0]
  <2>1. /\ rank \in [Node -> Nat]
        /\ \A n \in Nodes(heap') : rank[n] = Len(Sats) + 2 - heap'.size
        /\ \A n \in Cleared' : parent'[n] = NoNode
    BY <1>2, <1>4, <1>6, <1>7, <1>9
  <2> HIDE DEF rank
  <2>2. Ranks(rank)'
    BY <1>6, <2>1 DEF Ranks
  <2> QED BY <2>2 DEF Ranked
<1> QED BY <1>0, <1>1, <1>10, <1>11, <1>12, <1>13, <1>14, <1>15, <1>16, <1>17
        DEF RouteInv, Searching

-----------------------------------------------------------------------------
(* find_route() goes back parent by parent. *)
LEMMA AncestorsProperties ==
  ASSUME Types, NEW n \in Node
  PROVE  LET N == Cardinality(Node)
             b == Ancestors(n)
         IN  /\ N \in Nat /\ b \in [0 .. N -> Node \cup {NoNode}] /\ b[0] = n
             /\ \A k \in 1 .. N : b[k] = IF b[k - 1] \in {src, NoNode} THEN NoNode
                                         ELSE parent[b[k - 1]]
<1> DEFINE N == Cardinality(Node)
           S == Node \cup {NoNode}
           One(p) == IF p \in {src, NoNode} THEN NoNode ELSE parent[p]
           Rec(g) == [k \in 0 .. N |-> IF k = 0 THEN n ELSE One(g[k - 1])]
           b == CHOOSE g : g = Rec(g)
           step == [k \in 1 .. N |-> [p \in S |-> One(p)]]
<1>1. N \in Nat /\ parent \in [Node -> S]
  BY NodeFacts, TypeFacts
<1>2. Ancestors(n) = b
  BY DEF Ancestors
<1> HIDE DEF N
<1>3. \A p \in S : One(p) \in S
  BY <1>1
<1>4. \A k \in 1 .. N : \A p \in S : step[k][p] \in S
  BY <1>3
<1>5. n \in S
  OBVIOUS
<1> HIDE DEF One, S, step
<1>6. PICK f : Iterated(f, N, S, n, step)
  BY <1>1, <1>4, <1>5, Iterates
<1>7. ASSUME NEW k \in 1 .. N PROVE f[k] = One(f[k - 1])
  <2>1. k - 1 \in 0 .. N
    BY <1>1
  <2>2. f[k - 1] \in S /\ f[k] = step[k][f[k - 1]]
    BY <1>6, <2>1 DEF Iterated
  <2> QED BY <2>2 DEF step
<1>8. f = Rec(f)
  <2>1. \A k \in 0 .. N : k # 0 => k \in 1 .. N
    BY <1>1
  <2>2. \A k \in 0 .. N : f[k] = IF k = 0 THEN n ELSE One(f[k - 1])
    BY <1>6, <1>7, <2>1 DEF Iterated
  <2> QED BY <1>6, <2>2 DEF Iterated
<1>9. b = Rec(b)
  BY <1>8
<1> HIDE DEF b
<1>10. b[0] = n /\ \A k \in 1 .. N : b[k] = One(b[k - 1])
  BY <1>1, <1>9
<1>11. \A k \in 0 .. N : b[k] \in S
  <2> DEFINE P == {k \in 0 .. N : b[k] \in S}
  <2>1. 0 \in P /\ \A k \in 1 .. N : k - 1 \in P => k \in P
    BY <1>1, <1>3, <1>5, <1>10
  <2> HIDE DEF P
  <2>2. \A k \in 0 .. N : k \in P
    BY <1>1, <2>1, UpTo, Zenon
  <2> QED BY <2>2 DEF P
<1>12. b \in [0 .. N -> S]
  <2>1. b = [k \in 0 .. N |-> b[k]]
    BY <1>9
  <2> QED BY <1>11, <2>1
<1> QED BY <1>1, <1>2, <1>10, <1>12 DEF N, One, S

(* The way back from the destination over nodes that are all settled is a  *)
(* route: the ranks go down, so no node is passed twice, and every link on *)
(* it is on offer.                                                         *)
LEMMA WayBack ==
  ASSUME Types, Tree, Ranked, heap.size = 0, Ended(dst) # {}, Back(dst)[1] = src
  PROVE  Route(Back(dst)) /\ Edges(Back(dst)) \subseteq Links \ downs
<1> DEFINE N == Cardinality(Node)
           b == Ancestors(dst)
           m == Min(Ended(dst))
           r == Back(dst)
<1>0. /\ src \in Node /\ dst \in Node /\ dst \in AtInfinity /\ NoNode \notin Node
      /\ dst # src /\ Cleared \subseteq Node /\ Cleared = AtInfinity \cup {src}
  BY TypeFacts, NodeFacts, ClearedFacts, Numbers DEF AtInfinity
<1>1. /\ N \in Nat /\ b \in [0 .. N -> Node \cup {NoNode}] /\ b[0] = dst
      /\ \A k \in 1 .. N : b[k] = IF b[k - 1] \in {src, NoNode} THEN NoNode
                                  ELSE parent[b[k - 1]]
  BY <1>0, AncestorsProperties
<1>2. /\ m \in 1 .. N /\ b[m] = NoNode /\ \A k \in 0 .. m - 1 : b[k] # NoNode
  <2>1. Ended(dst) = {k \in 0 .. N : b[k] = NoNode}
    BY DEF Ended
  <2>2. Ended(dst) \in SUBSET Nat
    BY <1>1, <2>1
  <2>3. m \in Ended(dst) /\ \A k \in Ended(dst) : m <= k
    BY <2>2, MinProperties
  <2> HIDE DEF m, b, N
  <2>4. m \in 0 .. N /\ b[m] = NoNode
    BY <2>1, <2>3
  <2>5. m # 0
    BY <1>0, <1>1, <2>4
  <2>6. ASSUME NEW k \in 0 .. m - 1, b[k] = NoNode PROVE FALSE
    <3>1. k \in 0 .. N /\ ~ (m <= k)
      BY <1>1, <2>4
    <3> QED BY <2>1, <2>3, <2>6, <3>1
  <2> QED BY <1>1, <2>4, <2>5, <2>6
<1>3. r = [i \in 1 .. m |-> b[m - i]]
  BY DEF Back
<1> HIDE DEF m, b, r, N
<1>4. Settled = Cleared
  BY DEF Settled, Nodes
<1>5. PICK rank : /\ rank \in [Node -> Nat]
                  /\ \A n \in Cleared : parent[n] # NoNode => rank[parent[n]] < rank[n]
  BY DEF Ranked, Ranks
<1>6. \A k \in 0 .. m - 1 : b[k] \in Cleared
  <2> DEFINE P == {k \in 0 .. m - 1 : b[k] \in Cleared}
  <2>1. 0 \in P
    BY <1>0, <1>1, <1>2
  <2>2. ASSUME NEW k \in 1 .. m - 1, k - 1 \in P PROVE k \in P
    <3>1. k \in 1 .. N /\ k - 1 \in 0 .. m - 1 /\ k \in 0 .. m - 1
      BY <1>1, <1>2
    <3>2. b[k] # NoNode /\ b[k - 1] \in Cleared
      BY <1>2, <2>2, <3>1
    <3>3. b[k - 1] # src /\ b[k] = parent[b[k - 1]]
      BY <1>1, <3>1, <3>2
    <3>4. b[k - 1] \in AtInfinity
      BY <1>0, <3>2, <3>3
    <3>5. b[k] \in Settled
      BY <3>2, <3>3, <3>4 DEF Tree, Child
    <3> QED BY <1>4, <3>1, <3>5
  <2> HIDE DEF P
  <2>3. \A k \in 0 .. m - 1 : k \in P
    <3>1. m - 1 \in Nat
      BY <1>1, <1>2
    <3>2. \A k \in 1 .. m - 1 : k - 1 \in P => k \in P
      BY <2>2
    <3> QED BY <2>1, <3>1, <3>2, UpTo
  <2> QED BY <2>3 DEF P
<1>7. ASSUME NEW k \in 1 .. m - 1
      PROVE  /\ b[k - 1] # src /\ <<b[k], b[k - 1]>> \in Links \ downs
             /\ rank[b[k]] < rank[b[k - 1]]
  <2>1. k \in 1 .. N /\ k - 1 \in 0 .. m - 1 /\ k \in 0 .. m - 1
    BY <1>1, <1>2
  <2>2. b[k] # NoNode /\ b[k - 1] \in Cleared
    BY <1>2, <1>6, <2>1
  <2>3. b[k - 1] # src /\ b[k] = parent[b[k - 1]]
    BY <1>1, <1>2, <2>1, <2>2
  <2>4. b[k - 1] \in AtInfinity
    BY <1>0, <2>2, <2>3
  <2>5. Child(b[k - 1])
    BY <2>2, <2>3, <2>4 DEF Tree
  <2> QED BY <1>5, <2>2, <2>3, <2>5 DEF Child
<1>8. \A j \in 0 .. m - 1 : \A i \in 0 .. j - 1 : rank[b[j]] < rank[b[i]]
  <2> DEFINE P == {j \in 0 .. m - 1 : \A i \in 0 .. j - 1 : rank[b[j]] < rank[b[i]]}
  <2>1. 0 \in P
    BY <1>1, <1>2
  <2>2. ASSUME NEW j \in 1 .. m - 1, j - 1 \in P PROVE j \in P
    <3>1. j \in 0 .. m - 1 /\ j - 1 \in 0 .. m - 1 /\ rank[b[j]] < rank[b[j - 1]]
      <4>1. j \in 0 .. m - 1 /\ j - 1 \in 0 .. m - 1
        BY <1>1, <1>2
      <4> QED BY <1>7, <4>1
    <3>2. ASSUME NEW i \in 0 .. j - 1 PROVE rank[b[j]] < rank[b[i]]
      <4>1. i \in 0 .. m - 1
        BY <1>1, <1>2
      <4>2. rank[b[i]] \in Nat /\ rank[b[j]] \in Nat /\ rank[b[j - 1]] \in Nat
        BY <1>0, <1>5, <1>6, <3>1, <4>1
      <4>3. CASE i = j - 1
        BY <3>1, <4>3
      <4>4. CASE i # j - 1
        <5>1. i \in 0 .. (j - 1) - 1
          BY <1>1, <1>2, <4>4
        <5>2. rank[b[j - 1]] < rank[b[i]]
          BY <2>2, <5>1
        <5> QED BY <3>1, <4>2, <5>2
      <4> QED BY <4>3, <4>4
    <3> QED BY <3>1, <3>2
  <2> HIDE DEF P
  <2>3. \A k \in 0 .. m - 1 : k \in P
    <3>1. m - 1 \in Nat
      BY <1>1, <1>2
    <3>2. \A k \in 1 .. m - 1 : k - 1 \in P => k \in P
      BY <2>2
    <3> QED BY <2>1, <3>1, <3>2, UpTo
  <2> QED BY <2>3 DEF P
<1>9. \A i, j \in 0 .. m - 1 : b[i] = b[j] => i = j
  <2> SUFFICES ASSUME NEW i \in 0 .. m - 1, NEW j \in 0 .. m - 1, b[i] = b[j], i # j
               PROVE  FALSE
    OBVIOUS
  <2>1. rank[b[i]] \in Nat /\ rank[b[j]] \in Nat /\ m \in Nat
    BY <1>0, <1>1, <1>2, <1>5, <1>6
  <2>2. CASE i < j
    <3>1. i \in 0 .. j - 1
      BY <2>1, <2>2
    <3> QED BY <1>8, <2>1, <3>1
  <2>3. CASE ~ (i < j)
    <3>1. j \in 0 .. i - 1
      BY <2>1, <2>3
    <3> QED BY <1>8, <2>1, <3>1
  <2> QED BY <2>2, <2>3
<1>10. /\ m \in Nat /\ r \in Seq(Node) /\ Len(r) = m
       /\ \A i \in 1 .. m : m - i \in 0 .. m - 1 /\ r[i] = b[m - i]
  <2>1. m \in Nat /\ \A i \in 1 .. m : m - i \in 0 .. m - 1
    BY <1>1, <1>2
  <2>2. \A i \in 1 .. m : r[i] = b[m - i] /\ r[i] \in Node
    BY <1>0, <1>3, <1>6, <2>1
  <2>3. r \in [1 .. m -> Node]
    BY <1>3, <2>2
  <2> QED BY <2>1, <2>2, <2>3
<1>11. r[m] = dst /\ r[1] = src /\ m >= 1
  BY <1>1, <1>2, <1>10 DEF r
<1>12. \A i, j \in 1 .. m : r[i] = r[j] => i = j
  <2> SUFFICES ASSUME NEW i \in 1 .. m, NEW j \in 1 .. m, r[i] = r[j] PROVE i = j
    OBVIOUS
  <2>1. m - i = m - j
    BY <1>9, <1>10
  <2> QED BY <1>10, <2>1
<1>13. \A j \in 2 .. m - 1 : r[j] \in SatSet
  <2> SUFFICES ASSUME NEW j \in 2 .. m - 1 PROVE r[j] \in SatSet
    OBVIOUS
  <2>1. j \in 1 .. m /\ 1 \in 1 .. m /\ m \in 1 .. m /\ j # 1 /\ j # m
    BY <1>10
  <2>2. r[j] # src /\ r[j] # dst
    BY <1>11, <1>12, <2>1
  <2>3. r[j] \in Cleared
    BY <1>6, <1>10, <2>1
  <2> QED BY <2>2, <2>3 DEF Cleared
<1>14. ASSUME NEW i \in 1 .. m - 1 PROVE <<r[i], r[i + 1]>> \in Links \ downs
  <2>1. i \in 1 .. m /\ i + 1 \in 1 .. m /\ m - i \in 1 .. m - 1 /\ m - (i + 1) = (m - i) - 1
    BY <1>10
  <2>2. r[i] = b[m - i] /\ r[i + 1] = b[(m - i) - 1]
    BY <1>10, <2>1
  <2> QED BY <1>7, <2>1, <2>2
<1>15. Edges(r) \subseteq Links \ downs
  BY <1>10, <1>14 DEF Edges
<1>16. Route(r)
  BY <1>10, <1>11, <1>12, <1>13 DEF Route
<1> QED BY <1>15, <1>16 DEF r

(* find_route() finds a route none of whose links an earlier one has, and  *)
(* takes its links from the next search; or get_paths() ends.              *)
LEMMA FindRouteHolds ==
  ASSUME RouteInv, FindRoute
  PROVE  RouteInv'
<1> SUFFICES ASSUME ~ strayed' PROVE RouteInv'
  BY DEF RouteInv
<1> DEFINE r == Back(dst)
<1>0. /\ phase = "search" /\ ~ aborted /\ todo = {} /\ heap.size = 0 /\ Ended(dst) # {}
      /\ u' = NoNode /\ phase' \in {"idle", "next"}
      /\ UNCHANGED <<sky, linked, dist, parent, heap, ends, todo, calls, searched,
                     strayed, aborted>>
      /\ \/ UNCHANGED <<routes, downs>>
         \/ /\ r[1] = src /\ routes' = Append(routes, r)
            /\ downs' = downs \cup Edges(r)
  BY DEF FindRoute, Taken
<1> HIDE DEF r
<1>1. Types /\ AtRest /\ Found /\ Tree /\ Ranked
  BY <1>0 DEF RouteInv, Searching
<1>2. Links' = Links /\ src' = src /\ dst' = dst
  BY <1>0 DEF Links, src, dst
<1>3. AtRest'
  BY <1>0, <1>1 DEF AtRest
<1>4. /\ downs \subseteq Links /\ routes \in Seq(Seq(Node)) /\ Len(routes) \in Nat
  BY <1>1, TypeFacts
<1>5. ASSUME routes' \in Seq(Seq(Node)), downs' \subseteq Links PROVE Types'
  <2>1. \A i \in DOMAIN routes' : routes'[i] \in Seq(Node)
    <3>1. \A i \in 1 .. Len(routes') : routes'[i] \in Seq(Node)
      BY <1>5
    <3> QED BY <1>5, <3>1, LenProperties
  <2>2. u' \in Node \cup {NoNode} /\ phase' \in {"idle", "next", "search"}
    BY <1>0
  <2>3. TypeOK'
    BY <1>0, <1>1, <1>2, <1>5, <2>1, <2>2 DEF Types, TypeOK
  <2> QED BY <1>0, <1>1, <1>2, <1>5, <2>3 DEF Types
<1>6. CASE UNCHANGED <<routes, downs>>
  <2>1. Types'
    BY <1>4, <1>5, <1>6
  <2>2. Found'
    BY <1>0, <1>1, <1>6, FoundStays
  <2> QED BY <1>0, <1>3, <2>1, <2>2 DEF RouteInv
<1>7. CASE r[1] = src /\ routes' = Append(routes, r) /\ downs' = downs \cup Edges(r)
  <2>1. Route(r) /\ Edges(r) \subseteq Links \ downs
    BY <1>0, <1>1, <1>7, WayBack DEF r
  <2>2. /\ routes' \in Seq(Seq(Node)) /\ Len(routes') = Len(routes) + 1
        /\ routes'[Len(routes) + 1] = r
        /\ \A i \in 1 .. Len(routes) : routes'[i] = routes[i]
    <3>1. r \in Seq(Node)
      BY <2>1 DEF Route
    <3> QED BY <1>4, <1>7, <3>1
  <2>3. Types'
    BY <1>4, <1>5, <1>7, <2>1, <2>2
  <2>4. \A l \in Edges(r) : l \in downs' /\ ~ Kept(l)
    BY <1>7, <2>1 DEF Kept
  <2>5. \A l : Kept(l) => l \in downs' \/ (l \notin Links' /\ Gone(l))
    BY <1>2, <1>7 DEF Kept
  <2>6. \A i \in 1 .. Len(routes') : i \in 1 .. Len(routes) \/ i = Len(routes) + 1
    BY <1>4, <2>2
  <2>7. ASSUME NEW i \in 1 .. Len(routes')
        PROVE  /\ Route(routes'[i])
               /\ \A l \in Edges(routes'[i]) : l \in downs' \/ (l \notin Links' /\ Gone(l))
    <3>1. CASE i \in 1 .. Len(routes)
      BY <1>1, <2>2, <2>5, <3>1 DEF Found
    <3>2. CASE i = Len(routes) + 1
      BY <2>1, <2>2, <2>4, <3>2
    <3> QED BY <2>6, <3>1, <3>2
  <2>8. \A l : Gone(l) => \E c \in Cities : \E s \in SatSet \ sky'.inRange[c] :
                             l = <<c, s>> \/ l = <<s, c>>
    BY <1>0 DEF Gone
  <2>9. ASSUME NEW i \in 1 .. Len(routes), NEW l \in Edges(r)
        PROVE  l \notin Edges(routes[i])
    BY <1>1, <2>4 DEF Found
  <2>10. ASSUME NEW i \in 1 .. Len(routes'), NEW j \in 1 .. Len(routes'), i # j
         PROVE  Edges(routes'[i]) \cap Edges(routes'[j]) = {}
    <3>1. CASE i \in 1 .. Len(routes) /\ j \in 1 .. Len(routes)
      BY <1>1, <2>2, <2>10, <3>1 DEF Found
    <3>2. CASE i \in 1 .. Len(routes) /\ j = Len(routes) + 1
      BY <2>2, <2>9, <3>2
    <3>3. CASE i = Len(routes) + 1 /\ j \in 1 .. Len(routes)
      BY <2>2, <2>9, <3>3
    <3> QED BY <2>6, <2>10, <3>1, <3>2, <3>3
  <2>11. Found'
    BY <1>2, <2>7, <2>8, <2>10 DEF Found, Route, Kept, Gone
  <2> QED BY <1>0, <1>3, <2>3, <2>11 DEF RouteInv
<1> QED BY <1>0, <1>6, <1>7

-----------------------------------------------------------------------------
(* No step of a search, and none between two searches, breaks it.          *)
THEOREM RouteInvariant == Spec => []RouteInv
<1>1. Init => RouteInv
  BY InitHolds
<1>2. RouteInv /\ [Next]_vars => RouteInv'
  <2> SUFFICES ASSUME RouteInv, [Next]_vars PROVE RouteInv'
    OBVIOUS
  <2>1. CASE \E s, d \in Cities : GetPaths(s, d)
    BY <2>1, GetPathsHolds
  <2>2. CASE BeginSearch
    BY <2>2, BeginSearchHolds
  <2>3. CASE Settle
    BY <2>3, SettleHolds
  <2>4. CASE \E l \in todo : Relax(l)
    BY <2>4, RelaxHolds
  <2>5. CASE FindRoute
    BY <2>5, FindRouteHolds
  <2>6. CASE UNCHANGED vars
    BY <2>6, StutterHolds
  <2> QED BY <2>1, <2>2, <2>3, <2>4, <2>5, <2>6 DEF Next
<1> QED BY <1>1, <1>2, PTL DEF Spec

(* The nodes in the array form a heap and know their places, and none is   *)
(* nearer than the node that was settled last.                             *)
THEOREM HeapIsInOrder == Spec => []HeapInOrder
<1>1. RouteInv => HeapInOrder
  <2> SUFFICES ASSUME RouteInv, phase = "search", ~ strayed
               PROVE  /\ TypeOK /\ ~ aborted /\ IsHeap(heap, dist)
                      /\ \A n \in Nodes(heap) : u # NoNode => dist[n] >= dist[u]
    BY DEF HeapInOrder
  <2>1. Types /\ ~ aborted /\ HeapKept /\ Frontier
    BY DEF RouteInv, Searching
  <2>2. IsHeap(heap, dist)
    BY <2>1 DEF HeapKept, Placed, Ordered, IsHeap
  <2> QED BY <2>1, <2>2 DEF Types, Frontier
<1> QED BY <1>1, RouteInvariant, PTL

(* The routes of one call of get_paths() have no link in common.           *)
THEOREM RoutesAreDisjoint == Spec => []RoutesDisjoint
<1>1. RouteInv => RoutesDisjoint
  <2> SUFFICES ASSUME RouteInv, ~ strayed PROVE RoutesDisjoint
    BY DEF RoutesDisjoint
  <2>1. Types /\ Found
    BY DEF RouteInv
  <2>2. routes \in Seq(Seq(Node)) /\ DOMAIN routes = 1 .. Len(routes)
    BY <2>1, TypeFacts, LenProperties
  <2>3. ASSUME NEW i \in DOMAIN routes
        PROVE  /\ routes[i][1] = src /\ Last(routes[i]) = dst
               /\ IsInjective(routes[i])
               /\ \A j \in 2 .. Len(routes[i]) - 1 : routes[i][j] \in SatSet
               /\ Edges(routes[i]) \cap Links \subseteq downs
    <3>1. Route(routes[i]) /\ \A l \in Edges(routes[i]) : Kept(l)
      BY <2>1, <2>2 DEF Found
    <3> DEFINE r == routes[i]
    <3> HIDE DEF r
    <3>2. /\ r \in Seq(Node) /\ r[1] = src /\ r[Len(r)] = dst
          /\ \A j, k \in 1 .. Len(r) : r[j] = r[k] => j = k
          /\ \A j \in 2 .. Len(r) - 1 : r[j] \in SatSet
      BY <3>1 DEF Route, r
    <3>3. DOMAIN r = 1 .. Len(r)
      BY <3>2, LenProperties
    <3>4. IsInjective(r)
      BY <3>2, <3>3 DEF IsInjective
    <3>5. Last(r) = dst
      BY <3>2 DEF Last
    <3>6. Edges(r) \cap Links \subseteq downs
      BY <3>1 DEF Kept, r
    <3> QED BY <3>2, <3>4, <3>5, <3>6 DEF r
  <2>4. \A i, j \in DOMAIN routes : i # j => Edges(routes[i]) \cap Edges(routes[j]) = {}
    BY <2>1, <2>2 DEF Found
  <2> QED BY <2>3, <2>4 DEF RoutesDisjoint
<1> QED BY <1>1, RouteInvariant, PTL

-----------------------------------------------------------------------------
(* The walks over the links on offer, one link more at each turn.          *)
Walks(walk) ==
  LET N == Cardinality(Node)
  IN  /\ walk \in [0 .. N -> [Node -> Nat]]
      /\ walk[0] = [n \in Node |-> IF n = src THEN 0 ELSE Infinity]
      /\ \A k \in 1 .. N : \A n \in Node :
           /\ walk[k][n] <= walk[k - 1][n]
           /\ \A l \in Links \ downs :
                l[1] \in Cleared /\ l[2] = n => walk[k][n] <= walk[k - 1][l[1]] + Delay(l)
           /\ \/ walk[k][n] = walk[k - 1][n]
              \/ \E l \in Links \ downs :
                   l[1] \in Cleared /\ l[2] = n /\ walk[k][n] = walk[k - 1][l[1]] + Delay(l)

(* What the reference definition of the shortest lengths computes.         *)
LEMMA LengthsProperties ==
  ASSUME Types
  PROVE  \E walk : Walks(walk) /\ Lengths = walk[Cardinality(Node)]
<1> DEFINE N == Cardinality(Node)
           S == [Node -> Nat]
           inner == {l \in Links \ downs : l[1] \in SatSet \cup {src, dst}}
           into(w, n) == {w[n]} \cup {w[l[1]] + Delay(l) : l \in {m \in inner : m[2] = n}}
           One(w) == [n \in Node |-> Min(into(w, n))]
           a == [n \in Node |-> IF n = src THEN 0 ELSE Infinity]
           Rec(g) == [k \in 0 .. N |-> IF k = 0 THEN a ELSE One(g[k - 1])]
           walk == CHOOSE g : g = Rec(g)
           step == [k \in 1 .. N |-> [w \in S |-> One(w)]]
<1>1. N \in Nat /\ Infinity \in Nat
  BY NodeFacts, RouteSearchAssumption
<1>2. Lengths = walk[N]
  BY DEF Lengths
<1>3. \A l \in inner : /\ l[1] \in Node /\ l[2] \in Node /\ Delay(l) \in Nat
                       /\ l \in Links \ downs /\ l[1] \in Cleared
  BY LinkFacts DEF Cleared
<1>4. \A l \in Links \ downs : l[1] \in Cleared => l \in inner
  BY DEF Cleared
<1> HIDE DEF N, inner
<1>5. ASSUME NEW w \in S, NEW n \in Node
      PROVE  Min(into(w, n)) \in into(w, n) /\ \A y \in into(w, n) : Min(into(w, n)) <= y
  <2>1. into(w, n) \in SUBSET Nat
    BY <1>3
  <2>2. into(w, n) # {}
    OBVIOUS
  <2> HIDE DEF into
  <2> QED BY <2>1, <2>2, MinProperties
<1>6. \A w \in S : One(w) \in S
  <2>1. \A w \in S : \A n \in Node : into(w, n) \subseteq Nat
    BY <1>3
  <2> HIDE DEF into
  <2> QED BY <1>5, <2>1
<1>7. a \in S
  BY <1>1
<1>8. \A k \in 1 .. N : \A w \in S : step[k][w] \in S
  BY <1>6
<1> HIDE DEF One, S, step, a
<1>9. PICK f : Iterated(f, N, S, a, step)
  BY <1>1, <1>7, <1>8, Iterates
<1>10. ASSUME NEW k \in 1 .. N PROVE f[k] = One(f[k - 1])
  <2>1. k - 1 \in 0 .. N
    BY <1>1
  <2>2. f[k - 1] \in S /\ f[k] = step[k][f[k - 1]]
    BY <1>9, <2>1 DEF Iterated
  <2> QED BY <2>2 DEF step
<1>11. f = Rec(f)
  <2>1. \A k \in 0 .. N : k # 0 => k \in 1 .. N
    BY <1>1
  <2>2. \A k \in 0 .. N : f[k] = IF k = 0 THEN a ELSE One(f[k - 1])
    BY <1>9, <1>10, <2>1 DEF Iterated
  <2> QED BY <1>9, <2>2 DEF Iterated
<1>12. walk = Rec(walk)
  BY <1>11
<1> HIDE DEF walk
<1>13. walk[0] = a /\ \A k \in 1 .. N : walk[k] = One(walk[k - 1])
  BY <1>1, <1>12
<1>14. \A k \in 0 .. N : walk[k] \in S
  <2> DEFINE P == {k \in 0 .. N : walk[k] \in S}
  <2>1. 0 \in P /\ \A k \in 1 .. N : k - 1 \in P => k \in P
    BY <1>1, <1>6, <1>7, <1>13
  <2> HIDE DEF P
  <2>2. \A k \in 0 .. N : k \in P
    BY <1>1, <2>1, UpTo, Zenon
  <2> QED BY <2>2 DEF P
<1>15. walk \in [0 .. N -> S]
  <2>1. walk = [k \in 0 .. N |-> walk[k]]
    BY <1>12
  <2> QED BY <1>14, <2>1
<1>16. ASSUME NEW k \in 1 .. N, NEW n \in Node
       PROVE  /\ walk[k][n] <= walk[k - 1][n]
              /\ \A l \in Links \ downs :
                   l[1] \in Cleared /\ l[2] = n => walk[k][n] <= walk[k - 1][l[1]] + Delay(l)
              /\ \/ walk[k][n] = walk[k - 1][n]
                 \/ \E l \in Links \ downs :
                      l[1] \in Cleared /\ l[2] = n /\ walk[k][n] = walk[k - 1][l[1]] + Delay(l)
  <2>1. k - 1 \in 0 .. N
    BY <1>1
  <2> DEFINE w == walk[k - 1]
  <2>2. w \in S /\ walk[k] = One(w)
    BY <1>13, <1>14, <2>1
  <2> HIDE DEF w
  <2>3. walk[k][n] = Min(into(w, n))
    BY <2>2 DEF One
  <2>4. walk[k][n] \in into(w, n) /\ \A y \in into(w, n) : walk[k][n] <= y
    <3>1. w \in [Node -> Nat]
      BY <2>2 DEF S
    <3> HIDE DEF into
    <3> QED BY <1>5, <2>3, <3>1 DEF S
  <2>5. walk[k][n] <= w[n]
    BY <2>4
  <2>6. \A l \in Links \ downs : l[1] \in Cleared /\ l[2] = n => walk[k][n] <= w[l[1]] + Delay(l)
    BY <1>4, <2>4
  <2>7. walk[k][n] = w[n] \/ \E l \in inner : l[2] = n /\ walk[k][n] = w[l[1]] + Delay(l)
    BY <2>4
  <2> QED BY <1>3, <2>5, <2>6, <2>7 DEF w
<1>17. Walks(walk)
  BY <1>13, <1>15, <1>16 DEF Walks, N, S, a
<1> QED BY <1>2, <1>17 DEF N

(* There are as many turns as a way to any node that is searched can have. *)
LEMMA EnoughTurns ==
  ASSUME Types
  PROVE  Cardinality(Node) \in Nat /\ Len(Sats) + 2 <= Cardinality(Node)
<1>1. /\ src \in Cities /\ dst \in Cities /\ src # dst
      /\ src \notin SatSet /\ dst \notin SatSet /\ Cleared \subseteq Node
  BY TypeFacts, NodeFacts, ClearedFacts
<1>2. IsFiniteSet(SatSet) /\ Cardinality(SatSet) = Len(Sats) /\ Len(Sats) \in Nat
  BY Satellites, Numbers
<1>3. /\ IsFiniteSet(SatSet \cup {src})
      /\ Cardinality(SatSet \cup {src}) = Len(Sats) + 1
  BY <1>1, <1>2, FS_AddElement
<1>4. dst \notin SatSet \cup {src}
  BY <1>1
<1>5. Cardinality((SatSet \cup {src}) \cup {dst}) = Len(Sats) + 1 + 1
  BY <1>3, <1>4, FS_AddElement
<1>6. Cleared = (SatSet \cup {src}) \cup {dst}
  BY DEF Cleared
<1>7. Cardinality(Cleared) = Len(Sats) + 2
  BY <1>2, <1>5, <1>6
<1>8. Cardinality(Cleared) <= Cardinality(Node)
  BY <1>1, NodeFacts, FS_Subset
<1> QED BY <1>7, <1>8, NodeFacts

(* No walk is shorter than the distances of a search that has ended: every *)
(* link on offer was looked at after the last change of its first node.    *)
LEMMA NoWalkIsShorter ==
  ASSUME Types, Relaxed, Tree, heap.size = 0, todo = {}, NEW walk, Walks(walk)
  PROVE  \A n \in Node : dist[n] <= walk[Cardinality(Node)][n]
<1> DEFINE N == Cardinality(Node)
           P == {k \in 0 .. N : \A n \in Node : dist[n] <= walk[k][n]}
<1>1. /\ N \in Nat /\ walk \in [0 .. N -> [Node -> Nat]]
      /\ walk[0] = [n \in Node |-> IF n = src THEN 0 ELSE Infinity]
      /\ \A k \in 1 .. N : \A n \in Node :
           \/ walk[k][n] = walk[k - 1][n]
           \/ \E l \in Links \ downs :
                l[1] \in Cleared /\ l[2] = n /\ walk[k][n] = walk[k - 1][l[1]] + Delay(l)
  BY EnoughTurns DEF Walks
<1>2. dist \in [Node -> 0 .. Infinity] /\ Infinity \in Nat /\ dist[src] = 0
  BY TypeFacts, Distances DEF Tree
<1>3. \A l \in Links \ downs : l[1] \in Cleared => dist[l[2]] <= dist[l[1]] + Delay(l)
  BY DEF Relaxed, Settled, Nodes
<1> HIDE DEF N
<1>4. 0 \in P
  <2>1. 0 \in 0 .. N
    BY <1>1
  <2>2. \A n \in Node : walk[0][n] = IF n = src THEN 0 ELSE Infinity
    BY <1>1
  <2>3. \A n \in Node : dist[n] \in 0 .. Infinity
    BY <1>2
  <2>4. \A n \in Node : dist[n] <= walk[0][n]
    BY <1>2, <2>2, <2>3
  <2> QED BY <2>1, <2>4
<1>5. ASSUME NEW k \in 1 .. N, k - 1 \in P PROVE k \in P
  <2> SUFFICES ASSUME NEW n \in Node PROVE dist[n] <= walk[k][n]
    BY <1>1
  <2>1. k - 1 \in 0 .. N /\ k \in 0 .. N /\ \A m \in Node : dist[m] <= walk[k - 1][m]
    BY <1>1, <1>5
  <2>2. CASE walk[k][n] = walk[k - 1][n]
    BY <2>1, <2>2
  <2>3. ASSUME NEW l \in Links \ downs, l[1] \in Cleared, l[2] = n,
               walk[k][n] = walk[k - 1][l[1]] + Delay(l)
        PROVE  dist[n] <= walk[k][n]
    <3>1. l[1] \in Node /\ Delay(l) \in Nat
      BY LinkFacts
    <3>2. walk[k - 1] \in [Node -> Nat]
      BY <1>1, <2>1
    <3>3. dist[l[1]] \in Nat /\ dist[n] \in Nat /\ walk[k - 1][l[1]] \in Nat
      BY <1>2, <3>1, <3>2
    <3>4. dist[l[1]] <= walk[k - 1][l[1]]
      BY <2>1, <3>1
    <3>5. dist[n] <= dist[l[1]] + Delay(l)
      BY <1>3, <2>3
    <3> QED BY <2>3, <3>1, <3>3, <3>4, <3>5
  <2> QED BY <1>1, <2>2, <2>3
<1> HIDE DEF P
<1>6. \A k \in 0 .. N : k \in P
  <2>1. \A k \in 1 .. N : k - 1 \in P => k \in P
    BY <1>5
  <2> QED BY <1>1, <1>4, <2>1, UpTo, Zenon
<1>7. N \in P
  BY <1>1, <1>6
<1> QED BY <1>7 DEF P, N

(* And there is a walk as short, along the parents: after as many turns as *)
(* the rank of a node it has been found.                                   *)
LEMMA ParentsAreAWalk ==
  ASSUME Types, Tree, Ranked, heap.size = 0, NEW walk, Walks(walk)
  PROVE  \A n \in Cleared : walk[Cardinality(Node)][n] <= dist[n]
<1>1. PICK rank : Ranks(rank)
  BY DEF Ranked
<1> DEFINE N == Cardinality(Node)
           Near(k, n) == parent[n] = NoNode \/ rank[n] <= k
           P == {k \in 0 .. N : \A n \in Cleared : Near(k, n) => walk[k][n] <= dist[n]}
<1>2. /\ N \in Nat /\ Len(Sats) + 2 <= N /\ Len(Sats) \in Nat
      /\ walk \in [0 .. N -> [Node -> Nat]]
      /\ walk[0] = [n \in Node |-> IF n = src THEN 0 ELSE Infinity]
      /\ \A k \in 1 .. N : \A n \in Node :
           /\ walk[k][n] <= walk[k - 1][n]
           /\ \A l \in Links \ downs :
                l[1] \in Cleared /\ l[2] = n => walk[k][n] <= walk[k - 1][l[1]] + Delay(l)
  BY EnoughTurns, Numbers DEF Walks
<1>3. /\ dist \in [Node -> Nat] /\ Infinity \in Nat /\ dist[src] = 0
      /\ Cleared \subseteq Node /\ Cleared = AtInfinity \cup {src}
  BY Distances, ClearedFacts DEF Tree
<1>4. Settled = Cleared
  BY DEF Settled, Nodes
<1>5. /\ rank \in [Node -> Nat]
      /\ \A n \in Cleared : rank[n] < Len(Sats) + 2
      /\ \A n \in Cleared : parent[n] # NoNode => rank[parent[n]] < rank[n]
  BY <1>1, <1>2, <1>4 DEF Ranks
<1>6. \A n \in Cleared : \/ parent[n] = NoNode /\ n = src
                         \/ parent[n] = NoNode /\ dist[n] = Infinity
                         \/ parent[n] # NoNode /\ Child(n)
  BY <1>3 DEF Tree
<1> HIDE DEF N
<1>7. 0 \in P
  <2>0. 0 \in 0 .. N
    BY <1>2
  <2> SUFFICES ASSUME NEW n \in Cleared, Near(0, n) PROVE walk[0][n] <= dist[n]
    BY <2>0
  <2>1. CASE parent[n] = NoNode
    <3>1. walk[0][n] = IF n = src THEN 0 ELSE Infinity
      BY <1>2, <1>3
    <3>2. n = src \/ dist[n] = Infinity
      BY <1>6, <2>1
    <3> QED BY <1>3, <3>1, <3>2
  <2>2. CASE parent[n] # NoNode
    <3>1. parent[n] \in Node
      BY <1>3, <1>4, <1>6, <2>2 DEF Child
    <3>2. rank[parent[n]] \in Nat /\ rank[n] \in Nat /\ rank[parent[n]] < rank[n] /\ rank[n] <= 0
      BY <1>3, <1>5, <2>2, <3>1
    <3> QED BY <3>2
  <2> QED BY <2>1, <2>2
<1>8. ASSUME NEW k \in 1 .. N, k - 1 \in P PROVE k \in P
  <2> SUFFICES ASSUME NEW n \in Cleared, Near(k, n) PROVE walk[k][n] <= dist[n]
    BY <1>2
  <2>1. /\ k - 1 \in 0 .. N /\ k \in 0 .. N
        /\ \A m \in Cleared : Near(k - 1, m) => walk[k - 1][m] <= dist[m]
    BY <1>2, <1>8
  <2>2. walk[k - 1] \in [Node -> Nat] /\ walk[k] \in [Node -> Nat] /\ n \in Node
    BY <1>2, <1>3, <2>1
  <2>3. CASE parent[n] = NoNode
    <3>1. walk[k - 1][n] <= dist[n] /\ walk[k][n] <= walk[k - 1][n]
      BY <1>2, <2>1, <2>2, <2>3
    <3> QED BY <1>3, <2>2, <3>1
  <2>4. CASE parent[n] # NoNode
    <3> DEFINE p == parent[n]
               l == <<p, n>>
    <3>1. p \in Cleared /\ l \in Links \ downs /\ dist[n] = dist[p] + Delay(l)
      BY <1>4, <1>6, <2>4 DEF Child
    <3>2. rank[p] < rank[n]
      BY <1>5, <2>4
    <3> HIDE DEF p
    <3>3. p \in Node /\ Delay(l) \in Nat
      BY <1>3, <3>1, LinkFacts
    <3>4. rank[p] \in Nat /\ rank[n] \in Nat /\ rank[n] <= k
      BY <1>5, <2>2, <2>4, <3>3
    <3>5. rank[p] <= k - 1
      BY <3>2, <3>4
    <3>6. walk[k - 1][p] <= dist[p]
      BY <2>1, <3>1, <3>5
    <3>7. l[1] = p /\ l[2] = n
      OBVIOUS
    <3>8. walk[k][n] <= walk[k - 1][p] + Delay(l)
      <4> HIDE DEF l
      <4> QED BY <1>2, <2>2, <3>1, <3>7
    <3>9. /\ dist[p] \in Nat /\ dist[n] \in Nat
          /\ walk[k - 1][p] \in Nat /\ walk[k][n] \in Nat
      BY <1>3, <2>2, <3>3
    <3> HIDE DEF l
    <3> QED BY <3>1, <3>3, <3>6, <3>8, <3>9
  <2> QED BY <2>3, <2>4
<1> HIDE DEF P
<1>9. \A k \in 0 .. N : k \in P
  <2>1. \A k \in 1 .. N : k - 1 \in P => k \in P
    BY <1>8
  <2> QED BY <1>2, <1>7, <2>1, UpTo, Zenon
<1>10. N \in P
  BY <1>2, <1>9
<1>11. \A n \in Cleared : Near(N, n)
  <2> SUFFICES ASSUME NEW n \in Cleared PROVE rank[n] <= N
    OBVIOUS
  <2>1. rank[n] \in Nat /\ rank[n] < Len(Sats) + 2
    BY <1>3, <1>5
  <2> QED BY <1>2, <2>1
<1> QED BY <1>10, <1>11 DEF P, N

(* When the heap has run empty dijkstra() has found the shortest distances *)
(* of the satellites and the destination.                                  *)
THEOREM DistancesAreShortest == Spec => []ShortestDistances
<1>1. RouteInv => ShortestDistances
  <2> SUFFICES ASSUME RouteInv, phase = "search", heap.size = 0, todo = {}, ~ strayed,
                      NEW n \in AtInfinity
               PROVE  dist[n] = Lengths[n]
    BY DEF ShortestDistances
  <2>1. Types /\ Relaxed /\ Tree /\ Ranked
    BY DEF RouteInv, Searching
  <2>2. PICK walk : Walks(walk) /\ Lengths = walk[Cardinality(Node)]
    BY <2>1, LengthsProperties
  <2>3. n \in Node /\ n \in Cleared
    BY <2>1, ClearedFacts
  <2>4. dist[n] <= Lengths[n]
    BY <2>1, <2>2, <2>3, NoWalkIsShorter
  <2>5. Lengths[n] <= dist[n]
    BY <2>1, <2>2, <2>3, ParentsAreAWalk
  <2>6. dist[n] \in Nat /\ Lengths[n] \in Nat
    <3>1. Cardinality(Node) \in 0 .. Cardinality(Node)
      BY NodeFacts
    <3> QED BY <2>1, <2>2, <2>3, <3>1, Distances DEF Walks
  <2> QED BY <2>4, <2>5, <2>6
<1> QED BY <1>1, RouteInvariant, PTL

(* The parents do not run in a circle: as many turns of the loop of        *)
(* find_route() as there are nodes would need more ranks than there are.   *)
LEMMA NoCircle ==
  ASSUME Types, Tree, Ranked, heap.size = 0
  PROVE  Ended(dst) # {}
<1> SUFFICES ASSUME Ended(dst) = {} PROVE FALSE
  OBVIOUS
<1> DEFINE N == Cardinality(Node)
           b == Ancestors(dst)
<1>0. /\ dst \in Node /\ dst \in Cleared /\ Cleared \subseteq Node
      /\ Cleared = AtInfinity \cup {src} /\ NoNode \notin Node
  BY TypeFacts, NodeFacts, ClearedFacts, Numbers DEF Cleared
<1>1. /\ N \in Nat /\ Len(Sats) + 2 <= N /\ Len(Sats) \in Nat
      /\ b[0] = dst
      /\ \A k \in 1 .. N : b[k] = IF b[k - 1] \in {src, NoNode} THEN NoNode
                                  ELSE parent[b[k - 1]]
  BY <1>0, AncestorsProperties, EnoughTurns, Numbers
<1>2. \A k \in 0 .. N : b[k] # NoNode
  BY DEF Ended
<1>3. Settled = Cleared
  BY DEF Settled, Nodes
<1>4. PICK rank : /\ rank \in [Node -> Nat]
                  /\ \A n \in Cleared : rank[n] < Len(Sats) + 2
                  /\ \A n \in Cleared : parent[n] # NoNode => rank[parent[n]] < rank[n]
  <2>1. PICK rank : Ranks(rank)
    BY DEF Ranked
  <2>2. \A n \in Cleared : rank[n] < Len(Sats) + 2
    BY <1>1, <1>3, <2>1 DEF Ranks
  <2> QED BY <2>1, <2>2 DEF Ranks
<1> DEFINE P == {k \in 0 .. N : b[k] \in Cleared /\ rank[b[k]] + k <= rank[dst]}
<1> HIDE DEF b, N
<1>5. 0 \in P
  <2>1. 0 \in 0 .. N /\ rank[dst] \in Nat
    BY <1>0, <1>1, <1>4
  <2> QED BY <1>0, <1>1, <2>1
<1>6. ASSUME NEW k \in 1 .. N, k - 1 \in P PROVE k \in P
  <2> DEFINE p == b[k - 1]
             n == b[k]
  <2>1. k - 1 \in 0 .. N /\ k \in 0 .. N /\ p \in Cleared /\ rank[p] + (k - 1) <= rank[dst]
    BY <1>1, <1>6
  <2>2. n # NoNode /\ n = IF p \in {src, NoNode} THEN NoNode ELSE parent[p]
    BY <1>1, <1>2, <2>1
  <2> HIDE DEF p, n
  <2>3. p \in AtInfinity /\ n = parent[p]
    BY <1>0, <2>1, <2>2
  <2>4. n \in Cleared
    BY <1>3, <2>2, <2>3 DEF Tree, Child
  <2>5. rank[n] < rank[p]
    BY <1>4, <2>1, <2>2, <2>3
  <2>6. rank[n] \in Nat /\ rank[p] \in Nat /\ rank[dst] \in Nat
    BY <1>0, <1>4, <2>1, <2>4
  <2>7. rank[n] + k <= rank[dst]
    BY <2>1, <2>5, <2>6
  <2> QED BY <2>1, <2>4, <2>7 DEF n
<1> HIDE DEF P
<1>7. \A k \in 0 .. N : k \in P
  <2>1. \A k \in 1 .. N : k - 1 \in P => k \in P
    BY <1>6
  <2> QED BY <1>1, <1>5, <2>1, UpTo, Zenon
<1>8. b[N] \in Cleared /\ rank[b[N]] + N <= rank[dst]
  <2>1. N \in P
    BY <1>1, <1>7
  <2> QED BY <2>1 DEF P
<1>9. rank[b[N]] \in Nat /\ rank[dst] \in Nat /\ rank[dst] < Len(Sats) + 2
  BY <1>0, <1>4, <1>8
<1> QED BY <1>1, <1>8, <1>9

(* The loop of find_route() ends after each search: whatever the delays,   *)
(* also where links have none, the way back from the destination comes to  *)
(* the source or to a node without a parent.                               *)
WayBackEnds ==
  phase = "search" /\ heap.size = 0 /\ todo = {} /\ ~ strayed => Ended(dst) # {}

THEOREM FindRouteEnds == Spec => []WayBackEnds
<1>1. RouteInv => WayBackEnds
  BY NoCircle DEF RouteInv, Searching, WayBackEnds
<1> QED BY <1>1, RouteInvariant, PTL
=============================================================================
