---------------------------- MODULE RouteSearch ----------------------------
(***************************************************************************)
(* The search for link-disjoint routes between two cities                  *)
(* (XcpNetworkTopology::get_paths(), City::find_route() and                *)
(* Constellation::dijkstra() with its heap).  Every search keeps its state *)
(* in the nodes and links themselves, where searches for other pairs of    *)
(* cities and at other times find it again.  The links of a node are in an *)
(* unordered set, so they are relaxed in any order.  Between two searches  *)
(* the two cities update their uplinks.                                    *)
(***************************************************************************)
EXTENDS Naturals, Sequences, FiniteSets, SequencesExt, FiniteSetsExt, BinaryHeap

CONSTANTS
  Cities,     \* the cities that are built
  Sats,       \* the satellites as a sequence, in the order of _sats
  Isls,       \* the directed links between satellites
  Skies,      \* what may be found at one time: inRange, the satellites in the
              \* range of each city, and delay, the delay of each pair of nodes
  Garbage,    \* what a heap_ix may be that is not initialised
  Calls,      \* bound: the number of calls of get_paths()
  Number,     \* the number of routes asked for
  Infinity    \* DIST_INFINITY, more than the length of any route

ASSUME RouteSearchAssumption ==
  /\ IsFiniteSet(Cities)
  /\ Sats \in Seq(Range(Sats)) /\ IsInjective(Sats)
  /\ Cities \cap Range(Sats) = {} /\ "none" \notin Cities \cup Range(Sats)
  /\ \E c, d \in Cities : c # d
  /\ Isls \subseteq Range(Sats) \X Range(Sats)
  /\ \A sky \in Skies :
       /\ sky.inRange \in [Cities -> SUBSET Range(Sats)]
       /\ \A l \in Isls \cup (Cities \X Range(Sats)) \cup (Range(Sats) \X Cities) :
            sky.delay[{l[1], l[2]}] \in Nat
  /\ Garbage \subseteq 0 .. Len(Sats) + 2
  /\ Calls \in Nat /\ Number \in Nat /\ Infinity \in Nat \ {0}

VARIABLES
  sky,        \* the sky at the time of this get_paths()
  linked,     \* the satellites each city has a pair of links with
  downs,      \* the links with _dijkstra_up = false
  dist,       \* _dist of each node
  parent,     \* _parent of each node; _parentlink is the link from it
  heap,       \* the heap of the constellation
  ends,       \* source and destination of this get_paths()
  phase,      \* where get_paths() is
  u,          \* the node taken from the heap last
  todo,       \* its links that are not looked at yet
  calls,      \* the number of calls of get_paths() so far
  routes,     \* the routes found by this get_paths()
  searched,   \* the cities that were source or destination of a search
  strayed,    \* whether a heap_ix that was never set, and not 0, was used
  aborted     \* whether an assert has failed or memory outside was read

vars == <<sky, linked, downs, dist, parent, heap, ends, phase, u, todo, calls,
          routes, searched, strayed, aborted>>

SatSet == Range(Sats)
Node == Cities \cup SatSet
NoNode == "none"

(* What the places behind the end of the heap can hold at first, and the   *)
(* indices that an uninitialised heap_ix can have in the model: those of   *)
(* its array, and any other.                                               *)
Cells == 0 .. Len(Sats) + 1
Wild == Len(Sats) + 2

Links == Isls \cup UNION {{<<c, s>> : s \in linked[c]} \cup {<<s, c>> : s \in linked[c]} :
                            c \in Cities}

TypeOK ==
  /\ sky \in Skies
  /\ linked \in [Cities -> SUBSET SatSet]
  /\ downs \subseteq Links
  /\ dist \in [Node -> 0 .. Infinity]
  /\ parent \in [Node -> Node \cup {NoNode}]
  /\ heap.size \in 0 .. Len(Sats) + 2
  /\ heap.cells \in [Cells -> Node \cup {NoNode}]
  /\ heap.ix \in [Node -> Cells \cup {Wild}]
  /\ ends \in Cities \X Cities
  /\ phase \in {"idle", "next", "search"}
  /\ u \in Node \cup {NoNode}
  /\ todo \subseteq Links
  /\ calls \in 0 .. Calls
  /\ \A i \in DOMAIN routes : routes[i] \in Seq(Node)
  /\ searched \subseteq Cities
  /\ strayed \in BOOLEAN
  /\ aborted \in BOOLEAN

(* Cities make their uplinks when they are built.  heap_ix is not set by   *)
(* the constructor.                                                        *)
Init ==
  /\ sky \in Skies
  /\ linked = sky.inRange
  /\ downs = {}
  /\ dist = [n \in Node |-> Infinity]
  /\ parent = [n \in Node |-> NoNode]
  /\ \E g \in Garbage :
       heap = [cells |-> [i \in Cells |-> NoNode], size |-> 0, ix |-> [n \in Node |-> g]]
  /\ ends = CHOOSE e \in Cities \X Cities : e[1] # e[2]
  /\ phase = "idle"
  /\ u = NoNode
  /\ todo = {}
  /\ calls = 0
  /\ routes = <<>>
  /\ searched = {}
  /\ strayed = FALSE
  /\ aborted = FALSE

src == ends[1]
dst == ends[2]

-----------------------------------------------------------------------------
(* get_paths() begins, at any later or earlier time: the links that are    *)
(* active are all offered to the search again.                             *)
GetPaths(s, d) ==
  /\ ~ aborted /\ phase = "idle"
  /\ calls < Calls /\ calls' = calls + 1
  /\ s # d
  /\ ends' = <<s, d>>
  /\ sky' \in Skies
  /\ downs' = {}
  /\ routes' = <<>>
  /\ phase' = "next"
  /\ UNCHANGED <<linked, dist, parent, heap, u, todo, searched, strayed, aborted>>

(* What update_uplinks() may leave: satellites go when they are out of     *)
(* range and come when they are in range, but maybe not all at once.       *)
Updates(c) ==
  {s \in SUBSET (linked[c] \cup sky.inRange[c]) : linked[c] \cap sky.inRange[c] \subseteq s}

(* The nodes that a search clears. *)
Cleared == SatSet \cup {src, dst}

(* The nodes whose distance it sets to infinity; the source is set to 0.   *)
AtInfinity == SatSet \cup {dst}

(* dijkstra() up to its loop: an assert that the heap is empty, the two    *)
(* updates, and the heap of the source, all satellites and the             *)
(* destination.  Links made by the updates are offered to the search.      *)
BeginSearch ==
  /\ ~ aborted /\ phase = "next"
  /\ IF heap.size > 0
       THEN /\ aborted' = TRUE
            /\ UNCHANGED <<linked, downs, dist, parent, heap, phase, searched>>
       ELSE /\ \E a \in Updates(src), b \in Updates(dst) :
                 linked' = [linked EXCEPT ![src] = a, ![dst] = b]
            /\ downs' = downs \cap (Links \cap Links')
            /\ heap' = InsertAll(heap, <<src>> \o Sats \o <<dst>>)
            /\ dist' = [n \in Node |-> IF n = src THEN 0
                                       ELSE IF n \in AtInfinity THEN Infinity ELSE dist[n]]
            /\ parent' = [n \in Node |-> IF n \in Cleared THEN NoNode ELSE parent[n]]
            /\ phase' = "search"
            /\ searched' = searched \cup {src, dst}
            /\ UNCHANGED aborted
  /\ UNCHANGED <<sky, ends, u, todo, calls, routes, strayed>>

(* Fault: links taken by an earlier route are looked at again. *)
LooksAtFault(n) == {l \in Links : l[1] = n}

(* The links of a node that the search looks at. *)
LooksAt(n) == {l \in Links \ downs : l[1] = n}

Settle ==
  /\ ~ aborted /\ phase = "search"
  /\ todo = {} /\ heap.size > 0
  /\ u' = heap.cells[0]
  /\ todo' = LooksAt(u')
  /\ heap' = ExtractMin(heap, dist)
  /\ UNCHANGED <<sky, linked, downs, dist, parent, ends, phase, calls, routes, searched, strayed, aborted>>

Delay(l) == sky.delay[{l[1], l[2]}]

(* heap_ix of a city is set when it is the source or the destination.      *)
NeverSet(n) == n \in Cities \ searched

(* One pass of the loop over the links of u.  decrease_distance() moves up *)
(* the cell that heap_ix names, also when the node is a city that is not   *)
(* part of this search.                                                    *)
Relax(l) ==
  LET n == l[2]
      newdist == dist[u] + Delay(l)
      i == heap.ix[n]
  IN /\ ~ aborted /\ phase = "search"
     /\ todo' = todo \ {l}
     /\ IF newdist < dist[n]
          THEN /\ dist' = [dist EXCEPT ![n] = newdist]
               /\ parent' = [parent EXCEPT ![n] = u]
               /\ strayed' = (strayed \/ (NeverSet(n) /\ i # 0))
               /\ IF i = Wild \/ (i # 0 /\ heap.cells[i] = NoNode)
                    THEN aborted' = TRUE /\ UNCHANGED heap
                    ELSE heap' = MoveUp(heap, dist', i) /\ UNCHANGED aborted
          ELSE UNCHANGED <<dist, parent, heap, strayed, aborted>>
     /\ UNCHANGED <<sky, linked, downs, ends, phase, u, calls, routes, searched>>

(* The loop of find_route() from n back, parent by parent: the node after  *)
(* each turn, until the source or a node without a parent has been passed. *)
Ancestors(n) ==
  LET back[k \in 0 .. Cardinality(Node)] ==
        IF k = 0 THEN n
        ELSE IF back[k - 1] \in {src, NoNode} THEN NoNode ELSE parent[back[k - 1]]
  IN  back

(* The turns after which it has ended: none if the parents run in a circle.*)
Ended(n) == {k \in 0 .. Cardinality(Node) : Ancestors(n)[k] = NoNode}

Back(n) ==
  LET back == Ancestors(n)
      m == Min(Ended(n))
  IN  [i \in 1 .. m |-> back[m - i]]

Edges(r) == {<<r[i], r[i + 1]>> : i \in 1 .. Len(r) - 1}

(* Fault: the links of a route are offered to the next search. *)
TakenFault(r) == {}

(* dijkstra_down_links_in_route() *)
Taken(r) == Edges(r)

(* find_route(), with NULL for a route that does not begin at the source,  *)
(* which ends get_paths().                                                 *)
FindRoute ==
  /\ ~ aborted /\ phase = "search"
  /\ todo = {} /\ heap.size = 0
  /\ Ended(dst) # {}
  /\ LET r == Back(dst)
     IN IF r[1] # src
          THEN phase' = "idle" /\ UNCHANGED <<routes, downs>>
          ELSE /\ routes' = Append(routes, r)
               /\ downs' = downs \cup Taken(r)
               /\ phase' = IF Len(routes') = Number THEN "idle" ELSE "next"
  /\ u' = NoNode
  /\ UNCHANGED <<sky, linked, dist, parent, heap, ends, todo, calls, searched, strayed, aborted>>

Next ==
  \/ \E s, d \in Cities : GetPaths(s, d)
  \/ BeginSearch
  \/ Settle
  \/ \E l \in todo : Relax(l)
  \/ FindRoute

Spec == Init /\ [][Next]_vars

-----------------------------------------------------------------------------
(* The lengths of the shortest walks from the source over the links on     *)
(* offer, none of which passes a third city.                               *)
Lengths ==
  LET inner == {l \in Links \ downs : l[1] \in SatSet \cup {src, dst}}
      walk[k \in 0 .. Cardinality(Node)] ==
        IF k = 0 THEN [n \in Node |-> IF n = src THEN 0 ELSE Infinity]
        ELSE [n \in Node |->
                Min({walk[k - 1][n]} \cup
                    {walk[k - 1][l[1]] + Delay(l) : l \in {m \in inner : m[2] = n}})]
  IN walk[Cardinality(Node)]

(* Within a search, as long as no heap_ix was used that was never set: the *)
(* array is a heap, whatever distances changed in it and whatever is left  *)
(* in the nodes and behind its end by earlier searches; the nodes in it    *)
(* are no nearer than the one taken out last.                              *)
HeapInOrder ==
  phase = "search" /\ ~ strayed =>
    /\ TypeOK /\ ~ aborted
    /\ IsHeap(heap, dist)
    /\ \A n \in Nodes(heap) : u # NoNode => dist[n] >= dist[u]

(* When the heap is empty, every node searched has its true distance over  *)
(* the links on offer: a route is found if and only if there is one, and   *)
(* it is a shortest.                                                       *)
ShortestDistances ==
  phase = "search" /\ heap.size = 0 /\ todo = {} /\ ~ strayed =>
    \A n \in AtInfinity : dist[n] = Lengths[n]

(* The routes of one get_paths() go from the source to the destination     *)
(* over satellites, no node twice; no two share a link; and their links    *)
(* are kept from the next search, or dropped meanwhile.                    *)
RoutesDisjoint ==
  ~ strayed =>
    /\ \A i \in DOMAIN routes :
         /\ routes[i][1] = src /\ Last(routes[i]) = dst
         /\ IsInjective(routes[i])
         /\ \A j \in 2 .. Len(routes[i]) - 1 : routes[i][j] \in SatSet
         /\ Edges(routes[i]) \cap Links \subseteq downs
    /\ \A i, j \in DOMAIN routes : i # j => Edges(routes[i]) \cap Edges(routes[j]) = {}
=============================================================================
