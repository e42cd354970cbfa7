--------------------------- MODULE Constellation ---------------------------
(***************************************************************************)
(* A city and the links of the constellation: the city drops and makes the *)
(* links to its satellites in pairs, and the factory reuses the links that *)
(* were dropped, which may turn an uplink into a downlink.  The links      *)
(* between the satellites are made first and stay.                         *)
(***************************************************************************)
EXTENDS CityUplinks, LinkPool

CONSTANTS
  PoolSize,   \* _pool_size at the start
  IslCount    \* how many links there are between satellites

(* The bound on links leaves room for the first pool, for the links        *)
(* between satellites and for a pair of links for every satellite.         *)
ASSUME ConstellationAssumption ==
  /\ PoolSize \in Nat \ {0}
  /\ IslCount \in Nat
  /\ PoolSize <= MaxLinks
  /\ IslCount + 2 * Cardinality(Sat) <= MaxLinks

VARIABLES
  net,        \* the pool, and the uplink and downlink of each satellite in range
  dropAborted     \* whether an assert has failed

constellationVars == <<cityVars, net, dropAborted>>

InUse(n) == ({n.up[s] : s \in Sat} \cup {n.down[s] : s \in Sat}) \ {NoLink}

(* The links between satellites, the first ones in the pool. *)
Isls ==
  LET pool[i \in 0 .. IslCount] ==
        IF i = 0 THEN EmptyPool(PoolSize) ELSE Activate(pool[i - 1])
  IN  [pool |-> pool[IslCount],
       up |-> [s \in Sat |-> NoLink], down |-> [s \in Sat |-> NoLink]]

(* activate_link() of the uplink and then of the downlink of s.            *)
MakePair(n, s) ==
  LET half == Activate(n.pool)
  IN  [n EXCEPT !.pool = Activate(half),
                !.up[s] = HandedOut(n.pool), !.down[s] = HandedOut(half)]

(* Fault: the downlink is not dropped. *)
DropPairFault(n, s) ==
  [n EXCEPT !.pool = Drop(@, n.up[s]), !.up[s] = NoLink, !.down[s] = NoLink]

(* drop_link() of both links of s. *)
DropPair(n, s) ==
  [n EXCEPT !.pool = Drop(Drop(@, n.up[s]), n.down[s]),
            !.up[s] = NoLink, !.down[s] = NoLink]

DropPairAsserts(n, s) ==
  DropAsserts(n.pool, n.up[s]) /\ DropAsserts(Drop(n.pool, n.up[s]), n.down[s])

(* The networks from n on, as one after the other the links of the         *)
(* satellites gone are dropped and those of the satellites come are made.  *)
Moving(n, gone, come) ==
  LET after[i \in 0 .. Len(gone) + Len(come)] ==
        IF i = 0 THEN n
        ELSE IF i <= Len(gone) THEN DropPair(after[i - 1], gone[i])
        ELSE MakePair(after[i - 1], come[i - Len(gone)])
  IN  after

ConstellationInit ==
  /\ AddUplinks
  /\ net = Moving(Isls, <<>>, SetToSeq(links))[Cardinality(links)]
  /\ dropAborted = FALSE

-----------------------------------------------------------------------------
SatsOf(list) == [i \in DOMAIN list |-> list[i].sat]

(* The links dropped and made by one update. *)
Move(out, come) ==
  LET after == Moving(net, SatsOf(out), SatsOf(come))
  IN  /\ net' = after[Len(out) + Len(come)]
      /\ dropAborted' = \E i \in DOMAIN out : ~ DropPairAsserts(after[i - 1], out[i].sat)

Near(a, b) == a <= b + MaxMove /\ b <= a + MaxMove

ConstellationNext ==
  /\ ~ dropAborted
  /\ \E d \in [Sat -> Dist], full \in BOOLEAN :
       /\ \A s \in Sat : Near(d[s], dist[s])
       /\ \E ex \in Exchanges(d, full) :
            UpdateUplinks(d, ex) /\ Move(ex.out, ex.come)

ConstellationSpec == ConstellationInit /\ [][ConstellationNext]_constellationVars

-----------------------------------------------------------------------------
(* The counts of the pool are right and the arrays are long enough for     *)
(* them, the free one too, which no code ever looks at the size of: at     *)
(* most as many links were made as there are cells.  Until the pool grows, *)
(* it is as good as a set of links besides: every link that is handed out  *)
(* is listed as active, so that dijkstra_up_all_links() reaches it, and    *)
(* its index leads to it, which drop_link() relies on and asserts; every   *)
(* other link of the city that was made is free, once, so that none is     *)
(* handed out twice or lost.  (Once it has grown: NoAssertFails of         *)
(* LinkFactory.)                                                           *)
Listed ==
  /\ IsPool(net.pool)
  /\ net.pool.activeCount = IslCount + 2 * Cardinality(links)
  /\ net.pool.freeCount + net.pool.activeCount = net.pool.made
  /\ net.pool.made <= net.pool.size
  /\ ~ net.pool.shared =>
       /\ ~ dropAborted
       /\ net.pool.activeCount = IslCount + Cardinality(InUse(net))
       /\ \A l \in 1 .. IslCount \cup InUse(net) :
            /\ net.pool.index[l] < net.pool.activeCount
            /\ net.pool.active[net.pool.index[l]] = l
       /\ {net.pool.free[i] : i \in 0 .. net.pool.freeCount - 1}
            = (IslCount + 1 .. net.pool.made) \ InUse(net)

(* The two links of a satellite were made as a pair: whatever satellites   *)
(* come and go, links are reused pairwise, one as the uplink and the other *)
(* as the downlink.  So the reverse that a link has remembered (_back_link,*)
(* which reassign() clears in the link itself only, not where it is        *)
(* remembered) is the reverse for as long as the link is up.               *)
PairsStay ==
  \A s \in links : \E k \in 1 .. Cardinality(Sat) :
    {net.up[s], net.down[s]} = {IslCount + 2 * k - 1, IslCount + 2 * k}
=============================================================================
