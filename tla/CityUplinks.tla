---------------------------- MODULE CityUplinks ----------------------------
(***************************************************************************)
(* The ground station's choice of satellites (City in starlink/city.cpp).  *)
(* The satellites in range are on the list of active uplinks, the longest  *)
(* link last, the others on the list of inactive satellites, the nearest   *)
(* last.  update_uplinks() refreshes the distances, sorts a little, and    *)
(* moves satellites between the lists from their ends.  The distances are  *)
(* those of the build whose satellites move (no XCP_STATIC_NETWORK); they  *)
(* change by a bounded step from one update to the next one.               *)
(***************************************************************************)
EXTENDS Naturals, Sequences, SequencesExt, FiniteSetsExt

CONSTANTS
  Sat,        \* the satellites
  Dist,       \* the distances that are told apart
  MAXDIST,    \* the range of the city
  MaxMove,    \* by how much a distance changes between two updates at most
  CheckCount  \* how many of the nearest inactive satellites are refreshed

ASSUME CityUplinksAssumption ==
  /\ IsFiniteSet(Sat)
  /\ Dist \subseteq Nat /\ MAXDIST \in Nat
  /\ MaxMove \in Nat /\ CheckCount \in Nat \ {0}

VARIABLES
  dist,           \* distance() of each satellite at the last update
  activeUplinks,  \* _active_uplinks: satellites with the distance noted
  inactiveSats,   \* _inactive_sats
  links           \* Node::_links of the city: the satellites it has an uplink to

cityVars == <<dist, activeUplinks, inactiveSats, links>>

Entry == [sat : Sat, dist : Dist]
Sats(list) == {list[i].sat : i \in DOMAIN list}

CityTypeOK ==
  /\ dist \in [Sat -> Dist]
  /\ activeUplinks \in Seq(Entry)
  /\ inactiveSats \in Seq(Entry)
  /\ links \subseteq Sat

(* active_uplink_cmp() and inactive_sat_cmp(), as the pairs they are true of. *)
Shorter == {p \in Entry \X Entry : p[1].dist < p[2].dist}
Longer == {p \in Entry \X Entry : p[1].dist > p[2].dist}

(* std::sort(), which leaves the order of equals open. *)
Sorted(list, before) ==
  {s \in {[i \in DOMAIN list |-> list[f[i]]] :
            f \in {g \in [DOMAIN list -> DOMAIN list] : IsInjective(g)}} :
     \A i \in 1 .. Len(s) - 1 : <<s[i + 1], s[i]>> \notin before}

(* The entries of the satellites S, in any order, with their distances.    *)
Entries(S, d) == SetToSeq({[sat |-> s, dist |-> d[s]] : s \in S})

(* add_uplinks(): every satellite goes on one of the lists. *)
AddUplinks ==
  /\ dist \in [Sat -> Dist]
  /\ links = {s \in Sat : dist[s] < MAXDIST}
  /\ activeUplinks \in Sorted(Entries(links, dist), Shorter)
  /\ inactiveSats \in Sorted(Entries(Sat \ links, dist), Longer)

-----------------------------------------------------------------------------
(* The list with its distances refreshed from d. *)
Refreshed(list, d) ==
  [i \in DOMAIN list |-> [list[i] EXCEPT !.dist = d[list[i].sat]]]

(* The position of the entry that a pass of bubble sort has in hand at i:  *)
(* the last of those up to i that none of them is out of order before.     *)
InHand(list, i, outOfOrder) ==
  Max({j \in 1 .. i : \A k \in 1 .. i : <<list[k], list[j]>> \notin outOfOrder})

(* One pass of bubble sort: a neighbour that is out of order is swapped as *)
(* the pass comes by, so the extreme entry trickles to the end.            *)
BubblePass(list, outOfOrder) ==
  LET hand(i) == list[InHand(list, i, outOfOrder)]
  IN  [i \in DOMAIN list |->
         IF i < Len(list) /\ <<hand(i), list[i + 1]>> \in outOfOrder
           THEN list[i + 1] ELSE hand(i)]

(* How many entries of the list stay when entries are taken from the end   *)
(* for as long as they are of the set leaves.                              *)
Kept(list, leaves) == Max({0} \cup {i \in DOMAIN list : list[i] \notin leaves})

(* Fault: the last entries are refreshed but not sorted. *)
NearestFault(list, d) ==
  LET n == Len(list) - Min({CheckCount, Len(list)})
  IN  SubSeq(list, 1, n) \o Refreshed(SubSeq(list, n + 1, Len(list)), d)

OutOfRange == {e \in Entry : e.dist > MAXDIST}

(* The partial update of the inactive list: only its last entries are      *)
(* refreshed, and one bubble pass takes the nearest of them to the end.    *)
Nearest(list, d) ==
  LET n == Len(list) - Min({CheckCount, Len(list)})
  IN  SubSeq(list, 1, n)
        \o BubblePass(Refreshed(SubSeq(list, n + 1, Len(list)), d), Shorter)

(* Fault: the satellites that went out of range are not put on the list.   *)
InactiveAfterFault(kept, out) == kept

(* The inactive list with those newly out of range behind it. *)
InactiveAfter(kept, out) == kept \o out

(* Fault: the active uplinks are refreshed but not sorted. *)
ActiveNowFault(d) == Refreshed(activeUplinks, d)

(* The two lists with their distances refreshed, at a time when the        *)
(* satellites are at the distances d; full: more than ten seconds have     *)
(* passed since the last full update.                                      *)
ActiveNow(d) == BubblePass(Refreshed(activeUplinks, d), Longer)
InactiveNow(d, full) ==
  IF full THEN Sorted(Refreshed(inactiveSats, d), Longer)
          ELSE {Nearest(inactiveSats, d)}

(* What of the two lists stays, the entries that go out of range, from the *)
(* end of act on, and those that come into range, from the end of ina on.  *)
Exchange(d, act, ina) ==
  LET k == Kept(act, OutOfRange)
      m == Kept(ina, {e \in Entry : d[e.sat] < MAXDIST})
  IN  [active |-> SubSeq(act, 1, k),
       inactive |-> SubSeq(ina, 1, m),
       out |-> Reverse(SubSeq(act, k + 1, Len(act))),
       come |-> Reverse(Refreshed(SubSeq(ina, m + 1, Len(ina)), d))]

Exchanges(d, full) ==
  LET act == ActiveNow(d)
  IN  {Exchange(d, act, ina) : ina \in InactiveNow(d, full)}

(* The satellites that the city is linked to then. *)
LinksAfter(ex) == (links \ Sats(ex.out)) \cup Sats(ex.come)

(* update_uplinks(), with what it exchanges. *)
UpdateUplinks(d, ex) ==
  LET act == ex.active \o ex.come
      ina == InactiveAfter(ex.inactive, ex.out)
  IN  /\ dist' = d
      /\ links' = LinksAfter(ex)
      /\ IF ex.out # <<>> \/ ex.come # <<>>
           THEN /\ activeUplinks' \in Sorted(act, Shorter)
                /\ inactiveSats' \in Sorted(ina, Longer)
           ELSE activeUplinks' = act /\ inactiveSats' = ina

-----------------------------------------------------------------------------
(* Every satellite is on exactly one of the lists, and there once, and the *)
(* city has an uplink exactly to those on the active list: none is lost or *)
(* has two pairs of links after any sequence of updates.                   *)
OnOneList ==
  /\ CityTypeOK
  /\ Len(activeUplinks) + Len(inactiveSats) = Cardinality(Sat)
  /\ Sats(activeUplinks) \cup Sats(inactiveSats) = Sat
  /\ links = Sats(activeUplinks)

(* Of the inactive satellites that every update looks at, the nearest one  *)
(* is taken if it is in range, whatever order the list was left in.        *)
TakesNearest ==
  LET n == Len(inactiveSats)
      looked == {inactiveSats[i].sat : i \in n + 1 - Min({CheckCount, n}) .. n}
      nearest == {s \in looked : \A r \in looked : dist'[s] <= dist'[r]}
  IN  (\A s \in nearest : dist'[s] < MAXDIST) /\ nearest # {}
        => nearest \cap links' # {}
NearestTaken == [][TakesNearest]_cityVars

(* "At this point, everything in _active_uplinks should be in range": the  *)
(* comment behind the loop that takes the satellites out of range off.  It *)
(* does not hold (README, deviations without a run): one pass can leave a  *)
(* satellite that is out of range before one that is in range.             *)
InRange == \A i \in DOMAIN activeUplinks : activeUplinks[i].dist <= MAXDIST

(* One pass of bubble sort per update is enough: wherever the satellites   *)
(* are and whatever order the list was left in, the next update drops one  *)
(* that is out of range if there is one, makes no link to another such     *)
(* one, and drops none that is in range.  So while the satellites stay     *)
(* where they are the city gets to the right uplinks, as many updates      *)
(* later as there were wrong ones, without ever sorting its list.          *)
TooFar(S, d) == {s \in S : d[s] > MAXDIST}
Settles ==
  \A d \in [Sat -> Dist], full \in BOOLEAN : \A ex \in Exchanges(d, full) :
    LET far == TooFar(links, d)
        farAfter == TooFar(LinksAfter(ex), d)
    IN  /\ farAfter \subseteq far
        /\ far # {} => farAfter # far
        /\ links \ far \subseteq LinksAfter(ex)
=============================================================================
