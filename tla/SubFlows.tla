----------------------------- MODULE SubFlows ------------------------------
(***************************************************************************)
(* The sub-flows of a multipath flow and the reference counts of their     *)
(* routes (mpxcp.cpp, xcp.cpp, xcprouteinfo.cpp, route.cpp, network.h).    *)
(* An update searches for paths anew: a sub-flow goes on when its path is  *)
(* found again, a new one is made for a new path, and the others become    *)
(* garbage.  A sub-flow has a route to the sink and one back.  A packet    *)
(* that is freed goes to the pool of its kind and keeps its route until it *)
(* is used again, perhaps by another sub-flow; only then the counts of     *)
(* both routes change, and a route whose count gets to 0 is deleted.       *)
(* What a program does with a deleted route is undefined: the model stops. *)
(***************************************************************************)
EXTENDS Naturals, Sequences, SequencesExt, FiniteSetsExt

CONSTANTS
  Path,        \* the paths through the network
  Never,       \* INT64_MAX, the _garbage_collection_time at the start
  Rtt,         \* the greatest round-trip time, in intervals between updates
  MaxSubFlows, \* bound: how many sub-flows are made
  MaxUpdates,  \* bound: how many updates there are
  MaxCtl,      \* bound: how many control packets a sub-flow sends
  MaxFlight    \* bound: how many packets a sub-flow has on the way each way

ASSUME SubFlowsAssumption ==
  /\ IsFiniteSet(Path)
  /\ {Rtt, MaxSubFlows, MaxUpdates, MaxCtl, MaxFlight} \subseteq Nat
  /\ Never \in Nat /\ Never > MaxUpdates + 2 * Rtt

(* Sub-flows are numbered as they are made; so are their routes.           *)
SubFlow == 1 .. MaxSubFlows
Way == {"out", "back"}
Kind == {"ctl", "data", "ctlack", "ack"}
WayOf(kind) == IF kind \in {"ctl", "data"} THEN "out" ELSE "back"

VARIABLES
  path,      \* the path of each sub-flow made so far, in this order
  current,   \* _subflows
  garbage,   \* _garbage
  gone,      \* the sub-flows that were collected
  now,       \* the number of updates so far, which are Interval apart
  gcTime,    \* _garbage_collection_time
  refs,      \* Route::_refcount of the routes of each way
  deleted,   \* the routes of each way that were deleted
  flight,    \* the packets of each sub-flow on the way, the next one first
  pool,      \* _freelist of each kind: the sub-flow whose route a packet has
  ctls,      \* how many control packets each sub-flow has sent
  kept,      \* how many control acks have arrived: they are never freed
  broken     \* whether a deleted route was used

vars == <<path, current, garbage, gone, now, gcTime, refs, deleted, flight,
          pool, ctls, kept, broken>>
flowVars == <<path, current, garbage, gone, now, gcTime>>

Made == 1 .. Len(path)

TypeOK ==
  /\ path \in Seq(Path)
  /\ current \subseteq Made
  /\ garbage \subseteq Made
  /\ gone \subseteq Made
  /\ now \in 0 .. MaxUpdates
  /\ gcTime \in Nat
  /\ refs \in [Way -> [SubFlow -> Nat]]
  /\ deleted \in [Way -> SUBSET SubFlow]
  /\ flight \in [Way -> [SubFlow -> Seq(Kind)]]
  /\ pool \in [Kind -> Seq(SubFlow)]
  /\ ctls \in [SubFlow -> Nat]
  /\ kept \in [SubFlow -> Nat]
  /\ broken \in BOOLEAN

(* The time of collection at the start; it is only ever raised.            *)
GarbageTime == Never

Init ==
  /\ path = <<>>
  /\ current = {} /\ garbage = {} /\ gone = {}
  /\ now = 0
  /\ gcTime = GarbageTime
  /\ refs = [w \in Way |-> [i \in SubFlow |-> 0]]
  /\ deleted = [w \in Way |-> {}]
  /\ flight = [w \in Way |-> [i \in SubFlow |-> <<>>]]
  /\ pool = [k \in Kind |-> <<>>]
  /\ ctls = [i \in SubFlow |-> 0]
  /\ kept = [i \in SubFlow |-> 0]
  /\ broken = FALSE

-----------------------------------------------------------------------------
(* collect_garbage(): whether the time has come; the routes of a sub-flow  *)
(* that is collected lose a reference each.                                *)
Collects == gcTime < now + 1

(* Fault: a route starts without the reference of its owner.               *)
OwnersFault(found, r) == r

(* The references of the routes out: find_route() gives a new route one,   *)
(* for the entry of the map.  When the path was known the new route is     *)
(* deleted and the entry refers to the old one once more, while the old    *)
(* entry, which is destroyed, does not give its reference back.            *)
Owners(found, r) == [i \in SubFlow |-> IF i \in found THEN r[i] + 1 ELSE r[i]]

Lowered(r, S) == [i \in SubFlow |-> IF i \in S /\ r[i] > 0 THEN r[i] - 1 ELSE r[i]]

(* doNextEvent() of the flow: garbage is collected, and the paths of found *)
(* are those of the next time.                                             *)
Update(found) ==
  LET dead == IF Collects THEN garbage ELSE {}
      known == {i \in current : path[i] \in found}
      new == found \ {path[i] : i \in known}
      newIds == Len(path) + 1 .. Len(path) + Cardinality(new)
      low == [w \in Way |-> Lowered(refs[w], dead)]
      time == IF Collects THEN GarbageTime ELSE gcTime
      rtt == IF current \ known = {} THEN 0 ELSE Rtt
  IN  /\ ~ broken
      /\ now < MaxUpdates
      /\ Len(path) + Cardinality(new) <= MaxSubFlows
      /\ now' = now + 1
      /\ path' = path \o SetToSeq(new)
      /\ current' = known \cup newIds
      /\ garbage' = (garbage \ dead) \cup (current \ known)
      /\ gone' = gone \cup dead
      /\ gcTime' = IF time < now' + 2 * rtt THEN now' + 2 * rtt ELSE time
      /\ refs' = [low EXCEPT !["out"] = Owners(known \cup newIds, @)]
      /\ deleted' = [w \in Way |-> deleted[w] \cup {i \in dead : low[w][i] = 0}]
      /\ UNCHANGED <<flight, pool, ctls, kept, broken>>

-----------------------------------------------------------------------------
(* newpkt() of a packet of kind k for sub-flow i: one from the pool, whose *)
(* old route loses a reference if it is another one, or else a new one.    *)
OldRoute(k) == IF pool[k] = <<>> THEN {} ELSE {Last(pool[k])}

SetRoute(k, i) ==
  LET w == WayOf(k)
      old == OldRoute(k) \ {i}
      low == Lowered(refs[w], old)
  IN  /\ refs' = [refs EXCEPT ![w] =
                    IF OldRoute(k) = {i} THEN @ ELSE [low EXCEPT ![i] = @ + 1]]
      /\ deleted' = [deleted EXCEPT ![w] = @ \cup {j \in old : low[j] = 0}]
      /\ broken' = \E j \in {i} \cup old : j \in deleted[w]

Rest(k) == IF pool[k] = <<>> THEN <<>> ELSE Front(pool[k])

(* A packet of kind k is allocated and sent; the first one of a sub-flow   *)
(* is a control packet, which the constructor has booked before connect()  *)
(* books the start.  Garbage goes on sending.                              *)
Send(k, i) ==
  /\ ~ broken
  /\ i \in current \cup garbage
  /\ Len(flight["out"][i]) < MaxFlight
  /\ k = "data" => ctls[i] > 0
  /\ k = "ctl" => ctls[i] < MaxCtl
  /\ SetRoute(k, i)
  /\ pool' = [pool EXCEPT ![k] = Rest(k)]
  /\ flight' = [flight EXCEPT !["out"][i] = Append(@, k)]
  /\ ctls' = IF k = "ctl" THEN [ctls EXCEPT ![i] = @ + 1] ELSE ctls
  /\ UNCHANGED <<flowVars, kept>>

Answer(k) == IF k = "ctl" THEN "ctlack" ELSE "ack"

(* The sink allocates and sends the answer, and frees the packet.          *)
SinkReceives(i) ==
  /\ ~ broken
  /\ i \in current \cup garbage
  /\ flight["out"][i] # <<>>
  /\ Len(flight["back"][i]) < MaxFlight
  /\ LET k == Head(flight["out"][i])
         a == Answer(k)
     IN  /\ SetRoute(a, i)
         /\ pool' = [pool EXCEPT ![a] = Rest(a), ![k] = Append(@, i)]
         /\ flight' = [flight EXCEPT !["out"][i] = Tail(@), !["back"][i] = Append(@, a)]
  /\ UNCHANGED <<flowVars, ctls, kept>>

(* Fault: a control ack is freed like any other packet. *)
FreedByFault(k) == TRUE

(* The source frees acks, and forgets to free control acks. *)
FreedBy(k) == k = "ack"

SourceReceives(i) ==
  /\ ~ broken
  /\ i \in current \cup garbage
  /\ flight["back"][i] # <<>>
  /\ LET k == Head(flight["back"][i])
     IN  /\ pool' = IF FreedBy(k) THEN [pool EXCEPT ![k] = Append(@, i)] ELSE pool
         /\ kept' = IF k = "ctlack" THEN [kept EXCEPT ![i] = @ + 1] ELSE kept
  /\ flight' = [flight EXCEPT !["back"][i] = Tail(@)]
  /\ UNCHANGED <<flowVars, refs, deleted, ctls, broken>>

(* A full queue, or a link that goes down, frees a packet. *)
Lose(w, i) ==
  /\ ~ broken
  /\ \E n \in DOMAIN flight[w][i] :
       /\ pool' = [pool EXCEPT ![flight[w][i][n]] = Append(@, i)]
       /\ flight' = [flight EXCEPT ![w][i] = RemoveAt(@, n)]
  /\ UNCHANGED <<flowVars, refs, deleted, ctls, kept, broken>>

Next ==
  \/ \E found \in SUBSET Path : Update(found)
  \/ \E i \in SubFlow :
       \/ \E k \in {"ctl", "data"} : Send(k, i)
       \/ SinkReceives(i)
       \/ SourceReceives(i)
       \/ \E w \in Way : Lose(w, i)

Spec == Init /\ [][Next]_vars

-----------------------------------------------------------------------------
(* The packets that have the route of i this way: those on the way, those  *)
(* in the pools, and the control acks that were never freed.               *)
Pooled(k, i) == Cardinality({n \in DOMAIN pool[k] : pool[k][n] = i})
Users(w, i) ==
  IF w = "out"
    THEN Len(flight[w][i]) + Pooled("ctl", i) + Pooled("data", i)
    ELSE Len(flight[w][i]) + Pooled("ctlack", i) + Pooled("ack", i) + kept[i]

(* Until a deleted route is used the counts are exact: decr_refcount()     *)
(* never asserts, a route back is counted once per packet that has it, and *)
(* a route out at least once more than that.                               *)
Counted ==
  /\ TypeOK
  /\ ~ broken => \A i \in Made \ gone :
       /\ i \notin deleted["back"] => refs["back"][i] = Users("back", i)
       /\ refs["out"][i] > Users("out", i)

(* A route is never deleted while its sub-flow may use it, if a control    *)
(* ack has come back over it: the control acks that are never freed keep   *)
(* the route back, which no one else owns.                                 *)
RoutesKept ==
  /\ deleted["out"] \subseteq gone
  /\ \A i \in deleted["back"] \ gone : kept[i] = 0
=============================================================================
