----------------------------- MODULE NdpProofs -----------------------------
(***************************************************************************)
(* Proofs about NDP.  First the pull pacer, for any number of flows, any   *)
(* drain time and any number of pulls queued for a flow; then one flow,    *)
(* for any size, any first window and whatever the network may do to it:   *)
(* the inductive invariant is NdpInv, kept by every action of the flow.    *)
(***************************************************************************)
EXTENDS PullPacer, NdpFlow, SequenceLemmas

-----------------------------------------------------------------------------
(* Lemmas on the choice of the next flow.                                  *)

LEMMA PacerConstants ==
  /\ NumFlows \in Nat /\ DrainTime \in Nat /\ DrainTime > 0 /\ MaxWaiting \in Nat
  /\ End \in Nat
  /\ \A f \in Flow : f \in Nat /\ f # None /\ f < End
BY PullPacerAssumption DEF Flow, End, None

(* The iterator moves on to the next entry of the map, skipping none. *)
LEMMA SuccessorProperties ==
  ASSUME NEW f \in Flow, NEW m \in SUBSET Flow
  PROVE  /\ Successor(f, m) \in {g \in m : g > f} \cup {End}
         /\ Successor(f, m) \in Nat
         /\ Successor(f, m) > f
         /\ \A h \in m : h > f => Successor(f, m) <= h
<1> DEFINE A == {g \in m : g > f}
<1>1. /\ f \in Nat /\ End \in Nat /\ End > f
      /\ A \in SUBSET Nat /\ \A h \in m : h \in Nat
  BY PacerConstants
<1>2. CASE A = {}
  BY <1>1, <1>2 DEF Successor
<1>3. CASE A # {}
  <2> HIDE DEF Min
  <2>1. Min(A) \in A /\ \A y \in A : Min(A) <= y
    BY <1>1, <1>3, MinProperties
  <2>2. Successor(f, m) = Min(A)
    BY <1>3 DEF Successor
  <2> QED BY <1>1, <2>1, <2>2
<1> QED BY <1>2, <1>3

(* The flow h is not behind the flow f on the way of the iterator. *)
First(f, h) ==
  \/ current <= f /\ (current <= h => f <= h)
  \/ f < current /\ h < current /\ f <= h

(* Of the flows with pulls, dequeue() serves the one the iterator reaches  *)
(* first.                                                                  *)
LEMMA DequeuedProperties ==
  ASSUME TypeOK, Waiting(waiting) # {}
  PROVE  /\ Dequeued \in Waiting(waiting)
         /\ \A h \in Waiting(waiting) : First(Dequeued, h)
<1> DEFINE W == Waiting(waiting)
           A == {f \in W : f >= current}
<1>1. W \in SUBSET Flow
  BY DEF Waiting
<1>2. W \in SUBSET Nat /\ A \in SUBSET Nat /\ current \in Nat
  BY <1>1, PacerConstants DEF TypeOK
<1> HIDE DEF Min
<1>3. CASE A # {}
  <2>1. Min(A) \in A /\ \A y \in A : Min(A) <= y
    BY <1>2, <1>3, MinProperties
  <2>2. Dequeued = Min(A)
    BY <1>3 DEF Dequeued
  <2> QED BY <1>2, <2>1, <2>2 DEF First
<1>4. CASE A = {}
  <2>1. Min(W) \in W /\ \A y \in W : Min(W) <= y
    BY <1>2, MinProperties
  <2>2. Dequeued = Min(W)
    BY <1>4 DEF Dequeued
  <2> QED BY <1>2, <1>4, <2>1, <2>2 DEF First
<1> QED BY <1>3, <1>4

-----------------------------------------------------------------------------
(* The inductive invariant.  Where a flow has been overtaken by another    *)
(* one, the iterator comes to the first before it comes to the second      *)
(* again; and as long as no flow has ended, the event of the pacer is due  *)
(* a drain time after the last pull, and booked only while a pull waits.   *)
Turn ==
  \A f, g \in Flow :
    overtaken[f][g] > 0 =>
      /\ waiting[f] > 0 /\ overtaken[f][g] = 1
      /\ \/ current <= f /\ f < g
         \/ g < current /\ current <= f
         \/ f < g /\ g < current

OneEvent ==
  finished = {} =>
    \A t \in 0 .. DrainTime :
      events[t] = IF Waiting(waiting) # {} /\ t = DrainTime - sincePull THEN 1 ELSE 0

PacerInv == TypeOK /\ NoLostWakeup /\ Turn /\ OneEvent

-----------------------------------------------------------------------------
(* The type invariant.                                                     *)

LEMMA LeavesType ==
  ASSUME TypeOK, NEW f \in Flow \cup {None}, NEW w, Leaves(f, w)
  PROVE  left' \in Flow \cup {None} /\ overtaken' \in [Flow -> [Flow -> Nat]]
<1>1. overtaken \in [Flow -> [Flow -> Nat]]
  BY DEF TypeOK
<1> DEFINE New(h, g) == IF h = f \/ w[h] = 0 \/ waiting[h] = 0 THEN 0
                        ELSE IF g = f THEN overtaken[h][g] + 1 ELSE overtaken[h][g]
<1>2. \A h, g \in Flow : New(h, g) \in Nat
  BY <1>1
<1>3. left' = f /\ overtaken' = [h \in Flow |-> [g \in Flow |-> New(h, g)]]
  BY DEF Leaves
<1> HIDE DEF New
<1> QED BY <1>2, <1>3

LEMMA ReceivePacketType ==
  ASSUME TypeOK, NEW f \in Flow, NEW last \in BOOLEAN, ReceivePacket(f, last)
  PROVE  TypeOK'
<1>1. Successor(f, mapped) \in mapped \cup {End} /\ Successor(f, mapped) # f
  <2>1. mapped \in SUBSET Flow /\ f \in Nat
    BY PacerConstants DEF TypeOK
  <2> QED BY <2>1, SuccessorProperties
<1>2. waiting[f] \in 0 .. MaxWaiting /\ waiting[f] < MaxWaiting
  BY DEF TypeOK, ReceivePacket
<1>3. mapped' \subseteq Flow
  BY DEF TypeOK, ReceivePacket
<1>4. waiting' \in [Flow -> 0 .. MaxWaiting]
  <2>1. 0 \in 0 .. MaxWaiting /\ waiting[f] + 1 \in 0 .. MaxWaiting
    BY <1>2, PacerConstants
  <2> QED BY <1>2, <2>1 DEF TypeOK, ReceivePacket
<1>5. \A h \in Flow \ mapped' : waiting'[h] = 0
  BY <1>2 DEF TypeOK, ReceivePacket
<1>6. current' \in mapped' \cup {End}
  BY <1>1 DEF TypeOK, ReceivePacket, FlushedCurrent
<1>7. sincePull' \in 0 .. DrainTime
  BY PacerConstants DEF TypeOK, ReceivePacket
<1>8. events' \in [0 .. DrainTime -> Nat]
  <2>1. /\ DrainTime - sincePull \in 0 .. DrainTime
        /\ events \in [0 .. DrainTime -> Nat]
    <3>1. sincePull \in 0 .. DrainTime /\ events \in [0 .. DrainTime -> Nat]
      BY DEF TypeOK
    <3> QED BY <3>1, PacerConstants
  <2>2. Booked(DrainTime - sincePull) \in [0 .. DrainTime -> Nat]
    BY <2>1 DEF Booked
  <2>3. events' = events \/ events' = Booked(DrainTime - sincePull)
    BY DEF ReceivePacket, FirstQueued
  <2> QED BY <2>1, <2>2, <2>3
<1>9. finished' \subseteq Flow
  BY DEF TypeOK, ReceivePacket
<1>10. left' \in Flow \cup {None} /\ overtaken' \in [Flow -> [Flow -> Nat]]
  BY LeavesType DEF ReceivePacket
<1> QED BY <1>3, <1>4, <1>5, <1>6, <1>7, <1>8, <1>9, <1>10 DEF TypeOK

LEMMA DoNextEventType ==
  ASSUME TypeOK, DoNextEvent
  PROVE  TypeOK'
<1>1. events[0] \in Nat /\ events[0] > 0 /\ 0 \in 0 .. DrainTime
  BY PacerConstants DEF TypeOK, DoNextEvent
<1>2. CASE Waiting(waiting) = {}
  <2>1. events' \in [0 .. DrainTime -> Nat]
    BY <1>1, <1>2 DEF TypeOK, DoNextEvent
  <2>2. left' \in Flow \cup {None} /\ overtaken' \in [Flow -> [Flow -> Nat]]
    BY <1>2, LeavesType DEF DoNextEvent
  <2> QED BY <1>2, <2>1, <2>2 DEF TypeOK, DoNextEvent
<1>3. CASE Waiting(waiting) # {}
  <2> DEFINE f == Dequeued
             w == [waiting EXCEPT ![f] = @ - 1]
  <2>1. f \in Flow /\ f \in mapped /\ waiting[f] > 0 /\ waiting[f] \in 0 .. MaxWaiting
    <3>1. f \in Waiting(waiting)
      BY <1>3, DequeuedProperties
    <3> QED BY <3>1, PacerConstants DEF Waiting, TypeOK
  <2> HIDE DEF f
  <2>2. w \in [Flow -> 0 .. MaxWaiting] /\ \A h \in Flow \ mapped : w[h] = 0
    <3>1. waiting[f] - 1 \in 0 .. MaxWaiting
      BY <2>1, PacerConstants
    <3> QED BY <2>1, <3>1 DEF TypeOK
  <2>3. /\ waiting' = w /\ current' = Successor(f, mapped) /\ sincePull' = 0
        /\ Leaves(f, w) /\ mapped' = mapped /\ finished' = finished
        /\ events' = [t \in 0 .. DrainTime |->
                        events[t] - (IF t = 0 THEN 1 ELSE 0)
                                  + (IF t = DrainTime THEN Rebooked(w) ELSE 0)]
    BY <1>3 DEF DoNextEvent, f
  <2>4. events' \in [0 .. DrainTime -> Nat]
    <3>1. Rebooked(w) \in Nat
      BY DEF Rebooked
    <3> HIDE DEF w
    <3>2. ASSUME NEW t \in 0 .. DrainTime
          PROVE  events[t] - (IF t = 0 THEN 1 ELSE 0)
                           + (IF t = DrainTime THEN Rebooked(w) ELSE 0) \in Nat
      <4>1. events[t] \in Nat /\ (t = 0 => events[t] > 0)
        BY <1>1 DEF TypeOK
      <4> QED BY <3>1, <4>1
    <3> QED BY <2>3, <3>2
  <2>5. current' \in mapped' \cup {End}
    BY <2>1, <2>3, SuccessorProperties DEF TypeOK
  <2>6. left' \in Flow \cup {None} /\ overtaken' \in [Flow -> [Flow -> Nat]]
    BY <2>1, <2>3, LeavesType
  <2>7. sincePull' \in 0 .. DrainTime
    BY <2>3, PacerConstants
  <2> QED BY <2>2, <2>3, <2>4, <2>5, <2>6, <2>7 DEF TypeOK
<1> QED BY <1>2, <1>3

LEMMA TickType ==
  ASSUME TypeOK, Tick
  PROVE  TypeOK'
<1>1. sincePull' \in 0 .. DrainTime
  <2>1. sincePull + 1 \in Nat /\ DrainTime \in Nat
    BY PacerConstants DEF TypeOK
  <2> HIDE DEF Min
  <2>2. Min({sincePull + 1, DrainTime})
          = IF sincePull + 1 <= DrainTime THEN sincePull + 1 ELSE DrainTime
    BY ONLY <2>1, MinOfTwo
  <2>3. sincePull' = Min({sincePull + 1, DrainTime})
    BY DEF Tick
  <2> QED BY <2>1, <2>2, <2>3
<1>2. events' \in [0 .. DrainTime -> Nat]
  <2>1. \A t \in 0 .. DrainTime : (IF t < DrainTime THEN events[t + 1] ELSE 0) \in Nat
    BY PacerConstants DEF TypeOK
  <2>2. events' = [t \in 0 .. DrainTime |-> IF t < DrainTime THEN events[t + 1] ELSE 0]
    BY DEF Tick
  <2> QED BY <2>1, <2>2
<1>3. left' \in Flow \cup {None} /\ overtaken' \in [Flow -> [Flow -> Nat]]
  BY LeavesType DEF Tick
<1> QED BY <1>1, <1>2, <1>3 DEF TypeOK, Tick

LEMMA TypeStep ==
  ASSUME TypeOK, [Next]_vars
  PROVE  TypeOK'
<1>1. CASE UNCHANGED vars
  BY <1>1 DEF vars, TypeOK
<1> QED BY <1>1, ReceivePacketType, DoNextEventType, TickType DEF Next

-----------------------------------------------------------------------------
(* An event is booked while a pull waits.                                  *)

LEMMA ReceivePacketWakes ==
  ASSUME TypeOK, NoLostWakeup, NEW f \in Flow, NEW last \in BOOLEAN, ReceivePacket(f, last)
  PROVE  NoLostWakeup'
<1>1. /\ sincePull \in 0 .. DrainTime /\ events \in [0 .. DrainTime -> Nat]
      /\ waiting \in [Flow -> 0 .. MaxWaiting]
  BY DEF TypeOK
<1>2. CASE MayGo(f)
  <2>1. waiting' = [waiting EXCEPT ![f] = 0]
    <3>1. waiting[f] = 0
      BY <1>1, <1>2 DEF MayGo, Waiting
    <3> QED BY <1>2, <3>1 DEF ReceivePacket
  <2>2. Waiting(waiting') = {}
    BY <1>1, <1>2, <2>1 DEF MayGo, Waiting
  <2> QED BY <2>2 DEF NoLostWakeup
<1>3. CASE ~MayGo(f) /\ Waiting(waiting) = {}
  <2> DEFINE t == DrainTime - sincePull
  <2>1. t \in 0 .. DrainTime
    BY <1>1, PacerConstants
  <2>2. events' = [events EXCEPT ![t] = @ + 1]
    BY <1>3 DEF ReceivePacket, FirstQueued, Booked
  <2> HIDE DEF t
  <2>3. t \in DOMAIN events' /\ events'[t] = events[t] + 1 /\ events[t] \in Nat
    BY <1>1, <2>1, <2>2
  <2> QED BY <2>3 DEF NoLostWakeup
<1>4. CASE ~MayGo(f) /\ Waiting(waiting) # {}
  BY <1>4 DEF ReceivePacket, FirstQueued, NoLostWakeup
<1> QED BY <1>2, <1>3, <1>4

LEMMA DoNextEventWakes ==
  ASSUME TypeOK, DoNextEvent
  PROVE  NoLostWakeup'
<1>1. CASE Waiting(waiting) = {}
  BY <1>1 DEF DoNextEvent, NoLostWakeup
<1>2. CASE Waiting(waiting) # {} /\ Waiting(waiting') # {}
  <2>1. events' = [t \in 0 .. DrainTime |->
                     events[t] - (IF t = 0 THEN 1 ELSE 0)
                               + (IF t = DrainTime THEN Rebooked(waiting') ELSE 0)]
    BY <1>2 DEF DoNextEvent
  <2>2. Rebooked(waiting') = 1
    BY <1>2 DEF Rebooked
  <2>3. events \in [0 .. DrainTime -> Nat] /\ DrainTime \in 0 .. DrainTime /\ DrainTime > 0
    BY PacerConstants DEF TypeOK
  <2>4. DrainTime \in DOMAIN events' /\ events'[DrainTime] = events[DrainTime] + 1
    BY <2>1, <2>2, <2>3
  <2> QED BY <2>3, <2>4 DEF NoLostWakeup
<1> QED BY <1>1, <1>2 DEF NoLostWakeup

LEMMA TickWakes ==
  ASSUME TypeOK, NoLostWakeup, Tick
  PROVE  NoLostWakeup'
<1> SUFFICES ASSUME Waiting(waiting) # {}
             PROVE  \E t \in DOMAIN events' : events'[t] > 0
  BY DEF Tick, NoLostWakeup
<1>1. events \in [0 .. DrainTime -> Nat] /\ events[0] = 0
  BY DEF TypeOK, Tick
<1>2. PICK t \in 0 .. DrainTime : events[t] > 0
  BY <1>1 DEF NoLostWakeup
<1>3. t # 0 /\ t - 1 \in 0 .. DrainTime /\ t - 1 < DrainTime /\ (t - 1) + 1 = t
  BY <1>1, <1>2, PacerConstants
<1>4. events' = [u \in 0 .. DrainTime |-> IF u < DrainTime THEN events[u + 1] ELSE 0]
  BY DEF Tick
<1>5. t - 1 \in DOMAIN events' /\ events'[t - 1] = events[t]
  BY <1>3, <1>4
<1> QED BY <1>2, <1>5

-----------------------------------------------------------------------------
(* No flow is overtaken twice.                                             *)

(* Where f stands on the way of an iterator at c that has overtaken it     *)
(* with g.                                                                 *)
Between(c, f, g) ==
  \/ c <= f /\ f < g
  \/ g < c /\ c <= f
  \/ f < g /\ g < c

(* A step in which no pull leaves only forgets who was overtaken. *)
LEMMA NoneLeaves ==
  ASSUME TypeOK, Leaves(None, waiting'), NEW h \in Flow, NEW g \in Flow,
         overtaken'[h][g] > 0
  PROVE  /\ waiting[h] > 0 /\ waiting'[h] # 0
         /\ overtaken'[h][g] = overtaken[h][g]
<1>1. overtaken'[h][g] =
        IF h = None \/ waiting'[h] = 0 \/ waiting[h] = 0 THEN 0
        ELSE IF g = None THEN overtaken[h][g] + 1 ELSE overtaken[h][g]
  BY DEF Leaves
<1>2. waiting[h] \in Nat /\ h # None /\ g # None
  BY PacerConstants DEF TypeOK
<1> QED BY <1>1, <1>2

LEMMA ReceivePacketTurns ==
  ASSUME TypeOK, TypeOK', Turn, NEW f \in Flow, NEW last \in BOOLEAN, ReceivePacket(f, last)
  PROVE  Turn'
<1> SUFFICES ASSUME NEW h \in Flow, NEW g \in Flow, overtaken'[h][g] > 0
             PROVE  /\ waiting'[h] > 0 /\ overtaken'[h][g] = 1
                    /\ Between(current', h, g)
  BY DEF Turn, Between
<1>1. ~MayGo(f)
  <2> SUFFICES ASSUME MayGo(f)
               PROVE  FALSE
    OBVIOUS
  <2>1. waiting[h] = 0
    BY DEF MayGo, Waiting, TypeOK
  <2>2. Leaves(f, waiting')
    BY DEF ReceivePacket
  <2>3. overtaken'[h][g] = 0
    BY <2>1, <2>2 DEF Leaves
  <2> QED BY <2>3
<1>2. Leaves(None, waiting')
  BY <1>1 DEF ReceivePacket
<1>3. waiting[h] > 0 /\ waiting'[h] # 0 /\ overtaken'[h][g] = overtaken[h][g]
  BY <1>2, NoneLeaves
<1>4. waiting'[h] > 0 /\ h \in mapped
  <2>1. waiting'[h] \in Nat
    BY DEF TypeOK
  <2>2. h \in mapped
    BY <1>3 DEF TypeOK
  <2> QED BY <1>3, <2>1, <2>2
<1>5. Between(current, h, g) /\ overtaken[h][g] = 1
  BY <1>3 DEF Turn, Between
<1>6. CASE current' = current
  BY <1>3, <1>4, <1>5, <1>6
<1>7. CASE current' # current
  <2>1. last /\ current = f /\ current' = Successor(f, mapped)
    BY <1>7 DEF ReceivePacket, FlushedCurrent
  <2>2. h # f
    BY <1>3, <2>1 DEF ReceivePacket, TypeOK
  <2>3. /\ Successor(f, mapped) \in Nat /\ Successor(f, mapped) > f
        /\ (h > f => Successor(f, mapped) <= h)
    BY <1>4, SuccessorProperties DEF TypeOK
  <2>4. f \in Nat /\ g \in Nat /\ h \in Nat
    BY PacerConstants
  <2>5. Between(current', h, g)
    BY <1>5, <2>1, <2>2, <2>3, <2>4 DEF Between
  <2> QED BY <1>3, <1>4, <1>5, <2>5
<1> QED BY <1>6, <1>7

LEMMA DoNextEventTurns ==
  ASSUME TypeOK, TypeOK', Turn, DoNextEvent
  PROVE  Turn'
<1> SUFFICES ASSUME NEW h \in Flow, NEW g \in Flow, overtaken'[h][g] > 0
             PROVE  /\ waiting'[h] > 0 /\ overtaken'[h][g] = 1
                    /\ Between(current', h, g)
  BY DEF Turn, Between
<1>1. Waiting(waiting) # {}
  <2> SUFFICES ASSUME Waiting(waiting) = {}
               PROVE  FALSE
    OBVIOUS
  <2>1. Leaves(None, waiting) /\ waiting' = waiting
    BY DEF DoNextEvent
  <2>2. waiting[h] > 0
    BY <2>1, NoneLeaves
  <2> QED BY <2>2 DEF Waiting
<1> DEFINE d == Dequeued
           s == Successor(d, mapped)
<1>2. d \in Waiting(waiting) /\ \A i \in Waiting(waiting) : First(d, i)
  BY <1>1, DequeuedProperties
<1>3. Leaves(d, waiting') /\ current' = s
  BY <1>1 DEF DoNextEvent
<1> HIDE DEF d
<1>4. d \in Flow /\ mapped \in SUBSET Flow
  BY <1>2 DEF Waiting, TypeOK
<1>5. s \in Nat /\ s > d /\ \A i \in mapped : i > d => s <= i
  BY <1>4, SuccessorProperties
<1> HIDE DEF s
<1>6. overtaken'[h][g] =
        IF h = d \/ waiting'[h] = 0 \/ waiting[h] = 0 THEN 0
        ELSE IF g = d THEN overtaken[h][g] + 1 ELSE overtaken[h][g]
  BY <1>3 DEF Leaves
<1>7. /\ waiting[h] \in Nat /\ waiting'[h] \in Nat /\ overtaken[h][g] \in Nat
      /\ current \in Nat /\ d \in Nat /\ h \in Nat /\ g \in Nat
  <2>1. waiting[h] \in Nat
    BY DEF TypeOK
  <2>2. waiting'[h] \in Nat
    BY DEF TypeOK
  <2>3. overtaken[h][g] \in Nat
    BY DEF TypeOK
  <2>4. current \in Nat
    BY PacerConstants DEF TypeOK
  <2>5. d \in Nat /\ h \in Nat /\ g \in Nat
    BY <1>4, PacerConstants
  <2> QED BY <2>1, <2>2, <2>3, <2>4, <2>5
<1>8. h # d /\ waiting'[h] > 0 /\ waiting[h] > 0
  BY <1>6, <1>7
<1>9. h \in mapped /\ First(d, h)
  BY <1>2, <1>8 DEF TypeOK, Waiting
<1>10. h > d => s <= h
  BY <1>5, <1>9
<1>11. CASE g = d
  <2>1. overtaken[h][g] = 0
    <3> SUFFICES ASSUME overtaken[h][g] > 0
                 PROVE  FALSE
      BY <1>7
    <3>1. Between(current, h, d)
      BY <1>11 DEF Turn, Between
    <3> QED BY <3>1, <1>7, <1>9 DEF Between, First
  <2>2. overtaken'[h][g] = 1
    BY <1>6, <1>8, <1>11, <2>1
  <2>3. Between(s, h, g)
    BY <1>5, <1>7, <1>8, <1>10, <1>11 DEF Between
  <2> QED BY <1>3, <1>8, <2>2, <2>3
<1>12. CASE g # d
  <2>1. overtaken'[h][g] = overtaken[h][g]
    BY <1>6, <1>8, <1>12
  <2>2. overtaken[h][g] = 1 /\ Between(current, h, g)
    BY <2>1 DEF Turn, Between
  <2>3. Between(s, h, g)
    BY <1>5, <1>7, <1>8, <1>9, <1>10, <2>2 DEF Between, First
  <2> QED BY <1>3, <1>8, <2>1, <2>2, <2>3
<1> QED BY <1>11, <1>12

LEMMA TickTurns ==
  ASSUME TypeOK, TypeOK', Turn, Tick
  PROVE  Turn'
<1> SUFFICES ASSUME NEW h \in Flow, NEW g \in Flow, overtaken'[h][g] > 0
             PROVE  /\ waiting'[h] > 0 /\ overtaken'[h][g] = 1
                    /\ Between(current', h, g)
  BY DEF Turn, Between
<1>1. waiting' = waiting /\ current' = current /\ Leaves(None, waiting')
  BY DEF Tick
<1>2. waiting[h] > 0 /\ overtaken'[h][g] = overtaken[h][g]
  BY <1>1, NoneLeaves
<1> QED BY <1>1, <1>2 DEF Turn, Between

-----------------------------------------------------------------------------
(* One event, a drain time after the last pull, while no flow has ended.   *)

LEMMA ReceivePacketOneEvent ==
  ASSUME TypeOK, OneEvent, NEW f \in Flow, NEW last \in BOOLEAN, ReceivePacket(f, last)
  PROVE  OneEvent'
<1> SUFFICES ASSUME finished' = {}
             PROVE  \A t \in 0 .. DrainTime : events'[t] =
                      IF Waiting(waiting') # {} /\ t = DrainTime - sincePull' THEN 1 ELSE 0
  BY DEF OneEvent
<1>1. ~last /\ finished = {}
  BY DEF ReceivePacket
<1>2. waiting \in [Flow -> 0 .. MaxWaiting] /\ waiting[f] \in Nat
  BY DEF TypeOK
<1>3. /\ sincePull \in 0 .. DrainTime /\ DrainTime \in Nat
      /\ events \in [0 .. DrainTime -> Nat]
  BY PacerConstants DEF TypeOK
<1>4. CASE MayGo(f)
  <2>1. waiting' = waiting /\ events' = events
    BY <1>1, <1>2, <1>4 DEF ReceivePacket
  <2> QED BY <1>1, <1>4, <2>1 DEF OneEvent, MayGo
<1>5. CASE ~MayGo(f)
  <2>1. waiting' = [waiting EXCEPT ![f] = waiting[f] + 1] /\ sincePull' = sincePull
        /\ events' = FirstQueued
    BY <1>1, <1>5 DEF ReceivePacket
  <2>2. waiting'[f] > 0
    BY <1>2, <2>1
  <2>3. Waiting(waiting') # {}
    BY <2>2 DEF Waiting
  <2>4. CASE Waiting(waiting) = {}
    <3> DEFINE b == DrainTime - sincePull
    <3>1. events' = [events EXCEPT ![b] = events[b] + 1] /\ b \in 0 .. DrainTime
      BY <1>3, <2>1, <2>4 DEF FirstQueued, Booked
    <3>2. \A t \in 0 .. DrainTime : events[t] = 0
      BY <1>1, <2>4 DEF OneEvent
    <3>3. \A t \in 0 .. DrainTime : events'[t] = IF t = b THEN 1 ELSE 0
      BY <1>3, <3>1, <3>2
    <3> QED BY <2>1, <2>3, <3>3
  <2>5. CASE Waiting(waiting) # {}
    BY <1>1, <2>1, <2>3, <2>5 DEF OneEvent, FirstQueued
  <2> QED BY <2>4, <2>5
<1> QED BY <1>4, <1>5

(* The event is due exactly when the drain time is over. *)
LEMMA DueOnTime ==
  ASSUME TypeOK, OneEvent, finished = {}, events[0] > 0
  PROVE  Waiting(waiting) # {} /\ sincePull = DrainTime
<1>1. 0 \in 0 .. DrainTime /\ sincePull \in 0 .. DrainTime /\ DrainTime \in Nat
  BY PacerConstants DEF TypeOK
<1>2. events[0] = IF Waiting(waiting) # {} /\ 0 = DrainTime - sincePull THEN 1 ELSE 0
  BY <1>1 DEF OneEvent
<1>3. Waiting(waiting) # {} /\ 0 = DrainTime - sincePull
  BY <1>2
<1> QED BY <1>1, <1>3

LEMMA DoNextEventOneEvent ==
  ASSUME TypeOK, OneEvent, DoNextEvent
  PROVE  OneEvent'
<1> SUFFICES ASSUME finished' = {}
             PROVE  \A t \in 0 .. DrainTime : events'[t] =
                      IF Waiting(waiting') # {} /\ t = DrainTime - sincePull' THEN 1 ELSE 0
  BY DEF OneEvent
<1>1. finished = {} /\ events[0] > 0
  BY DEF DoNextEvent
<1>2. Waiting(waiting) # {} /\ sincePull = DrainTime
  BY <1>1, DueOnTime
<1>3. /\ sincePull' = 0
      /\ events' = [t \in 0 .. DrainTime |->
                      events[t] - (IF t = 0 THEN 1 ELSE 0)
                                + (IF t = DrainTime THEN Rebooked(waiting') ELSE 0)]
  BY <1>2 DEF DoNextEvent
<1>4. DrainTime \in Nat /\ DrainTime > 0 /\ DrainTime - sincePull = 0
  BY <1>2, PacerConstants
<1>5. \A t \in 0 .. DrainTime : events[t] = IF t = 0 THEN 1 ELSE 0
  BY <1>1, <1>2, <1>4 DEF OneEvent
<1>6. Rebooked(waiting') = IF Waiting(waiting') # {} THEN 1 ELSE 0
  BY DEF Rebooked
<1>7. \A t \in 0 .. DrainTime :
        events'[t] = IF t = DrainTime THEN Rebooked(waiting') ELSE 0
  <2> SUFFICES ASSUME NEW t \in 0 .. DrainTime
               PROVE  events'[t] = IF t = DrainTime THEN Rebooked(waiting') ELSE 0
    OBVIOUS
  <2>1. Rebooked(waiting') \in Nat
    BY <1>6
  <2> QED BY <1>3, <1>4, <1>5, <2>1
<1> QED BY <1>3, <1>4, <1>6, <1>7

LEMMA TickOneEvent ==
  ASSUME TypeOK, OneEvent, Tick
  PROVE  OneEvent'
<1> SUFFICES ASSUME finished' = {}
             PROVE  \A t \in 0 .. DrainTime : events'[t] =
                      IF Waiting(waiting') # {} /\ t = DrainTime - sincePull' THEN 1 ELSE 0
  BY DEF OneEvent
<1>1. finished = {} /\ waiting' = waiting /\ events[0] = 0
  BY DEF Tick
<1>2. sincePull \in 0 .. DrainTime /\ DrainTime \in Nat /\ DrainTime > 0
  BY PacerConstants DEF TypeOK
<1>3. events' = [t \in 0 .. DrainTime |-> IF t < DrainTime THEN events[t + 1] ELSE 0]
  BY DEF Tick
<1>4. \A t \in 0 .. DrainTime :
        events[t] = IF Waiting(waiting) # {} /\ t = DrainTime - sincePull THEN 1 ELSE 0
  BY <1>1 DEF OneEvent
<1>5. CASE Waiting(waiting) = {}
  BY <1>1, <1>2, <1>3, <1>4, <1>5
<1>6. CASE Waiting(waiting) # {}
  <2>1. sincePull < DrainTime
    BY <1>1, <1>2, <1>4, <1>6
  <2>2. sincePull' = sincePull + 1
    <3> HIDE DEF Min
    <3>1. sincePull + 1 \in Nat
      BY <1>2
    <3>2. Min({sincePull + 1, DrainTime})
            = IF sincePull + 1 <= DrainTime THEN sincePull + 1 ELSE DrainTime
      BY ONLY <1>2, <3>1, MinOfTwo
    <3>3. sincePull' = Min({sincePull + 1, DrainTime})
      BY DEF Tick
    <3> QED BY <1>2, <2>1, <3>2, <3>3
  <2>3. \A t \in 0 .. DrainTime :
          events'[t] = IF t = DrainTime - (sincePull + 1) THEN 1 ELSE 0
    BY <1>2, <1>3, <1>4, <1>6, <2>1
  <2> QED BY <1>1, <1>6, <2>2, <2>3
<1> QED BY <1>5, <1>6

-----------------------------------------------------------------------------
(* The theorems.                                                           *)

LEMMA PacerInit == Init => PacerInv
<1> SUFFICES ASSUME Init
             PROVE  PacerInv
  OBVIOUS
<1>1. TypeOK
  BY PacerConstants DEF Init, TypeOK
<1>2. Waiting(waiting) = {}
  BY DEF Init, Waiting
<1> QED BY <1>1, <1>2 DEF Init, PacerInv, NoLostWakeup, Turn, OneEvent

LEMMA PacerStep == PacerInv /\ [Next]_vars => PacerInv'
<1> SUFFICES ASSUME PacerInv, [Next]_vars
             PROVE  PacerInv'
  OBVIOUS
<1>1. TypeOK /\ NoLostWakeup /\ Turn /\ OneEvent
  BY DEF PacerInv
<1>2. TypeOK'
  BY <1>1, TypeStep
<1>3. CASE UNCHANGED vars
  BY <1>1, <1>2, <1>3 DEF vars, PacerInv, NoLostWakeup, Turn, OneEvent
<1>4. ASSUME NEW f \in Flow, NEW last \in BOOLEAN, ReceivePacket(f, last)
      PROVE  PacerInv'
  BY <1>1, <1>2, <1>4, ReceivePacketWakes, ReceivePacketTurns, ReceivePacketOneEvent DEF PacerInv
<1>5. CASE DoNextEvent
  BY <1>1, <1>2, <1>5, DoNextEventWakes, DoNextEventTurns, DoNextEventOneEvent DEF PacerInv
<1>6. CASE Tick
  BY <1>1, <1>2, <1>6, TickWakes, TickTurns, TickOneEvent DEF PacerInv
<1> QED BY <1>3, <1>4, <1>5, <1>6 DEF Next

(* The strengthened invariant holds in every reachable state.              *)
THEOREM PacerInvariant == Spec => []PacerInv
BY PacerInit, PacerStep, PTL DEF Spec

(* The queue map, the iterator of the pacer and its bookings stay well     *)
(* formed, whatever flows are flushed: the iterator never points to an     *)
(* entry that is erased.                                                   *)
THEOREM PacerTypeCorrect == Spec => []TypeOK
<1>1. PacerInv => TypeOK
  BY DEF PacerInv
<1> QED BY <1>1, PacerInvariant, PTL

(* While a pull waits, an event of the pacer is booked.                    *)
THEOREM WakesUp == Spec => []NoLostWakeup
<1>1. PacerInv => NoLostWakeup
  BY DEF PacerInv
<1> QED BY <1>1, PacerInvariant, PTL

(* No flow has two pulls go while another flow waits, for any number of    *)
(* flows: the way of the iterator orders the flow that waits, the flow     *)
(* that overtook it and the iterator itself.                               *)
THEOREM FairToFlows == Spec => []TakeTurns
<1>1. PacerInv => TakeTurns
  <2> SUFFICES ASSUME PacerInv, NEW f \in Flow, NEW g \in Flow
               PROVE  overtaken[f][g] <= 1
    BY DEF TakeTurns
  <2>1. overtaken[f][g] \in Nat
    BY DEF PacerInv, TypeOK
  <2>2. overtaken[f][g] > 0 => overtaken[f][g] = 1
    BY DEF PacerInv, Turn
  <2> QED BY <2>1, <2>2
<1> QED BY <1>1, PacerInvariant, PTL

(* Until a flow ends, a pull leaves a drain time after the last one at the *)
(* earliest: the only event of the pacer is due just then.                 *)
THEOREM KeepsPace == Spec => Paced
<1>1. ASSUME PacerInv, [Next]_vars
      PROVE  [finished = {} /\ left' # None => sincePull = DrainTime]_vars
  <2>1. TypeOK /\ OneEvent
    BY <1>1 DEF PacerInv
  <2>2. ASSUME finished = {}, left' # None, Next
        PROVE  sincePull = DrainTime
    <3>1. ASSUME NEW f \in Flow, NEW last \in BOOLEAN, ReceivePacket(f, last)
          PROVE  sincePull = DrainTime
      BY <2>2, <3>1 DEF ReceivePacket, Leaves, MayGo
    <3>2. CASE DoNextEvent
      BY <2>1, <2>2, <3>2, DueOnTime DEF DoNextEvent
    <3>3. ~Tick
      BY <2>2 DEF Tick, Leaves
    <3> QED BY <2>2, <3>1, <3>2, <3>3 DEF Next
  <2> QED BY <1>1, <2>2
<1> QED BY <1>1, PacerInvariant, PTL DEF Spec, Paced

-----------------------------------------------------------------------------
(* The inductive invariant of one flow.                                    *)

(* The pulls that wait are pulls, no ack that is under way or known to the *)
(* source is ahead of the sink's, and every packet has its one copy, but   *)
(* for one per loss.                                                       *)
PullsArePulls == \A i \in DOMAIN pulls : pulls[i].type = "PULL"

AcksKnown ==
  /\ src.lastAcked <= sink.cumulativeAck
  /\ \A i \in DOMAIN feedback : feedback[i].cum <= sink.cumulativeAck
  /\ \A i \in DOMAIN pulls : pulls[i].cum <= sink.cumulativeAck

CopiesKept ==
  /\ \A n \in PacketNo : Copies(n) <= IF n <= src.highestSent THEN 1 ELSE 0
  /\ Cardinality(Missing) <= Lost

(* The packets of d that are under way are `total`. *)
InAll(d, total) ==
  \E S : /\ PartialSums(S, [n \in PacketNo |-> InFlight(d, n)], FlowPackets)
         /\ S[FlowPackets] = total

PullsKept ==
  \E total \in Int :
    InAll(data, total) /\ total + (sink.pullNo - src.lastPull) <= InitWindow

NdpInv ==
  NdpTypeOK /\ AcksPrefix /\ PullsArePulls /\ AcksKnown /\ CopiesKept /\ PullsKept

LEMMA NdpConstants ==
  /\ FlowPackets \in Nat \ {0} /\ InitWindow \in Nat \ {0}
  /\ \A w \in Networks : \A k \in Kinds : w[k] \in Nat
  BY NdpFlowAssumption DEF Kinds

-----------------------------------------------------------------------------
(* What is counted, as what the lemmas count. *)
NackOf(n) == {f \in Feedback : f.type = "NACK" /\ f.ackno = n}

LEMMA TimesIsCount ==
  ASSUME NEW n, NEW q
  PROVE  Times(n, q) = Occurs(q, n)
<1>1. {i \in DOMAIN q : q[i] = n} = Places(q, {n})
  BY DEF Places
<1> QED BY <1>1 DEF Times, HowMany, Occurs

LEMMA NacksAreCount ==
  ASSUME NEW q \in Seq(Feedback), NEW n
  PROVE  Cardinality({i \in DOMAIN q : q[i].type = "NACK" /\ q[i].ackno = n})
           = HowMany(q, NackOf(n))
<1>1. \A i \in DOMAIN q : q[i] \in Feedback
  BY LenProperties, ElementOfSeq
<1>2. {i \in DOMAIN q : q[i].type = "NACK" /\ q[i].ackno = n} = Places(q, NackOf(n))
  BY <1>1 DEF Places, NackOf
<1> QED BY <1>2 DEF HowMany

LEMMA CountsAreNat ==
  ASSUME NEW d \in [Forms -> [PacketNo -> Nat]], NEW fb \in Seq(Feedback),
         NEW p \in Seq(PacketNo), NEW q \in Seq(PacketNo), NEW n \in PacketNo
  PROVE  /\ InFlight(d, n) \in Nat /\ HowMany(fb, NackOf(n)) \in Nat
         /\ Occurs(p, n) \in Nat /\ Occurs(q, n) \in Nat
<1>1. InFlight(d, n) \in Nat
  BY DEF InFlight, Forms
<1>2. \A S, T : \A x \in Seq(S) : HowMany(x, T) \in Nat
  <2>1. ASSUME NEW S, NEW T, NEW x \in Seq(S) PROVE HowMany(x, T) \in Nat
    <3>1. HowMany(x, T) \in 0 .. Len(x) /\ Len(x) \in Nat
      BY CountType, LenProperties
    <3> QED BY <3>1
  <2> QED BY <2>1
<1> QED BY <1>1, <1>2 DEF Occurs

LEMMA CopiesAreCounts ==
  ASSUME NdpTypeOK, NEW n \in PacketNo
  PROVE  /\ Copies(n) = InFlight(data, n) + HowMany(feedback, NackOf(n))
                          + Occurs(src.rtx, n) + Occurs(arrived, n)
         /\ InFlight(data, n) \in Nat /\ HowMany(feedback, NackOf(n)) \in Nat
         /\ Occurs(src.rtx, n) \in Nat /\ Occurs(arrived, n) \in Nat
<1>1. /\ feedback \in Seq(Feedback) /\ src.rtx \in Seq(PacketNo)
      /\ arrived \in Seq(PacketNo) /\ data \in [Forms -> [PacketNo -> Nat]]
  BY DEF NdpTypeOK, Source
<1>2. Cardinality(Nacks(n)) = HowMany(feedback, NackOf(n))
  BY <1>1, NacksAreCount DEF Nacks
<1>3. Times(n, src.rtx) = Occurs(src.rtx, n) /\ Times(n, arrived) = Occurs(arrived, n)
  BY TimesIsCount
<1> QED BY <1>1, <1>2, <1>3, CountsAreNat DEF Copies

LEMMA CopiesAreCountsNext ==
  ASSUME NdpTypeOK', NEW n \in PacketNo
  PROVE  /\ Copies(n)' = InFlight(data', n) + HowMany(feedback', NackOf(n))
                           + Occurs(src'.rtx, n) + Occurs(arrived', n)
         /\ InFlight(data', n) \in Nat /\ HowMany(feedback', NackOf(n)) \in Nat
         /\ Occurs(src'.rtx, n) \in Nat /\ Occurs(arrived', n) \in Nat
<1>1. /\ feedback' \in Seq(Feedback) /\ src'.rtx \in Seq(PacketNo)
      /\ arrived' \in Seq(PacketNo) /\ data' \in [Forms -> [PacketNo -> Nat]]
  BY DEF NdpTypeOK, Source
<1>2. Cardinality(Nacks(n)') = HowMany(feedback', NackOf(n))
  BY <1>1, NacksAreCount DEF Nacks
<1>3. Times(n, src'.rtx) = Occurs(src'.rtx, n) /\ Times(n, arrived') = Occurs(arrived', n)
  BY TimesIsCount
<1> QED BY <1>1, <1>2, <1>3, CountsAreNat DEF Copies

-----------------------------------------------------------------------------
(* The network's side: what is under way, by form and number. *)
Flying == [Forms -> [PacketNo -> Nat]]

LEMMA WithProperties ==
  ASSUME NEW d \in Flying, NEW q \in Seq(PacketNo)
  PROVE  /\ With(d, q) \in Flying
         /\ \A n \in PacketNo : InFlight(With(d, q), n) = InFlight(d, n) + Occurs(q, n)
<1>1. \A n \in PacketNo : Times(n, q) = Occurs(q, n) /\ Occurs(q, n) \in Nat
  <2> SUFFICES ASSUME NEW n \in PacketNo
               PROVE  Times(n, q) = Occurs(q, n) /\ Occurs(q, n) \in Nat
    OBVIOUS
  <2>1. Occurs(q, n) \in 0 .. Len(q)
    BY CountType DEF Occurs
  <2> QED BY <2>1, TimesIsCount
<1> DEFINE full == [n \in PacketNo |-> d["full"][n] + Times(n, q)]
<1>2. With(d, q) = [d EXCEPT !["full"] = full]
  BY DEF With
<1>3. full \in [PacketNo -> Nat]
  <2>1. \A n \in PacketNo : d["full"][n] \in Nat
    <3> SUFFICES ASSUME NEW n \in PacketNo PROVE d["full"][n] \in Nat
      OBVIOUS
    <3> QED BY DEF Flying, Forms
  <2>2. \A n \in PacketNo : d["full"][n] + Times(n, q) \in Nat
    BY <1>1, <2>1
  <2> QED BY <2>2
<1>4. \A n \in PacketNo : full[n] = d["full"][n] + Occurs(q, n)
  BY <1>1
<1> HIDE DEF full
<1>5. With(d, q) \in Flying
  BY <1>2, <1>3 DEF Flying, Forms
<1>6. /\ With(d, q)["full"] = full /\ With(d, q)["header"] = d["header"]
      /\ With(d, q)["returned"] = d["returned"]
  BY <1>2 DEF Flying, Forms
<1>7. ASSUME NEW n \in PacketNo
      PROVE  InFlight(With(d, q), n) = InFlight(d, n) + Occurs(q, n)
  <2>1. d["full"][n] \in Nat /\ d["header"][n] \in Nat /\ d["returned"][n] \in Nat
    BY DEF Flying, Forms
  <2> QED BY <1>1, <1>4, <1>6, <2>1 DEF InFlight
<1> QED BY <1>5, <1>7

LEMMA WithoutProperties ==
  ASSUME NEW d \in Flying, NEW form \in Forms, NEW n \in PacketNo, d[form][n] > 0
  PROVE  /\ Without(d, form, n) \in Flying
         /\ \A m \in PacketNo : InFlight(Without(d, form, n), m)
                                  = InFlight(d, m) - (IF m = n THEN 1 ELSE 0)
<1> DEFINE f == [d[form] EXCEPT ![n] = @ - 1]
<1>1. Without(d, form, n) = [d EXCEPT ![form] = f]
  BY DEF Without
<1>2. f \in [PacketNo -> Nat]
  BY DEF Flying
<1>3. \A m \in PacketNo : f[m] = d[form][m] - (IF m = n THEN 1 ELSE 0)
  BY DEF Flying
<1> HIDE DEF f
<1>4. Without(d, form, n) \in Flying
  BY <1>1, <1>2 DEF Flying
<1>5. \A g \in Forms : Without(d, form, n)[g] = IF g = form THEN f ELSE d[g]
  BY <1>1 DEF Flying
<1>6. ASSUME NEW m \in PacketNo
      PROVE  InFlight(Without(d, form, n), m) = InFlight(d, m) - (IF m = n THEN 1 ELSE 0)
  <2>1. d["full"][m] \in Nat /\ d["header"][m] \in Nat /\ d["returned"][m] \in Nat
    BY DEF Flying, Forms
  <2>2. form = "full" \/ form = "header" \/ form = "returned"
    BY DEF Forms
  <2>3. "full" \in Forms /\ "header" \in Forms /\ "returned" \in Forms
    BY DEF Forms
  <2> QED BY <1>3, <1>5, <2>1, <2>2, <2>3 DEF InFlight
<1> QED BY <1>4, <1>6

LEMMA BecomesProperties ==
  ASSUME data \in Flying, NEW form \in Forms, NEW other \in Forms, form # other,
         Becomes(form, other)
  PROVE  /\ data' \in Flying
         /\ \A m \in PacketNo : InFlight(data', m) = InFlight(data, m)
<1>1. PICK n \in PacketNo :
        /\ data[form][n] > 0
        /\ data' = [Without(data, form, n) EXCEPT ![other][n] = @ + 1]
  BY DEF Becomes
<1> DEFINE d == Without(data, form, n)
           f == [d[other] EXCEPT ![n] = @ + 1]
<1>2. /\ d \in Flying
      /\ \A m \in PacketNo : InFlight(d, m) = InFlight(data, m) - (IF m = n THEN 1 ELSE 0)
  BY <1>1, WithoutProperties
<1>3. data' = [d EXCEPT ![other] = f]
  BY <1>1
<1> HIDE DEF d
<1>4. f \in [PacketNo -> Nat]
  BY <1>2 DEF Flying
<1>5. \A m \in PacketNo : f[m] = d[other][m] + (IF m = n THEN 1 ELSE 0)
  BY <1>2 DEF Flying
<1> HIDE DEF f
<1>6. data' \in Flying
  BY <1>2, <1>3, <1>4 DEF Flying
<1>7. \A g \in Forms : data'[g] = IF g = other THEN f ELSE d[g]
  BY <1>2, <1>3 DEF Flying
<1>8. ASSUME NEW m \in PacketNo PROVE InFlight(data', m) = InFlight(data, m)
  <2>1. d["full"][m] \in Nat /\ d["header"][m] \in Nat /\ d["returned"][m] \in Nat
    BY <1>2 DEF Flying, Forms
  <2>2. other = "full" \/ other = "header" \/ other = "returned"
    BY DEF Forms
  <2>3. "full" \in Forms /\ "header" \in Forms /\ "returned" \in Forms
    BY DEF Forms
  <2>4. InFlight(data', m) = InFlight(d, m) + (IF m = n THEN 1 ELSE 0)
    BY <1>5, <1>7, <2>1, <2>2, <2>3 DEF InFlight
  <2>5. data["full"][m] \in Nat /\ data["header"][m] \in Nat /\ data["returned"][m] \in Nat
    BY DEF Flying, Forms
  <2>6. InFlight(data, m) \in Nat
    BY <2>5 DEF InFlight
  <2> QED BY <1>2, <2>4, <2>6
<1> QED BY <1>6, <1>8

(* How many packets there are in all. *)
LEMMA InAllWith ==
  ASSUME NEW d \in Flying, NEW q \in Seq(PacketNo), NEW total \in Int, InAll(d, total)
  PROVE  InAll(With(d, q), total + Len(q))
<1> DEFINE v == [n \in PacketNo |-> InFlight(d, n)]
           w == [n \in PacketNo |-> InFlight(With(d, q), n)]
<1>1. PICK S : PartialSums(S, v, FlowPackets) /\ S[FlowPackets] = total
  BY DEF InAll
<1>2. \A i \in PacketNo : v[i] \in Int /\ w[i] = v[i] + Occurs(q, i)
  <2>1. \A i \in PacketNo : InFlight(d, i) \in Int
    BY DEF Flying, Forms, InFlight
  <2> QED BY <2>1, WithProperties
<1>3. FlowPackets \in Nat /\ (\A i : i \in PacketNo <=> i \in 1 .. FlowPackets)
  BY NdpConstants DEF PacketNo
<1> HIDE DEF v, w
<1>4. \E R : PartialSums(R, w, FlowPackets) /\ R[FlowPackets] = S[FlowPackets] + Len(q)
  <2>1. PacketNo \in SUBSET (1 .. FlowPackets)
    BY <1>3
  <2>2. \A i \in 1 .. FlowPackets : v[i] \in Int /\ w[i] = v[i] + Occurs(q, i)
    BY <1>2, <1>3
  <2> QED BY <1>1, <1>3, <2>1, <2>2, PartialSumsCounted
<1> QED BY <1>1, <1>4 DEF InAll, w

LEMMA InAllWithout ==
  ASSUME NEW d \in Flying, NEW form \in Forms, NEW n \in PacketNo, d[form][n] > 0,
         NEW total \in Int, InAll(d, total)
  PROVE  InAll(Without(d, form, n), total - 1)
<1> DEFINE v == [m \in PacketNo |-> InFlight(d, m)]
           w == [m \in PacketNo |-> InFlight(Without(d, form, n), m)]
<1>1. PICK S : PartialSums(S, v, FlowPackets) /\ S[FlowPackets] = total
  BY DEF InAll
<1>2. \A i \in PacketNo : v[i] \in Int /\ w[i] = v[i] - (IF i = n THEN 1 ELSE 0)
  <2>1. \A i \in PacketNo : InFlight(d, i) \in Int
    BY DEF Flying, Forms, InFlight
  <2> QED BY <2>1, WithoutProperties
<1> HIDE DEF v, w
<1>3. /\ FlowPackets \in Nat /\ n \in 1 .. FlowPackets /\ -1 \in Int
      /\ w[n] = v[n] + (-1)
      /\ \A i \in 1 .. FlowPackets : v[i] \in Int /\ (i # n => w[i] = v[i])
  BY <1>2, NdpConstants DEF PacketNo
<1>4. \E R : PartialSums(R, w, FlowPackets) /\ R[FlowPackets] = S[FlowPackets] + (-1)
  BY <1>1, <1>3, PartialSumsAt
<1>5. S[FlowPackets] + (-1) = total - 1
  BY <1>1
<1> QED BY <1>4, <1>5 DEF InAll, w

LEMMA InAllIsUnderWay ==
  ASSUME NEW total, InAll(data, total)
  PROVE  total = UnderWay /\ total \in Int
<1> DEFINE v == [n \in PacketNo |-> InFlight(data, n)]
           D == 0 .. FlowPackets
           Rec(g) == [n \in D |-> IF n = 0 THEN 0 ELSE g[n - 1] + InFlight(data, n)]
           f == CHOOSE g : g = Rec(g)
<1>0. FlowPackets \in Nat
  BY NdpConstants
<1>1. PICK S : PartialSums(S, v, FlowPackets) /\ S[FlowPackets] = total
  BY DEF InAll
<1>2. S = Rec(S)
  <2>1. S \in [D -> Int] /\ S[0] = 0 /\ \A n \in 1 .. FlowPackets : S[n] = S[n - 1] + v[n]
    BY <1>1 DEF PartialSums
  <2>2. \A n \in D : S[n] = IF n = 0 THEN 0 ELSE S[n - 1] + InFlight(data, n)
    BY <1>0, <2>1 DEF PacketNo
  <2> QED BY <2>1, <2>2
<1>3. f = Rec(f)
  BY <1>2
<1>4. UnderWay = f[FlowPackets]
  BY DEF UnderWay
<1> HIDE DEF f
<1>5. f[0] = 0 /\ \A n \in 1 .. FlowPackets : f[n] = f[n - 1] + v[n]
  <2>1. \A n \in D : f[n] = IF n = 0 THEN 0 ELSE f[n - 1] + InFlight(data, n)
    BY <1>3
  <2> QED BY <1>0, <2>1 DEF PacketNo
<1> HIDE DEF v
<1>6. f[FlowPackets] = S[FlowPackets] /\ S[FlowPackets] \in Int
  BY <1>0, <1>1, <1>5, PartialSumsUnique
<1> QED BY <1>1, <1>4, <1>6

-----------------------------------------------------------------------------
(* The source's side.  A step that may send takes t from the queue of what *)
(* is to be sent again and the numbers above highestSent.                  *)
Sent(s, r, n) ==
  /\ r.s \in Source /\ r.packets \in Seq(PacketNo) /\ Len(r.packets) <= n
  /\ r.s.history = s.history /\ r.s.lastAcked = s.lastAcked
  /\ r.s.lastPull = s.lastPull /\ s.highestSent <= r.s.highestSent
  /\ \A m \in PacketNo :
       Occurs(r.packets, m) + Occurs(r.s.rtx, m)
         = Occurs(s.rtx, m)
             + (IF s.highestSent < m /\ m <= r.s.highestSent THEN 1 ELSE 0)

LEMMA OccursType ==
  ASSUME NEW S, NEW q \in Seq(S), NEW e
  PROVE  Occurs(q, e) \in Nat /\ Occurs(q, e) <= Len(q)
<1>1. HowMany(q, {e}) \in 0 .. Len(q) /\ Len(q) \in Nat
  BY CountType, LenProperties
<1> QED BY <1>1 DEF Occurs

(* New packets have their numbers one after the other. *)
LEMMA NewPackets ==
  ASSUME NEW h \in Nat, NEW new \in Nat, h + new <= FlowPackets
  PROVE  LET q == [i \in 1 .. new |-> h + i]
         IN  /\ q \in Seq(PacketNo) /\ Len(q) = new
             /\ \A m \in PacketNo :
                  Occurs(q, m) = IF h < m /\ m <= h + new THEN 1 ELSE 0
<1> DEFINE q == [i \in 1 .. new |-> h + i]
<1>1. FlowPackets \in Nat
  BY NdpConstants
<1>2. q \in Seq(PacketNo)
  <2>1. \A i \in 1 .. new : h + i \in PacketNo
    BY <1>1 DEF PacketNo
  <2> QED BY <2>1, IsASeq
<1>3. DOMAIN q = 1 .. new /\ \A i \in 1 .. new : q[i] = h + i
  OBVIOUS
<1> HIDE DEF q
<1>4. Len(q) = new
  BY <1>2, <1>3, LenProperties
<1>5. ASSUME NEW m \in PacketNo
      PROVE  Occurs(q, m) = IF h < m /\ m <= h + new THEN 1 ELSE 0
  <2>0. m \in Nat
    BY <1>1 DEF PacketNo
  <2>1. CASE h < m /\ m <= h + new
    <3>1. m - h \in 1 .. new /\ h + (m - h) = m
      BY <2>0, <2>1
    <3>2. \A i \in 1 .. new : q[i] = m <=> i = m - h
      BY <1>3, <2>0, <3>1
    <3>3. Places(q, {m}) = {m - h}
      BY <1>3, <3>1, <3>2 DEF Places
    <3> QED BY <2>1, <3>3, FS_Singleton DEF Occurs, HowMany
  <2>2. CASE ~ (h < m /\ m <= h + new)
    <3>1. \A i \in 1 .. new : q[i] # m
      BY <1>3, <2>0, <2>2
    <3>2. Places(q, {m}) = {}
      BY <1>3, <3>1 DEF Places
    <3> QED BY <2>2, <3>2, FS_EmptySet DEF Occurs, HowMany
  <2> QED BY <2>1, <2>2
<1> QED BY <1>2, <1>4, <1>5 DEF q

LEMMA SendProperties ==
  ASSUME NEW s \in Source, NEW n \in Nat
  PROVE  Sent(s, Send(s, n), n)
<1> DEFINE again == Min({n, Len(s.rtx)})
           new == Min({n - again, FlowPackets - s.highestSent})
           a == SubSeq(s.rtx, 1, again)
           b == SubSeq(s.rtx, again + 1, Len(s.rtx))
           q == [i \in 1 .. new |-> s.highestSent + i]
           t == [s EXCEPT !.highestSent = @ + new, !.rtx = b]
           r == Send(s, n)
<1>1. /\ s.rtx \in Seq(PacketNo) /\ Len(s.rtx) \in Nat
      /\ s.highestSent \in Nat /\ s.highestSent <= FlowPackets /\ FlowPackets \in Nat
  BY NdpConstants, LenProperties DEF Source
<1>2. again \in 0 .. Len(s.rtx) /\ again <= n
  <2>1. again = IF n <= Len(s.rtx) THEN n ELSE Len(s.rtx)
    BY <1>1, MinOfTwo
  <2> HIDE DEF again
  <2> QED BY <1>1, <2>1
<1>3. r = [s |-> t, packets |-> a \o q]
  BY DEF Send, Sends
<1> HIDE DEF again
<1>4. new \in Nat /\ new <= n - again /\ s.highestSent + new <= FlowPackets
  <2>1. n - again \in Int /\ FlowPackets - s.highestSent \in Int
    BY <1>1, <1>2
  <2>2. new = IF n - again <= FlowPackets - s.highestSent
                THEN n - again ELSE FlowPackets - s.highestSent
    BY <2>1, MinOfTwo
  <2> HIDE DEF new
  <2> QED BY <1>1, <1>2, <2>2
<1> HIDE DEF new
<1>5. /\ q \in Seq(PacketNo) /\ Len(q) = new
      /\ \A m \in PacketNo :
           Occurs(q, m) = IF s.highestSent < m /\ m <= s.highestSent + new THEN 1 ELSE 0
  BY <1>1, <1>4, NewPackets
<1> HIDE DEF q
<1>6. a \in Seq(PacketNo) /\ Len(a) = again /\ b \in Seq(PacketNo)
  <2>1. \A i \in 1 .. Len(s.rtx) : s.rtx[i] \in PacketNo
    BY <1>1, ElementOfSeq
  <2> QED BY <1>1, <1>2, <2>1, SubSeqProperties
<1>7. \A m \in PacketNo : Occurs(s.rtx, m) = Occurs(a, m) + Occurs(b, m)
  <2> SUFFICES ASSUME NEW m \in PacketNo
               PROVE  Occurs(s.rtx, m) = Occurs(a, m) + Occurs(b, m)
    OBVIOUS
  <2>1. HowMany(s.rtx, {m}) = HowMany(a, {m}) + HowMany(b, {m})
    BY <1>1, <1>2, CountInTwoParts
  <2> QED BY <2>1 DEF Occurs
<1> HIDE DEF a, b
<1>8. /\ t \in Source /\ t.highestSent = s.highestSent + new /\ t.rtx = b
      /\ t.history = s.history /\ t.lastAcked = s.lastAcked /\ t.lastPull = s.lastPull
  <2>1. s.highestSent + new \in 0 .. FlowPackets
    BY <1>1, <1>4
  <2> QED BY <1>6, <2>1 DEF Source
<1> HIDE DEF t
<1>9. a \o q \in Seq(PacketNo) /\ Len(a \o q) = again + new
  BY <1>5, <1>6, ConcatProperties
<1>10. \A m \in PacketNo : Occurs(a \o q, m) = Occurs(a, m) + Occurs(q, m)
  <2> SUFFICES ASSUME NEW m \in PacketNo
               PROVE  Occurs(a \o q, m) = Occurs(a, m) + Occurs(q, m)
    OBVIOUS
  <2>1. HowMany(a \o q, {m}) = HowMany(a, {m}) + HowMany(q, {m})
    BY <1>5, <1>6, CountConcat
  <2> QED BY <2>1 DEF Occurs
<1>11. r.s = t /\ r.packets = a \o q
  BY <1>3
<1> HIDE DEF r
<1>12. Len(r.packets) <= n /\ s.highestSent <= r.s.highestSent
  BY <1>1, <1>2, <1>4, <1>8, <1>9, <1>11
<1>13. ASSUME NEW m \in PacketNo
       PROVE  Occurs(r.packets, m) + Occurs(r.s.rtx, m)
                = Occurs(s.rtx, m)
                    + (IF s.highestSent < m /\ m <= r.s.highestSent THEN 1 ELSE 0)
  <2>1. Occurs(a, m) \in Nat /\ Occurs(b, m) \in Nat /\ Occurs(q, m) \in Nat
    BY <1>5, <1>6, OccursType
  <2>2. Occurs(r.packets, m) = Occurs(a, m) + Occurs(q, m) /\ Occurs(r.s.rtx, m) = Occurs(b, m)
    BY <1>8, <1>10, <1>11
  <2>3. Occurs(s.rtx, m) = Occurs(a, m) + Occurs(b, m)
    BY <1>7
  <2>4. Occurs(q, m) = IF s.highestSent < m /\ m <= r.s.highestSent THEN 1 ELSE 0
    BY <1>5, <1>8, <1>11
  <2> QED BY <2>1, <2>2, <2>3, <2>4
<1> QED BY <1>8, <1>9, <1>11, <1>12, <1>13 DEF Sent, r

(* Feedback is counted, at most HIST_LEN of it. *)
LEMMA CountFeedbackProperties ==
  ASSUME NEW s \in Source, Len(s.history) <= HIST_LEN, NEW fb \in {"ACK", "NACK", "BOUNCE"}
  PROVE  LET t == CountFeedback(s, fb)
         IN  /\ t \in Source /\ Len(t.history) <= HIST_LEN
             /\ t.highestSent = s.highestSent /\ t.lastAcked = s.lastAcked
             /\ t.lastPull = s.lastPull /\ t.rtx = s.rtx
             /\ t.pullWindow = s.pullWindow /\ t.firstWindow = s.firstWindow
<1> DEFINE H == {"ACK", "NACK", "BOUNCE"}
           h == Append(s.history, fb)
           from == Max({1, Len(h) - HIST_LEN + 1})
           u == SubSeq(h, from, Len(h))
           t == CountFeedback(s, fb)
<1>1. s.history \in Seq(H) /\ fb \in H
  BY DEF Source
<1> HIDE DEF H
<1>2. /\ h \in Seq(H) /\ Len(h) \in Nat /\ Len(h) = Len(s.history) + 1
      /\ \A i \in 1 .. Len(h) : h[i] \in H
  <2>1. h \in Seq(H) /\ Len(h) = Len(s.history) + 1
    BY <1>1
  <2> HIDE DEF h
  <2> QED BY <2>1, LenProperties, ElementOfSeq
<1>3. t = [s EXCEPT !.history = u]
  BY DEF CountFeedback
<1> HIDE DEF h
<1>4. from \in 1 .. Len(h) /\ Len(h) - from + 1 <= HIST_LEN
  <2>1. Len(h) - HIST_LEN + 1 \in Int
    BY <1>2 DEF HIST_LEN
  <2>2. from = IF 1 >= Len(h) - HIST_LEN + 1 THEN 1 ELSE Len(h) - HIST_LEN + 1
    BY <2>1, MaxOfTwo
  <2>3. Len(h) >= 1
    <3>1. Len(s.history) \in Nat
      BY <1>1, LenProperties
    <3> QED BY <1>2, <3>1
  <2> HIDE DEF from
  <2> QED BY <1>2, <2>2, <2>3 DEF HIST_LEN
<1> HIDE DEF from
<1>5. u \in Seq(H) /\ Len(u) <= HIST_LEN
  <2>1. from \in Int /\ Len(h) \in Int /\ \A i \in from .. Len(h) : h[i] \in H
    BY <1>2, <1>4
  <2>2. u \in Seq(H) /\ Len(u) = IF from <= Len(h) THEN Len(h) - from + 1 ELSE 0
    BY <2>1, SubSeqProperties
  <2> HIDE DEF u
  <2> QED BY <1>4, <2>1, <2>2 DEF HIST_LEN
<1> HIDE DEF u
<1> QED BY <1>3, <1>5 DEF Source, t, H

(* A pull sends as many packets as it is ahead of the last one, at most. *)
LEMMA PullPacketsProperties ==
  ASSUME NEW s \in Source, NEW pullno \in Nat
  PROVE  LET r == PullPackets(s, pullno)
         IN  /\ r.s \in Source /\ r.packets \in Seq(PacketNo)
             /\ s.lastPull + Len(r.packets) <= r.s.lastPull
             /\ r.s.history = s.history /\ r.s.lastAcked = s.lastAcked
             /\ s.highestSent <= r.s.highestSent
             /\ \A m \in PacketNo :
                  Occurs(r.packets, m) + Occurs(r.s.rtx, m)
                    = Occurs(s.rtx, m)
                        + (IF s.highestSent < m /\ m <= r.s.highestSent THEN 1 ELSE 0)
<1> DEFINE last == Max({s.lastPull, pullno})
           n == Max({pullno - s.lastPull, 0})
           t == [s EXCEPT !.lastPull = Max({@, pullno})]
           r == PullPackets(s, pullno)
<1>1. s.lastPull \in Nat
  BY DEF Source
<1>2. last \in Nat /\ n \in Nat /\ last = s.lastPull + n
  <2>1. last = IF s.lastPull >= pullno THEN s.lastPull ELSE pullno
    BY <1>1, MaxOfTwo
  <2>2. n = IF pullno - s.lastPull >= 0 THEN pullno - s.lastPull ELSE 0
    BY <1>1, MaxOfTwo
  <2> HIDE DEF last, n
  <2> QED BY <1>1, <2>1, <2>2
<1>3. t = [s EXCEPT !.lastPull = last]
  OBVIOUS
<1>4. r = Send(t, n)
  BY DEF PullPackets
<1> HIDE DEF last, n, t, r
<1>5. /\ t \in Source /\ t.lastPull = last /\ t.history = s.history
      /\ t.lastAcked = s.lastAcked /\ t.highestSent = s.highestSent /\ t.rtx = s.rtx
  BY <1>2, <1>3 DEF Source
<1>6. Sent(t, r, n)
  BY <1>2, <1>4, <1>5, SendProperties
<1>7. /\ r.s \in Source /\ r.packets \in Seq(PacketNo)
      /\ Len(r.packets) <= n /\ r.s.lastPull = last
      /\ r.s.history = s.history /\ r.s.lastAcked = s.lastAcked
      /\ s.highestSent <= r.s.highestSent
  BY <1>5, <1>6 DEF Sent
<1>8. s.lastPull + Len(r.packets) <= r.s.lastPull
  <2>1. Len(r.packets) \in Nat
    BY <1>7, LenProperties
  <2> QED BY <1>1, <1>2, <1>7, <2>1
<1>9. ASSUME NEW m \in PacketNo
      PROVE  Occurs(r.packets, m) + Occurs(r.s.rtx, m)
               = Occurs(s.rtx, m)
                   + (IF s.highestSent < m /\ m <= r.s.highestSent THEN 1 ELSE 0)
  BY <1>5, <1>6 DEF Sent
<1> QED BY <1>7, <1>8, <1>9 DEF r

(* What comes of a feedback f of which n are to be sent again. *)
Handled(s, r, f) ==
  /\ r.s \in Source /\ Len(r.s.history) <= HIST_LEN /\ r.packets \in Seq(PacketNo)
  /\ s.lastPull + Len(r.packets) <= r.s.lastPull
  /\ s.highestSent <= r.s.highestSent
  /\ s.lastAcked <= r.s.lastAcked
  /\ r.s.lastAcked = s.lastAcked \/ r.s.lastAcked = f.cum
  /\ \A m \in PacketNo :
       Occurs(r.packets, m) + Occurs(r.s.rtx, m)
         = Occurs(s.rtx, m) + (IF f \in NackOf(m) THEN 1 ELSE 0)
             + (IF s.highestSent < m /\ m <= r.s.highestSent THEN 1 ELSE 0)

(* It is enough to know the source t that the pull, if there is one, finds.*)
LEMMA HandledFrom ==
  ASSUME NEW s \in Source, NEW f \in Feedback, NEW t \in Source,
         Len(t.history) <= HIST_LEN, t.highestSent = s.highestSent,
         t.lastPull = s.lastPull, s.lastAcked <= t.lastAcked,
         t.lastAcked = s.lastAcked \/ t.lastAcked = f.cum,
         \A m \in PacketNo :
           Occurs(t.rtx, m) = Occurs(s.rtx, m) + (IF f \in NackOf(m) THEN 1 ELSE 0)
  PROVE  Handled(s, PullPackets(t, f.pullno), f) /\ Handled(s, Sends(t, <<>>), f)
<1>1. f.pullno \in Nat /\ s.lastPull \in Nat /\ s.highestSent \in Nat
  BY NdpConstants DEF Feedback, Source
<1>2. Handled(s, PullPackets(t, f.pullno), f)
  <2> DEFINE r == PullPackets(t, f.pullno)
  <2>1. /\ r.s \in Source /\ r.packets \in Seq(PacketNo)
        /\ t.lastPull + Len(r.packets) <= r.s.lastPull
        /\ r.s.history = t.history /\ r.s.lastAcked = t.lastAcked
        /\ t.highestSent <= r.s.highestSent
        /\ \A m \in PacketNo :
             Occurs(r.packets, m) + Occurs(r.s.rtx, m)
               = Occurs(t.rtx, m)
                   + (IF t.highestSent < m /\ m <= r.s.highestSent THEN 1 ELSE 0)
    BY <1>1, PullPacketsProperties
  <2> HIDE DEF r
  <2>2. ASSUME NEW m \in PacketNo
        PROVE  Occurs(r.packets, m) + Occurs(r.s.rtx, m)
                 = Occurs(s.rtx, m) + (IF f \in NackOf(m) THEN 1 ELSE 0)
                     + (IF s.highestSent < m /\ m <= r.s.highestSent THEN 1 ELSE 0)
    BY <2>1
  <2>3. Handled(s, r, f)
    BY <2>1, <2>2 DEF Handled
  <2> QED BY <2>3 DEF r
<1>3. Handled(s, Sends(t, <<>>), f)
  <2> DEFINE r == Sends(t, <<>>)
  <2>1. r.s = t /\ r.packets = <<>> /\ <<>> \in Seq(PacketNo) /\ Len(<<>>) = 0
    BY DEF Sends
  <2> HIDE DEF r
  <2>2. ASSUME NEW m \in PacketNo
        PROVE  Occurs(r.packets, m) + Occurs(r.s.rtx, m)
                 = Occurs(s.rtx, m) + (IF f \in NackOf(m) THEN 1 ELSE 0)
                     + (IF s.highestSent < m /\ m <= r.s.highestSent THEN 1 ELSE 0)
    <3>1. m \in Nat
      BY NdpConstants DEF PacketNo
    <3>2. Occurs(r.packets, m) = 0
      BY <2>1, CountEmpty DEF Occurs
    <3>3. Occurs(r.s.rtx, m) = Occurs(s.rtx, m) + (IF f \in NackOf(m) THEN 1 ELSE 0)
      BY <2>1
    <3>4. ~ (s.highestSent < m /\ m <= r.s.highestSent)
      BY <1>1, <2>1, <3>1
    <3>5. Occurs(s.rtx, m) \in Nat
      BY OccursType DEF Source
    <3> QED BY <3>2, <3>3, <3>4, <3>5
  <2>3. Handled(s, r, f)
    <3>1. s.lastPull + Len(r.packets) <= r.s.lastPull /\ s.highestSent <= r.s.highestSent
      BY <1>1, <2>1
    <3> QED BY <2>1, <2>2, <3>1 DEF Handled
  <2> QED BY <2>3 DEF r
<1> QED BY <1>2, <1>3

LEMMA AckedProperties ==
  ASSUME NEW s \in Source, NEW cum \in 0 .. FlowPackets
  PROVE  LET t == Acked(s, cum)
         IN  /\ t \in Source /\ t.history = s.history /\ t.highestSent = s.highestSent
             /\ t.lastPull = s.lastPull /\ t.rtx = s.rtx
             /\ t.pullWindow = s.pullWindow /\ t.firstWindow = s.firstWindow
             /\ s.lastAcked <= t.lastAcked
             /\ t.lastAcked = s.lastAcked \/ t.lastAcked = cum
<1> DEFINE a == Max({s.lastAcked, cum})
           t == Acked(s, cum)
<1>1. s.lastAcked \in 0 .. FlowPackets /\ s.lastAcked \in Int /\ cum \in Int
  BY NdpConstants DEF Source
<1>2. a = IF s.lastAcked >= cum THEN s.lastAcked ELSE cum
  BY <1>1, MaxOfTwo
<1>3. t = [s EXCEPT !.lastAcked = a]
  BY DEF Acked
<1> HIDE DEF a, t
<1>4. a \in 0 .. FlowPackets /\ s.lastAcked <= a /\ (a = s.lastAcked \/ a = cum)
  BY <1>1, <1>2
<1>5. /\ t \in Source /\ t.history = s.history /\ t.highestSent = s.highestSent
      /\ t.lastPull = s.lastPull /\ t.rtx = s.rtx /\ t.lastAcked = a
      /\ t.pullWindow = s.pullWindow /\ t.firstWindow = s.firstWindow
  BY <1>3, <1>4 DEF Source
<1> QED BY <1>4, <1>5 DEF t

LEMMA ProcessNackProperties ==
  ASSUME NEW s \in Source, Len(s.history) <= HIST_LEN,
         NEW f \in Feedback, f.type = "NACK"
  PROVE  Handled(s, ProcessNack(s, f), f)
<1> DEFINE c == CountFeedback(s, "NACK")
           t == [c EXCEPT !.pullWindow = @ + 1, !.firstWindow = @ - 1,
                          !.rtx = Append(@, f.ackno)]
<1>1. /\ c \in Source /\ Len(c.history) <= HIST_LEN
      /\ c.highestSent = s.highestSent /\ c.lastAcked = s.lastAcked
      /\ c.lastPull = s.lastPull /\ c.rtx = s.rtx
  BY CountFeedbackProperties
<1> HIDE DEF c
<1>2. /\ c.pullWindow + 1 \in Int /\ c.firstWindow - 1 \in Int
      /\ f.ackno \in PacketNo /\ c.rtx \in Seq(PacketNo)
  BY <1>1 DEF Source, Feedback
<1>3. Append(c.rtx, f.ackno) \in Seq(PacketNo)
  BY <1>2
<1>4. /\ t \in Source /\ t.history = c.history /\ t.highestSent = c.highestSent
      /\ t.lastAcked = c.lastAcked /\ t.lastPull = c.lastPull
      /\ t.rtx = Append(c.rtx, f.ackno)
  BY <1>1, <1>2, <1>3 DEF Source
<1>5. ASSUME NEW m \in PacketNo
      PROVE  Occurs(t.rtx, m) = Occurs(s.rtx, m) + (IF f \in NackOf(m) THEN 1 ELSE 0)
  <2>1. HowMany(Append(c.rtx, f.ackno), {m})
          = HowMany(c.rtx, {m}) + (IF f.ackno \in {m} THEN 1 ELSE 0)
    BY <1>2, CountAppend
  <2>2. f.ackno \in {m} <=> f \in NackOf(m)
    BY DEF NackOf
  <2> HIDE DEF t
  <2> QED BY <1>1, <1>4, <2>1, <2>2 DEF Occurs
<1>6. ProcessNack(s, f) = IF f.pull THEN PullPackets(t, f.pullno) ELSE Sends(t, <<>>)
  BY DEF ProcessNack, c
<1> HIDE DEF t
<1>7. s.lastAcked <= t.lastAcked
  BY <1>1, <1>4, NdpConstants DEF Source
<1>8. Handled(s, PullPackets(t, f.pullno), f) /\ Handled(s, Sends(t, <<>>), f)
  BY <1>1, <1>4, <1>5, <1>7, HandledFrom
<1> QED BY <1>6, <1>8

LEMMA ProcessAckProperties ==
  ASSUME NEW s \in Source, Len(s.history) <= HIST_LEN,
         NEW f \in Feedback, f.type = "ACK"
  PROVE  Handled(s, ProcessAck(s, f), f)
<1> DEFINE a == Acked(s, f.cum)
           c == CountFeedback(a, "ACK")
           t == [c EXCEPT !.pullWindow = IF f.pull THEN @ ELSE @ + 1, !.firstWindow = @ - 1]
<1>0. f.cum \in 0 .. FlowPackets
  BY DEF Feedback
<1>1. /\ a \in Source /\ a.history = s.history /\ a.highestSent = s.highestSent
      /\ a.lastPull = s.lastPull /\ a.rtx = s.rtx /\ s.lastAcked <= a.lastAcked
      /\ a.lastAcked = s.lastAcked \/ a.lastAcked = f.cum
  BY <1>0, AckedProperties
<1> HIDE DEF a
<1>2. /\ c \in Source /\ Len(c.history) <= HIST_LEN
      /\ c.highestSent = a.highestSent /\ c.lastAcked = a.lastAcked
      /\ c.lastPull = a.lastPull /\ c.rtx = a.rtx
  BY <1>1, CountFeedbackProperties
<1> HIDE DEF c
<1>3. (IF f.pull THEN c.pullWindow ELSE c.pullWindow + 1) \in Int /\ c.firstWindow - 1 \in Int
  BY <1>2 DEF Source
<1>4. /\ t \in Source /\ t.history = c.history /\ t.highestSent = c.highestSent
      /\ t.lastAcked = c.lastAcked /\ t.lastPull = c.lastPull /\ t.rtx = c.rtx
  BY <1>2, <1>3 DEF Source
<1>5. ProcessAck(s, f) = IF f.pull THEN PullPackets(t, f.pullno) ELSE Sends(t, <<>>)
  BY DEF ProcessAck, c, a
<1> HIDE DEF t
<1>6. ASSUME NEW m \in PacketNo
      PROVE  Occurs(t.rtx, m) = Occurs(s.rtx, m) + (IF f \in NackOf(m) THEN 1 ELSE 0)
  <2>1. f \notin NackOf(m)
    BY DEF NackOf
  <2>2. Occurs(s.rtx, m) \in Nat
    BY OccursType DEF Source
  <2> QED BY <1>1, <1>2, <1>4, <2>1, <2>2
<1>7. Handled(s, PullPackets(t, f.pullno), f) /\ Handled(s, Sends(t, <<>>), f)
  BY <1>1, <1>2, <1>4, <1>6, HandledFrom
<1> QED BY <1>5, <1>7

LEMMA ProcessPullProperties ==
  ASSUME NEW s \in Source, Len(s.history) <= HIST_LEN,
         NEW f \in Feedback, f.type = "PULL"
  PROVE  Handled(s, ProcessPull(s, f), f)
<1> DEFINE a == Acked(s, f.cum)
           t == [a EXCEPT !.pullWindow = @ - 1]
<1>0. f.cum \in 0 .. FlowPackets
  BY DEF Feedback
<1>1. /\ a \in Source /\ a.history = s.history /\ a.highestSent = s.highestSent
      /\ a.lastPull = s.lastPull /\ a.rtx = s.rtx /\ s.lastAcked <= a.lastAcked
      /\ a.lastAcked = s.lastAcked \/ a.lastAcked = f.cum
  BY <1>0, AckedProperties
<1> HIDE DEF a
<1>2. a.pullWindow - 1 \in Int
  BY <1>1 DEF Source
<1>3. /\ t \in Source /\ t.history = a.history /\ t.highestSent = a.highestSent
      /\ t.lastAcked = a.lastAcked /\ t.lastPull = a.lastPull /\ t.rtx = a.rtx
  BY <1>1, <1>2 DEF Source
<1>4. ProcessPull(s, f) = PullPackets(t, f.pullno)
  BY DEF ProcessPull, a
<1> HIDE DEF t
<1>5. ASSUME NEW m \in PacketNo
      PROVE  Occurs(t.rtx, m) = Occurs(s.rtx, m) + (IF f \in NackOf(m) THEN 1 ELSE 0)
  <2>1. f \notin NackOf(m)
    BY DEF NackOf
  <2>2. Occurs(s.rtx, m) \in Nat
    BY OccursType DEF Source
  <2> QED BY <1>1, <1>3, <2>1, <2>2
<1>6. Handled(s, PullPackets(t, f.pullno), f)
  BY <1>1, <1>3, <1>5, HandledFrom
<1> QED BY <1>4, <1>6

(* A packet that is returned is sent again, or is the first to be.         *)
LEMMA ProcessRTSProperties ==
  ASSUME NEW s \in Source, Len(s.history) <= HIST_LEN, NEW n \in PacketNo
  PROVE  LET r == ProcessRTS(s, n)
         IN  /\ r.s \in Source /\ Len(r.s.history) <= HIST_LEN
             /\ r.packets \in Seq(PacketNo) /\ Len(r.packets) <= 1
             /\ r.s.lastPull = s.lastPull /\ r.s.lastAcked = s.lastAcked
             /\ s.highestSent <= r.s.highestSent
             /\ \A m \in PacketNo :
                  Occurs(r.packets, m) + Occurs(r.s.rtx, m)
                    = Occurs(s.rtx, m) + (IF m = n THEN 1 ELSE 0)
                        + (IF s.highestSent < m /\ m <= r.s.highestSent THEN 1 ELSE 0)
<1> DEFINE c == CountFeedback(s, "BOUNCE")
           t == [c EXCEPT !.firstWindow = @ - 1, !.rtx = <<n>> \o @]
           r == ProcessRTS(s, n)
<1>1. /\ c \in Source /\ Len(c.history) <= HIST_LEN
      /\ c.highestSent = s.highestSent /\ c.lastAcked = s.lastAcked
      /\ c.lastPull = s.lastPull /\ c.rtx = s.rtx
  BY CountFeedbackProperties
<1>2. r \in {Send(t, 1), Sends(t, <<>>)}
  BY DEF ProcessRTS
<1> HIDE DEF c, r
<1>3. c.firstWindow - 1 \in Int /\ c.rtx \in Seq(PacketNo) /\ <<n>> \in Seq(PacketNo)
  BY <1>1 DEF Source
<1>4. <<n>> \o c.rtx \in Seq(PacketNo)
  BY <1>3, ConcatProperties
<1>5. /\ t \in Source /\ t.history = c.history /\ t.highestSent = c.highestSent
      /\ t.lastAcked = c.lastAcked /\ t.lastPull = c.lastPull
      /\ t.rtx = <<n>> \o c.rtx
  BY <1>1, <1>3, <1>4 DEF Source
<1> HIDE DEF t
<1>6. ASSUME NEW m \in PacketNo
      PROVE  Occurs(t.rtx, m) = Occurs(s.rtx, m) + (IF m = n THEN 1 ELSE 0)
  <2>1. HowMany(<<n>> \o c.rtx, {m}) = HowMany(<<n>>, {m}) + HowMany(c.rtx, {m})
    <3>1. ASSUME NEW p \in Seq(PacketNo), NEW q \in Seq(PacketNo)
          PROVE  HowMany(p \o q, {m}) = HowMany(p, {m}) + HowMany(q, {m})
      BY CountConcat
    <3> QED BY <1>3, <3>1
  <2>2. HowMany(<<n>>, {m}) = IF m = n THEN 1 ELSE 0
    BY CountOne
  <2>3. HowMany(c.rtx, {m}) \in Nat
    BY <1>3, OccursType DEF Occurs
  <2> QED BY <1>1, <1>5, <2>1, <2>2, <2>3 DEF Occurs
<1>7. s.highestSent \in Nat
  BY NdpConstants DEF Source
<1>8. CASE r = Send(t, 1)
  <2>1. Sent(t, r, 1)
    BY <1>5, <1>8, SendProperties
  <2>2. ASSUME NEW m \in PacketNo
        PROVE  Occurs(r.packets, m) + Occurs(r.s.rtx, m)
                 = Occurs(s.rtx, m) + (IF m = n THEN 1 ELSE 0)
                     + (IF s.highestSent < m /\ m <= r.s.highestSent THEN 1 ELSE 0)
    BY <1>1, <1>5, <1>6, <2>1 DEF Sent
  <2> QED BY <1>1, <1>5, <2>1, <2>2 DEF Sent, r
<1>9. CASE r = Sends(t, <<>>)
  <2>1. r.s = t /\ r.packets = <<>> /\ <<>> \in Seq(PacketNo) /\ Len(<<>>) = 0
    BY <1>9 DEF Sends
  <2>2. ASSUME NEW m \in PacketNo
        PROVE  Occurs(r.packets, m) + Occurs(r.s.rtx, m)
                 = Occurs(s.rtx, m) + (IF m = n THEN 1 ELSE 0)
                     + (IF s.highestSent < m /\ m <= r.s.highestSent THEN 1 ELSE 0)
    <3>1. m \in Nat
      BY NdpConstants DEF PacketNo
    <3>2. Occurs(r.packets, m) = 0
      BY <2>1, CountEmpty DEF Occurs
    <3>3. Occurs(r.s.rtx, m) = Occurs(s.rtx, m) + (IF m = n THEN 1 ELSE 0)
      BY <1>6, <2>1
    <3>4. ~ (s.highestSent < m /\ m <= r.s.highestSent)
      BY <1>1, <1>5, <1>7, <2>1, <3>1
    <3>5. Occurs(s.rtx, m) \in Nat
      BY OccursType DEF Source
    <3> QED BY <3>2, <3>3, <3>4, <3>5
  <2>3. s.highestSent <= r.s.highestSent /\ Len(r.packets) <= 1
    BY <1>1, <1>5, <1>7, <2>1
  <2> QED BY <1>1, <1>5, <2>1, <2>2, <2>3 DEF r
<1> QED BY <1>2, <1>8, <1>9

-----------------------------------------------------------------------------
(* What a step does to the copies of a packet, and to what is asked for.   *)
LEMMA MissingIsFinite ==
  ASSUME NdpTypeOK
  PROVE  /\ src.highestSent \in Nat /\ 1 .. src.highestSent \subseteq PacketNo
         /\ IsFiniteSet(Missing) /\ Cardinality(Missing) \in Nat
         /\ Lost \in Nat
<1>1. src.highestSent \in 0 .. FlowPackets /\ FlowPackets \in Nat
  BY NdpConstants DEF NdpTypeOK, Source
<1>2. IsFiniteSet(1 .. src.highestSent)
  BY <1>1, FS_Interval
<1>3. Missing \subseteq 1 .. src.highestSent
  BY DEF Missing
<1>4. IsFiniteSet(Missing)
  BY <1>2, <1>3, FS_Subset
<1>5. Cardinality(Missing) \in Nat
  BY <1>4, FS_CardinalityType
<1>6. Lost \in Nat
  BY DEF NdpTypeOK, Kinds, Lost
<1> QED BY <1>1, <1>4, <1>5, <1>6 DEF PacketNo

LEMMA CopiesSent ==
  ASSUME NdpTypeOK, NdpTypeOK', CopiesKept, src.highestSent <= src'.highestSent,
         Lost <= Lost',
         \A n \in PacketNo :
           Copies(n)' = Copies(n)
             + (IF src.highestSent < n /\ n <= src'.highestSent THEN 1 ELSE 0)
  PROVE  CopiesKept'
<1>1. \A n \in PacketNo : Copies(n) \in Nat /\ n \in Nat
  BY CopiesAreCounts, NdpConstants DEF PacketNo
<1>2. src.highestSent \in Nat /\ src'.highestSent \in Nat /\ src'.highestSent <= FlowPackets
  BY NdpConstants DEF NdpTypeOK, Source
<1>3. \A n \in PacketNo : Copies(n) <= IF n <= src.highestSent THEN 1 ELSE 0
  BY DEF CopiesKept
<1>4. ASSUME NEW n \in PacketNo
      PROVE  Copies(n)' <= IF n <= src'.highestSent THEN 1 ELSE 0
  <2>1. Copies(n)' = Copies(n)
          + (IF src.highestSent < n /\ n <= src'.highestSent THEN 1 ELSE 0)
    OBVIOUS
  <2> QED BY <1>1, <1>2, <1>3, <2>1
<1>5. Missing' = Missing
  <2>1. \A n \in 1 .. src'.highestSent : n \in PacketNo /\ n \in Nat
    BY <1>2, NdpConstants DEF PacketNo
  <2>2. ASSUME NEW n \in 1 .. src'.highestSent
        PROVE  Copies(n)' = 0 <=> n <= src.highestSent /\ Copies(n) = 0
    <3>1. Copies(n)' = Copies(n) + (IF src.highestSent < n THEN 1 ELSE 0)
      BY <2>1
    <3> QED BY <1>1, <1>2, <2>1, <3>1
  <2>3. \A n : n \in 1 .. src.highestSent
                 <=> n \in 1 .. src'.highestSent /\ n <= src.highestSent
    BY <1>2
  <2> QED BY <2>2, <2>3 DEF Missing
<1>6. Cardinality(Missing') <= Lost'
  <2>1. Cardinality(Missing) <= Lost /\ Cardinality(Missing) \in Nat /\ Lost \in Nat
    BY MissingIsFinite DEF CopiesKept
  <2>2. Lost' \in Nat
    <3>1. used' \in [Kinds -> Nat]
      BY DEF NdpTypeOK
    <3> QED BY <3>1 DEF Kinds, Lost
  <2> QED BY <1>5, <2>1, <2>2
<1> QED BY <1>4, <1>6 DEF CopiesKept

(* A loss costs one packet its copy at most. *)
LEMMA CopyLost ==
  ASSUME NdpTypeOK, NdpTypeOK', CopiesKept, src'.highestSent = src.highestSent,
         Lost' = Lost + 1, NEW p,
         \A n \in PacketNo :
           Copies(n)' <= Copies(n) /\ (n # p => Copies(n)' = Copies(n))
  PROVE  CopiesKept'
<1>1. /\ src.highestSent \in Nat /\ 1 .. src.highestSent \subseteq PacketNo
      /\ IsFiniteSet(Missing) /\ Cardinality(Missing) \in Nat
      /\ Lost \in Nat /\ Cardinality(Missing) <= Lost
      /\ \A n \in PacketNo : Copies(n) <= IF n <= src.highestSent THEN 1 ELSE 0
  BY MissingIsFinite DEF CopiesKept
<1>2. \A n \in PacketNo : Copies(n) \in Nat /\ Copies(n)' \in Nat /\ n \in Nat
  <2>1. \A n \in PacketNo : Copies(n)' \in Nat
    BY CopiesAreCountsNext
  <2> QED BY <2>1, CopiesAreCounts, NdpConstants DEF PacketNo
<1>3. \A n \in PacketNo : Copies(n)' <= IF n <= src'.highestSent THEN 1 ELSE 0
  BY <1>1, <1>2
<1>4. Missing' \subseteq Missing \cup {p}
  <2> SUFFICES ASSUME NEW n \in 1 .. src.highestSent, Copies(n)' = 0, n # p
               PROVE  Copies(n) = 0
    BY DEF Missing
  <2>1. n \in PacketNo
    BY <1>1
  <2> QED BY <2>1
<1>5. Cardinality(Missing') <= Lost'
  <2> DEFINE M == Missing'
             A == Missing
             B == A \cup {p}
  <2>1. /\ IsFiniteSet(B) /\ Cardinality(B) <= Cardinality(A) + 1
        /\ Cardinality(B) \in Nat
    <3>1. IsFiniteSet(A) /\ Cardinality(A) \in Nat
      BY <1>1
    <3> HIDE DEF A
    <3>2. /\ IsFiniteSet(B)
          /\ Cardinality(B) = IF p \in A THEN Cardinality(A) ELSE Cardinality(A) + 1
      BY <3>1, FS_AddElement
    <3> QED BY <3>1, <3>2
  <2>2. IsFiniteSet(B) /\ M \in SUBSET B
    BY <1>4, <2>1
  <2> HIDE DEF M, A, B
  <2>3. Cardinality(M) <= Cardinality(B) /\ Cardinality(M) \in Nat
    BY <2>2, FS_Subset, FS_CardinalityType
  <2> QED BY <1>1, <2>1, <2>3 DEF M, A
<1> QED BY <1>3, <1>5 DEF CopiesKept

LEMMA CopiesStay ==
  ASSUME NdpTypeOK, NdpTypeOK', CopiesKept, src'.highestSent = src.highestSent,
         Lost <= Lost',
         \A n \in PacketNo : Copies(n)' = Copies(n)
  PROVE  CopiesKept'
<1>1. src.highestSent \in Nat
  BY NdpConstants DEF NdpTypeOK, Source
<1>2. ASSUME NEW n \in PacketNo
      PROVE  Copies(n)' = Copies(n)
               + (IF src.highestSent < n /\ n <= src'.highestSent THEN 1 ELSE 0)
  <2>1. Copies(n) \in Nat /\ n \in Nat
    BY CopiesAreCounts, NdpConstants DEF PacketNo
  <2> QED BY <1>1, <2>1
<1> QED BY <1>1, <1>2, CopiesSent

LEMMA UsesProperties ==
  ASSUME NdpTypeOK, NEW k \in Kinds, Uses(k), network' = network
  PROVE  /\ used' \in [Kinds -> Nat] /\ \A j \in Kinds : used'[j] <= network'[j]
         /\ Lost <= Lost'
         /\ k \in {"losses", "drops"} => Lost' = Lost + 1
<1>1. used \in [Kinds -> Nat] /\ \A j \in Kinds : used[j] <= network[j]
  BY DEF NdpTypeOK
<1>2. used[k] < network[k] /\ \A j \in Kinds : network[j] \in Nat
  BY NdpConstants DEF Uses, NdpTypeOK
<1>3. /\ used' \in [Kinds -> Nat]
      /\ \A j \in Kinds : used'[j] = IF j = k THEN used[j] + 1 ELSE used[j]
  BY <1>1 DEF Uses
<1>4. "losses" \in Kinds /\ "drops" \in Kinds /\ "losses" # "drops"
  BY DEF Kinds
<1>5. \A j \in Kinds : used'[j] <= network'[j]
  BY <1>1, <1>2, <1>3
<1>6. Lost <= Lost' /\ (k \in {"losses", "drops"} => Lost' = Lost + 1)
  BY <1>1, <1>3, <1>4 DEF Lost
<1> QED BY <1>3, <1>5, <1>6

LEMMA UnusedProperties ==
  ASSUME NdpTypeOK, used' = used
  PROVE  Lost <= Lost'
<1>1. Lost \in Nat /\ Lost' = Lost
  BY MissingIsFinite DEF Lost
<1> QED BY <1>1

(* The network changes the form of a packet. *)
LEMMA BecomesKeeps ==
  ASSUME NdpInv, NEW form \in Forms, NEW other \in Forms, form # other,
         NEW k \in Kinds, Uses(k), Becomes(form, other),
         UNCHANGED <<src, sink, feedback, pulls, network, arrived>>
  PROVE  NdpInv'
<1>1. data' \in Flying /\ \A n \in PacketNo : InFlight(data', n) = InFlight(data, n)
  BY BecomesProperties DEF NdpInv, NdpTypeOK, Flying
<1>2. /\ used' \in [Kinds -> Nat] /\ \A j \in Kinds : used'[j] <= network'[j]
      /\ Lost <= Lost'
  BY UsesProperties DEF NdpInv
<1>3. NdpTypeOK'
  BY <1>1, <1>2 DEF NdpInv, NdpTypeOK, Flying
<1>4. AcksPrefix' /\ PullsArePulls' /\ AcksKnown'
  BY DEF NdpInv, AcksPrefix, PullsArePulls, AcksKnown
<1>5. CopiesKept'
  <2>1. \A n \in PacketNo : Copies(n)' = Copies(n)
    BY <1>1 DEF Copies, Nacks
  <2> QED BY <1>2, <1>3, <2>1, CopiesStay DEF NdpInv
<1>6. PullsKept'
  <2>1. [n \in PacketNo |-> InFlight(data', n)] = [n \in PacketNo |-> InFlight(data, n)]
    BY <1>1
  <2>2. \A total : InAll(data', total) <=> InAll(data, total)
    BY <2>1 DEF InAll
  <2> QED BY <2>2 DEF NdpInv, PullsKept
<1> QED BY <1>3, <1>4, <1>5, <1>6 DEF NdpInv

LEMMA TrimKeeps == NdpInv /\ Trim => NdpInv'
<1>1. "full" \in Forms /\ "header" \in Forms /\ "full" # "header" /\ "trims" \in Kinds
  BY DEF Forms, Kinds
<1> QED BY <1>1, BecomesKeeps DEF Trim

LEMMA BounceKeeps == NdpInv /\ Bounce => NdpInv'
<1>1. "header" \in Forms /\ "returned" \in Forms /\ "header" # "returned" /\ "bounces" \in Kinds
  BY DEF Forms, Kinds
<1> QED BY <1>1, BecomesKeeps DEF Bounce

(* The network drops a packet. *)
LEMMA DropKeeps == NdpInv /\ Drop => NdpInv'
<1> SUFFICES ASSUME NdpInv, Drop PROVE NdpInv'
  OBVIOUS
<1> DEFINE form == IF network.reverse THEN "returned" ELSE "header"
<1>1. PICK n \in PacketNo : data[form][n] > 0 /\ data' = Without(data, form, n)
  BY DEF Drop
<1>2. Uses("drops") /\ UNCHANGED <<src, sink, feedback, pulls, network, arrived>>
  BY DEF Drop
<1>3. form \in Forms /\ "drops" \in Kinds
  BY DEF Forms, Kinds
<1> HIDE DEF form
<1>4. NdpTypeOK /\ AcksPrefix /\ PullsArePulls /\ AcksKnown /\ CopiesKept /\ PullsKept
  BY DEF NdpInv
<1>5. data \in Flying
  BY <1>4 DEF NdpTypeOK, Flying
<1>6. /\ data' \in Flying
      /\ \A m \in PacketNo : InFlight(data', m) = InFlight(data, m) - (IF m = n THEN 1 ELSE 0)
  BY <1>1, <1>3, <1>5, WithoutProperties
<1>7. /\ used' \in [Kinds -> Nat] /\ \A j \in Kinds : used'[j] <= network'[j]
      /\ Lost' = Lost + 1
  BY <1>2, <1>3, <1>4, UsesProperties
<1>8. NdpTypeOK'
  BY <1>2, <1>4, <1>6, <1>7 DEF NdpTypeOK, Flying
<1>9. AcksPrefix' /\ PullsArePulls' /\ AcksKnown'
  BY <1>2, <1>4 DEF AcksPrefix, PullsArePulls, AcksKnown
<1>10. CopiesKept'
  <2>1. ASSUME NEW m \in PacketNo
        PROVE  Copies(m)' <= Copies(m) /\ (m # n => Copies(m)' = Copies(m))
    <3>1. /\ Copies(m) = InFlight(data, m) + HowMany(feedback, NackOf(m))
                           + Occurs(src.rtx, m) + Occurs(arrived, m)
          /\ InFlight(data, m) \in Nat /\ HowMany(feedback, NackOf(m)) \in Nat
          /\ Occurs(src.rtx, m) \in Nat /\ Occurs(arrived, m) \in Nat
      BY <1>4, CopiesAreCounts
    <3>2. Copies(m)' = InFlight(data', m) + HowMany(feedback', NackOf(m))
                         + Occurs(src'.rtx, m) + Occurs(arrived', m)
      BY <1>8, CopiesAreCountsNext
    <3>3. InFlight(data', m) = InFlight(data, m) - (IF m = n THEN 1 ELSE 0)
      BY <1>6
    <3> QED BY <1>2, <3>1, <3>2, <3>3
  <2> QED BY <1>2, <1>4, <1>7, <1>8, <2>1, CopyLost
<1>11. PullsKept'
  <2>1. PICK total \in Int :
          InAll(data, total) /\ total + (sink.pullNo - src.lastPull) <= InitWindow
    BY <1>4 DEF PullsKept
  <2>2. InAll(data', total - 1)
    BY <1>1, <1>3, <1>5, <2>1, InAllWithout
  <2>3. sink.pullNo \in Nat /\ src.lastPull \in Nat /\ InitWindow \in Nat
    BY <1>4, NdpConstants DEF NdpTypeOK, Sink, Source
  <2>4. (total - 1) + (sink'.pullNo - src'.lastPull) <= InitWindow /\ total - 1 \in Int
    BY <1>2, <2>1, <2>3
  <2> QED BY <2>2, <2>4 DEF PullsKept
<1> QED BY <1>8, <1>9, <1>10, <1>11 DEF NdpInv

(* An ack, nack or pull is lost. *)
LEMMA LoseFeedbackKeeps == NdpInv /\ LoseFeedback => NdpInv'
<1> SUFFICES ASSUME NdpInv, LoseFeedback PROVE NdpInv'
  OBVIOUS
<1>1. PICK i \in DOMAIN feedback : feedback' = RemoveAt(feedback, i)
  BY DEF LoseFeedback
<1>2. Uses("losses") /\ UNCHANGED <<src, sink, data, pulls, network, arrived>>
  BY DEF LoseFeedback
<1>3. feedback \in Seq(Feedback) /\ DOMAIN feedback = 1 .. Len(feedback)
      /\ Len(feedback) \in Nat
  BY LenProperties DEF NdpInv, NdpTypeOK
<1>4. /\ feedback' \in Seq(Feedback) /\ Len(feedback') = Len(feedback) - 1
      /\ \A j \in 1 .. Len(feedback) - 1 :
           feedback'[j] = IF j < i THEN feedback[j] ELSE feedback[j + 1]
  BY <1>1, <1>3, RemoveAtProperties
<1>5. /\ used' \in [Kinds -> Nat] /\ \A j \in Kinds : used'[j] <= network'[j]
      /\ Lost' = Lost + 1
  <2>1. "losses" \in Kinds
    BY DEF Kinds
  <2> QED BY <1>2, <2>1, UsesProperties DEF NdpInv
<1>6. NdpTypeOK'
  BY <1>2, <1>4, <1>5 DEF NdpInv, NdpTypeOK
<1>7. AcksPrefix' /\ PullsArePulls'
  BY <1>2 DEF NdpInv, AcksPrefix, PullsArePulls
<1>8. AcksKnown'
  <2>1. DOMAIN feedback' = 1 .. Len(feedback) - 1
    BY <1>4, LenProperties
  <2>2. \A j \in 1 .. Len(feedback) - 1 : \E m \in DOMAIN feedback : feedback'[j] = feedback[m]
    <3> SUFFICES ASSUME NEW j \in 1 .. Len(feedback) - 1
                 PROVE  \E m \in DOMAIN feedback : feedback'[j] = feedback[m]
      OBVIOUS
    <3>1. j \in DOMAIN feedback /\ j + 1 \in DOMAIN feedback
      BY <1>3
    <3> QED BY <1>4, <3>1
  <2> QED BY <1>2, <2>1, <2>2 DEF NdpInv, AcksKnown
<1>9. CopiesKept'
  <2> DEFINE p == feedback[i].ackno
  <2>1. ASSUME NEW n \in PacketNo
        PROVE  Copies(n)' <= Copies(n) /\ (n # p => Copies(n)' = Copies(n))
    <3>1. HowMany(feedback', NackOf(n))
            = HowMany(feedback, NackOf(n)) - (IF feedback[i] \in NackOf(n) THEN 1 ELSE 0)
      BY <1>1, <1>3, CountRemoveAt
    <3>2. /\ Copies(n) = InFlight(data, n) + HowMany(feedback, NackOf(n))
                           + Occurs(src.rtx, n) + Occurs(arrived, n)
          /\ InFlight(data, n) \in Nat /\ HowMany(feedback, NackOf(n)) \in Nat
          /\ Occurs(src.rtx, n) \in Nat /\ Occurs(arrived, n) \in Nat
      BY CopiesAreCounts DEF NdpInv
    <3>3. Copies(n)' = InFlight(data', n) + HowMany(feedback', NackOf(n))
                         + Occurs(src'.rtx, n) + Occurs(arrived', n)
      BY <1>6, CopiesAreCountsNext
    <3>4. n # p => feedback[i] \notin NackOf(n)
      BY DEF NackOf
    <3> QED BY <1>2, <3>1, <3>2, <3>3, <3>4
  <2> HIDE DEF p
  <2> QED BY <1>2, <1>5, <1>6, <2>1, CopyLost DEF NdpInv
<1>10. PullsKept'
  BY <1>2 DEF NdpInv, PullsKept
<1> QED BY <1>6, <1>7, <1>8, <1>9, <1>10 DEF NdpInv

-----------------------------------------------------------------------------
(* The sink's side. *)
LEMMA ToSetAppend ==
  ASSUME NEW S, NEW q \in Seq(S), NEW e \in S
  PROVE  ToSet(Append(q, e)) = ToSet(q) \cup {e}
<1>1. /\ Append(q, e) \in Seq(S) /\ Len(Append(q, e)) = Len(q) + 1 /\ Len(q) \in Nat
      /\ \A i \in 1 .. Len(q) + 1 : Append(q, e)[i] = IF i = Len(q) + 1 THEN e ELSE q[i]
  BY LenProperties
<1>2. DOMAIN q = 1 .. Len(q) /\ DOMAIN Append(q, e) = 1 .. Len(q) + 1
  BY <1>1, LenProperties
<1> DEFINE r == Append(q, e)
<1> HIDE DEF r
<1>3. ASSUME NEW y PROVE y \in ToSet(r) <=> y \in ToSet(q) \/ y = e
  <2>1. y \in ToSet(r) <=> \E i \in 1 .. Len(q) + 1 : r[i] = y
    BY <1>2 DEF ToSet, r
  <2>2. y \in ToSet(q) <=> \E i \in 1 .. Len(q) : q[i] = y
    BY <1>2 DEF ToSet
  <2>3. \A i \in 1 .. Len(q) + 1 : r[i] = IF i = Len(q) + 1 THEN e ELSE q[i]
    BY <1>1 DEF r
  <2>4. Len(q) \in Nat
    BY <1>1
  <2>5. ASSUME NEW i \in 1 .. Len(q) PROVE i \in 1 .. Len(q) + 1 /\ r[i] = q[i]
    BY <2>3, <2>4
  <2>6. Len(q) + 1 \in 1 .. Len(q) + 1 /\ r[Len(q) + 1] = e
    BY <2>3, <2>4
  <2>7. ASSUME NEW i \in 1 .. Len(q) + 1 PROVE i \in 1 .. Len(q) \/ r[i] = e
    BY <2>3, <2>4
  <2> QED BY <2>1, <2>2, <2>5, <2>6, <2>7
<1> QED BY <1>3 DEF r

Prefix(k, A) ==
  /\ 1 .. k.cumulativeAck \subseteq A
  /\ k.cumulativeAck + 1 \notin A
  /\ ToSet(k.received) = {n \in A : n > k.cumulativeAck}
  /\ Ascending(k.received)

LEMMA ReceiveProperties ==
  ASSUME NEW k \in Sink, NEW A \in SUBSET PacketNo, Prefix(k, A), NEW n \in PacketNo
  PROVE  LET t == Receive(k, n)
         IN  /\ t \in Sink /\ t.pullNo = k.pullNo
             /\ k.cumulativeAck <= t.cumulativeAck
             /\ Prefix(t, A \cup {n})
<1> DEFINE c == k.cumulativeAck
           q == k.received
           t == Receive(k, n)
<1>1. /\ FlowPackets \in Nat /\ c \in Nat /\ c <= FlowPackets /\ n \in Nat
      /\ n >= 1 /\ n <= FlowPackets /\ q \in Seq(PacketNo)
  BY NdpConstants DEF Sink, PacketNo
<1>2. /\ q \in Seq(Nat) /\ Ascending(q) /\ A \in SUBSET Nat
      /\ 1 .. c \subseteq A /\ c + 1 \notin A /\ ToSet(q) = {b \in A : b > c}
  <2>1. PacketNo \subseteq Nat
    BY <1>1 DEF PacketNo
  <2>2. q \in Seq(Nat)
    BY <1>1, <2>1, SeqMonotonic
  <2> QED BY <2>1, <2>2 DEF Prefix
<1>3. CASE n = c + 1
  <2> DEFINE one == 1
             T == {0} \cup {i \in DOMAIN q : \A j \in 1 .. i : q[j] = n + j}
             m == Max(T)
             r == SubSeq(q, m + 1, Len(q))
  <2>1. t = [k EXCEPT !.cumulativeAck = n + m, !.received = r]
    BY <1>3 DEF Receive, InOrder
  <2>2. \A i \in 1 .. Len(q) : \E j \in Nat \ {0} : q[i] = n + j * one
    <3> SUFFICES ASSUME NEW i \in 1 .. Len(q)
                 PROVE  \E j \in Nat \ {0} : q[i] = n + j * one
      OBVIOUS
    <3>1. q[i] \in ToSet(q)
      BY <1>2, LenProperties DEF ToSet
    <3>2. q[i] \in A /\ q[i] \in Nat /\ q[i] > c /\ q[i] # c + 1
      BY <1>2, <3>1
    <3>3. q[i] - n \in Nat \ {0} /\ q[i] = n + (q[i] - n) * one
      BY <1>1, <1>3, <3>2
    <3> QED BY <3>3
  <2>3. n \notin A /\ ToSet(q) = From(A, n)
    <3>1. \A b \in A : b > c <=> b >= n
      BY <1>1, <1>2, <1>3
    <3> QED BY <1>2, <1>3, <3>1 DEF From
  <2>4. T = Stretch(q, n, one)
    BY DEF Stretch
  <2>5. /\ m \in 0 .. Len(q)
        /\ \A j \in 1 .. m : q[j] = n + j * one /\ n + j * one \in A
        /\ r \in Seq(Nat) /\ Ascending(r)
        /\ ToSet(r) = From(A \cup {n}, n + m * one + one)
        /\ n + m * one + one \notin A
    <3>1. one \in Nat \ {0}
      OBVIOUS
    <3> HIDE DEF one
    <3>2. LET u == Max(Stretch(q, n, one))
              v == SubSeq(q, u + 1, Len(q))
          IN  /\ u \in 0 .. Len(q)
              /\ \A j \in 1 .. u : q[j] = n + j * one /\ n + j * one \in A
              /\ v \in Seq(Nat) /\ Ascending(v)
              /\ ToSet(v) = From(A \cup {n}, n + u * one + one)
              /\ n + u * one + one \notin A
      BY <1>1, <1>2, <2>2, <2>3, <3>1, StretchMovesOn
    <3> HIDE DEF T
    <3> QED BY <2>4, <3>2
  <2> HIDE DEF m, r, T
  <2>6. Len(q) \in Nat /\ m \in Nat
    <3>1. Len(q) \in Nat
      BY <1>2, LenProperties
    <3> QED BY <2>5, <3>1
  <2>7. /\ \A j \in 1 .. m : n + j \in A
        /\ ToSet(r) = {b \in A \cup {n} : b > n + m}
        /\ n + m + 1 \notin A
    <3>1. m * one = m /\ \A j \in 1 .. m : j * one = j
      BY <2>6
    <3>2. \A b \in A \cup {n} : b >= n + m + 1 <=> b > n + m
      BY <1>1, <1>2, <2>6
    <3> QED BY <2>5, <3>1, <3>2 DEF From
  <2>8. n + m <= FlowPackets
    <3>1. CASE m = 0
      BY <1>1, <3>1
    <3>2. CASE m # 0
      <4>1. n + m \in A
        BY <2>6, <2>7, <3>2
      <4>2. n + m \in PacketNo
        BY <4>1
      <4> QED BY <1>1, <4>2 DEF PacketNo
    <3> QED BY <3>1, <3>2
  <2>9. r \in Seq(PacketNo)
    <3>1. \A i \in 1 .. Len(r) : r[i] \in PacketNo
      <4> SUFFICES ASSUME NEW i \in 1 .. Len(r) PROVE r[i] \in PacketNo
        OBVIOUS
      <4>1. r[i] \in ToSet(r)
        BY <2>5, LenProperties DEF ToSet
      <4> QED BY <2>7, <4>1
    <3>2. Len(r) \in Nat /\ r \in [1 .. Len(r) -> PacketNo]
      BY <2>5, <3>1, LenProperties
    <3> QED BY <3>2
  <2>10. /\ t \in Sink /\ t.pullNo = k.pullNo
         /\ t.cumulativeAck = n + m /\ t.received = r
    <3>1. n + m \in 0 .. FlowPackets
      BY <1>1, <2>6, <2>8
    <3> QED BY <2>1, <2>9, <3>1 DEF Sink
  <2>11. 1 .. n + m \subseteq A \cup {n}
    <3> SUFFICES ASSUME NEW i \in 1 .. n + m PROVE i \in A \cup {n}
      OBVIOUS
    <3>1. CASE i <= c
      <4>1. i \in 1 .. c
        BY <1>1, <3>1
      <4> QED BY <1>2, <4>1
    <3>2. CASE i > n
      <4>1. i - n \in 1 .. m /\ n + (i - n) = i
        BY <1>1, <2>6, <3>2
      <4> QED BY <2>7, <4>1
    <3> QED BY <1>1, <1>3, <3>1, <3>2
  <2>12. n + m + 1 \notin A \cup {n}
    BY <1>1, <2>6, <2>7
  <2> HIDE DEF t
  <2>13. Prefix(t, A \cup {n})
    BY <2>5, <2>7, <2>10, <2>11, <2>12 DEF Prefix
  <2>14. c <= t.cumulativeAck
    BY <1>1, <1>3, <2>6, <2>10
  <2> QED BY <2>10, <2>13, <2>14 DEF t
<1>4. CASE n <= c
  <2>1. t = k
    BY <1>1, <1>4 DEF Receive
  <2>2. n \in 1 .. c
    BY <1>1, <1>4
  <2>3. A \cup {n} = A
    BY <1>2, <2>2
  <2>4. c <= c
    BY <1>1
  <2> HIDE DEF t
  <2> QED BY <2>1, <2>3, <2>4 DEF t
<1>5. CASE n > c + 1
  <2>1. t = AboveHole(k, n)
    BY <1>1, <1>5 DEF Receive
  <2>2. CASE n \in ToSet(q)
    <3>1. t = k
      BY <2>1, <2>2 DEF AboveHole
    <3>2. A \cup {n} = A
      BY <1>2, <2>2
    <3>3. c <= c
      BY <1>1
    <3> HIDE DEF t
    <3> QED BY <3>1, <3>2, <3>3 DEF t
  <2>3. CASE n \notin ToSet(q)
    <3> DEFINE r == InsertAt(q, Cardinality({i \in DOMAIN q : q[i] < n}) + 1, n)
    <3>1. t = [k EXCEPT !.received = r]
      BY <2>1, <2>3 DEF AboveHole
    <3>2. r \in Seq(Nat) /\ Ascending(r) /\ ToSet(r) = ToSet(q) \cup {n}
      BY <1>1, <1>2, <2>3, InsertKeepsAscending
    <3> HIDE DEF r
    <3>3. r \in Seq(PacketNo)
      <4>1. \A i \in 1 .. Len(r) : r[i] \in PacketNo
        <5> SUFFICES ASSUME NEW i \in 1 .. Len(r) PROVE r[i] \in PacketNo
          OBVIOUS
        <5>1. r[i] \in ToSet(r)
          BY <3>2, LenProperties DEF ToSet
        <5> QED BY <1>2, <3>2, <5>1
      <4>2. Len(r) \in Nat /\ r \in [1 .. Len(r) -> PacketNo]
        BY <3>2, <4>1, LenProperties
      <4> QED BY <4>2
    <3>4. /\ t \in Sink /\ t.pullNo = k.pullNo /\ t.cumulativeAck = c /\ t.received = r
      BY <3>1, <3>3 DEF Sink
    <3> HIDE DEF t
    <3>5. ToSet(r) = {b \in A \cup {n} : b > c}
      BY <1>1, <1>2, <1>5, <3>2
    <3>6. c + 1 \notin A \cup {n} /\ 1 .. c \subseteq A \cup {n}
      BY <1>1, <1>2, <1>5
    <3>7. Prefix(t, A \cup {n})
      BY <3>2, <3>4, <3>5, <3>6 DEF Prefix
    <3>8. c <= t.cumulativeAck
      BY <1>1, <3>4
    <3> QED BY <3>4, <3>7, <3>8 DEF t
  <2> QED BY <2>2, <2>3
<1> QED BY <1>1, <1>3, <1>4, <1>5

LEMMA AnswerProperties ==
  ASSUME feedback \in Seq(Feedback), pulls \in Seq(Feedback), PullsArePulls,
         NEW k \in Sink, NEW type \in {"ACK", "NACK"}, NEW n \in PacketNo,
         Answer(k, type, n),
         \A i \in DOMAIN feedback : feedback[i].cum <= k.cumulativeAck,
         \A i \in DOMAIN pulls : pulls[i].cum <= k.cumulativeAck
  PROVE  /\ feedback' \in Seq(Feedback) /\ pulls' \in Seq(Feedback) /\ PullsArePulls'
         /\ \A i \in DOMAIN feedback' : feedback'[i].cum <= k.cumulativeAck
         /\ \A i \in DOMAIN pulls' : pulls'[i].cum <= k.cumulativeAck
         /\ \A m \in PacketNo :
              HowMany(feedback', NackOf(m)) = HowMany(feedback, NackOf(m))
                + (IF type = "NACK" /\ m = n THEN 1 ELSE 0)
<1> DEFINE a == [type |-> type, ackno |-> n, cum |-> k.cumulativeAck,
                 pull |-> TRUE, pullno |-> k.pullNo]
           b == [a EXCEPT !.pull = FALSE, !.pullno = 0]
           c == [a EXCEPT !.type = "PULL"]
<1>0. k.cumulativeAck \in 0 .. FlowPackets /\ k.pullNo \in Nat /\ FlowPackets \in Nat
  BY NdpConstants DEF Sink
<1>1. /\ a \in Feedback /\ b \in Feedback /\ c \in Feedback
      /\ a.type = type /\ a.ackno = n /\ a.cum = k.cumulativeAck
      /\ b.type = type /\ b.ackno = n /\ b.cum = k.cumulativeAck
      /\ c.type = "PULL" /\ c.cum = k.cumulativeAck
  BY <1>0 DEF Feedback
<1>2. /\ feedback' = Append(feedback, a) \/ feedback' = Append(feedback, b)
      /\ pulls' = pulls \/ pulls' = <<>> \/ pulls' = Append(pulls, c)
  BY DEF Answer
<1> HIDE DEF a, b, c
<1>3. PICK e \in Feedback : /\ feedback' = Append(feedback, e)
                            /\ e.type = type /\ e.ackno = n /\ e.cum = k.cumulativeAck
  BY <1>1, <1>2
<1>4. ASSUME NEW q \in Seq(Feedback), NEW x \in Feedback
      PROVE  /\ Append(q, x) \in Seq(Feedback)
             /\ \A i \in DOMAIN Append(q, x) :
                  Append(q, x)[i] = x \/ \E j \in DOMAIN q : Append(q, x)[i] = q[j]
  <2>1. /\ Append(q, x) \in Seq(Feedback) /\ Len(q) \in Nat /\ DOMAIN q = 1 .. Len(q)
        /\ Len(Append(q, x)) = Len(q) + 1
    BY LenProperties
  <2>2. DOMAIN Append(q, x) = 1 .. Len(q) + 1
    BY <2>1, LenProperties
  <2>3. ASSUME NEW i \in 1 .. Len(q) + 1
        PROVE  Append(q, x)[i] = x \/ \E j \in DOMAIN q : Append(q, x)[i] = q[j]
    <3>1. CASE i = Len(q) + 1
      BY <3>1
    <3>2. CASE i # Len(q) + 1
      <4>1. i \in DOMAIN q /\ Append(q, x)[i] = q[i]
        BY <2>1, <3>2
      <4> QED BY <4>1
    <3> QED BY <3>1, <3>2
  <2> QED BY <2>1, <2>2, <2>3
<1>5. feedback' \in Seq(Feedback) /\ pulls' \in Seq(Feedback)
  <2>1. feedback' \in Seq(Feedback)
    BY <1>3, <1>4
  <2>2. Append(pulls, c) \in Seq(Feedback) /\ <<>> \in Seq(Feedback)
    BY <1>1, <1>4
  <2> QED BY <1>2, <2>1, <2>2
<1>6. k.cumulativeAck <= k.cumulativeAck
  BY <1>0
<1>7. \A i \in DOMAIN feedback' : feedback'[i].cum <= k.cumulativeAck
  BY <1>3, <1>4, <1>6
<1>8. \A i \in DOMAIN pulls' : pulls'[i].cum <= k.cumulativeAck /\ pulls'[i].type = "PULL"
  <2>1. \A i \in DOMAIN pulls : pulls[i].cum <= k.cumulativeAck /\ pulls[i].type = "PULL"
    BY DEF PullsArePulls
  <2>2. CASE pulls' = pulls
    BY <2>1, <2>2
  <2>3. CASE pulls' = <<>>
    BY <2>3
  <2>4. CASE pulls' = Append(pulls, c)
    BY <1>1, <1>4, <1>6, <2>1, <2>4
  <2> QED BY <1>2, <2>2, <2>3, <2>4
<1>9. ASSUME NEW m \in PacketNo
      PROVE  HowMany(feedback', NackOf(m)) = HowMany(feedback, NackOf(m))
               + (IF type = "NACK" /\ m = n THEN 1 ELSE 0)
  <2>1. HowMany(Append(feedback, e), NackOf(m))
          = HowMany(feedback, NackOf(m)) + (IF e \in NackOf(m) THEN 1 ELSE 0)
    BY CountAppend
  <2>2. e \in NackOf(m) <=> type = "NACK" /\ m = n
    BY <1>3 DEF NackOf
  <2> QED BY <1>3, <2>1, <2>2
<1> QED BY <1>5, <1>7, <1>8, <1>9 DEF PullsArePulls

-----------------------------------------------------------------------------
LEMMA ReceiveHeaderKeeps == NdpInv /\ ReceiveHeader => NdpInv'
<1> SUFFICES ASSUME NdpInv, ReceiveHeader PROVE NdpInv'
  OBVIOUS
<1>1. PICK n \in PacketNo :
        /\ data["header"][n] > 0
        /\ sink' = [sink EXCEPT !.pullNo = @ + 1]
        /\ Answer(sink', "NACK", n)
        /\ data' = Without(data, "header", n)
        /\ UNCHANGED <<src, network, used, arrived>>
  BY DEF ReceiveHeader
<1>2. NdpTypeOK /\ PullsArePulls /\ AcksKnown /\ CopiesKept /\ PullsKept /\ AcksPrefix
  BY DEF NdpInv
<1>3. /\ feedback \in Seq(Feedback) /\ pulls \in Seq(Feedback) /\ data \in Flying
      /\ sink \in Sink /\ sink.pullNo \in Nat /\ src \in Source /\ src.lastPull \in Nat
  BY <1>2 DEF NdpTypeOK, Flying, Sink, Source
<1>4. /\ sink' \in Sink /\ sink'.cumulativeAck = sink.cumulativeAck
      /\ sink'.received = sink.received /\ sink'.pullNo = sink.pullNo + 1
  <2>1. sink.pullNo + 1 \in Nat
    BY <1>3
  <2> QED BY <1>1, <1>3, <2>1 DEF Sink
<1>5. "header" \in Forms
  BY DEF Forms
<1>6. /\ data' \in Flying
      /\ \A m \in PacketNo : InFlight(data', m) = InFlight(data, m) - (IF m = n THEN 1 ELSE 0)
  BY <1>1, <1>3, <1>5, WithoutProperties
<1>7. /\ feedback' \in Seq(Feedback) /\ pulls' \in Seq(Feedback) /\ PullsArePulls'
      /\ \A i \in DOMAIN feedback' : feedback'[i].cum <= sink'.cumulativeAck
      /\ \A i \in DOMAIN pulls' : pulls'[i].cum <= sink'.cumulativeAck
      /\ \A m \in PacketNo :
           HowMany(feedback', NackOf(m)) = HowMany(feedback, NackOf(m)) + (IF m = n THEN 1 ELSE 0)
  <2>1. "NACK" \in {"ACK", "NACK"}
    OBVIOUS
  <2> QED BY <1>1, <1>2, <1>3, <1>4, <2>1, AnswerProperties DEF AcksKnown
<1>8. NdpTypeOK'
  BY <1>1, <1>2, <1>4, <1>6, <1>7 DEF NdpTypeOK, Flying
<1>9. AcksPrefix' /\ AcksKnown'
  BY <1>1, <1>2, <1>4, <1>7 DEF AcksPrefix, AcksKnown
<1>10. CopiesKept'
  <2>1. ASSUME NEW m \in PacketNo PROVE Copies(m)' = Copies(m)
    <3>1. Copies(m) = InFlight(data, m) + HowMany(feedback, NackOf(m))
                        + Occurs(src.rtx, m) + Occurs(arrived, m)
      BY <1>2, CopiesAreCounts
    <3>2. Copies(m)' = InFlight(data', m) + HowMany(feedback', NackOf(m))
                         + Occurs(src'.rtx, m) + Occurs(arrived', m)
      BY <1>8, CopiesAreCountsNext
    <3>3. /\ InFlight(data, m) \in Nat /\ HowMany(feedback, NackOf(m)) \in Nat
          /\ Occurs(src.rtx, m) \in Nat /\ Occurs(arrived, m) \in Nat
      BY <1>2, CopiesAreCounts
    <3>4. Occurs(src'.rtx, m) = Occurs(src.rtx, m) /\ Occurs(arrived', m) = Occurs(arrived, m)
      BY <1>1
    <3>5. HowMany(feedback', NackOf(m)) = HowMany(feedback, NackOf(m)) + (IF m = n THEN 1 ELSE 0)
      BY <1>7
    <3>6. InFlight(data', m) = InFlight(data, m) - (IF m = n THEN 1 ELSE 0)
      BY <1>6
    <3> QED BY <3>1, <3>2, <3>3, <3>4, <3>5, <3>6
  <2>2. Lost <= Lost'
    BY <1>1, <1>2, UnusedProperties
  <2> QED BY <1>1, <1>2, <1>8, <2>1, <2>2, CopiesStay
<1>11. PullsKept'
  <2>1. PICK total \in Int :
          InAll(data, total) /\ total + (sink.pullNo - src.lastPull) <= InitWindow
    BY <1>2 DEF PullsKept
  <2>2. InAll(data', total - 1)
    BY <1>1, <1>3, <1>5, <2>1, InAllWithout
  <2>3. (total - 1) + (sink'.pullNo - src'.lastPull) <= InitWindow /\ total - 1 \in Int
    BY <1>1, <1>3, <1>4, <2>1, NdpConstants
  <2> QED BY <2>2, <2>3 DEF PullsKept
<1> QED BY <1>7, <1>8, <1>9, <1>10, <1>11 DEF NdpInv

LEMMA ReceiveDataKeeps == NdpInv /\ ReceiveData => NdpInv'
<1> SUFFICES ASSUME NdpInv, ReceiveData PROVE NdpInv'
  OBVIOUS
<1>1. PICK n \in PacketNo :
        /\ data["full"][n] > 0
        /\ sink' = [Receive(sink, n) EXCEPT !.pullNo = @ + 1]
        /\ Answer(sink', "ACK", n)
        /\ arrived' = Append(arrived, n)
        /\ data' = Without(data, "full", n)
        /\ UNCHANGED <<src, network, used>>
  BY DEF ReceiveData
<1>2. NdpTypeOK /\ PullsArePulls /\ AcksKnown /\ CopiesKept /\ PullsKept /\ AcksPrefix
  BY DEF NdpInv
<1>3. /\ feedback \in Seq(Feedback) /\ pulls \in Seq(Feedback) /\ data \in Flying
      /\ sink \in Sink /\ sink.pullNo \in Nat /\ src \in Source /\ src.lastPull \in Nat
      /\ arrived \in Seq(PacketNo) /\ src.lastAcked \in Nat /\ sink.cumulativeAck \in Nat
  BY <1>2, NdpConstants DEF NdpTypeOK, Flying, Sink, Source
<1>4. ToSet(arrived) \in SUBSET PacketNo
  BY <1>3, LenProperties DEF ToSet
<1>5. Prefix(sink, ToSet(arrived))
  BY <1>2 DEF AcksPrefix, Prefix, Ascending
<1> DEFINE t == Receive(sink, n)
<1>6. /\ t \in Sink /\ t.pullNo = sink.pullNo /\ sink.cumulativeAck <= t.cumulativeAck
      /\ Prefix(t, ToSet(arrived) \cup {n})
  BY <1>3, <1>4, <1>5, ReceiveProperties
<1> HIDE DEF t
<1>7. /\ sink' \in Sink /\ sink'.cumulativeAck = t.cumulativeAck
      /\ sink'.received = t.received /\ sink'.pullNo = sink.pullNo + 1
  <2>1. t.pullNo + 1 \in Nat /\ sink' = [t EXCEPT !.pullNo = @ + 1]
    BY <1>1, <1>3, <1>6 DEF t
  <2> QED BY <1>6, <2>1 DEF Sink
<1>8. ToSet(arrived') = ToSet(arrived) \cup {n} /\ arrived' \in Seq(PacketNo)
  <2>1. ToSet(Append(arrived, n)) = ToSet(arrived) \cup {n}
    BY <1>3, ToSetAppend
  <2> QED BY <1>1, <1>3, <2>1
<1>9. "full" \in Forms
  BY DEF Forms
<1>10. /\ data' \in Flying
       /\ \A m \in PacketNo : InFlight(data', m) = InFlight(data, m) - (IF m = n THEN 1 ELSE 0)
  BY <1>1, <1>3, <1>9, WithoutProperties
<1>11. sink'.cumulativeAck \in Nat /\ sink.cumulativeAck <= sink'.cumulativeAck
  BY <1>6, <1>7, NdpConstants DEF Sink
<1>12. /\ feedback' \in Seq(Feedback) /\ pulls' \in Seq(Feedback) /\ PullsArePulls'
       /\ \A i \in DOMAIN feedback' : feedback'[i].cum <= sink'.cumulativeAck
       /\ \A i \in DOMAIN pulls' : pulls'[i].cum <= sink'.cumulativeAck
       /\ \A m \in PacketNo : HowMany(feedback', NackOf(m)) = HowMany(feedback, NackOf(m)) + 0
  <2>1. "ACK" \in {"ACK", "NACK"} /\ "ACK" # "NACK"
    OBVIOUS
  <2>2. \A i \in DOMAIN feedback : feedback[i] \in Feedback
    BY <1>3, LenProperties, ElementOfSeq
  <2>3. \A i \in DOMAIN pulls : pulls[i] \in Feedback
    BY <1>3, LenProperties, ElementOfSeq
  <2>4. \A f \in Feedback : f.cum \in Nat
    BY NdpConstants DEF Feedback
  <2>5. \A i \in DOMAIN feedback : feedback[i].cum <= sink'.cumulativeAck
    BY <1>2, <1>3, <1>11, <2>2, <2>4 DEF AcksKnown
  <2>6. \A i \in DOMAIN pulls : pulls[i].cum <= sink'.cumulativeAck
    BY <1>2, <1>3, <1>11, <2>3, <2>4 DEF AcksKnown
  <2>7. Answer(sink', "ACK", n) /\ sink' \in Sink
    BY <1>1, <1>7
  <2> QED BY <1>2, <1>3, <2>1, <2>5, <2>6, <2>7, AnswerProperties
<1>13. NdpTypeOK'
  BY <1>1, <1>2, <1>7, <1>8, <1>10, <1>12 DEF NdpTypeOK, Flying
<1>14. AcksPrefix'
  BY <1>6, <1>7, <1>8 DEF AcksPrefix, Prefix, Ascending
<1>15. AcksKnown'
  <2>1. src'.lastAcked <= sink'.cumulativeAck
    BY <1>1, <1>2, <1>3, <1>11 DEF AcksKnown
  <2> QED BY <1>12, <2>1 DEF AcksKnown
<1>16. CopiesKept'
  <2>1. ASSUME NEW m \in PacketNo PROVE Copies(m)' = Copies(m)
    <3>1. Copies(m) = InFlight(data, m) + HowMany(feedback, NackOf(m))
                        + Occurs(src.rtx, m) + Occurs(arrived, m)
      BY <1>2, CopiesAreCounts
    <3>2. Copies(m)' = InFlight(data', m) + HowMany(feedback', NackOf(m))
                         + Occurs(src'.rtx, m) + Occurs(arrived', m)
      BY <1>13, CopiesAreCountsNext
    <3>3. /\ InFlight(data, m) \in Nat /\ HowMany(feedback, NackOf(m)) \in Nat
          /\ Occurs(src.rtx, m) \in Nat /\ Occurs(arrived, m) \in Nat
      BY <1>2, CopiesAreCounts
    <3>4. Occurs(arrived', m) = Occurs(arrived, m) + (IF m = n THEN 1 ELSE 0)
      <4>1. HowMany(Append(arrived, n), {m}) = HowMany(arrived, {m}) + (IF n \in {m} THEN 1 ELSE 0)
        BY <1>3, CountAppend
      <4> QED BY <1>1, <4>1 DEF Occurs
    <3> QED BY <1>1, <1>10, <1>12, <3>1, <3>2, <3>3, <3>4
  <2>2. Lost <= Lost'
    BY <1>1, <1>2, UnusedProperties
  <2> QED BY <1>1, <1>2, <1>13, <2>1, <2>2, CopiesStay
<1>17. PullsKept'
  <2>1. PICK total \in Int :
          InAll(data, total) /\ total + (sink.pullNo - src.lastPull) <= InitWindow
    BY <1>2 DEF PullsKept
  <2>2. InAll(data', total - 1)
    BY <1>1, <1>3, <1>9, <2>1, InAllWithout
  <2>3. sink'.pullNo = sink.pullNo + 1 /\ src'.lastPull = src.lastPull
    BY <1>1, <1>7
  <2>4. sink.pullNo \in Nat /\ src.lastPull \in Nat /\ InitWindow \in Nat
    BY <1>3, NdpConstants
  <2>5. (total - 1) + (sink'.pullNo - src'.lastPull) <= InitWindow /\ total - 1 \in Int
    BY <2>1, <2>3, <2>4
  <2> QED BY <2>2, <2>5 DEF PullsKept
<1> QED BY <1>12, <1>13, <1>14, <1>15, <1>16, <1>17 DEF NdpInv

LEMMA ReleasePullKeeps == NdpInv /\ ReleasePull => NdpInv'
<1> SUFFICES ASSUME NdpInv, ReleasePull PROVE NdpInv'
  OBVIOUS
<1>1. /\ pulls # <<>> /\ feedback' = Append(feedback, Head(pulls)) /\ pulls' = Tail(pulls)
      /\ UNCHANGED <<src, sink, data, network, used, arrived>>
  BY DEF ReleasePull
<1>2. NdpTypeOK /\ PullsArePulls /\ AcksKnown /\ CopiesKept /\ PullsKept /\ AcksPrefix
  BY DEF NdpInv
<1>3. feedback \in Seq(Feedback) /\ pulls \in Seq(Feedback)
  BY <1>2 DEF NdpTypeOK
<1>4. /\ Len(pulls) \in Nat /\ Len(pulls) >= 1 /\ DOMAIN pulls = 1 .. Len(pulls)
      /\ Head(pulls) = pulls[1] /\ pulls[1] \in Feedback
      /\ pulls' \in Seq(Feedback) /\ Len(pulls') = Len(pulls) - 1
      /\ \A i \in 1 .. Len(pulls) - 1 : pulls'[i] = pulls[i + 1]
  <2>1. Len(pulls) \in Nat \ {0} /\ DOMAIN pulls = 1 .. Len(pulls)
    BY <1>1, <1>3, EmptySeq, LenProperties
  <2>2. Head(pulls) = pulls[1] /\ pulls[1] \in Feedback
    BY <1>3, <2>1, ElementOfSeq
  <2> QED BY <1>1, <1>3, <2>1, <2>2, HeadTailProperties
<1>5. pulls[1].type = "PULL" /\ pulls[1].cum <= sink.cumulativeAck
  BY <1>2, <1>4 DEF PullsArePulls, AcksKnown
<1>6. DOMAIN pulls' = 1 .. Len(pulls) - 1
  BY <1>4, LenProperties
<1>7. \A i \in DOMAIN pulls' : \E j \in DOMAIN pulls : pulls'[i] = pulls[j]
  <2> SUFFICES ASSUME NEW i \in 1 .. Len(pulls) - 1
               PROVE  \E j \in DOMAIN pulls : pulls'[i] = pulls[j]
    BY <1>6
  <2>1. i + 1 \in DOMAIN pulls
    BY <1>4
  <2> QED BY <1>4, <2>1
<1>8. /\ feedback' \in Seq(Feedback) /\ Len(feedback') = Len(feedback) + 1
      /\ Len(feedback) \in Nat /\ DOMAIN feedback = 1 .. Len(feedback)
      /\ \A i \in 1 .. Len(feedback) + 1 :
           feedback'[i] = IF i = Len(feedback) + 1 THEN pulls[1] ELSE feedback[i]
  BY <1>1, <1>3, <1>4, LenProperties
<1>9. NdpTypeOK'
  BY <1>1, <1>2, <1>4, <1>8 DEF NdpTypeOK
<1>10. PullsArePulls' /\ AcksPrefix'
  BY <1>1, <1>2, <1>7 DEF PullsArePulls, AcksPrefix
<1>11. AcksKnown'
  <2>1. DOMAIN feedback' = 1 .. Len(feedback) + 1
    BY <1>8, LenProperties
  <2>2. \A i \in DOMAIN feedback' :
          \/ feedback'[i] = pulls[1]
          \/ i \in DOMAIN feedback /\ feedback'[i] = feedback[i]
    BY <1>8, <2>1
  <2>3. \A i \in DOMAIN feedback' : feedback'[i].cum <= sink.cumulativeAck
    BY <1>2, <1>5, <2>2 DEF AcksKnown
  <2> QED BY <1>1, <1>2, <1>7, <2>3 DEF AcksKnown
<1>12. CopiesKept'
  <2>1. ASSUME NEW m \in PacketNo PROVE Copies(m)' = Copies(m)
    <3>1. Copies(m) = InFlight(data, m) + HowMany(feedback, NackOf(m))
                        + Occurs(src.rtx, m) + Occurs(arrived, m)
      BY <1>2, CopiesAreCounts
    <3>2. Copies(m)' = InFlight(data', m) + HowMany(feedback', NackOf(m))
                         + Occurs(src'.rtx, m) + Occurs(arrived', m)
      BY <1>9, CopiesAreCountsNext
    <3>3. HowMany(feedback, NackOf(m)) \in Nat
      BY <1>2, CopiesAreCounts
    <3>4. HowMany(feedback', NackOf(m)) = HowMany(feedback, NackOf(m))
      <4>1. HowMany(Append(feedback, pulls[1]), NackOf(m))
              = HowMany(feedback, NackOf(m)) + (IF pulls[1] \in NackOf(m) THEN 1 ELSE 0)
        BY <1>3, <1>4, CountAppend
      <4>2. pulls[1] \notin NackOf(m)
        BY <1>5 DEF NackOf
      <4>3. feedback' = Append(feedback, pulls[1])
        BY <1>1, <1>4
      <4> QED BY <3>3, <4>1, <4>2, <4>3
    <3> QED BY <1>1, <3>1, <3>2, <3>4
  <2>2. Lost <= Lost'
    BY <1>1, <1>2, UnusedProperties
  <2> QED BY <1>1, <1>2, <1>9, <2>1, <2>2, CopiesStay
<1>13. PullsKept'
  BY <1>1, <1>2 DEF PullsKept
<1> QED BY <1>9, <1>10, <1>11, <1>12, <1>13 DEF NdpInv

-----------------------------------------------------------------------------
(* The source hears of something. *)
LEMMA ReceiveFeedbackKeeps == NdpInv /\ ReceiveFeedback => NdpInv'
<1> SUFFICES ASSUME NdpInv, ReceiveFeedback PROVE NdpInv'
  OBVIOUS
<1> DEFINE Result(f) == CASE f.type = "ACK" -> ProcessAck(src, f)
                          [] f.type = "NACK" -> ProcessNack(src, f)
                          [] f.type = "PULL" -> ProcessPull(src, f)
<1>1. PICK i \in DOMAIN feedback :
        /\ IF i = 1 THEN UNCHANGED used ELSE Uses("overtakes")
        /\ src' = Result(feedback[i]).s
        /\ data' = With(data, Result(feedback[i]).packets)
        /\ feedback' = RemoveAt(feedback, i)
        /\ UNCHANGED <<sink, pulls, network, arrived>>
  BY DEF ReceiveFeedback
<1>2. NdpTypeOK /\ PullsArePulls /\ AcksKnown /\ CopiesKept /\ PullsKept /\ AcksPrefix
  BY DEF NdpInv
<1>3. /\ feedback \in Seq(Feedback) /\ DOMAIN feedback = 1 .. Len(feedback)
      /\ Len(feedback) \in Nat /\ data \in Flying /\ src \in Source
      /\ Len(src.history) <= HIST_LEN
  BY <1>2, LenProperties DEF NdpTypeOK, Flying
<1> DEFINE f == feedback[i]
           r == Result(f)
<1>4. f \in Feedback
  BY <1>3, ElementOfSeq
<1>5. Handled(src, r, f)
  <2> HIDE DEF f
  <2>1. f.type \in {"ACK", "NACK", "PULL"}
    BY <1>4 DEF Feedback
  <2>2. CASE f.type = "ACK"
    BY <1>3, <1>4, <2>2, ProcessAckProperties
  <2>3. CASE f.type = "NACK"
    BY <1>3, <1>4, <2>3, ProcessNackProperties
  <2>4. CASE f.type = "PULL"
    BY <1>3, <1>4, <2>4, ProcessPullProperties
  <2> QED BY <2>1, <2>2, <2>3, <2>4
<1>6. src' = r.s /\ data' = With(data, r.packets)
  BY <1>1
<1> HIDE DEF r
<1>7. /\ src' \in Source /\ Len(src'.history) <= HIST_LEN /\ r.packets \in Seq(PacketNo)
      /\ src.lastPull + Len(r.packets) <= src'.lastPull
      /\ src.highestSent <= src'.highestSent
      /\ src'.lastAcked = src.lastAcked \/ src'.lastAcked = f.cum
      /\ \A m \in PacketNo :
           Occurs(r.packets, m) + Occurs(src'.rtx, m)
             = Occurs(src.rtx, m) + (IF f \in NackOf(m) THEN 1 ELSE 0)
                 + (IF src.highestSent < m /\ m <= src'.highestSent THEN 1 ELSE 0)
  BY <1>5, <1>6 DEF Handled
<1>8. /\ data' \in Flying
      /\ \A m \in PacketNo : InFlight(data', m) = InFlight(data, m) + Occurs(r.packets, m)
  BY <1>3, <1>6, <1>7, WithProperties
<1>9. /\ feedback' \in Seq(Feedback) /\ Len(feedback') = Len(feedback) - 1
      /\ \A j \in 1 .. Len(feedback) - 1 :
           feedback'[j] = IF j < i THEN feedback[j] ELSE feedback[j + 1]
  BY <1>1, <1>3, RemoveAtProperties
<1>10. /\ used' \in [Kinds -> Nat] /\ \A j \in Kinds : used'[j] <= network'[j]
       /\ Lost <= Lost'
  <2>1. CASE i = 1
    BY <1>1, <1>2, <2>1, UnusedProperties DEF NdpTypeOK
  <2>2. CASE i # 1
    <3>1. "overtakes" \in Kinds
      BY DEF Kinds
    <3> QED BY <1>1, <1>2, <2>2, <3>1, UsesProperties
  <2> QED BY <2>1, <2>2
<1>11. NdpTypeOK'
  BY <1>1, <1>2, <1>7, <1>8, <1>9, <1>10 DEF NdpTypeOK, Flying
<1>12. AcksPrefix' /\ PullsArePulls'
  BY <1>1, <1>2 DEF AcksPrefix, PullsArePulls
<1>13. AcksKnown'
  <2>1. DOMAIN feedback' = 1 .. Len(feedback) - 1
    BY <1>9, LenProperties
  <2>2. \A j \in 1 .. Len(feedback) - 1 : \E m \in DOMAIN feedback : feedback'[j] = feedback[m]
    <3> SUFFICES ASSUME NEW j \in 1 .. Len(feedback) - 1
                 PROVE  \E m \in DOMAIN feedback : feedback'[j] = feedback[m]
      OBVIOUS
    <3>1. j \in DOMAIN feedback /\ j + 1 \in DOMAIN feedback
      BY <1>3
    <3> QED BY <1>9, <3>1
  <2>3. src'.lastAcked <= sink.cumulativeAck
    BY <1>2, <1>7 DEF AcksKnown
  <2> QED BY <1>1, <1>2, <2>1, <2>2, <2>3 DEF AcksKnown
<1>14. CopiesKept'
  <2>1. ASSUME NEW m \in PacketNo
        PROVE  Copies(m)' = Copies(m)
                 + (IF src.highestSent < m /\ m <= src'.highestSent THEN 1 ELSE 0)
    <3>1. HowMany(feedback', NackOf(m))
            = HowMany(feedback, NackOf(m)) - (IF f \in NackOf(m) THEN 1 ELSE 0)
      BY <1>1, <1>3, CountRemoveAt
    <3>2. /\ Copies(m) = InFlight(data, m) + HowMany(feedback, NackOf(m))
                           + Occurs(src.rtx, m) + Occurs(arrived, m)
          /\ InFlight(data, m) \in Nat /\ HowMany(feedback, NackOf(m)) \in Nat
          /\ Occurs(src.rtx, m) \in Nat /\ Occurs(arrived, m) \in Nat
      BY <1>2, CopiesAreCounts
    <3>3. /\ Copies(m)' = InFlight(data', m) + HowMany(feedback', NackOf(m))
                            + Occurs(src'.rtx, m) + Occurs(arrived', m)
          /\ Occurs(src'.rtx, m) \in Nat
      BY <1>11, CopiesAreCountsNext
    <3>4. Occurs(r.packets, m) \in Nat
      BY <1>7, OccursType
    <3>5. /\ InFlight(data', m) = InFlight(data, m) + Occurs(r.packets, m)
          /\ Occurs(arrived', m) = Occurs(arrived, m)
          /\ Occurs(r.packets, m) + Occurs(src'.rtx, m)
               = Occurs(src.rtx, m) + (IF f \in NackOf(m) THEN 1 ELSE 0)
                   + (IF src.highestSent < m /\ m <= src'.highestSent THEN 1 ELSE 0)
      BY <1>1, <1>7, <1>8
    <3> HIDE DEF f
    <3> QED BY <3>1, <3>2, <3>3, <3>4, <3>5
  <2> QED BY <1>2, <1>7, <1>10, <1>11, <2>1, CopiesSent
<1>15. PullsKept'
  <2>1. PICK total \in Int :
          InAll(data, total) /\ total + (sink.pullNo - src.lastPull) <= InitWindow
    BY <1>2 DEF PullsKept
  <2>2. InAll(data', total + Len(r.packets))
    BY <1>3, <1>6, <1>7, <2>1, InAllWith
  <2>3. sink'.pullNo = sink.pullNo /\ src.lastPull + Len(r.packets) <= src'.lastPull
    BY <1>1, <1>7
  <2>4. /\ sink.pullNo \in Nat /\ src.lastPull \in Nat /\ src'.lastPull \in Nat
        /\ InitWindow \in Nat /\ Len(r.packets) \in Nat
    BY <1>2, <1>7, NdpConstants, LenProperties DEF NdpTypeOK, Sink, Source
  <2>5. /\ (total + Len(r.packets)) + (sink'.pullNo - src'.lastPull) <= InitWindow
        /\ total + Len(r.packets) \in Int
    BY <2>1, <2>3, <2>4
  <2> QED BY <2>2, <2>5 DEF PullsKept
<1> QED BY <1>11, <1>12, <1>13, <1>14, <1>15 DEF NdpInv

LEMMA ReceiveReturnedKeeps == NdpInv /\ ReceiveReturned => NdpInv'
<1> SUFFICES ASSUME NdpInv, ReceiveReturned PROVE NdpInv'
  OBVIOUS
<1>1. PICK n \in PacketNo :
        /\ data["returned"][n] > 0
        /\ src' = ProcessRTS(src, n).s
        /\ data' = With(Without(data, "returned", n), ProcessRTS(src, n).packets)
        /\ UNCHANGED <<sink, feedback, pulls, network, used, arrived>>
  BY DEF ReceiveReturned
<1>2. NdpTypeOK /\ PullsArePulls /\ AcksKnown /\ CopiesKept /\ PullsKept /\ AcksPrefix
  BY DEF NdpInv
<1>3. /\ data \in Flying /\ src \in Source /\ Len(src.history) <= HIST_LEN
      /\ "returned" \in Forms
  BY <1>2 DEF NdpTypeOK, Flying, Forms
<1> DEFINE r == ProcessRTS(src, n)
           d == Without(data, "returned", n)
<1>4. src' = r.s /\ data' = With(d, r.packets)
  BY <1>1
<1>5. /\ src' \in Source /\ Len(src'.history) <= HIST_LEN
      /\ r.packets \in Seq(PacketNo) /\ Len(r.packets) <= 1
      /\ src'.lastPull = src.lastPull /\ src'.lastAcked = src.lastAcked
      /\ src.highestSent <= src'.highestSent
      /\ \A m \in PacketNo :
           Occurs(r.packets, m) + Occurs(src'.rtx, m)
             = Occurs(src.rtx, m) + (IF m = n THEN 1 ELSE 0)
                 + (IF src.highestSent < m /\ m <= src'.highestSent THEN 1 ELSE 0)
  BY <1>3, <1>4, ProcessRTSProperties
<1>6. /\ d \in Flying
      /\ \A m \in PacketNo : InFlight(d, m) = InFlight(data, m) - (IF m = n THEN 1 ELSE 0)
  BY <1>1, <1>3, WithoutProperties
<1>7. PICK total \in Int :
        InAll(data, total) /\ total + (sink.pullNo - src.lastPull) <= InitWindow
  BY <1>2 DEF PullsKept
<1>8. InAll(d, total - 1)
  BY <1>1, <1>3, <1>7, InAllWithout
<1> HIDE DEF r, d
<1>9. /\ data' \in Flying
      /\ \A m \in PacketNo : InFlight(data', m) = InFlight(d, m) + Occurs(r.packets, m)
  BY <1>4, <1>5, <1>6, WithProperties
<1>10. NdpTypeOK'
  BY <1>1, <1>2, <1>5, <1>9 DEF NdpTypeOK, Flying
<1>11. AcksPrefix' /\ PullsArePulls'
  BY <1>1, <1>2 DEF AcksPrefix, PullsArePulls
<1>12. AcksKnown'
  BY <1>1, <1>2, <1>5 DEF AcksKnown
<1>13. CopiesKept'
  <2>1. ASSUME NEW m \in PacketNo
        PROVE  Copies(m)' = Copies(m)
                 + (IF src.highestSent < m /\ m <= src'.highestSent THEN 1 ELSE 0)
    <3>1. /\ Copies(m) = InFlight(data, m) + HowMany(feedback, NackOf(m))
                           + Occurs(src.rtx, m) + Occurs(arrived, m)
          /\ InFlight(data, m) \in Nat /\ HowMany(feedback, NackOf(m)) \in Nat
          /\ Occurs(src.rtx, m) \in Nat /\ Occurs(arrived, m) \in Nat
      BY <1>2, CopiesAreCounts
    <3>2. /\ Copies(m)' = InFlight(data', m) + HowMany(feedback', NackOf(m))
                            + Occurs(src'.rtx, m) + Occurs(arrived', m)
          /\ Occurs(src'.rtx, m) \in Nat
      BY <1>10, CopiesAreCountsNext
    <3>3. Occurs(r.packets, m) \in Nat
      BY <1>5, OccursType
    <3>4. /\ InFlight(data', m) = InFlight(d, m) + Occurs(r.packets, m)
          /\ InFlight(d, m) = InFlight(data, m) - (IF m = n THEN 1 ELSE 0)
      BY <1>6, <1>9
    <3>5. /\ HowMany(feedback', NackOf(m)) = HowMany(feedback, NackOf(m))
          /\ Occurs(arrived', m) = Occurs(arrived, m)
      BY <1>1
    <3>6. Occurs(r.packets, m) + Occurs(src'.rtx, m)
            = Occurs(src.rtx, m) + (IF m = n THEN 1 ELSE 0)
                + (IF src.highestSent < m /\ m <= src'.highestSent THEN 1 ELSE 0)
      BY <1>5
    <3> QED BY <3>1, <3>2, <3>3, <3>4, <3>5, <3>6
  <2>2. Lost <= Lost'
    BY <1>1, <1>2, UnusedProperties
  <2> QED BY <1>2, <1>5, <1>10, <2>1, <2>2, CopiesSent
<1>14. PullsKept'
  <2>1. total - 1 \in Int
    BY <1>7
  <2>2. InAll(data', (total - 1) + Len(r.packets))
    BY <1>4, <1>5, <1>6, <1>8, <2>1, InAllWith
  <2>3. sink'.pullNo = sink.pullNo /\ src'.lastPull = src.lastPull
    BY <1>1, <1>5
  <2>4. /\ sink.pullNo \in Nat /\ src.lastPull \in Nat
        /\ InitWindow \in Nat /\ Len(r.packets) \in Nat
    BY <1>2, <1>5, NdpConstants, LenProperties DEF NdpTypeOK, Sink, Source
  <2>5. /\ ((total - 1) + Len(r.packets)) + (sink'.pullNo - src'.lastPull) <= InitWindow
        /\ (total - 1) + Len(r.packets) \in Int
    BY <1>5, <1>7, <2>3, <2>4
  <2> QED BY <2>2, <2>5 DEF PullsKept
<1> QED BY <1>10, <1>11, <1>12, <1>13, <1>14 DEF NdpInv

-----------------------------------------------------------------------------
(* The first window. *)
LEMMA NdpInitKeeps == NdpInit => NdpInv
<1> SUFFICES ASSUME NdpInit PROVE NdpInv
  OBVIOUS
<1> DEFINE s == [highestSent |-> 0, lastAcked |-> 0, lastPull |-> 0,
                 pullWindow |-> 0, firstWindow |-> Min({InitWindow, FlowPackets}),
                 rtx |-> <<>>, history |-> <<>>]
           r == Send(s, InitWindow)
           nothing == [f \in Forms |-> [n \in PacketNo |-> 0]]
<1>1. /\ src = r.s
      /\ sink = [cumulativeAck |-> 0, received |-> <<>>, pullNo |-> 0]
      /\ data = With(nothing, r.packets)
      /\ feedback = <<>> /\ pulls = <<>> /\ network \in Networks
      /\ used = [k \in Kinds |-> 0] /\ arrived = <<>>
  BY DEF NdpInit
<1>2. s \in Source /\ InitWindow \in Nat
  <2>1. Min({InitWindow, FlowPackets}) \in Int
    BY NdpConstants, MinOfTwo
  <2>2. <<>> \in Seq(PacketNo) /\ <<>> \in Seq({"ACK", "NACK", "BOUNCE"})
    OBVIOUS
  <2>3. 0 \in 0 .. FlowPackets /\ InitWindow \in Nat
    BY NdpConstants
  <2> QED BY <2>1, <2>2, <2>3 DEF Source
<1>3. Sent(s, r, InitWindow)
  BY <1>2, SendProperties
<1>4. s.history = <<>> /\ s.lastAcked = 0 /\ s.lastPull = 0 /\ s.highestSent = 0 /\ s.rtx = <<>>
  OBVIOUS
<1>5. \A m \in PacketNo : Occurs(<<>>, m) = 0
  BY CountEmpty DEF Occurs
<1> HIDE DEF s, r
<1>6. /\ src \in Source /\ src.history = <<>> /\ src.lastAcked = 0 /\ src.lastPull = 0
      /\ r.packets \in Seq(PacketNo) /\ Len(r.packets) <= InitWindow
      /\ \A m \in PacketNo :
           Occurs(r.packets, m) + Occurs(src.rtx, m)
             = IF 0 < m /\ m <= src.highestSent THEN 1 ELSE 0
  <2>1. ASSUME NEW m \in PacketNo
        PROVE  Occurs(r.packets, m) + Occurs(src.rtx, m)
                 = IF 0 < m /\ m <= src.highestSent THEN 1 ELSE 0
    <3>1. Occurs(r.packets, m) + Occurs(src.rtx, m)
            = Occurs(<<>>, m) + (IF 0 < m /\ m <= src.highestSent THEN 1 ELSE 0)
      BY <1>1, <1>3, <1>4 DEF Sent
    <3> QED BY <1>5, <3>1
  <2> QED BY <1>1, <1>3, <1>4, <2>1 DEF Sent
<1>7. /\ nothing \in Flying
      /\ \A n \in PacketNo : InFlight(nothing, n) = 0
  <2>1. nothing \in [Forms -> [PacketNo -> Nat]]
    OBVIOUS
  <2>2. \A n \in PacketNo : InFlight(nothing, n) = 0
    BY DEF InFlight, Forms
  <2> QED BY <2>1, <2>2 DEF Flying
<1>8. InAll(nothing, 0)
  <2> DEFINE v == [n \in PacketNo |-> InFlight(nothing, n)]
             Z == [i \in 0 .. FlowPackets |-> 0]
  <2>1. \A n \in 1 .. FlowPackets : v[n] = 0
    BY <1>7 DEF PacketNo
  <2>2. FlowPackets \in Nat
    BY NdpConstants
  <2>3. PartialSums(Z, v, FlowPackets) /\ Z[FlowPackets] = 0
    <3> HIDE DEF v
    <3> QED BY <2>1, <2>2 DEF PartialSums
  <2> QED BY <2>3 DEF InAll
<1> HIDE DEF nothing
<1>9. /\ data \in Flying
      /\ \A m \in PacketNo : InFlight(data, m) = Occurs(r.packets, m)
  <2>1. /\ data \in Flying
        /\ \A m \in PacketNo : InFlight(data, m) = InFlight(nothing, m) + Occurs(r.packets, m)
    BY <1>1, <1>6, <1>7, WithProperties
  <2>2. \A m \in PacketNo : Occurs(r.packets, m) \in Nat
    BY <1>6, OccursType
  <2> QED BY <1>7, <2>1, <2>2
<1>10. NdpTypeOK
  <2>1. /\ feedback \in Seq(Feedback) /\ pulls \in Seq(Feedback)
        /\ arrived \in Seq(PacketNo)
    BY <1>1
  <2>2. /\ used \in [Kinds -> Nat] /\ network \in Networks
        /\ \A k \in Kinds : used[k] <= network[k]
    BY <1>1, NdpConstants
  <2>3. sink \in Sink
    BY <1>1, NdpConstants DEF Sink
  <2>4. Len(src.history) <= HIST_LEN
    BY <1>6 DEF HIST_LEN
  <2> QED BY <1>6, <1>9, <2>1, <2>2, <2>3, <2>4 DEF NdpTypeOK, Flying
<1>11. AcksPrefix
  <2>1. ToSet(arrived) = {}
    BY <1>1 DEF ToSet
  <2>2. ToSet(sink.received) = {} /\ Len(sink.received) = 0
    BY <1>1 DEF ToSet
  <2> QED BY <1>1, <2>1, <2>2 DEF AcksPrefix
<1>12. PullsArePulls /\ AcksKnown
  BY <1>1, <1>6 DEF PullsArePulls, AcksKnown
<1>13. CopiesKept
  <2>1. ASSUME NEW m \in PacketNo
        PROVE  Copies(m) = IF m <= src.highestSent THEN 1 ELSE 0
    <3>1. Copies(m) = InFlight(data, m) + HowMany(feedback, NackOf(m))
                        + Occurs(src.rtx, m) + Occurs(arrived, m)
      BY <1>10, CopiesAreCounts
    <3>2. HowMany(feedback, NackOf(m)) = 0 /\ Occurs(arrived, m) = 0
      BY <1>1, <1>5, CountEmpty
    <3>3. /\ InFlight(data, m) = Occurs(r.packets, m)
          /\ Occurs(r.packets, m) + Occurs(src.rtx, m)
               = IF 0 < m /\ m <= src.highestSent THEN 1 ELSE 0
      BY <1>6, <1>9
    <3>4. InFlight(data, m) \in Nat /\ Occurs(src.rtx, m) \in Nat /\ m \in Nat /\ 0 < m
      BY <1>10, CopiesAreCounts, NdpConstants DEF PacketNo
    <3> QED BY <3>1, <3>2, <3>3, <3>4
  <2>2. Missing = {}
    <3>1. \A n \in 1 .. src.highestSent : n \in PacketNo /\ n <= src.highestSent
      BY <1>10, MissingIsFinite
    <3> QED BY <2>1, <3>1 DEF Missing
  <2>3. Cardinality(Missing) <= Lost
    BY <1>10, <2>2, MissingIsFinite, FS_EmptySet
  <2>4. \A m \in PacketNo : Copies(m) <= IF m <= src.highestSent THEN 1 ELSE 0
    BY <1>10, <2>1, MissingIsFinite, NdpConstants DEF PacketNo
  <2> QED BY <2>3, <2>4 DEF CopiesKept
<1>14. PullsKept
  <2>1. InAll(data, 0 + Len(r.packets))
    BY <1>1, <1>6, <1>7, <1>8, InAllWith
  <2>2. Len(r.packets) \in Nat /\ sink.pullNo = 0
    BY <1>1, <1>6, LenProperties
  <2>3. (0 + Len(r.packets)) + (sink.pullNo - src.lastPull) <= InitWindow
    BY <1>2, <1>6, <2>2
  <2>4. 0 + Len(r.packets) \in Int
    BY <2>2
  <2> QED BY <2>1, <2>3, <2>4 DEF PullsKept
<1> QED BY <1>10, <1>11, <1>12, <1>13, <1>14 DEF NdpInv

LEMMA NdpStutterKeeps == NdpInv /\ UNCHANGED ndpVars => NdpInv'
<1> SUFFICES ASSUME NdpInv, UNCHANGED ndpVars PROVE NdpInv'
  OBVIOUS
<1>1. UNCHANGED <<src, sink, data, feedback, pulls, network, used, arrived>>
  BY DEF ndpVars
<1>2. NdpTypeOK' /\ AcksPrefix' /\ PullsArePulls' /\ AcksKnown'
  BY <1>1 DEF NdpInv, NdpTypeOK, AcksPrefix, PullsArePulls, AcksKnown
<1>3. CopiesKept' /\ PullsKept'
  BY <1>1 DEF NdpInv, CopiesKept, Missing, Lost, Copies, Nacks, PullsKept
<1> QED BY <1>2, <1>3 DEF NdpInv

(* The inductive invariant of a flow: an ack follows the stretch without a *)
(* hole, every packet sent has its one copy unless the network lost it, no *)
(* more of them than it lost, and a pull is asked for by what left the     *)
(* network.                                                                *)
THEOREM NdpInvariant == NdpSpec => []NdpInv
<1>1. NdpInv /\ [NdpNext]_ndpVars => NdpInv'
  BY TrimKeeps, BounceKeeps, DropKeeps, LoseFeedbackKeeps,
     ReceiveHeaderKeeps, ReceiveDataKeeps, ReleasePullKeeps, ReceiveFeedbackKeeps, ReceiveReturnedKeeps, NdpStutterKeeps
  DEF NdpNext
<1> QED BY <1>1, NdpInitKeeps, PTL DEF NdpSpec

(* A packet that was sent is in one place: on its way, nacked, queued to   *)
(* be sent again or received, and received once, whatever the paths do     *)
(* (ndp.cpp: nothing else than a nack or a return sends it again); and no  *)
(* more packets are in none than headers were dropped (compositequeue.cpp) *)
(* and acks, nacks and pulls were lost.                                    *)
THEOREM OneCopyOfEach == NdpSpec => []OneCopy
<1>1. NdpInv => OneCopy
  <2> SUFFICES ASSUME NdpInv PROVE OneCopy
    OBVIOUS
  <2>1. NdpTypeOK /\ AcksPrefix /\ CopiesKept
    BY DEF NdpInv
  <2> QED BY <2>1 DEF OneCopy, CopiesKept
<1> QED BY <1>1, NdpInvariant, PTL

(* Packets under way and pulls not yet used are at most the first window:  *)
(* after it every packet is clocked by a pull.                             *)
THEOREM PullsClockTheFlow == NdpSpec => []PullsClock
<1>1. NdpInv => PullsClock
  BY InAllIsUnderWay DEF NdpInv, PullsKept, PullsClock
<1> QED BY <1>1, NdpInvariant, PTL

(* No feedback takes the source back. *)
LEMMA AckNeverFalls ==
  NdpTypeOK /\ (ReceiveFeedback \/ ReceiveReturned) => src.lastAcked <= src'.lastAcked
<1> SUFFICES ASSUME NdpTypeOK, ReceiveFeedback \/ ReceiveReturned
             PROVE  src.lastAcked <= src'.lastAcked
  OBVIOUS
<1>1. /\ src \in Source /\ Len(src.history) <= HIST_LEN /\ feedback \in Seq(Feedback)
      /\ src.lastAcked \in Nat
  BY NdpConstants DEF NdpTypeOK, Source
<1>2. CASE ReceiveReturned
  <2>1. PICK n \in PacketNo : src' = ProcessRTS(src, n).s
    BY <1>2 DEF ReceiveReturned
  <2>2. ProcessRTS(src, n).s.lastAcked = src.lastAcked
    BY <1>1, ProcessRTSProperties
  <2> QED BY <1>1, <2>1, <2>2
<1>3. CASE ReceiveFeedback
  <2>1. PICK i \in DOMAIN feedback :
          src' = (CASE feedback[i].type = "ACK" -> ProcessAck(src, feedback[i])
                    [] feedback[i].type = "NACK" -> ProcessNack(src, feedback[i])
                    [] feedback[i].type = "PULL" -> ProcessPull(src, feedback[i])).s
    BY <1>3 DEF ReceiveFeedback
  <2> DEFINE f == feedback[i]
  <2>2. f \in Feedback
    BY <1>1, ElementOfSeq
  <2> HIDE DEF f
  <2>3. f.type \in {"ACK", "NACK", "PULL"}
    BY <2>2 DEF Feedback
  <2>4. CASE f.type = "ACK"
    <3>1. Handled(src, ProcessAck(src, f), f)
      BY <1>1, <2>2, <2>4, ProcessAckProperties
    <3> QED BY <2>1, <2>4, <3>1 DEF Handled, f
  <2>5. CASE f.type = "NACK"
    <3>1. Handled(src, ProcessNack(src, f), f)
      BY <1>1, <2>2, <2>5, ProcessNackProperties
    <3> QED BY <2>1, <2>5, <3>1 DEF Handled, f
  <2>6. CASE f.type = "PULL"
    <3>1. Handled(src, ProcessPull(src, f), f)
      BY <1>1, <2>2, <2>6, ProcessPullProperties
    <3> QED BY <2>1, <2>6, <3>1 DEF Handled, f
  <2> QED BY <2>3, <2>4, <2>5, <2>6
<1> QED BY <1>2, <1>3

(* A step of the flow is one of the stream, or none. *)
LEMMA StreamStep == NdpInv /\ NdpInv' /\ [NdpNext]_ndpVars => [Stream!Next]_Stream!vars
<1> SUFFICES ASSUME NdpInv, NdpInv', [NdpNext]_ndpVars PROVE [Stream!Next]_Stream!vars
  OBVIOUS
<1>1. /\ sink \in Sink /\ src \in Source /\ sink' \in Sink /\ src' \in Source
      /\ feedback \in Seq(Feedback) /\ Len(src.history) <= HIST_LEN
      /\ AcksKnown /\ AcksKnown' /\ AcksPrefix /\ arrived \in Seq(PacketNo)
  BY DEF NdpInv, NdpTypeOK
<1>2. /\ sink.cumulativeAck \in Nat /\ src.lastAcked \in Nat
      /\ sink'.cumulativeAck \in Nat /\ src'.lastAcked \in Nat
  BY <1>1, NdpConstants DEF Sink, Source
<1>3. CASE UNCHANGED ndpVars \/ Trim \/ Bounce \/ Drop \/ LoseFeedback \/ ReleasePull
  BY <1>3 DEF ndpVars, Trim, Bounce, Drop, LoseFeedback, ReleasePull, Stream!vars
<1>4. CASE ReceiveHeader
  <2>1. sink' = [sink EXCEPT !.pullNo = @ + 1] /\ src' = src
    BY <1>4 DEF ReceiveHeader
  <2> QED BY <1>1, <2>1 DEF Sink, Stream!vars
<1>5. CASE ReceiveData
  <2>1. PICK n \in PacketNo :
          sink' = [Receive(sink, n) EXCEPT !.pullNo = @ + 1] /\ src' = src
    BY <1>5 DEF ReceiveData
  <2>2. ToSet(arrived) \in SUBSET PacketNo
    BY <1>1, LenProperties DEF ToSet
  <2>3. Prefix(sink, ToSet(arrived))
    BY <1>1 DEF AcksPrefix, Prefix, Ascending
  <2>4. /\ Receive(sink, n) \in Sink
        /\ sink.cumulativeAck <= Receive(sink, n).cumulativeAck
    BY <1>1, <2>2, <2>3, ReceiveProperties
  <2>5. sink'.cumulativeAck = Receive(sink, n).cumulativeAck
    BY <2>1, <2>4 DEF Sink
  <2> QED BY <1>2, <2>1, <2>4, <2>5 DEF Stream!Next, Stream!Deliver, Stream!vars
<1>6. CASE ReceiveFeedback \/ ReceiveReturned
  <2>1. sink' = sink
    BY <1>6 DEF ReceiveFeedback, ReceiveReturned
  <2>2. src.lastAcked <= src'.lastAcked
    BY <1>6, AckNeverFalls DEF NdpInv
  <2>3. src'.lastAcked <= sink.cumulativeAck
    BY <1>1, <2>1 DEF AcksKnown
  <2> QED BY <1>2, <2>1, <2>2, <2>3 DEF Stream!Next, Stream!Learn, Stream!vars
<1> QED BY <1>3, <1>4, <1>5, <1>6 DEF NdpNext

(* The flow keeps the safe part of the reliable stream: the sink's ack     *)
(* only moves on and the source learns no more than the sink acks.         *)
THEOREM InStepWithTheStream == NdpSpec => InStep
<1>1. NdpInit => Stream!Init
  <2> SUFFICES ASSUME NdpInit PROVE sink.cumulativeAck = 0 /\ src.lastAcked = 0
    BY DEF Stream!Init
  <2>1. NdpInv
    BY NdpInitKeeps
  <2>2. sink.cumulativeAck = 0
    BY DEF NdpInit
  <2>3. src.lastAcked \in Nat /\ src.lastAcked <= sink.cumulativeAck
    BY <2>1, NdpConstants DEF NdpInv, NdpTypeOK, Source, AcksKnown
  <2> QED BY <2>2, <2>3
<1> QED BY <1>1, NdpInvariant, StreamStep, PTL DEF NdpSpec, InStep, Stream!Safe
=============================================================================
