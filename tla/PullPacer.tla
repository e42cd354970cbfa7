----------------------------- MODULE PullPacer -----------------------------
(***************************************************************************)
(* The pull pacer of an NDP receiver (NdpPullPacer in ndp.cpp) and its     *)
(* queue (FairPullQueue in fairpullqueue.cpp), shared by all flows to the  *)
(* receiver: it lets pulls go one drain time apart, in turn for each flow, *)
(* and throws the pulls of a flow away when the flow is complete.  Times   *)
(* are relative: since the last pull, and until an event of the pacer.     *)
(***************************************************************************)
EXTENDS Naturals, FiniteSetsExt

CONSTANTS
  NumFlows,    \* the flows to the receiver, by flow_id()
  DrainTime,   \* _packet_drain_time
  MaxWaiting   \* bound: the number of pulls queued for one flow

ASSUME PullPacerAssumption ==
  NumFlows \in Nat \ {0} /\ DrainTime \in Nat \ {0} /\ MaxWaiting \in Nat

Flow == 1 .. NumFlows
End == NumFlows + 1   \* _queue_map.end()
None == 0

VARIABLES
  mapped,      \* the flows with an entry in _queue_map
  waiting,     \* the number of pulls in the queue of each flow
  current,     \* _current_queue
  sincePull,   \* now() - _last_pull, or DrainTime if it is more
  events,      \* events[t]: the pacer's entries in the event list due in t
  finished,    \* the flows that are complete
  left,        \* the flow whose pull left in the last step, or None
  overtaken    \* overtaken[f][g]: the pulls of g that left since f waits

vars == <<mapped, waiting, current, sincePull, events, finished, left, overtaken>>

TypeOK ==
  /\ mapped \subseteq Flow
  /\ waiting \in [Flow -> 0 .. MaxWaiting]
  /\ \A f \in Flow \ mapped : waiting[f] = 0
  /\ current \in mapped \cup {End}
  /\ sincePull \in 0 .. DrainTime
  /\ events \in [0 .. DrainTime -> Nat]
  /\ finished \subseteq Flow
  /\ left \in Flow \cup {None}
  /\ overtaken \in [Flow -> [Flow -> Nat]]

Init ==
  /\ mapped = {}
  /\ waiting = [f \in Flow |-> 0]
  /\ current = End
  /\ sincePull = 0
  /\ events = [t \in 0 .. DrainTime |-> 0]
  /\ finished = {}
  /\ left = None
  /\ overtaken = [f \in Flow |-> [g \in Flow |-> 0]]

-----------------------------------------------------------------------------
Waiting(w) == {f \in Flow : w[f] > 0}
Booked(t) == [events EXCEPT ![t] = @ + 1]

(* A pull of flow f, or of none, leaves; w is what waits afterwards.       *)
Leaves(f, w) ==
  /\ left' = f
  /\ overtaken' = [h \in Flow |-> [g \in Flow |->
       IF h = f \/ w[h] = 0 \/ waiting[h] = 0 THEN 0
       ELSE IF g = f THEN overtaken[h][g] + 1 ELSE overtaken[h][g]]]

(* The entry behind f in the order of the map, or its end. *)
Successor(f, m) == IF {g \in m : g > f} = {} THEN End ELSE Min({g \in m : g > f})

(* flush_flow(): the iterator moves off the entry that is erased. *)
FlushedCurrent(f) == IF current = f THEN Successor(f, mapped) ELSE current

(* Fault: no event is booked for the first pull that is queued. *)
FirstQueuedFault == events

(* The first pull that is queued books an event for the time it may go.    *)
FirstQueued == IF Waiting(waiting) = {} THEN Booked(DrainTime - sincePull) ELSE events

(* Fault: a flow whose queue is empty lets the next pull go at once. *)
MayGoFault(f) == waiting[f] = 0 /\ sincePull = DrainTime

(* sendPacket(): nothing is queued and the last pull is long enough ago.   *)
MayGo(f) == Waiting(waiting) = {} /\ sincePull = DrainTime

(* A packet of flow f arrives at its sink, which acks or nacks it through  *)
(* sendPacket(): the answer pulls itself, or a pull is queued.  The packet *)
(* may complete the flow; release_pulls() then flushes its queue.          *)
ReceivePacket(f, last) ==
  /\ f \notin finished
  /\ waiting[f] < MaxWaiting
  /\ LET go == MayGo(f)
         w == IF last THEN 0 ELSE IF go THEN waiting[f] ELSE waiting[f] + 1
     IN  /\ waiting' = [waiting EXCEPT ![f] = w]
         /\ sincePull' = IF go THEN 0 ELSE sincePull
         /\ events' = IF go THEN events ELSE FirstQueued
         /\ Leaves(IF go THEN f ELSE None, waiting')
         /\ mapped' = IF last THEN mapped \ {f}
                      ELSE IF go THEN mapped ELSE mapped \cup {f}
         /\ current' = IF last THEN FlushedCurrent(f) ELSE current
         /\ finished' = IF last THEN finished \cup {f} ELSE finished

(* Fault: the search for the next pull starts from the front each time. *)
DequeuedFault == Min(Waiting(waiting))

(* dequeue(): the next flow from the iterator on, around the end of the    *)
(* map, for which a pull is queued.                                        *)
Dequeued ==
  LET ahead == {f \in Waiting(waiting) : f >= current}
  IN  IF ahead # {} THEN Min(ahead) ELSE Min(Waiting(waiting))

(* Fault: the event is not booked again. *)
RebookedFault(w) == 0

(* As long as pulls wait, one more event is booked. *)
Rebooked(w) == IF Waiting(w) # {} THEN 1 ELSE 0

(* doNextEvent(): the event is over; it finds nothing queued when a flow   *)
(* was complete, or lets a pull go and books the next event.               *)
DoNextEvent ==
  /\ events[0] > 0
  /\ IF Waiting(waiting) = {}
       THEN /\ events' = [events EXCEPT ![0] = @ - 1]
            /\ Leaves(None, waiting)
            /\ UNCHANGED <<waiting, current, sincePull>>
       ELSE LET f == Dequeued
                w == [waiting EXCEPT ![f] = @ - 1]
            IN  /\ waiting' = w
                /\ current' = Successor(f, mapped)
                /\ sincePull' = 0
                /\ Leaves(f, w)
                /\ events' = [t \in 0 .. DrainTime |->
                     events[t] - (IF t = 0 THEN 1 ELSE 0)
                               + (IF t = DrainTime THEN Rebooked(w) ELSE 0)]
  /\ UNCHANGED <<mapped, finished>>

(* Time goes on when the event list has nothing due. *)
Tick ==
  /\ events[0] = 0
  /\ sincePull' = Min({sincePull + 1, DrainTime})
  /\ events' = [t \in 0 .. DrainTime |-> IF t < DrainTime THEN events[t + 1] ELSE 0]
  /\ Leaves(None, waiting)
  /\ UNCHANGED <<mapped, waiting, current, finished>>

Next ==
  \/ \E f \in Flow, last \in BOOLEAN : ReceivePacket(f, last)
  \/ DoNextEvent
  \/ Tick

(* The event list dispatches what is due, and its clock goes on. *)
Spec == Init /\ [][Next]_vars /\ WF_vars(DoNextEvent) /\ WF_vars(Tick)

-----------------------------------------------------------------------------
(* While no flow ends, pulls leave a drain time apart at least, and only   *)
(* one event of the pacer is booked.                                       *)
Paced ==
  [][finished = {} /\ left' # None => sincePull = DrainTime]_vars

(* While a pull waits, an event of the pacer is booked: no flow is stuck   *)
(* with its pulls in the queue, whatever flows were flushed before.        *)
NoLostWakeup == Waiting(waiting) # {} => \E t \in DOMAIN events : events[t] > 0

(* Flows take turns: while a flow waits, no other flow has more than one   *)
(* pull go before it, although flows come and go in between.               *)
TakeTurns == \A f, g \in Flow : overtaken[f][g] <= 1

(* A pull that waits leaves, or its flow is complete. *)
Served == \A f \in Flow : waiting[f] > 0 ~> left = f \/ f \in finished
=============================================================================
