------------------------------ MODULE IslLink ------------------------------
(***************************************************************************)
(* One link between two nodes: a drop-tail queue (queue.cpp, xcpqueue.cpp) *)
(* feeding a pipe (pipe.cpp) whose delay follows the distance of the nodes *)
(* (starlink/isl.cpp), both driven by one event list.  The link factory    *)
(* takes the link down and may hand the same object out again for another  *)
(* pair of nodes; packets keep arriving on routes that still name it.      *)
(***************************************************************************)
EXTENDS EventListOps

CONSTANTS
  Sizes,       \* packet sizes
  BufSizes,    \* the buffer sizes a link is assigned with
  Rates,       \* _ps_per_byte: service time of one unit of size
  MaxLight,    \* bound: the longest propagation delay
  MaxPackets,  \* bound: the number of packets sent into the link
  MaxTime,     \* bound: the latest time at which other sources run
  Reuses       \* whether the factory hands a dropped link out again, or both

ASSUME IslLinkAssumption ==
  /\ Sizes \subseteq Nat \ {0} /\ BufSizes \subseteq Nat /\ Rates \subseteq Nat
  /\ MaxLight \in Nat \ {0} /\ MaxPackets \in Nat /\ MaxTime \in Nat
  /\ Reuses \subseteq BOOLEAN

VARIABLES
  reuse,       \* whether dropped links are handed out again in this run
  now,         \* EventList::now()
  pending,     \* the entries of the queue and of the pipe in the event list
  enqueued,    \* Queue::_enqueued, the packet in service first
  queuesize,   \* Queue::_queuesize
  maxsize,     \* Queue::_maxsize
  psperbyte,   \* Queue::_ps_per_byte
  inflight,    \* Pipe::_inflight, the next one to arrive first
  light,       \* timeFromDistVacuum(distance) between the two nodes now
  active,      \* whether the factory has the link on its active list
  sent,        \* number of packets sent into the link
  arrived,     \* the packets handed on to the next hop, in order
  aborted      \* whether an assert has failed, which ends the program

vars == <<reuse, now, pending, enqueued, queuesize, maxsize, psperbyte, inflight,
          light, active, sent, arrived, aborted>>
queueVars == <<enqueued, queuesize, maxsize, psperbyte>>

(* A packet, with its time of entry into the queue and its service time.   *)
Packet == [id : 1 .. MaxPackets, size : Sizes, in : Nat, service : Nat]

TypeOK ==
  /\ reuse \in Reuses
  /\ now \in Nat
  /\ pending \in Seq([when : Nat, src : {"queue", "pipe"}])
  /\ enqueued \in Seq(Packet)
  /\ queuesize \in Nat
  /\ maxsize \in BufSizes
  /\ psperbyte \in Rates
  /\ inflight \in Seq([at : Nat, pkt : Packet, light : 1 .. MaxLight])
  /\ light \in 1 .. MaxLight
  /\ active \in BOOLEAN
  /\ sent \in 0 .. MaxPackets
  /\ arrived \in Seq(1 .. MaxPackets)
  /\ aborted \in BOOLEAN

Init ==
  /\ reuse \in Reuses
  /\ now = 0
  /\ pending = <<>>
  /\ enqueued = <<>>
  /\ queuesize = 0
  /\ maxsize \in BufSizes
  /\ psperbyte \in Rates
  /\ inflight = <<>>
  /\ light \in 1 .. MaxLight
  /\ active = TRUE
  /\ sent = 0
  /\ arrived = <<>>
  /\ aborted = FALSE

-----------------------------------------------------------------------------
Running == ~ aborted

(* sourceIsPending(src, w) on the list p: the assert, then the insertion.  *)
SourceIsPending(p, src, w) ==
  /\ aborted' = (w < now')
  /\ pending' = IF w < now' THEN p ELSE Insert(p, [when |-> w, src |-> src])

NothingIsPending(p) == pending' = p /\ UNCHANGED aborted

(* beginService(): service of the packet at the front starts at now(). *)
BeginService(p, q) ==
  SourceIsPending(p, "queue", now' + q[1].size * psperbyte)

(* Faults for mutant runs of the operators behind them: service starts on  *)
(* every arrival; the packet is put in front.                              *)
IdleQueueFault == TRUE
EnqueueFault(pkt) == <<pkt>> \o enqueued

IdleQueue == enqueued = <<>>
Count(size) == queuesize' = queuesize + size
Enqueue(pkt) == Append(enqueued, pkt)
IdlePipe == inflight = <<>>

(* receivePacket(): drop the packet if it does not fit, else append it and *)
(* start service if the queue was empty.                                   *)
ReceivePacket(size) ==
  /\ Running
  /\ sent < MaxPackets
  /\ sent' = sent + 1
  /\ UNCHANGED now
  /\ IF queuesize + size <= maxsize
       THEN /\ enqueued' = Enqueue([id |-> sent + 1, size |-> size, in |-> now,
                                    service |-> size * psperbyte])
            /\ Count(size)
            /\ IF IdleQueue THEN BeginService(pending, enqueued')
                            ELSE NothingIsPending(pending)
       ELSE UNCHANGED <<enqueued, queuesize>> /\ NothingIsPending(pending)
  /\ UNCHANGED <<reuse, maxsize, psperbyte, inflight, light, active, arrived>>

(* completeService(): the packet in service goes to the link, which sets   *)
(* its delay from the distance of its nodes at this moment and, if nothing *)
(* is in flight, books its own event (Link::receivePacket and              *)
(* Pipe::receivePacket); then the next packet goes into service.           *)
CompleteService ==
  /\ Running
  /\ pending # <<>> /\ Head(pending).src = "queue"
  /\ now' = NextEventTime(pending)
  /\ IF enqueued = <<>>
       THEN /\ NothingIsPending(Tail(pending))
            /\ UNCHANGED <<enqueued, queuesize, inflight>>
       ELSE LET at == now' + light
                p == IF IdlePipe
                       THEN Insert(Tail(pending), [when |-> at, src |-> "pipe"])
                       ELSE Tail(pending)
            IN  /\ enqueued' = Tail(enqueued)
                /\ queuesize' = queuesize - Head(enqueued).size
                /\ inflight' = Append(inflight, [at |-> at, pkt |-> Head(enqueued),
                                                 light |-> light])
                /\ IF Len(enqueued) > 1 THEN BeginService(p, Tail(enqueued))
                                        ELSE NothingIsPending(p)
  /\ UNCHANGED <<reuse, maxsize, psperbyte, light, active, sent, arrived>>

(* Fault: the pipe books nothing for the next packet. *)
HandOnOnlyFault ==
  /\ inflight' = Tail(inflight)
  /\ arrived' = Append(arrived, Head(inflight).pkt.id)
  /\ NothingIsPending(Tail(pending))

(* Hand on the packet that has been in flight longest and book the arrival *)
(* of the one behind it.                                                   *)
HandOn ==
  /\ inflight' = Tail(inflight)
  /\ arrived' = Append(arrived, Head(inflight).pkt.id)
  /\ IF Len(inflight) > 1
       THEN SourceIsPending(Tail(pending), "pipe", inflight[2].at)
       ELSE NothingIsPending(Tail(pending))

(* Pipe::doNextEvent() *)
Arrive ==
  /\ Running
  /\ pending # <<>> /\ Head(pending).src = "pipe"
  /\ now' = NextEventTime(pending)
  /\ IF inflight = <<>>
       THEN NothingIsPending(Tail(pending)) /\ UNCHANGED <<inflight, arrived>>
       ELSE HandOn
  /\ UNCHANGED <<reuse, queueVars, light, active, sent>>

(* Fault: the event of the emptied queue stays. *)
DropAllPendingFault == enqueued' = <<>> /\ queuesize' = 0 /\ NothingIsPending(pending)

(* drop_all(): empty the queue and cancel its event. *)
DropAll ==
  /\ enqueued' = <<>>
  /\ queuesize' = 0
  /\ NothingIsPending(Cancel(pending, "queue"))

(* Link_factory::drop_link(): going_down() drops what is queued; what is   *)
(* in flight stays in flight.                                              *)
GoingDown ==
  /\ Running
  /\ active
  /\ active' = FALSE
  /\ DropAll
  /\ UNCHANGED <<reuse, now, maxsize, psperbyte, inflight, light, sent, arrived>>

(* Link_factory::activate_link() takes the link from the free list and     *)
(* reassigns it: other nodes, hence another distance, rate and buffer.     *)
Reassign(bufsize, rate, distance) ==
  /\ Running
  /\ reuse
  /\ ~ active
  /\ active' = TRUE
  /\ maxsize' = bufsize
  /\ psperbyte' = rate
  /\ light' = distance
  /\ UNCHANGED <<reuse, now, pending, enqueued, queuesize, inflight, sent, arrived,
                 aborted>>

(* The event of another source runs at time t, before the link's own next  *)
(* one.  Nodes move slower than light: the light time between the same two *)
(* nodes changes by less than the time that passes.                        *)
OtherEvent(t, l) ==
  /\ Running
  /\ pending # <<>> => t <= NextEventTime(pending)
  /\ t - now > light - l /\ t - now > l - light
  /\ now' = t
  /\ light' = l
  /\ UNCHANGED <<reuse, pending, queueVars, inflight, active, sent, arrived, aborted>>

Next ==
  \/ \E size \in Sizes : ReceivePacket(size)
  \/ CompleteService
  \/ Arrive
  \/ GoingDown
  \/ \E b \in BufSizes, r \in Rates, l \in 1 .. MaxLight : Reassign(b, r, l)
  \/ \E t \in now + 1 .. MaxTime, l \in 1 .. MaxLight : OtherEvent(t, l)

(* The main loop dispatches for as long as an event is pending. *)
Dispatch == CompleteService \/ Arrive

Spec == Init /\ [][Next]_vars /\ WF_vars(Dispatch)

-----------------------------------------------------------------------------
Ids(q) == [i \in DOMAIN q |-> q[i].id]
Increasing(s) == \A i, j \in DOMAIN s : i < j => s[i] < s[j]

(* The queue has one service event while it holds packets and none while   *)
(* it is empty: beginService() is never called twice for one packet, and   *)
(* drop_all() leaves no event behind that would cut short the service of   *)
(* the first packet after it.                                              *)
QueueEvent ==
  Running => Cardinality(EntriesOf(pending, "queue"))
               = IF enqueued = <<>> THEN 0 ELSE 1

(* The pipe has one event while packets are in flight, at the arrival time *)
(* of the first of them, and none otherwise.                               *)
PipeEvent ==
  Running =>
    /\ Cardinality(EntriesOf(pending, "pipe")) <= 1
    /\ {pending[i].when : i \in EntriesOf(pending, "pipe")}
         = IF inflight = <<>> THEN {} ELSE {Head(inflight).at}

(* _queuesize is the sum of the sizes of the packets queued (a recursive   *)
(* function and not a fold, for the proof to unfold).                      *)
Bytes(q) ==
  LET sum[n \in 0 .. Len(q)] == IF n = 0 THEN 0 ELSE sum[n - 1] + q[n].size
  IN  sum[Len(q)]
BytesCounted == queuesize = Bytes(enqueued)

(* Packets leave in the order they were sent in, whatever is dropped.      *)
InOrder ==
  Increasing(arrived \o Ids([i \in DOMAIN inflight |-> inflight[i].pkt])
                     \o Ids(enqueued))

(* No packet arrives before its service and its flight are over.           *)
NeverEarly ==
  [][~ reuse /\ arrived' # arrived =>
       LET r == Head(inflight)
       IN  now' >= r.pkt.in + r.pkt.service + r.light]_vars

(* assert(when >= now()) of sourceIsPending() holds whenever the queue or  *)
(* the pipe books an event.  It does not when links are handed out again   *)
(* (README, deviations without a run).                                     *)
NoAssertFails == ~ aborted

(* The link's books agree: the event list with what is queued and in       *)
(* flight, and the byte count with the packets, whatever is dropped and    *)
(* handed out again; and no assert fails unless it is.                     *)
BooksKept ==
  /\ TypeOK
  /\ QueueEvent
  /\ PipeEvent
  /\ BytesCounted
  /\ ~ reuse => NoAssertFails

(* Whatever is in the link has left it some time later. *)
Busy == enqueued # <<>> \/ inflight # <<>>
Drains == Busy /\ ~ reuse ~> ~ Busy
=============================================================================
