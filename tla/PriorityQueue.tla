--------------------------- MODULE PriorityQueue ---------------------------
(***************************************************************************)
(* The three-level queue of a host's network card (PriorityQueue in        *)
(* queue.cpp) under PAUSE frames of a lossless switch.  A PAUSE lets the   *)
(* packet in service go and holds the others back until the frame that     *)
(* ends it.  Only the number of the queue's entries in the event list      *)
(* matters here, not their times: the next step of the queue may come at   *)
(* any moment.                                                             *)
(***************************************************************************)
EXTENDS Naturals, Sequences, SequencesExt

CONSTANTS
  MaxQueued,   \* bound: the number of packets queued on one level
  MaxPackets,  \* bound: the number of packets handed to the queue
  MaxEvents    \* bound: the entries of the queue in the event list when a PAUSE
               \* ends, any one of which is one too many

ASSUME PriorityQueueAssumption ==
  MaxQueued \in Nat /\ MaxPackets \in Nat /\ MaxEvents \in Nat

Q_LO == 0
Q_MID == 1
Q_HI == 2
Q_NONE == 3
Prio == {Q_LO, Q_MID, Q_HI}

VARIABLES
  queue,       \* _queue[prio], the packet that leaves next first
  servicing,   \* _servicing
  stateSend,   \* _state_send
  events,      \* the number of the queue's entries in the event list
  received,    \* number of packets received
  told,        \* whether the last frame received was a PAUSE
  afterPause,  \* the packets that have left since then
  early,       \* whether a PAUSE has ended while a packet was in service
  aborted      \* whether an assert has failed, which ends the program

vars == <<queue, servicing, stateSend, events, received, told, afterPause, early,
          aborted>>

(* Of a packet: how many packets of lower priority left while it waited.   *)
Packet == [overtaken : Nat]

TypeOK ==
  /\ queue \in [Prio -> Seq(Packet)]
  /\ servicing \in Prio \cup {Q_NONE}
  /\ stateSend \in {"READY", "PAUSED", "PAUSE_RECEIVED"}
  /\ events \in Nat
  /\ received \in 0 .. MaxPackets
  /\ told \in BOOLEAN
  /\ afterPause \in Nat
  /\ early \in BOOLEAN
  /\ aborted \in BOOLEAN

Init ==
  /\ queue = [p \in Prio |-> <<>>]
  /\ servicing = Q_NONE
  /\ stateSend = "READY"
  /\ events = 0
  /\ received = 0
  /\ told = FALSE
  /\ afterPause = 0
  /\ early = FALSE
  /\ aborted = FALSE

-----------------------------------------------------------------------------
Running == ~ aborted

(* The levels of q that hold packets; queuesize() > 0 when there is one.   *)
Waiting(q) == {p \in Prio : q[p] # <<>>}

(* Fault: the lowest level is served first. *)
NextLevelFault(q) == Min(Waiting(q))

(* The loop over the levels takes the highest that holds a packet. *)
NextLevel(q) == Max(Waiting(q))

(* beginService() with the levels q, e entries in the event list and the   *)
(* state s: its assert, then one more entry for the highest level.         *)
BeginService(q, e, s) ==
  /\ aborted' = (s # "READY")
  /\ IF s = "READY" /\ Waiting(q) # {}
       THEN events' = e + 1 /\ servicing' = NextLevel(q)
       ELSE events' = e /\ UNCHANGED servicing

NoService(e) == events' = e /\ UNCHANGED <<servicing, aborted>>

(* A PAUSE frame: a queue that holds a packet is taken to serve it.        *)
ReceivePause ==
  /\ Running
  /\ stateSend' = IF Waiting(queue) # {} THEN "PAUSE_RECEIVED" ELSE "PAUSED"
  /\ NoService(events)
  /\ told' = TRUE /\ afterPause' = 0
  /\ UNCHANGED <<queue, received, early>>

(* The frame that ends a PAUSE: service starts if a packet is queued, also *)
(* when one is in service already.                                         *)
ReceiveUnpause ==
  /\ Running
  /\ events <= MaxEvents
  /\ stateSend' = "READY"
  /\ IF Waiting(queue) # {} THEN BeginService(queue, events, "READY")
                            ELSE NoService(events)
  /\ told' = FALSE /\ afterPause' = 0
  /\ early' = (early \/ events > 0)
  /\ UNCHANGED <<queue, received>>

(* A packet starts service if the queue was empty, unless it is paused.    *)
MayStart(q) == q = {} /\ stateSend = "READY"

ReceivePacket(prio) ==
  /\ Running
  /\ received < MaxPackets /\ Len(queue[prio]) < MaxQueued
  /\ received' = received + 1
  /\ queue' = [queue EXCEPT ![prio] = Append(@, [overtaken |-> 0])]
  /\ IF MayStart(Waiting(queue)) THEN BeginService(queue', events, stateSend)
                                 ELSE NoService(events)
  /\ UNCHANGED <<stateSend, told, afterPause, early>>

(* A packet of level p leaves: those of higher priority are overtaken.     *)
Depart(p) ==
  [l \in Prio |->
     IF l = p THEN Tail(queue[l])
     ELSE IF l > p
       THEN [i \in DOMAIN queue[l] |-> [overtaken |-> queue[l][i].overtaken + 1]]
       ELSE queue[l]]

(* Fault: a PAUSE that came during service is forgotten when it ends. *)
AfterServiceFault == IF stateSend = "PAUSE_RECEIVED" THEN "READY" ELSE stateSend

(* The PAUSE takes hold when the packet in service has left. *)
AfterService == IF stateSend = "PAUSE_RECEIVED" THEN "PAUSED" ELSE stateSend

(* completeService(): two asserts; the packet leaves; the next one goes    *)
(* into service unless the queue is paused.                                *)
CompleteService ==
  /\ Running
  /\ events > 0
  /\ IF servicing \notin Waiting(queue)
       THEN /\ aborted' = TRUE
            /\ UNCHANGED <<queue, servicing, stateSend, events, afterPause>>
       ELSE /\ queue' = Depart(servicing)
            /\ stateSend' = AfterService
            /\ afterPause' = IF told THEN afterPause + 1 ELSE 0
            /\ IF Waiting(queue') = {}
                 THEN /\ servicing' = Q_NONE
                      /\ events' = events - 1
                      /\ UNCHANGED aborted
                 ELSE IF stateSend' = "READY"
                   THEN BeginService(queue', events - 1, "READY")
                   ELSE NoService(events - 1)
  /\ UNCHANGED <<received, told, early>>

(* Fault: the event stays in the event list. *)
CancelledFault == events

(* cancelPendingSource() erases one entry, if there is any. *)
Cancelled == IF events > 0 THEN events - 1 ELSE 0

(* drop_all() and reset(): the levels are emptied and the event cancelled; *)
(* _servicing and _state_send stay as they are.                            *)
DropAll ==
  /\ Running
  /\ Waiting(queue) # {} \/ events > 0
  /\ queue' = [p \in Prio |-> <<>>]
  /\ events' = Cancelled
  /\ UNCHANGED <<servicing, stateSend, received, told, afterPause, early, aborted>>

Next ==
  \/ ReceivePause
  \/ ReceiveUnpause
  \/ \E p \in Prio : ReceivePacket(p)
  \/ CompleteService
  \/ DropAll

Spec == Init /\ [][Next]_vars

-----------------------------------------------------------------------------
(* No assert of beginService() and completeService() fails.  This does not *)
(* hold (README, deviations without a run): when a PAUSE ends while a      *)
(* packet is in service a second service starts, and the event left over   *)
(* finds nothing to send.                                                  *)
NoAssertFails == ~ aborted

(* Up to such an end of a PAUSE the queue has at most one event, has it    *)
(* only for a level that holds the packet in service, and a queue that is  *)
(* READY and holds packets has it: no second service is started and no     *)
(* wake-up is lost, whatever PAUSEs and drops come in between.             *)
OneService ==
  ~ early =>
    /\ NoAssertFails
    /\ events <= 1
    /\ events = 1 => servicing \in Waiting(queue)
    /\ stateSend = "READY" /\ Waiting(queue) # {} => events = 1

(* A packet waits for at most one packet of lower priority, the one that   *)
(* was in service when it came, also across PAUSEs, until one ends early.  *)
OvertakenOnce ==
  ~ early => \A p \in Prio : \A i \in DOMAIN queue[p] : queue[p][i].overtaken <= 1

(* Between a PAUSE and its end at most one packet leaves, the one that was *)
(* in service when the PAUSE came, until one ends early.                   *)
PauseHonoured == told /\ ~ early => afterPause <= 1
=============================================================================
