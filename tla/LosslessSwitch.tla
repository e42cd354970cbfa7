--------------------------- MODULE LosslessSwitch ---------------------------
(***************************************************************************)
(* A lossless Ethernet switch (switch.cpp) with one output queue per port  *)
(* (LosslessQueue, queue_lossless.cpp), and the queues of its neighbours   *)
(* that send to it, which are of the same class.  A port whose queue       *)
(* passes the high threshold makes the switch send PAUSE to the neighbours *)
(* on all other ports; below the low threshold it lets them go on.  PAUSE  *)
(* frames take effect at once: sendPause() calls the remote queue.         *)
(* Packets have one size, which is the unit of every queue.  The time of a *)
(* service is left open: links of one switch differ in speed.              *)
(***************************************************************************)
EXTENDS Naturals, FiniteSets

CONSTANTS
  Port,        \* the ports of the switch
  Traffics,    \* the patterns of traffic, see Traffic
  MaxSize,     \* _maxsize of a port's queue
  MaxQueued    \* bound: the number of packets a neighbour has queued

(* hot: the ports that packets are routed to; slow: those of them whose    *)
(* neighbour also PAUSEs the switch.                                       *)
Traffic == [hot : SUBSET Port, slow : SUBSET Port]

ASSUME LosslessSwitchAssumption ==
  /\ IsFiniteSet(Port) /\ Traffics \subseteq Traffic
  /\ MaxSize \in Nat /\ MaxQueued \in Nat

VARIABLES
  traffic,   \* the pattern of this run
  port,      \* the queue of each port
  remote,    \* the queue of the neighbour on each port, getRemoteEndpoint()
  pipe,      \* the packets between the neighbour and the switch
  aborted    \* whether an assert has failed, which ends the program

switchVars == <<traffic, port, remote, pipe, aborted>>

(* A LosslessQueue; it has an entry in the event list while it is sending. *)
(* told: whether the last frame it got was a PAUSE; after: the packets it  *)
(* has sent since then.                                                    *)
Queue == [size : Nat, stateSend : {"READY", "PAUSED", "PAUSE_RECEIVED"},
          sending : BOOLEAN, stateRecv : {"READY", "PAUSED"},
          told : BOOLEAN, after : Nat]

SwitchTypeOK ==
  /\ traffic \in Traffics
  /\ port \in [Port -> Queue]
  /\ remote \in [Port -> Queue]
  /\ pipe \in [Port -> 0 .. 1]
  /\ aborted \in BOOLEAN

NewQueue == [size |-> 0, stateSend |-> "READY", sending |-> FALSE,
             stateRecv |-> "READY", told |-> FALSE, after |-> 0]

SwitchInit ==
  /\ traffic \in Traffics
  /\ port = [p \in Port |-> NewQueue]
  /\ remote = [p \in Port |-> NewQueue]
  /\ pipe = [p \in Port |-> 0]
  /\ aborted = FALSE

-----------------------------------------------------------------------------
Running == ~ aborted

(* Fault: the headroom is for the one packet in the pipe, not for two.     *)
HighThresholdFault == MaxSize - Cardinality(Port)

(* initThresholds(); it asserts that the second is below the first.        *)
HighThreshold == MaxSize - 2 * Cardinality(Port)
LowThreshold == 2

ASSUME ThresholdAssumption ==
  2 * Cardinality(Port) < MaxSize /\ HighThreshold > LowThreshold

(* beginService(): assert(_state_send==READY&&!_sending), then service.    *)
ServiceFails(q) == q.stateSend # "READY" \/ q.sending
InService(q) == IF q.size > 0 THEN [q EXCEPT !.sending = TRUE] ELSE q

(* Fault: the end of a PAUSE never starts service again. *)
RestartsNeverFault(q) == FALSE

(* receivePacket() of a PAUSE frame, and of the frame that ends it. *)
Paused(q) ==
  [q EXCEPT !.stateSend = IF q.sending THEN "PAUSE_RECEIVED" ELSE "PAUSED",
            !.told = TRUE, !.after = 0]
Restarts(q) == q.size > 0 /\ ~ q.sending
Resumed(q) ==
  LET r == [q EXCEPT !.stateSend = "READY", !.told = FALSE, !.after = 0]
  IN  IF Restarts(q) THEN InService(r) ELSE r

(* sendPause(problem, wait): every neighbour but the one behind the        *)
(* problem port is told.                                                   *)
SendPause(problem) ==
  [p \in Port |-> IF p = problem THEN remote[p] ELSE Paused(remote[p])]
SendResume(problem, r) ==
  [p \in Port |-> IF p = problem THEN r[p] ELSE Resumed(r[p])]
ResumeFails(problem, r) ==
  \E p \in Port \ {problem} : Restarts(r[p]) /\ r[p].sending

(* receivePacket() of a packet: append it and start service if the queue   *)
(* was empty and is not paused.                                            *)
Received(q) ==
  LET r == [q EXCEPT !.size = @ + 1]
  IN  IF q.size = 0 /\ q.stateSend = "READY" THEN InService(r) ELSE r
ReceiveFails(q) == q.size = 0 /\ q.stateSend = "READY" /\ q.sending

SentAfter(q) == IF q.told THEN q.after + 1 ELSE 0

(* Fault: a PAUSE that came during service is forgotten when it ends.      *)
ServedFault(q) ==
  InService([q EXCEPT !.size = @ - 1, !.sending = FALSE, !.stateSend = "READY",
                      !.after = SentAfter(q)])

(* completeService(): the packet leaves; a PAUSE takes hold; unless there  *)
(* is one the next packet goes into service.                               *)
Served(q) ==
  LET r == [q EXCEPT !.size = @ - 1, !.sending = FALSE, !.after = SentAfter(q),
                     !.stateSend = IF @ = "PAUSE_RECEIVED" THEN "PAUSED" ELSE @]
  IN  IF r.stateSend = "READY" THEN InService(r) ELSE r

-----------------------------------------------------------------------------
(* A packet for the switch reaches the neighbour's queue. *)
Offer(p) ==
  /\ Running
  /\ traffic.hot \ {p} # {}
  /\ remote[p].size < MaxQueued
  /\ aborted' = ReceiveFails(remote[p])
  /\ remote' = [remote EXCEPT ![p] = Received(@)]
  /\ UNCHANGED <<traffic, port, pipe>>

(* The neighbour's queue has sent a packet.  Bound, from the topologies,   *)
(* whose links are shorter than a packet: one packet is in a pipe at a     *)
(* time.                                                                   *)
RemoteCompletesService(p) ==
  /\ Running
  /\ remote[p].sending /\ pipe[p] = 0
  /\ aborted' = (remote[p].size = 0)
  /\ IF remote[p].size = 0 THEN UNCHANGED <<remote, pipe>>
       ELSE /\ remote' = [remote EXCEPT ![p] = Served(@)]
            /\ pipe' = [pipe EXCEPT ![p] = 1]
  /\ UNCHANGED <<traffic, port>>

(* Whether the packet takes the port over the high threshold. *)
Crosses(d, size) == size > HighThreshold /\ port[d].stateRecv # "PAUSED"

(* A packet arrives and is routed to port d, never back where it came      *)
(* from: the queue takes it in, sends PAUSE above the threshold.  Bound:   *)
(* one packet past the buffer; the code goes on without a limit.           *)
ReceivePacket(p, d) ==
  /\ Running
  /\ pipe[p] > 0 /\ d # p
  /\ port[d].size <= MaxSize
  /\ pipe' = [pipe EXCEPT ![p] = @ - 1]
  /\ UNCHANGED traffic
  /\ aborted' = ReceiveFails(port[d])
  /\ IF Crosses(d, port[d].size + 1)
       THEN /\ port' = [port EXCEPT ![d] = [Received(@) EXCEPT !.stateRecv = "PAUSED"]]
            /\ remote' = SendPause(d)
       ELSE /\ port' = [port EXCEPT ![d] = Received(@)]
            /\ UNCHANGED remote

(* Fault: only a queue that has sent no PAUSE ends one. *)
DrainedFault(d) == port[d].size - 1 < LowThreshold /\ port[d].stateRecv # "PAUSED"

(* Whether the departure takes the port below the low threshold. *)
Drained(d) == port[d].size - 1 < LowThreshold /\ port[d].stateRecv = "PAUSED"

(* A port has sent a packet; below the low threshold it ends its PAUSE.    *)
CompleteService(d) ==
  /\ Running
  /\ port[d].sending
  /\ IF port[d].size = 0
       THEN aborted' = TRUE /\ UNCHANGED <<port, remote>>
       ELSE IF Drained(d)
         THEN /\ port' = [port EXCEPT ![d] = [Served(@) EXCEPT !.stateRecv = "READY"]]
              /\ remote' = SendResume(d, remote)
              /\ aborted' = ResumeFails(d, remote)
         ELSE /\ port' = [port EXCEPT ![d] = Served(@)]
              /\ UNCHANGED <<remote, aborted>>
  /\ UNCHANGED <<traffic, pipe>>

(* The neighbour's own switch sends PAUSE to the port, and later ends it.  *)
ReceivePause(d) ==
  /\ Running
  /\ port' = [port EXCEPT ![d] = Paused(@)]
  /\ UNCHANGED <<traffic, remote, pipe, aborted>>

ReceiveResume(d) ==
  /\ Running
  /\ aborted' = (Restarts(port[d]) /\ port[d].sending)
  /\ port' = [port EXCEPT ![d] = Resumed(@)]
  /\ UNCHANGED <<traffic, remote, pipe>>

SwitchNext ==
  \/ \E p \in Port : Offer(p) \/ RemoteCompletesService(p)
  \/ \E p \in Port, d \in traffic.hot : ReceivePacket(p, d)
  \/ \E d \in traffic.hot : CompleteService(d)
  \/ \E d \in traffic.slow : ReceivePause(d) \/ ReceiveResume(d)

(* The event list serves every queue and pipe, and a neighbour's switch    *)
(* ends its PAUSEs.                                                        *)
Fairness ==
  /\ \A p \in Port : WF_switchVars(RemoteCompletesService(p))
  /\ \A p \in Port : WF_switchVars(\E d \in traffic.hot : ReceivePacket(p, d))
  /\ \A d \in Port :
       /\ WF_switchVars(d \in traffic.hot /\ CompleteService(d))
       /\ WF_switchVars(d \in traffic.slow /\ ReceiveResume(d))

SwitchSpec == SwitchInit /\ [][SwitchNext]_switchVars /\ Fairness

-----------------------------------------------------------------------------
(* "LOSSLESS not working! I should have dropped this packet": the headroom *)
(* above the high threshold takes in all that neighbours send before the   *)
(* PAUSE holds them, so no queue outgrows its buffer.  It does not hold    *)
(* of two hot ports (README, deviations without a run): the end of one     *)
(* port's PAUSE lets neighbours go on that the other still needs paused.   *)
Lossless == \A d \in Port : port[d].size <= MaxSize

(* With a single hot port the buffers are large enough.                    *)
OneHot == Cardinality(traffic.hot) = 1
LosslessOneHot == OneHot => Lossless

(* After a PAUSE, until its end, a queue sends at most one more packet.    *)
OneMore ==
  \A q \in {port[p] : p \in Port} \cup {remote[p] : p \in Port} :
    q.told => q.after <= 1

(* A queue that may send and holds packets is sending: no wake-up is lost, *)
(* and no assert of beginService() and completeService() fails.            *)
NoLostWakeup ==
  /\ ~ aborted
  /\ \A q \in {port[p] : p \in Port} \cup {remote[p] : p \in Port} :
       q.stateSend = "READY" => (q.sending <=> q.size > 0)

(* A neighbour that is paused gets to send again: a port that sent a PAUSE *)
(* drains and ends it, even while its own neighbour PAUSEs it now and then *)
(* - as long as no second port's PAUSE comes in between.                   *)
EveryPauseEnds ==
  \A p \in Port :
    OneHot /\ remote[p].stateSend # "READY" ~> remote[p].stateSend = "READY"
=============================================================================
