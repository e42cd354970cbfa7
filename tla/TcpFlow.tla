------------------------------ MODULE TcpFlow ------------------------------
(***************************************************************************)
(* One TCP connection of the simulator (tcp.cpp): a NewReno source, a sink *)
(* with a list of what it got above a hole, and the network between them,  *)
(* which loses packets and acks and, when routes change, delivers them in  *)
(* another order.  Sequence numbers count bytes: the SYN is byte 1 and the *)
(* data follow in packets of MSS bytes.                                    *)
(***************************************************************************)
EXTENDS Naturals, Sequences, SequencesExt, FiniteSetsExt

CONSTANTS
  MSS,          \* _mss
  FlowPackets,  \* set_flowsize(), in packets
  InitWindow,   \* the packets of the initial window, 10 in the code
  MaxTroubles   \* bound: the packets and acks that are lost or overtaken, and
                \* the timeouts that come while something is still under way

ASSUME TcpFlowAssumption ==
  /\ MSS \in Nat \ {0} /\ FlowPackets \in Nat /\ InitWindow \in Nat \ {0}
  /\ MaxTroubles \in Nat

VARIABLES
  src,        \* the TcpSrc
  sink,       \* the TcpSink
  data,       \* sequence numbers of the packets under way, oldest first
  acks,       \* the acks under way, oldest first
  arrived,    \* the sequence numbers of the packets that reached the sink
  troubles    \* the number of losses, overtakings and early timeouts so far

tcpVars == <<src, sink, data, acks, arrived, troubles>>

(* set_flowsize() adds a packet, and send_packets() sends whole packets    *)
(* behind the SYN: the last byte of the stream.                            *)
FlowSize == FlowPackets * MSS + MSS
LastByte == 1 + (FlowPackets + 1) * MSS
SYN == 1
Unlimited == 100 * MSS   \* 0xffffffff: more than any window here

Source ==
  [highestSent : Nat, lastAcked : Nat, cwnd : Nat, ssthresh : Nat,
   dupacks : Nat, recoverq : Nat, inFastRecovery : BOOLEAN,
   established : BOOLEAN,
   timer : BOOLEAN,    \* _RFC2988_RTO_timeout is not timeInf
   pending : BOOLEAN]  \* _rtx_timeout_pending, and the event that goes with it

(* Packets begin behind a whole number of packets and the SYN, and all     *)
(* that is acked or sent ends there.                                       *)
Seqno == {SYN} \cup {n \in Nat : \E k \in 0 .. n : n = 2 + k * MSS}
Ackno == {0} \cup {n \in Nat : \E k \in 0 .. n : n = 1 + k * MSS}

Sink == [cumulativeAck : Ackno, received : Seq(Seqno)]

TcpTypeOK ==
  /\ src \in Source /\ src.highestSent \in Ackno /\ src.lastAcked \in Ackno
  /\ sink \in Sink
  /\ data \in Seq(Seqno) /\ acks \in Seq(Ackno) /\ arrived \subseteq Seqno
  /\ troubles \in 0 .. MaxTroubles

-----------------------------------------------------------------------------
(* A source and the packets it has sent in the step at hand. *)
Sends(s, packets) == [s |-> s, packets |-> packets]
At(s, seqno) == Sends([s EXCEPT !.timer = TRUE], <<seqno>>)

(* Fault: the timer is not started when a packet is sent. *)
SendNewFault(s, n) ==
  Sends([s EXCEPT !.highestSent = @ + n * MSS],
        [i \in 1 .. n |-> s.highestSent + 1 + (i - 1) * MSS])

(* n new packets leave; the timer is started if it is off (RFC 2988 5.1).  *)
SendNew(s, n) ==
  Sends([s EXCEPT !.highestSent = @ + n * MSS, !.timer = @ \/ n > 0],
        [i \in 1 .. n |-> s.highestSent + 1 + (i - 1) * MSS])

(* The packets the window and the flow still let go. *)
Allowed(s) ==
  Cardinality({i \in 1 .. FlowPackets + 1 :
                 /\ s.lastAcked + s.cwnd >= s.highestSent + i * MSS
                 /\ s.highestSent + i * MSS <= FlowSize + 1})

(* send_packets() *)
SendPackets(s) ==
  IF s.established THEN SendNew(s, Allowed(s))
                   ELSE At([s EXCEPT !.highestSent = 1], SYN)

(* retransmit_packet() *)
RetransmitPacket(s) == At(s, IF s.established THEN s.lastAcked + 1 ELSE SYN)

(* One handler sends twice: r is what it has done, Then() goes on.         *)
Retransmits(s, Then(_)) ==
  LET r == RetransmitPacket(s)
      t == Then(r.s)
  IN  Sends(t.s, r.packets \o t.packets)

(* deflate_window() *)
DeflateWindow(s) == [s EXCEPT !.ssthresh = Max({s.cwnd \div 2, 2 * MSS})]

(* inflate_window(): slow start up to ssthresh, then about a packet per    *)
(* window, and nothing while more than the window is outstanding.          *)
InflateWindow(s) ==
  IF s.lastAcked + s.cwnd < s.highestSent THEN s
  ELSE LET newly == Min({s.lastAcked + s.cwnd - s.highestSent, MSS})
       IN  IF s.cwnd < s.ssthresh
             THEN [s EXCEPT !.cwnd = @ + Min({s.ssthresh - @, newly})]
             ELSE [s EXCEPT !.cwnd = @ + Max({(newly * MSS) \div @, 1})]

TcpInit ==
  LET s == SendPackets([highestSent |-> 0, lastAcked |-> 0,
                        cwnd |-> InitWindow * MSS, ssthresh |-> Unlimited,
                        dupacks |-> 0, recoverq |-> 0, inFastRecovery |-> FALSE,
                        established |-> FALSE, timer |-> FALSE, pending |-> FALSE])
  IN  /\ src = s.s
      /\ sink = [cumulativeAck |-> 0, received |-> <<>>]
      /\ data = s.packets
      /\ acks = <<>>
      /\ arrived = {}
      /\ troubles = 0

-----------------------------------------------------------------------------
(* receivePacket() of the source, for an ack that is not old, by case.     *)

(* A new ack in fast recovery: behind _recoverq it ends it; before, it is  *)
(* a partial ack, which deflates the window and retransmits the next hole. *)
NewAckInRecovery(s, ackno) ==
  IF ackno >= s.recoverq
    THEN SendPackets([s EXCEPT !.cwnd = Min({s.ssthresh, s.highestSent - ackno + MSS}),
                               !.lastAcked = ackno, !.dupacks = 0,
                               !.inFastRecovery = FALSE])
    ELSE LET new == ackno - s.lastAcked
         IN  Retransmits([s EXCEPT !.lastAcked = ackno,
                                   !.cwnd = (IF new < @ THEN @ - new ELSE 0) + MSS],
                         SendPackets)

(* Fault: an ack of all that is outstanding is not told from another one.  *)
AllAckedFault(s, ackno) == FALSE

AllAcked(s, ackno) == ackno >= s.highestSent

NewAck(s, ackno) ==
  LET t == IF AllAcked(s, ackno)
             THEN [s EXCEPT !.highestSent = ackno, !.timer = FALSE]
             ELSE [s EXCEPT !.timer = TRUE]
  IN  IF t.inFastRecovery
        THEN NewAckInRecovery(t, ackno)
        ELSE SendPackets(InflateWindow([t EXCEPT !.lastAcked = ackno, !.dupacks = 0]))

(* The third duplicate starts fast recovery, unless the source is still    *)
(* recovering from a timeout.                                              *)
FastRetransmit(s) ==
  Retransmits(DeflateWindow(s),
              LAMBDA r : Sends([r EXCEPT !.cwnd = r.ssthresh + 3 * MSS,
                                         !.inFastRecovery = TRUE,
                                         !.recoverq = r.highestSent], <<>>))

DuplicateAck(s) ==
  IF s.inFastRecovery
    THEN SendPackets([s EXCEPT !.cwnd = @ + MSS])
    ELSE LET t == [s EXCEPT !.dupacks = @ + 1]
         IN  IF t.dupacks # 3 THEN SendPackets(t)
             ELSE IF t.lastAcked < t.recoverq THEN Sends(t, <<>>)
             ELSE FastRetransmit(t)

Acknowledge(s, ackno) ==
  LET t == [s EXCEPT !.established = @ \/ ackno = 1]
  IN  IF ackno < s.lastAcked THEN Sends(s, <<>>)
      ELSE IF ackno > s.lastAcked THEN NewAck(t, ackno)
      ELSE DuplicateAck(t)

-----------------------------------------------------------------------------
(* The network delivers the oldest packet of a channel, or another one     *)
(* that overtakes it, as when the route changes.                           *)
Delivers(i) ==
  /\ i = 1 \/ troubles < MaxTroubles
  /\ troubles' = IF i = 1 THEN troubles ELSE troubles + 1

ReceiveAck ==
  \E i \in DOMAIN acks :
    LET r == Acknowledge(src, acks[i])
    IN  /\ Delivers(i)
        /\ src' = r.s
        /\ data' = data \o r.packets
        /\ acks' = RemoveAt(acks, i)
        /\ UNCHANGED <<sink, arrived>>

(* The packet expected next: the ack moves on over the packets received    *)
(* above the hole that it closes.                                          *)
InOrder(k, seqno, size) ==
  LET n == Max({0} \cup {i \in DOMAIN k.received :
                           \A j \in 1 .. i : k.received[j] = seqno + j * size})
  IN  [cumulativeAck |-> seqno + size - 1 + n * size,
       received |-> SubSeq(k.received, n + 1, Len(k.received))]

(* Fault: a packet above the hole is put behind the others.                *)
AboveHoleFault(k, seqno) == [k EXCEPT !.received = Append(@, seqno)]

(* A packet above the hole goes where it belongs in the list, once.        *)
AboveHole(k, seqno) ==
  IF seqno \in ToSet(k.received) THEN k
  ELSE LET n == Cardinality({i \in DOMAIN k.received : k.received[i] < seqno})
       IN  [k EXCEPT !.received = InsertAt(@, n + 1, seqno)]

(* receivePacket() of the sink, up to send_ack() at its end. *)
Receive(k, seqno) ==
  IF seqno = k.cumulativeAck + 1
    THEN InOrder(k, seqno, IF seqno = SYN THEN 1 ELSE MSS)
    ELSE IF seqno < k.cumulativeAck + 1 THEN k ELSE AboveHole(k, seqno)

(* Fault: a packet that changes nothing is not acked. *)
SendAckFault(old, new) == IF new = old THEN <<>> ELSE <<new.cumulativeAck>>

SendAck(old, new) == <<new.cumulativeAck>>

ReceiveData ==
  \E i \in DOMAIN data :
    /\ Delivers(i)
    /\ sink' = Receive(sink, data[i])
    /\ acks' = acks \o SendAck(sink, sink')
    /\ arrived' = arrived \cup {data[i]}
    /\ data' = RemoveAt(data, i)
    /\ UNCHANGED src

(* A queue on the way has no room for a packet or an ack. *)
NetworkLoses ==
  /\ troubles < MaxTroubles
  /\ troubles' = troubles + 1
  /\ \/ \E i \in DOMAIN data : data' = RemoveAt(data, i) /\ UNCHANGED acks
     \/ \E i \in DOMAIN acks : acks' = RemoveAt(acks, i) /\ UNCHANGED data
  /\ UNCHANGED <<src, sink, arrived>>

(* rtx_timer_hook(), called by the scanner: the timer has run out and the  *)
(* timeout is booked for a little later; the timer starts again.  Its time *)
(* may come at any moment, but early, with something under way, only a     *)
(* bounded number of times.                                                *)
RtxTimerHook ==
  /\ src.timer /\ ~ src.pending
  /\ src' = [src EXCEPT !.pending = TRUE]
  /\ IF data = <<>> /\ acks = <<>>
       THEN UNCHANGED troubles
       ELSE troubles < MaxTroubles /\ troubles' = troubles + 1
  /\ UNCHANGED <<sink, data, acks, arrived>>

(* All that was sent behind the next packet counts as not sent. *)
FallBack(s) ==
  IF s.established THEN [s EXCEPT !.highestSent = s.lastAcked + MSS] ELSE s

(* doNextEvent(): the timeout itself.  Acks may have come since the hook.  *)
Timeout ==
  /\ src.pending
  /\ LET s == IF src.inFastRecovery
                THEN [src EXCEPT !.cwnd = Min({src.ssthresh,
                                    src.highestSent - src.lastAcked + MSS})]
                ELSE src
         t == [DeflateWindow(s) EXCEPT !.cwnd = MSS, !.inFastRecovery = FALSE,
                 !.recoverq = s.highestSent, !.dupacks = 0, !.pending = FALSE]
         r == RetransmitPacket(FallBack(t))
     IN  src' = r.s /\ data' = data \o r.packets
  /\ UNCHANGED <<sink, acks, arrived, troubles>>

TcpNext == ReceiveAck \/ ReceiveData \/ NetworkLoses \/ RtxTimerHook \/ Timeout

(* Pipes and queues deliver what they do not lose, the scanner runs again  *)
(* and again, and the event list dispatches what is booked.                *)
TcpSpec ==
  TcpInit /\ [][TcpNext]_tcpVars
    /\ WF_tcpVars(ReceiveAck) /\ WF_tcpVars(ReceiveData)
    /\ WF_tcpVars(RtxTimerHook) /\ WF_tcpVars(Timeout)

-----------------------------------------------------------------------------
(* The sink's ack is the end of the stretch without a hole, and its list   *)
(* holds exactly the packets above it, in order and once each, whatever    *)
(* is lost, repeated or overtaken.                                         *)
AcksPrefix ==
  /\ sink.cumulativeAck > 0 => SYN \in arrived
  /\ \A b \in arrived : b > sink.cumulativeAck => b > sink.cumulativeAck + 1
  /\ \A i \in 0 .. FlowPackets :
       2 + i * MSS <= sink.cumulativeAck => 2 + i * MSS \in arrived
  /\ ToSet(sink.received) = {b \in arrived : b > sink.cumulativeAck}
  /\ \A i \in 1 .. Len(sink.received) - 1 : sink.received[i] < sink.received[i + 1]

(* While data or the SYN are outstanding the retransmission timer runs or  *)
(* its timeout is booked: no flow can stop for want of a timer.            *)
TimerRuns ==
  /\ TcpTypeOK
  /\ src.lastAcked < src.highestSent => src.timer \/ src.pending

(* Retransmissions do not look at the flow's size, and duplicates of the   *)
(* last ack make the source send data behind the end of the flow.  It does *)
(* so one packet at a time, never before the sink has all in front of it,  *)
(* and never on a network without trouble, where what has arrived is not   *)
(* sent again at all.                                                      *)
WithinFlow ==
  \A i \in DOMAIN data :
    /\ data[i] <= LastByte \/ data[i] <= sink.cumulativeAck + 1
    /\ troubles = 0 => sink.cumulativeAck < data[i] /\ data[i] <= LastByte

(* RFC 2988 5.2, as receivePacket() quotes it: with all outstanding data   *)
(* acked, the timer is off, so no timeout starts a retransmission.  It     *)
(* does not hold (README, deviations without a run): the timer is off, but *)
(* a timeout that is booked already still comes.                           *)
OffWhenAllAcked ==
  [][src.pending /\ ~ src'.pending => src.lastAcked < src.highestSent]_tcpVars

(* The flow keeps the promise of a reliable stream, and comes to its end.  *)
Stream == INSTANCE ReliableStream WITH
            Total <- LastByte, delivered <- sink.cumulativeAck, acked <- src.lastAcked
InStep == Stream!Safe
Reliable == Stream!Spec
=============================================================================
