------------------------------ MODULE NdpFlow ------------------------------
(***************************************************************************)
(* One NDP flow (ndp.cpp): a source that sends a first window unasked and  *)
(* then one packet for each pull, a sink that acks every packet, nacks     *)
(* every trimmed one and asks for more through its pull pacer, and the     *)
(* network, which sprays packets over paths, trims them to their headers   *)
(* when a queue is full, returns headers to the sender when that is full,  *)
(* too, and drops those that find no room on their way back or have none.  *)
(* There is no retransmission timer: rtx_timer_hook() returns at once.     *)
(* Packets are numbered from 1; an ack number is the number of a packet.   *)
(***************************************************************************)
EXTENDS Integers, Sequences, SequencesExt, FiniteSetsExt

CONSTANTS
  FlowPackets,  \* set_flowsize(), in packets
  InitWindow,   \* setCwnd(), in packets
  Networks      \* bounds: what the network may do to the flow, as records of
                \* the number of packets trimmed, returned and dropped, of the
                \* acks, nacks and pulls that overtake others, and of those
                \* that are lost; and whether its routes have a reverse_route()

ASSUME NdpFlowAssumption ==
  /\ FlowPackets \in Nat \ {0} /\ InitWindow \in Nat \ {0}
  /\ Networks \subseteq [trims : Nat, bounces : Nat, drops : Nat, overtakes : Nat,
                          losses : Nat, reverse : BOOLEAN]

VARIABLES
  src,       \* the NdpSrc
  sink,      \* the NdpSink
  data,      \* data[form][n]: how many packets n are under way in that form
  feedback,  \* the acks, nacks and pulls under way, oldest first
  pulls,     \* the pacer's _pull_queue, the pull that leaves next first
  network,   \* which network carries the flow
  used,      \* what it has done of each kind so far
  arrived    \* the packets the sink has received in full, one entry for each time

ndpVars == <<src, sink, data, feedback, pulls, network, used, arrived>>

HIST_LEN == 12
PacketNo == 1 .. FlowPackets
Forms == {"full", "header", "returned"}
Kinds == {"trims", "bounces", "drops", "overtakes", "losses"}

Source ==
  [highestSent : 0 .. FlowPackets, lastAcked : 0 .. FlowPackets,
   lastPull : Nat, pullWindow : Int, firstWindow : Int,
   rtx : Seq(PacketNo),                        \* _rtx_queue
   history : Seq({"ACK", "NACK", "BOUNCE"})]   \* _feedback_history
Sink == [cumulativeAck : 0 .. FlowPackets, received : Seq(PacketNo), pullNo : Nat]
Feedback ==
  [type : {"ACK", "NACK", "PULL"}, ackno : PacketNo, cum : 0 .. FlowPackets,
   pull : BOOLEAN, pullno : Nat]

NdpTypeOK ==
  /\ src \in Source /\ Len(src.history) <= HIST_LEN
  /\ sink \in Sink
  /\ data \in [Forms -> [PacketNo -> Nat]]
  /\ feedback \in Seq(Feedback) /\ pulls \in Seq(Feedback)
  /\ network \in Networks
  /\ used \in [Kinds -> Nat] /\ \A k \in Kinds : used[k] <= network[k]
  /\ arrived \in Seq(PacketNo)

-----------------------------------------------------------------------------
(* A source and the packets it has sent in the step at hand. *)
Sends(s, packets) == [s |-> s, packets |-> packets]

(* Fault: a packet sent again stays in the queue of those to send again.   *)
SendFault(s, n) ==
  LET again == Min({n, Len(s.rtx)})
      new == Min({n - again, FlowPackets - s.highestSent})
  IN  Sends([s EXCEPT !.highestSent = @ + new],
            SubSeq(s.rtx, 1, again) \o [i \in 1 .. new |-> s.highestSent + i])

(* send_packet(), n times: what is to be sent again goes first, then new   *)
(* packets; at the end of the flow nothing is sent.                        *)
Send(s, n) ==
  LET again == Min({n, Len(s.rtx)})
      new == Min({n - again, FlowPackets - s.highestSent})
  IN  Sends([s EXCEPT !.highestSent = @ + new,
                      !.rtx = SubSeq(@, again + 1, Len(@))],
            SubSeq(s.rtx, 1, again) \o [i \in 1 .. new |-> s.highestSent + i])

(* Fault: a pull sends a packet whatever was pulled before. *)
PullPacketsFault(s, pullno) == Send([s EXCEPT !.lastPull = pullno], 1)

(* pull_packets(): pull numbers are cumulative, a late pull does nothing.  *)
PullPackets(s, pullno) ==
  Send([s EXCEPT !.lastPull = Max({@, pullno})], Max({pullno - s.lastPull, 0}))

(* count_feedback() keeps the last HIST_LEN of them. *)
CountFeedback(s, fb) ==
  [s EXCEPT !.history = LET h == Append(@, fb)
                        IN  SubSeq(h, Max({1, Len(h) - HIST_LEN + 1}), Len(h))]

(* is_bad_path(): at least a quarter of the last feedback are acks. *)
IsBadPath(s) ==
  LET acks == Cardinality({i \in DOMAIN s.history : s.history[i] = "ACK"})
  IN  acks > 0 /\ Len(s.history) \div acks <= 3

(* How often n is in the list q, and d with the packets q sent in full.    *)
Times(n, q) == Cardinality({i \in DOMAIN q : q[i] = n})
With(d, q) == [d EXCEPT !["full"] = [n \in PacketNo |-> @[n] + Times(n, q)]]

(* d without the packet n in a form it is in. *)
Without(d, form, n) == [d EXCEPT ![form][n] = @ - 1]

(* startflow() *)
NdpInit ==
  LET s == Send([highestSent |-> 0, lastAcked |-> 0, lastPull |-> 0,
                 pullWindow |-> 0, firstWindow |-> Min({InitWindow, FlowPackets}),
                 rtx |-> <<>>, history |-> <<>>], InitWindow)
  IN  /\ src = s.s
      /\ sink = [cumulativeAck |-> 0, received |-> <<>>, pullNo |-> 0]
      /\ data = With([f \in Forms |-> [n \in PacketNo |-> 0]], s.packets)
      /\ feedback = <<>>
      /\ pulls = <<>>
      /\ network \in Networks
      /\ used = [k \in Kinds |-> 0]
      /\ arrived = <<>>

-----------------------------------------------------------------------------
(* The network between source and sink, within its bounds. *)
Uses(k) == used[k] < network[k] /\ used' = [used EXCEPT ![k] = @ + 1]

Becomes(form, other) ==
  \E n \in PacketNo :
    /\ data[form][n] > 0
    /\ data' = [Without(data, form, n) EXCEPT ![other][n] = @ + 1]

(* A full queue trims a packet to its header.                              *)
Trim ==
  /\ Uses("trims")
  /\ Becomes("full", "header")
  /\ UNCHANGED <<src, sink, feedback, pulls, network, arrived>>

(* A queue with no room for the header either returns it to the sender.    *)
Bounce ==
  /\ network.reverse
  /\ Uses("bounces")
  /\ Becomes("header", "returned")
  /\ UNCHANGED <<src, sink, feedback, pulls, network, arrived>>

(* It drops a header that has been returned already, or that no route      *)
(* leads back for.                                                         *)
Drop ==
  /\ Uses("drops")
  /\ \E n \in PacketNo :
       LET form == IF network.reverse THEN "returned" ELSE "header"
       IN  data[form][n] > 0 /\ data' = Without(data, form, n)
  /\ UNCHANGED <<src, sink, feedback, pulls, network, arrived>>

(* An ack, nack or pull that finds no room is dropped, or returned to the  *)
(* sink and freed there.                                                   *)
LoseFeedback ==
  /\ Uses("losses")
  /\ \E i \in DOMAIN feedback : feedback' = RemoveAt(feedback, i)
  /\ UNCHANGED <<src, sink, data, pulls, network, arrived>>

-----------------------------------------------------------------------------
(* receivePacket() of the sink. *)

(* The packet expected next: the ack moves on over those that follow.      *)
InOrder(k, n) ==
  LET m == Max({0} \cup {i \in DOMAIN k.received :
                           \A j \in 1 .. i : k.received[j] = n + j})
  IN  [k EXCEPT !.cumulativeAck = n + m,
                !.received = SubSeq(@, m + 1, Len(@))]

(* A packet above the hole goes where it belongs in the list, once.        *)
AboveHole(k, n) ==
  IF n \in ToSet(k.received) THEN k
  ELSE [k EXCEPT !.received =
          InsertAt(@, Cardinality({i \in DOMAIN @ : @[i] < n}) + 1, n)]

Receive(k, n) ==
  IF n = k.cumulativeAck + 1 THEN InOrder(k, n)
  ELSE IF n <= k.cumulativeAck THEN k
  ELSE AboveHole(k, n)

(* Fault: it is enough that the last packet has come. *)
CompleteFault(k) ==
  k.cumulativeAck = FlowPackets \/ FlowPackets \in ToSet(k.received)

(* The last packet has come and nothing is missing before it. *)
Complete(k) == k.cumulativeAck = FlowPackets

(* The pacer's sendPacket(): with no pull queued and the last one long     *)
(* enough ago the ack or nack pulls itself, otherwise a pull is queued     *)
(* behind the others.  When the flow is complete, release_pulls() empties  *)
(* the queue.                                                              *)
Answer(k, type, n) ==
  LET a == [type |-> type, ackno |-> n, cum |-> k.cumulativeAck,
            pull |-> TRUE, pullno |-> k.pullNo]
      released(q) == IF type = "ACK" /\ Complete(k) THEN <<>> ELSE q
  IN  \/ /\ pulls = <<>>
         /\ feedback' = Append(feedback, a)
         /\ UNCHANGED pulls
      \/ /\ feedback' = Append(feedback, [a EXCEPT !.pull = FALSE, !.pullno = 0])
         /\ pulls' = released(Append(pulls, [a EXCEPT !.type = "PULL"]))

(* A header is answered by a nack. *)
ReceiveHeader ==
  \E n \in PacketNo :
    /\ data["header"][n] > 0
    /\ sink' = [sink EXCEPT !.pullNo = @ + 1]
    /\ Answer(sink', "NACK", n)
    /\ data' = Without(data, "header", n)
    /\ UNCHANGED <<src, network, used, arrived>>

(* A packet is answered by an ack. *)
ReceiveData ==
  \E n \in PacketNo :
    /\ data["full"][n] > 0
    /\ sink' = [Receive(sink, n) EXCEPT !.pullNo = @ + 1]
    /\ Answer(sink', "ACK", n)
    /\ arrived' = Append(arrived, n)
    /\ data' = Without(data, "full", n)
    /\ UNCHANGED <<src, network, used>>

(* doNextEvent() of the pacer: the pull that was queued first leaves.      *)
ReleasePull ==
  /\ pulls # <<>>
  /\ feedback' = Append(feedback, Head(pulls))
  /\ pulls' = Tail(pulls)
  /\ UNCHANGED <<src, sink, data, network, used, arrived>>

-----------------------------------------------------------------------------
(* receivePacket() of the source, by the type of the packet. *)

(* Fault: an ack that comes late takes the source back. *)
AckedFault(s, cum) == [s EXCEPT !.lastAcked = cum]

(* An ack or pull that comes late acknowledges nothing new. *)
Acked(s, cum) == [s EXCEPT !.lastAcked = Max({@, cum})]

(* The packet is queued to be sent again when a pull asks for it.          *)
(* _pull_window is increased also when the nack itself pulls.              *)
ProcessNack(s, f) ==
  LET t == [CountFeedback(s, "NACK") EXCEPT !.pullWindow = @ + 1, !.firstWindow = @ - 1,
                                            !.rtx = Append(@, f.ackno)]
  IN  IF f.pull THEN PullPackets(t, f.pullno) ELSE Sends(t, <<>>)

ProcessAck(s, f) ==
  LET t == [CountFeedback(Acked(s, f.cum), "ACK") EXCEPT
              !.pullWindow = IF f.pull THEN @ ELSE @ + 1, !.firstWindow = @ - 1]
  IN  IF f.pull THEN PullPackets(t, f.pullno) ELSE Sends(t, <<>>)

ProcessPull(s, f) ==
  PullPackets([Acked(s, f.cum) EXCEPT !.pullWindow = @ - 1], f.pullno)

(* The oldest feedback arrives, or one that overtakes it on another path.  *)
ReceiveFeedback ==
  \E i \in DOMAIN feedback :
    LET f == feedback[i]
        r == CASE f.type = "ACK" -> ProcessAck(src, f)
               [] f.type = "NACK" -> ProcessNack(src, f)
               [] f.type = "PULL" -> ProcessPull(src, f)
    IN  /\ IF i = 1 THEN UNCHANGED used ELSE Uses("overtakes")
        /\ src' = r.s
        /\ data' = With(data, r.packets)
        /\ feedback' = RemoveAt(feedback, i)
        /\ UNCHANGED <<sink, pulls, network, arrived>>

(* A returned packet is sent again at once when no pull is expected or its *)
(* path is bad; otherwise it is the first to go at the next pull.          *)
ProcessRTS(s, n) ==
  LET t == [CountFeedback(s, "BOUNCE") EXCEPT !.firstWindow = @ - 1,
                                              !.rtx = <<n>> \o @]
  IN  IF (t.pullWindow = 0 /\ t.firstWindow <= 1) \/ IsBadPath(t)
        THEN Send(t, 1) ELSE Sends(t, <<>>)

ReceiveReturned ==
  \E n \in PacketNo :
    LET r == ProcessRTS(src, n)
    IN  /\ data["returned"][n] > 0
        /\ src' = r.s
        /\ data' = With(Without(data, "returned", n), r.packets)
        /\ UNCHANGED <<sink, feedback, pulls, network, used, arrived>>

NdpNext ==
  \/ Trim \/ Bounce \/ Drop \/ LoseFeedback
  \/ ReceiveHeader \/ ReceiveData \/ ReleasePull
  \/ ReceiveFeedback \/ ReceiveReturned

(* Pipes and queues deliver what they do not trim, return or drop, and the *)
(* event list dispatches the pacer.                                        *)
NdpSpec ==
  NdpInit /\ [][NdpNext]_ndpVars
    /\ WF_ndpVars(ReceiveHeader) /\ WF_ndpVars(ReceiveData) /\ WF_ndpVars(ReleasePull)
    /\ WF_ndpVars(ReceiveFeedback) /\ WF_ndpVars(ReceiveReturned)

-----------------------------------------------------------------------------
(* The packets under way with number n, and all of them (the sum is a      *)
(* recursive function and not a fold, for the proof to unfold).            *)
InFlight(d, n) == d["full"][n] + d["header"][n] + d["returned"][n]
UnderWay ==
  LET sum[n \in 0 .. FlowPackets] ==
        IF n = 0 THEN 0 ELSE sum[n - 1] + InFlight(data, n)
  IN  sum[FlowPackets]

(* The sink's ack is the end of the stretch without a hole, and its list   *)
(* holds the packets above it, in order and once each.                     *)
AcksPrefix ==
  /\ 1 .. sink.cumulativeAck \subseteq ToSet(arrived)
  /\ sink.cumulativeAck + 1 \notin ToSet(arrived)
  /\ ToSet(sink.received) = {n \in ToSet(arrived) : n > sink.cumulativeAck}
  /\ \A i \in 1 .. Len(sink.received) - 1 : sink.received[i] < sink.received[i + 1]

(* Without a timer every packet sent has one copy: on its way, nacked and  *)
(* not known to be, queued to be sent again, or received in full.  None    *)
(* has two, so none reaches the sink in full twice, and what the network   *)
(* loses costs one packet its copy at most: a nack that is lost, or a      *)
(* header that is dropped, which nothing sends again.  The sink acks what  *)
(* it got of them.                                                         *)
Nacks(n) == {i \in DOMAIN feedback : feedback[i].type = "NACK" /\ feedback[i].ackno = n}
Copies(n) ==
  InFlight(data, n) + Cardinality(Nacks(n)) + Times(n, src.rtx) + Times(n, arrived)
Missing == {n \in 1 .. src.highestSent : Copies(n) = 0}
Lost == used["losses"] + used["drops"]

OneCopy ==
  /\ NdpTypeOK
  /\ AcksPrefix
  /\ \A n \in PacketNo : Copies(n) <= IF n <= src.highestSent THEN 1 ELSE 0
  /\ Cardinality(Missing) <= Lost

(* Packets under way and pulls that still ask for one are never more than  *)
(* the first window: a packet that is sent again without a pull replaces   *)
(* the one returned, so receivers pull at their own rate after a round     *)
(* trip.                                                                   *)
PullsClock == UnderWay + (sink.pullNo - src.lastPull) <= InitWindow

(* The flow has not come to a stop with packets missing at the sink.  It   *)
(* does not hold (README, deviations without a run): a packet that is      *)
(* returned may wait for a pull that nobody will send.                     *)
NoStall ==
  Complete(sink) \/ UnderWay > 0 \/ feedback # <<>> \/ pulls # <<>>

(* Whatever the network does, the flow keeps the safe part of what a       *)
(* reliable stream promises.                                               *)
Stream == INSTANCE ReliableStream WITH
            Total <- FlowPackets, delivered <- sink.cumulativeAck, acked <- src.lastAcked
InStep == Stream!Safe

(* The flow comes to its end with no timer, as long as the network         *)
(* returns, drops and loses nothing and keeps acks, nacks and pulls in     *)
(* order, however it trims and reorders the data.                          *)
Calm == \A k \in Kinds \ {"trims"} : network[k] = 0
Finishes == Calm => <>(src.lastAcked = FlowPackets)
=============================================================================
