# TLA+ models and proofs of starlink-htsim

`htsim` is a discrete-event simulator of packet networks; `starlink/` adds a
constellation of moving satellites with links that are made and dropped while
packets use them.  The program is sequential: one event list dispatches one
event at a time.  What makes it hard is the order of events.  A handler runs
between any two others, packets are delayed, trimmed, returned, lost and
overtaken, timers race with answers, and objects are reused while something
still refers to them.  The modules here model the parts where such an order
decides about correctness.

Paths are relative to `src/src/`.

## Components

| Component | State | Operations | Talks to | What is hard, and what must hold |
|---|---|---|---|---|
| Event list (`eventlist.cpp`) | multimap of time and source, clock, end time | book, cancel, rebook, dispatch | every other part | ties, several entries of one source, the end time: served by time and then by age, never in the past |
| Link (`queue.cpp`, `xcpqueue.cpp`, `pipe.cpp`, `starlink/isl.cpp`) | packets queued and in flight, byte count, one event each | receive, complete service, arrive, drop all, go down, reassign | event list, link factory, the next hop | the delay changes while packets are in flight; drops during service; reuse: order, one event, no early arrival |
| Link factory (`starlink/isl.cpp`) | arrays of active and free links, index of each link | activate, drop | cities, satellites | swaps and growth: no link lost or handed out twice |
| City (`starlink/city.cpp`) | active uplinks, inactive satellites, both nearly sorted | add and update uplinks | link factory, route search | distances are refreshed in part, sorted in part: no satellite lost, the nearest one used |
| Host queue (`queue.cpp`, PriorityQueue) | three levels, the level in service, PAUSE state | receive, PAUSE and its end, complete service, drop | lossless switch, event list | PAUSE during service: one service, no lost wake-up, bounded inversion |
| Lossless switch (`queue_lossless.cpp`, `switch.cpp`) | per port: size, PAUSE state in both directions | receive, complete service, send PAUSE | neighbours' queues, by direct call | PAUSEs of several ports overlap: no overflow, every PAUSE ends |
| TCP (`tcp.cpp`) | window, sequence numbers, recovery, timer; sink's list above a hole | ack, packet, timer hook, timeout | routes of queues and pipes, scanner | loss, reordering, timeouts that race with acks: reliable stream, timer never missing |
| NDP (`ndp.cpp`) | window of pulls, resend queue, path history; sink's list | ack, nack, pull, returned packet, packet, header | composite queues, pull pacer | no retransmission timer at all: no packet forgotten, no more in flight than pulled |
| Pull pacer (`ndp.cpp`, `fairpullqueue.cpp`) | a queue of pulls per flow, iterator, its event | send, flush a flow, release the next pull | all NDP sinks of a host | entries erased under the iterator, an event that is not cancelled: pace, turns, no lost wake-up |
| Composite queue (`compositequeue.cpp`) | data and headers on two levels, byte counts, count of turns, its event | receive, trim, return, complete service | NDP flows, event list | a packet trimmed while others wait or are served: exact counts, one service, no level starved |
| Other queues (drop-tail, random, ECN, CP, composite priority, strict priority, lossless input and output) | packets, byte counts, virtual queues | receive, complete service | links, switches | marking, trimming by path length, PAUSE per input |
| Sub-flows of multipath XCP (`mpxcp.cpp`, `xcprouteinfo.cpp`) | current sub-flows by route, garbage, time of collection | update the sub-flows, collect garbage | route search, XCP sources and sinks, routes | sub-flows retired with packets in flight, routes found again: no route deleted in use |
| Packets and routes (`network.cpp`, `network.h`, `route.cpp`) | pools of packets, reference counts | set route, send on, bounce, free | everything | a route deleted while it, or a pooled packet that names it, is used again: exact counts |
| Route search (`starlink/constellation.cpp`, `binary_heap.cpp`, `node.cpp`, `xcpnetworktopology.cpp`) | intrusive heap, distances, parents, flags of the links, kept from search to search | get paths, Dijkstra, links excluded and restored | cities, link factory | stale distances and heap positions, links that come and go between searches: shortest, disjoint routes |
| XCP and its routers, MPTCP (`xcp.cpp`, `xcpqueue.cpp`, `mtcp.cpp`) | as TCP, with rates from the routers | as TCP | routers, routes | control law in floating point |
| Loggers, topologies, experiments, Eigen | | | | observe, wire up, or are third-party |

## Modules

| Module | Role |
|---|---|
| `EventListOps` | the event list as a pure data structure: `Insert` (behind all entries of the same time), `Cancel` (the earliest entry of a source), `NextEventTime` |
| `EventCalendar` | abstract: a set of bookings, served by time and then by age |
| `EventList` | the event list with its clock and end time; `ServesInOrder` is its refinement of `EventCalendar` |
| `IslLink` | queue and pipe of one link, both with real times, on `EventListOps` |
| `LinkPool` | the factory's arrays of active and free links as a pure data structure: `Activate`, `Drop`, growth, the assert |
| `LinkFactory` | the pool on its own: links handed out and taken back in any order |
| `CityUplinks` | the two lists of satellites of a city, and `update_uplinks()` with a parameter for what it does to links |
| `Constellation` | composes `CityUplinks` and `LinkPool`: an update drops and makes pairs of links of the factory |
| `BinaryHeap` | the intrusive heap as a pure data structure, with the cells behind its end |
| `RouteSearch` | `get_paths()`: searches one after the other, by different cities and at different times, on `BinaryHeap` |
| `PriorityQueue` | the network card of a host |
| `LosslessSwitch` | a switch, the queues of its ports and those of its neighbours |
| `CompositeQueue` | the queue of an NDP switch port |
| `SubFlows` | sub-flows of a multipath flow, their packets, packet pools and the counts of their routes |
| `ReliableStream` | abstract: what a transport flow promises |
| `TcpFlow` | a TCP source and sink with the network between them; refines `ReliableStream` |
| `NdpFlow` | an NDP source and sink with the network; refines the safe part of `ReliableStream` |
| `PullPacer` | the pull pacer and its fair queue, for all flows of a host |
| `SequenceLemmas` | lemmas about sequences, their elements, counts and sums |
| `EventSwitchProofs` | theorems about `EventList` and `LosslessSwitch` |
| `PriorityQueueProofs`, `CompositeQueueProofs` | theorems about the module each is named after |
| `RouteProofs` | theorems about `BinaryHeap` and `RouteSearch` |
| `StarlinkProofs` | theorems about `IslLink`, `CityUplinks`, `LinkPool` and `Constellation` |
| `NdpProofs` | theorems about `PullPacer` and `NdpFlow` |
| `TransportProofs` | theorems about `SubFlows` and `TcpFlow` |
| `MC...` | values of constants for TLC, and why they are large enough |

Variables have the names of the members they model (without the underscore and
in camel case); the comment on each says which.  Actions have the names of
handlers.  An action is one call of a handler with everything that the code
does in it: `CompleteService` of `IslLink` hands the packet to the pipe, which
books its own event, and puts the next packet into service.  Operators whose
name ends in `Fault` are the code with a plausible bug.  No behaviour uses
them; each is put in the place of the operator it is named after to see that a
property notices.

An assert that fails ends the program.  Where a failure is within reach of the
model the state has a variable `aborted`, every action needs `~ aborted`, and a
property says when it may become true.

What is abstracted:

* *EventList*: a handler's own bookings are separate steps at the same time.
  `no` numbers the insertions, so that entries of one source can be told apart.
* *IslLink*: times are small integers with the arithmetic of the code.  The
  header processing of `XcpQueue` is left out.  Other sources of events are
  `OtherEvent`, which moves the clock and the two nodes; nodes move slower than
  light, so the light time changes by less than the time that passes.
* *LinkPool*: once the pool has grown the two arrays are one block (see below),
  so every write is made to both.  Cells that no count reaches are emptied while
  the arrays are separate, so that equal pools are equal states; the code never
  reads them.
* *CityUplinks*, *Constellation*: positions are a distance per satellite, which
  changes by a bounded step per update.  The tie orders of `std::sort` are all
  tried.  This is the build of the experiments (`build/Makefile`), where
  satellites move; with `XCP_STATIC_NETWORK` `update_uplinks()` is empty.  There
  is one city; the links between satellites are the first of the pool and stay.
  The pool of the `constellation` run has room for all links; one that grows is in
  `link_factory_grown` and in the theorem `PoolListed`.
* *RouteSearch*: delays are small numbers, one per pair of nodes and sky.  What
  an update leaves of a city's uplinks is any set that `CityUplinks` allows:
  links come only in range and go only out of range.  The heap has room for all
  nodes: its message "The heap is full" (`starlink/binary_heap.cpp:39-42`) is out of
  reach of the constellations that the constructor accepts, but for those that leave
  no room for the cities next to `MAXNODES` satellites.  `_links` is an unordered
  set, so links are relaxed in any order.  Routes are sequences of nodes.  A
  `heap_ix` that no search has set has an arbitrary value; from its first use
  with another value than 0 the state says `strayed`, and no property claims
  anything.
* *CompositeQueue*: times of service are left open, what counts is the entry in
  the event list.  Packets have a name, a size, and may be returned or not.
  `row` and `left` are history variables.
* *SubFlows*: the search finds any set of paths.  Packets of a sub-flow stay in
  order, as on one path.  Sequence numbers, windows and rates are left out: a
  source sends whenever it likes, so all interleavings of sending, reception and
  updates are there.  The model stops when the code uses a deleted route, since
  what follows is undefined.
* *PriorityQueue*: times of service are left open; what counts is the number
  of the queue's entries in the event list.
* *LosslessSwitch*: all packets have one size.  PAUSE frames are direct calls
  in the code and hence part of the action that sends them.
* *TcpFlow*: the time at which the timer runs out is left open, so timeouts
  may come too early; the RTT estimate, which only sets that time, is left out.
  So are code that is compiled out (`MODEL_RECEIVE_WINDOW`, `PACKET_SCATTER`),
  `app_limited`, and the coupling with a multipath parent.  `Seqno` and `Ackno`
  are the numbers that packets and acks can have, whole packets behind the SYN.
* *NdpFlow*: which path a packet takes is left out, and the data are the number
  of copies per form (full, header, returned) and packet, since sprayed packets
  come in any order.  The history that `is_bad_path()` reads is kept.  The pacer
  is the queue of the one flow.
* *PullPacer*: times are relative (since the last pull, until an event), so
  the state space is finite although the clock goes on.  A flow is an NDP sink;
  a packet that arrives there asks for one pull.

## Runs

TLC finishes each passing run without an error.

| Run | States | Bounds, and why they are enough |
|---|---|---|
| `event_list` | 12 thousand | three sources, four insertions, times 0 to 3, end time 3: two entries tie, a third overtakes, one is cancelled and made again, one falls on the end time |
| `isl_link` | 637 thousand | three packets of size 1 or 2, buffers of 2 or 3, two rates, delays 1 to 3, other sources until time 4: one packet in flight, one in service, one waiting, and one dropped for want of room; the delay shrinks and grows while two are in flight; both with and without reuse of the link |
| `priority_queue` | 16 thousand | six packets, two per level: one waits behind the packet in service on its own level and on every other; up to three entries in the event list |
| `lossless_switch` | 77 thousand | three ports, buffer of 9 packets, hence a high threshold of 3 and a low one of 2; one port hot and its neighbour sending PAUSEs, or two ports hot |
| `tcp_flow` | 30 thousand | five packets after the SYN and a window of three, three troubles (losses, overtakings, early timeouts): fast recovery, a loss in it, and a timeout in it |
| `ndp_flow` | 99 thousand | three packets, two of them unasked; a network that trims twice, one that also returns a packet, drops a returned one, lets feedback overtake and loses feedback once each, and one without routes back that trims, drops a header, overtakes and loses once each |
| `composite_queue` | 56 thousand | six packets, three of which can be returned; room for one data packet or two and for one header or two; data of one size or two; weights 2 and 1 instead of 10 and 1, so the count of turns wraps too |
| `constellation` | 70 thousand | three satellites, three distances, range 2, a step of 1 per update, two nearest refreshed: two may leave and one come in at once, and one inactive satellite is not refreshed; one link between satellites and three pairs |
| `route_search` | 164 thousand | three cities, so that a third one is in the way; three satellites, hence a heap of five; two skies with other uplinks and a short and a long link exchanged; two calls of two routes each: a search after searches of the same and of other pairs, at the same and at another time |
| `sub_flows` | 2.2 million | two paths, two sub-flows, five updates, a control packet and a data packet each under way: a path comes, goes and comes again, and a packet of one sub-flow is used again by the other |
| `link_factory_grown` | | four links in a pool of two that has to grow; the assert fails |
| `pull_pacer` | 3 thousand | three flows, two pulls queued for each, a drain time of two: one ends between two others, and an event comes before and after its pull is due; deadlock is checked |

What they show:

* *event_list*: no entry is before the clock, so the assert in `doNextEvent()`
  cannot fail, and the list implements the calendar.
* *isl_link*: `BooksKept` ties the event list to the packets: the queue has one
  event if and only if it holds a packet, the pipe has one at the arrival time
  of the first packet in flight, the byte count is right, and no assert fails
  unless a dropped link is handed out again.  Packets stay in order, none
  arrives before service and flight are over, and the link drains.
* *priority_queue*: until a PAUSE ends while a packet is in service (see
  below), `OneService` says that no second service starts and no wake-up is
  lost, `OvertakenOnce` bounds the priority inversion by one packet,
  `PauseHonoured` lets one packet go after a PAUSE.
* *lossless_switch*: with one hot port two packets of headroom per port are
  enough and every PAUSE ends.  One packet follows a PAUSE and no wake-up is
  lost whatever the traffic.
* *composite_queue*: `OneService` says that the queue has one event if it holds
  a packet, that no packet is trimmed while it is in service if there is room for
  two, that the byte counts are those of the lists, and that with data of one
  size no assert fails.  `WeightedTurns` and `Moves` exclude starvation.
  `NothingVanishes`: every packet is served in order of its level, or leaves as a
  header that did not fit, and those that can be returned are.
* *constellation*: no satellite is lost or listed twice and the uplinks are
  those on the active list; the factory's arrays list every link once and a
  link's index leads to it (`Listed`; the pool of this run has room for all links,
  the theorem below also covers one that grows); links are reused as pairs, so
  that a remembered reverse stays right (`PairsStay`); the nearest satellite that
  an update looked at is taken when it is in range; and the next update, wherever
  the satellites are then, drops an uplink that is out of range if there is one
  (`Settles`, which looks at the uplinks after each update that may come next).
* *route_search*: within each search the heap stays a heap whatever earlier ones
  left behind, the distances found are those of a reference definition, shortest
  walks over the links on offer, and the routes of one call share no link.
* *sub_flows*: the counts of routes are exact, a route out is never deleted and
  a route back only if no control ack has come over it.
* *link_factory_grown*: the finding, see below.
* *tcp_flow*: the sink acks exactly the prefix it has (`AcksPrefix`), the timer
  runs or its timeout is booked while anything is outstanding (`TimerRuns`), data
  behind the end of the flow are sent only one packet at a time when the sink has
  all in front of them, and without losses, overtakings and early timeouts not at
  all (`WithinFlow`), and the connection implements `ReliableStream` with its
  liveness.
* *ndp_flow*: no packet has two copies, and no more have none than headers and
  returned packets were dropped and acks, nacks and pulls lost (`OneCopy`); the
  packets under way and the pulls not used are never more than the first window,
  acks are a prefix and never go back, and a network that only trims lets the flow
  complete without a timer.
* *pull_pacer*: an event is booked while pulls wait, flows take turns, pulls
  are a drain time apart until a flow ends, and every pull leaves or its flow
  is complete.

`CHECK_DEADLOCK FALSE` is set where the program really stops: the packets of the
bound are sent, the flow is complete, or an assert has ended the program.

### Fairness

All fairness is weak fairness of what the event list dispatches.  The main loop
calls `doNextEvent()` for as long as something is pending, and time goes on, so
an entry in the list is dispatched in the end: `Dispatch` in `IslLink`,
`DoNextEvent` and `Tick` in `PullPacer`, `RemoteCompletesService`,
`ReceivePacket` and `CompleteService` in `LosslessSwitch`, the deliveries in
`TcpFlow` and `NdpFlow`, where a channel stands for queues and pipes that have
such entries.  The scanner of retransmission timers books itself again and
again (`RtxTimerHook`).  `CompleteService` in `CompositeQueue` is such an entry too.  One more is an
assumption on the environment: a neighbour's switch ends its PAUSEs
(`ReceiveResume`).  `Constellation`, `RouteSearch` and `SubFlows` assume no
fairness: what must get right there is said of single steps.  Handing a packet to a queue, losing, trimming
and returning packets, PAUSEs and dropped links have no fairness.

## Proofs

TLAPS proves these for all values of the constants, from the named assumptions
of the modules (numbers are natural numbers, sizes positive).

*Event list* (`EventSwitchProofs`).  `NothingOverdue` is not inductive: after a
dispatch the clock is at the first entry, so the list must be known to be
sorted, and `Insert` keeps it sorted only because its position is an upper
bound.  `IInv` is `TypeOK`, `Good` (sorted by time and then by number, nothing
before the clock, numbers issued already) and `EndsInTime`.  The lemmas state
what `Insert`, `Cancel` and `Tail` do to a sorted list and to the set of its
entries.  From `IInv` follow `TypeCorrect`, `NeverOverdue`, `StopsBeforeEnd`
(the clock never reaches the end time), and `ImplementsCalendar`: every step is
a step of `EventCalendar` or a stutter, with `Cancel` removing exactly the
first booking of the source and dispatch serving the first of all.

*Pull pacer* (`NdpProofs`).  `PacerInv` is `TypeOK`, `NoLostWakeup`, `Turn`
and `OneEvent`.  `TakeTurns` is not inductive: that a flow is passed once is no
reason why it is not passed again.  `Turn` adds the reason, the place of the
iterator: if a waiting flow `f` was passed by `g`, the iterator comes to `f`
before it comes to `g` again.  `Paced` needs `OneEvent`: until a flow ends
the pacer has one event at most, due exactly when the drain time is over, and
has none when nothing waits.  There is a lemma per action and part of `PacerInv`.

*NDP flow* (`NdpProofs`), for any number of packets, initial window and bounds
of the network.  `NdpInv` is the type invariant, `AcksPrefix`, and what these
need: no ack under way is ahead of the sink's (`AcksKnown`), every packet sent
has one copy at most, in the network, nacked, or in the queue of those to send
again, and no more have none than the network has dropped and lost (`CopiesKept`),
and the packets under way and the pulls not used are within the first window
(`PullsKept`).  `OneCopy` and `PullsClock` follow.  A step that loses nothing leaves
every copy count as it is or makes one anew for a packet just sent, so the set of
packets without a copy does not grow; a drop or a lost nack adds one packet to it at
most (`MissingIsFinite`, `CopyLost`).  The number of packets under way is a sum over
packet numbers; as for the link (below) the invariant says that there is a
function of partial sums with that total (`PartialSums`), and each step changes
it in one place.  `InStepWithTheStream` is the
refinement: a step of the flow is `Deliver` or `Learn` of `ReliableStream`, or
neither, whatever the network does.

*TCP connection* (`TransportProofs`), for any packet size, size of the flow,
initial window and number of troubles.  `AcksPrefix` and `TimerRuns` need little
of each other.  For the sink, `InPrefix` says of its ack that all in front of it
has come and the next packet has not; `InOrder` moves the ack over the stretch
of the list that closes up with it, whose end is the largest of a set
(`StretchMovesOn`), and `AboveHole` inserts into a sorted list.  That
sequence numbers are whole packets apart is needed here: a packet above the hole
that is not a whole number of packets away would be passed over.  For the source,
`Sound` says that its window stays open and that it knows nothing acked that it
has not sent, and `Fine` what a handler may send; there is a lemma for each way
through `receivePacket()`.  `WithinFlow` is the hard one.  That nothing comes
twice without trouble needs the whole connection as one line (`Calm`): the acks
under way lead up from what the source knows to the sink's ack, the packets under
way from there to what was sent last, the sink's list is empty, and no timeout is
booked.  Then no duplicate ack arrives, so nothing is retransmitted, and the
timer is off when nothing is under way, so no timeout is booked.
`TcpInStep` is the refinement of the safe part of `ReliableStream`.

*Host queue* (`PriorityQueueProofs`).  `IInv` is `TypeOK`, `OneService`, `Held`
and `Passed`.  `PauseHonoured` is not inductive: `Held` adds that a queue told
to PAUSE is not READY, and counts the packet in service with those that have
left, one in all.  Nor is `OvertakenOnce`: `Passed` adds that a packet that was
overtaken no longer waits for a lower level in service, since every service
after the first takes the highest level that holds a packet.  Both rest on
`OneService`, which `BeginServiceStep` restores for all actions that start a
service.  All three hold until a PAUSE ends early, see the deviations.

*Lossless switch* (`EventSwitchProofs`), for any number of ports.
`NoLostWakeup` and `OneMore` follow from `Protocol`, which says of every queue
which of its three PAUSE states goes with being in service and with how many
packets have left since the PAUSE (`Sound`).  Each operation of a queue keeps
`Sound`; `PauseKeepsProtocol` and `ResumeKeepsProtocol` carry this over to all
neighbours at once.  `LosslessOneHot` is not inductive: the room that is left
after a PAUSE must be tied to what can still come.  `Room` adds it up: the
port's size, the packets in the pipes of other ports, and the neighbours that
are finishing a service, each of which may send one more, are within the buffer.
At the high threshold there are at most two per port, which is the headroom.

*Composite queue* (`CompositeQueueProofs`), for any weights, sizes and packets.
`WeightedTurns` is not inductive either: `Turns` bounds a row of services by the
part of the level's turns that the count has gone through, and the count alone
moves when both levels wait.  `IInv` is that the lists hold
packets with distinct names and that the service matches a level that holds one.
`NoneVanishes` is an action property; it is proved action by action from `IInv`.
`OneService` needs `Served` as well: each level holds what its byte count says
and no more than `_maxsize`, the low one data of the sizes there are and the high
one headers (`Filled`).  From this follow its two claims about trimming.  With
one size of data a packet that does not fit finds one to trim, as an empty level
would have room for it, and fits once it is trimmed.  With room for two packets
one that does not fit finds two, so the newest is not the one in service.

*Sub-flows* (`TransportProofs`), for any paths and bounds.  `SubFlowsInv` is
`SubFlowsTypes`, `Counts` and `Kept`.  `SubFlowsTypes` adds to the types that the time of collection is
never reached, hence nothing is collected, and that no route to the sink is
deleted.  `Counts` is needed of all sub-flows, not only those made, and says of
a deleted route back that nothing is on its way over it.  The lemmas count what
a step does to `Users`, the packets that name a route, in the flight, in two
pools and among those never freed (`UsersChange`); `SetRoute` then changes the
counts by the same amounts.  `Kept` says why a route back is safe: a count of 0
leaves no control ack that was never freed.

*Link* (`StarlinkProofs`), for any sizes, rates, delays and numbers of packets.
`IInv` has a part for runs in which dropped links are handed out again and one
for those in which they are not.  In both the numbers of the packets arrived, in
flight and queued grow in this order (`Ordered`), which gives `InOrder`, and
while the program runs the queue and the pipe have one event each exactly when
they hold something, the pipe's at the time of its first packet (`Booked`).
Without reuse no assert fails: the packets in flight arrive in turn, none later
than one that would leave now (`InTurn`), since between two steps of the clock a
node moves less than light does.  `NeverEarly` needs that the packet in service
is booked late enough and that what is in flight flies for its whole distance
(`Timely`).

The byte counts of this link and of the composite queue are sums over lists, and
no prover here does induction over one.  `Summed` (`SequenceLemmas`) says instead
that there is a function of partial sums with this total; `SummedAppend`,
`SummedTail` and `SummedFront` say what a step at an end of the list makes of it,
and `SummedIsTotal` that the recursive function that the models use is such a
function, since the least place where the two differ cannot exist.

*City* (`StarlinkProofs`), for any satellites, distances and steps.  `EachOnOneList`
is that no update loses a satellite or puts it on both lists.  Each loop of
`update_uplinks()` permutes what the city holds: a full sort
(a permutation, since a map of a finite set onto itself is one to one), one pass
of bubble sort (`InHand` is the entry it carries along, which changes where the next
one is not out of order behind it), and the exchanges at the ends of the lists.
`TakesTheNearest` (`NearestTaken`, an action property) and `SettlesDown` (`Settles`,
an invariant over all updates that may come next) say why one pass is enough: it
brings an entry to the end that none is out of order before (`BubbleLast`), and an
exchange takes all entries from the end up to the first that stays (`KeptIs`).  Nothing is assumed of the order the
lists were left in; that the distances noted are the current ones (`UpToDate`) comes
from the update itself.

*Pool of links under the cities* (`StarlinkProofs`), for any satellites, distances,
numbers of links and any size of the first pool; that there are numbers enough for
the links (`MaxLinks`) is all that is assumed.  `PoolListed` is `Listed`: the counts
of both arrays are right as long as the constellation runs, whether the pool has
grown or not, and until it grows the arrays list every link once.  The counts are what
keeps the free array from being overrun, whose size no code looks at.
`PairsStayTogether` says that until the pool grows links stay in pairs; after that
they need not, see the deviation `link_factory_grown`.
Neither `Listed` nor `PairsStay` is inductive.  `Sound` is what is left of a pool
whose arrays are one block: the counts, and that the cells they reach hold links.
`Books` adds what the arrays
mean before: each link below the count of links made is in one cell of one of the two
arrays, the index stored in the link is that cell, and the cells behind the ends are
not reached.  `PairsHold` says which links are active: those between satellites and,
for each satellite that is an active uplink, a pair; the free array holds pairs as
well, in the order in which they were dropped, so that the two links that
`activate_link()` hands out for an uplink are the two links of one earlier uplink,
or two new ones (`Twins`).  `NetKept` is `Sound` with the count of links of the
city's satellites, and until the pool grows `Books` with `PairsHold` (`NetHolds`);
`NetInv` joins it with `OnOneList` and with the fact that no assert
has failed before the pool grew.  The loops over satellites (`Isls`, `Moving`) are
recursive functions over data; what is proved of each step carries over since the
least step at which it fails cannot exist.

*Route search* (`RouteProofs`), for any cities, satellites, links and delays
(also of 0), any number of routes and of calls, and whatever an uninitialised
`heap_ix` holds.  As everywhere in this module, all is claimed until such an
index has been used (`strayed`); `RouteInv` is the inductive invariant.

* *The heap.*  `Placed` says that each node in the array knows its index, so
  that none is there twice, and `Ordered` that none is nearer than its parent.
  While a node moves up, `Rising` holds: the array is in order but for this
  node and its parent, and the children of its place are not nearer than the
  parent of its place.  `Sinking` is the same downwards, and adds that the cell
  right behind the end, which `min_heapify()` compares too (`<=` and not `<`,
  `binary_heap.cpp:92`), holds the very node that sinks: it is never
  nearer than itself, so `SmallestProperties` never takes it for a child.
  `ExtractMinProperties` adds that the node taken out keeps the index 0, which
  makes a later `decrease_distance()` of it harmless: `move_up()` of the first
  cell does nothing.  That is what `AtRest` keeps for cities of earlier searches.
* *The search.*  `HeapInOrder` needs that distances in the heap are not less than
  that of the node taken out last, and those settled not greater (`Frontier`);
  a link without delay to a settled node thus changes nothing.  `Relaxed` says
  that links of settled nodes that were looked at leave no shorter way, and `Tree` that
  the distance of a node is that of its parent and the delay of the link between them.
* *The way back.*  That the parents do not run in a circle does not follow from
  the distances, as links may have no delay.  `Ranked` says that there is a
  numbering of the nodes, the order in which they are settled, that goes down
  along the parents.  With it the loop of `find_route()` ends (`FindRouteEnds`:
  there are not ranks enough for a way back that does not), passes no node twice, and
  each of its links is one on offer (`WayBack`), so no earlier route has it.  `Found`
  keeps this while uplinks change: a link of a route is kept from the next search
  or was dropped, and one that was dropped is out of range until this call ends,
  so it does not come back on offer (`Gone`, `UpdatesKeep`).
* *Shortest.*  `Lengths` is the reference definition, the shortest walks of up to
  as many links as there are nodes.  By `Relaxed` no walk is shorter than the
  distances (`NoWalkIsShorter`), and by `Tree` and `Ranked` a node is reached at
  its distance after as many links as its rank (`ParentsAreAWalk`).

TLC has checked the parts of `RouteInv` with the constants of `route_search`
before they were proved, `Ranked` with ranks up to the number of nodes.  The loops of the heap and of the search are recursive functions over
data, `MoveUp`, `MinHeapify`, `InsertAll`, `Ancestors` and `Lengths`.  That such a
function exists is `Iterates`: if each step leads from a set into that set, then
there is a function of the steps taken one after the other, since there is no
least number of steps for which there is none.  What holds after each step is then
shown by `UpTo`.

`SequenceLemmas` also holds what several modules need about `Min`, `Max`,
`InsertAt` and `RemoveAt`, about steps taken one after the other, about
ascending sequences, and about how often something occurs.

Checked by TLC only: liveness (`Drains`, `EveryPauseEnds`, `Served`, `Finishes`,
`Moves`, the liveness of `Reliable`), which is out of the prover's reach.

## Deviations

### With a run

* `link_factory_grown`: when the pool grows, `_free_links` is reallocated from
  `_active_links` (`starlink/isl.cpp:26`), and the assert in `drop_link()`
  (line 54) fails after a few calls.  `realloc()` twice to one size gives the
  same block with the usual allocator, which is what the model takes.  The
  default constellation of 8 planes of 66 satellites needs 2112 links between
  satellites, the pool starts with 128.  There the first links of the array are
  those between satellites, which never go; instead of the assert, links that
  cities free overwrite their cells, and `dijkstra_up_all_links()` no longer
  reaches them: once part of a route they are lost to every later search.  A free
  cell may also be overwritten with an active link, so that two uplinks share one:
  the theorem about `PairsStay` and the second half of `Listed` hold until the pool
  grows.

### Without a run

Each is a state the models reach.  To see it, check the formula as an
`INVARIANT` (or `PROPERTY`) with the constants of the run of that module.

* `IslLink`, `NoAssertFails`: `going_down()` leaves packets in flight ("XXX need
  to drop the packets in flight", `starlink/isl.cpp:102`), and the link is
  handed out again with a shorter delay; a packet behind them gets an earlier
  arrival time, and the assert `when>=now()` fails (`eventlist.cpp:45`).
* `PriorityQueue`, `NoAssertFails`: a PAUSE that ends while a packet is in
  service starts a second service (`queue.cpp:231-232`), and the assert on the
  level in service fails (`queue.cpp:278`).  `LosslessQueue` has the test that
  is missing here (`queue_lossless.cpp:62`); `ECNQueue` repeats the code.
* `LosslessSwitch`, `Lossless`: `Switch::sendPause(problem, 0)` (`switch.cpp:11`)
  tells every neighbour to go on, also those that another port has paused and
  still needs paused.  That port's `_state_recv` is `PAUSED`, so it repeats
  nothing (`queue_lossless.cpp:78`), and its queue passes `_maxsize`: the message
  "LOSSLESS not working! I should have dropped this packet"
  (`queue_lossless.cpp:87`).
* `Constellation`, `InRange`: two satellites leave the range at once and one pass
  of bubble sort brings one of them to the end; "everything in _active_uplinks
  should be in range" (`starlink/city.cpp:193`) is wrong until a later update.
  `Settles` says that each update drops one, so that it gets right once no more
  leave the range.
* `TcpFlow`, `OffWhenAllAcked`: the scanner books the timeout a little ahead,
  an ack of all data switches the timer off but does not cancel the booking,
  and the timeout retransmits (`tcp.cpp:218-222` quotes RFC 2988 5.2).
* `TcpFlow`, data only up to `LastByte`: duplicate acks of the last byte, which
  packets sent twice bring about, start a fast retransmit of data behind the end
  of the flow (`tcp.cpp:343`), since `retransmit_packet()` does not look at the
  size of the flow as `send_packets()` does.  The sink takes them.
* `NdpFlow`, `NoStall`: a nack that is overtaken by a later pull finds that its
  pull number is used already.  Its packet then stays in `_rtx_queue`, without a
  pull to send it, although pulls are meant to survive loss (`ndp.cpp:562-565`)
  and no timer to be needed (`ndp.cpp:797-799`).
* `NdpFlow`, `NoStall`, on a network that returns packets (also with one packet
  per flow): the only packet of a flow is trimmed, sent again by the nack's own
  pull, trimmed and returned.  The first nack has raised `_pull_window` though
  it carried its pull (`ndp.cpp:450`; `processAck()` lowers it then, lines
  362-366), so the packet is swallowed as if a pull were to come (`ndp.cpp:301`).
  The comment says that a packet that is the only one left is sent at once
  (lines 294-297).
* `NdpFlow`, `NoStall`, on a network that drops: a queue without room for a header
  that was returned already, or that has no route back, drops it
  (`compositequeue.cpp:159-164`, 219-227).  No nack and no returned packet tells the
  source, and there is no timer, so the packet is never sent again and the flow does
  not end.
* `CompositeQueue`, `~ aborted`: with data of two sizes, or a data packet larger
  than the queue, trimming one packet is not enough and an assert fails
  (`compositequeue.cpp:124`, 172).  All data of an NDP flow have one size.
* `RouteSearch`, `IsHeap(heap, dist)` in a search without `~ strayed`:
  `heap_ix` is not initialised (`starlink/node.cpp:9-12`), and a link to a third
  city that was never part of a search moves up a cell of whatever index it
  holds (`starlink/constellation.cpp:223-232`).
* `RouteSearch`, routes over links that are still there: `get_paths()` updates
  the uplinks once per route, and a later update at the same time can drop a
  link of a route found already, when one pass of bubble sort did not bring it
  to the end before.  The link may be handed out again at once.
  `get_reverse_link()` then finds no reverse and calls `abort()` ("shouldn't get
  here", `xcpnetworktopology.cpp:110-111`).  (`_back_link`, which it looks at
  first, is not initialised by the constructor, `starlink/isl.cpp:69-82`.)
* `SubFlows`, `deleted["back"] = {}`: the route back is owned by no one, its
  count starts at 0 (`xcpnetworktopology.cpp:62`).  When the only packets that
  name it are used again by another sub-flow it is deleted, and used again by
  its sink, although routes are to be deleted "when no-one is using them
  anymore" (`route.h:36-38`).  Control acks, which `XcpSrc::receivePacket()` forgets to
  free (`xcp.cpp:195-222`), keep it, which is what `RoutesKept` says.
* `SubFlows`, `gone = {}`: holds, and should not.  The time of collection starts
  at `INT64_MAX` and is only raised (`mpxcp.cpp:60`, 199), so retired sub-flows
  are kept and go on sending control packets for ever.
* `SubFlows`, `refs` against owners: each time a path is found again the
  reference of the old entry is not given back (`mpxcp.cpp:156-163`), so the
  counts of routes out grow and would not get to 0 if garbage were collected.
* `PullPacer`, `Paced` without `finished = {}`: `release_pulls()` leaves the
  pacer's event in the list (`ndp.cpp:1352-1356`), the next pull books another,
  and from then on pulls leave less than a drain time apart.

## Not modelled

`PROJECT.json` lists every part with the reason.  The control laws of XCP, RCP,
QCN and DCTCP, the coupled windows of MPTCP and the rates of sub-flows are
floating point.  Geometry is real arithmetic.  Loggers observe only.  The
remaining queues, reverse routes and the throughput window of `XcpQueue` are
discrete and planned.  Nearly all lines of the repository are two vendored
copies of Eigen; of the simulator's own code the models cover what decides about
the order of events.

## Plan

1. *Composition*: `Constellation` with `IslLink` behind its links; `NdpFlow` with
   `PullPacer` and `CompositeQueue` in place of its single queue and its counts.
2. *More components*: lossless input and output queues as a variant of
   `LosslessSwitch`, the throughput window of `xcpqueue.cpp`, reverse routes, the
   XCP source as a variant of `TcpFlow`.
