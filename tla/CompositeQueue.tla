--------------------------- MODULE CompositeQueue ---------------------------
(***************************************************************************)
(* The queue of an NDP switch port (compositequeue.cpp): data packets on a *)
(* low level, headers and control packets on a high one, served in turns   *)
(* of RatioHigh to RatioLow while both wait.  When the data do not fit one *)
(* packet is trimmed to its header, by the toss of a coin the one that     *)
(* comes or the newest that waits; a header that does not fit is returned  *)
(* to its sender if that is possible, or dropped.                          *)
(***************************************************************************)
EXTENDS Naturals, Sequences, SequencesExt, Functions

CONSTANTS
  Packets,     \* bound: the packets that are in the queue at the same time
  Returnable,  \* those with a way back that were not returned before
  DataSizes,   \* the sizes of data packets
  HeaderSize,  \* ACKSIZE, the size of a header and of a control packet
  MaxSizes,    \* the values of _maxsize
  RatioHigh,   \* _ratio_high
  RatioLow     \* _ratio_low

ASSUME CompositeQueueAssumption ==
  /\ Packets \subseteq Nat
  /\ Returnable \subseteq Packets
  /\ DataSizes \subseteq Nat \ {0}
  /\ HeaderSize \in Nat \ {0}
  /\ MaxSizes \subseteq Nat
  /\ RatioHigh \in Nat \ {0}
  /\ RatioLow \in Nat \ {0}

VARIABLES
  sizes,      \* the sizes of data packets in this behaviour
  maxsize,    \* _maxsize, fixed
  low,        \* _enqueued_low, the packet that leaves next first
  high,       \* _enqueued_high
  sizeLow,    \* _queuesize_low
  sizeHigh,   \* _queuesize_high
  serv,       \* _serv
  crt,        \* _crt
  events,     \* the number of the queue's entries in the event list
  begun,      \* the packet whose drain time the event in the list stands for
  row,        \* the services in a row for one level while the other one waited
  left,       \* how a packet left in the last step, if one did
  aborted     \* whether an assert has failed, which ends the program

vars == <<sizes, maxsize, low, high, sizeLow, sizeHigh, serv, crt, events, begun,
          row, left, aborted>>

Levels == {"LOW", "HIGH"}
None == [id |-> 0, size |-> 0]
Packet == [id : Packets, size : DataSizes \cup {HeaderSize}]
Header(p) == [id |-> p.id, size |-> HeaderSize]

TypeOK ==
  /\ sizes \in SUBSET DataSizes
  /\ maxsize \in MaxSizes
  /\ low \in Seq(Packet)
  /\ high \in Seq(Packet)
  /\ sizeLow \in Nat
  /\ sizeHigh \in Nat
  /\ serv \in Levels \cup {"INVALID"}
  /\ crt \in 0 .. RatioHigh + RatioLow - 1
  /\ events \in {0, 1}
  /\ begun \in Packet \cup {None}
  /\ row \in [level : Levels, length : Nat]
  /\ left \in {"none", "sent", "returned", "dropped"}
  /\ aborted \in BOOLEAN

Init ==
  /\ sizes \in (SUBSET DataSizes) \ {{}}
  /\ maxsize \in MaxSizes
  /\ low = <<>> /\ high = <<>>
  /\ sizeLow = 0 /\ sizeHigh = 0
  /\ serv = "INVALID"
  /\ crt = 0
  /\ events = 0
  /\ begun = None
  /\ row = [level |-> "HIGH", length |-> 0]
  /\ left = "none"
  /\ aborted = FALSE

-----------------------------------------------------------------------------
(* Fault: the count of turns wraps one too late. *)
NextTurnFault(c) == IF c + 1 > RatioHigh + RatioLow THEN 0 ELSE c + 1

(* _crt, once more service has begun with packets on both levels.          *)
NextTurn(c) == IF c + 1 >= RatioHigh + RatioLow THEN 0 ELSE c + 1

(* Fault: headers always go first. *)
LevelAtFault(c) == "HIGH"

(* The level whose turn it is. *)
LevelAt(c) == IF c < RatioHigh THEN "HIGH" ELSE "LOW"

(* Bound: rows are counted up to here, which is more than is allowed.      *)
MaxRow == RatioHigh + RatioLow

(* beginService() with the lists l and h, one of which holds a packet, and *)
(* e entries in the event list.                                            *)
BeginService(l, h, e) ==
  LET both == l # <<>> /\ h # <<>>
      turn == IF both THEN NextTurn(crt) ELSE crt
      level == IF both THEN LevelAt(turn) ELSE IF h # <<>> THEN "HIGH" ELSE "LOW"
  IN /\ crt' = turn
     /\ serv' = level
     /\ events' = e + 1
     /\ begun' = IF level = "HIGH" THEN Head(h) ELSE Head(l)
     /\ row' = [level |-> level,
                length |-> IF ~ both THEN 0
                           ELSE IF row.level # level THEN 1
                           ELSE IF row.length < MaxRow THEN row.length + 1 ELSE MaxRow]

GoOn == UNCHANGED <<serv, crt, events, begun, row>>

StartIfIdle(l, h) ==
  IF serv = "INVALID" THEN BeginService(l, h, events) ELSE GoOn

-----------------------------------------------------------------------------
(* Fault: a header that does not fit is always dropped. *)
RejectedFault(p) == "dropped"

(* bounce() returns a packet to its sender, once; others are freed.        *)
Rejected(p) == IF p.id \in Returnable THEN "returned" ELSE "dropped"

HeaderFits == sizeHigh + HeaderSize <= maxsize

(* The header of p joins the high level, or leaves for want of room.       *)
TakeHeader(p) ==
  IF HeaderFits
    THEN /\ high' = Append(high, Header(p))
         /\ sizeHigh' = sizeHigh + HeaderSize
         /\ left' = "none"
    ELSE /\ left' = Rejected(p)
         /\ UNCHANGED <<high, sizeHigh>>

Fits(p) == sizeLow + p.size <= maxsize

(* A header comes, or a data packet that is trimmed as it comes.           *)
ReceiveHeader(p) ==
  /\ TakeHeader(p)
  /\ IF HeaderFits THEN StartIfIdle(low, high') ELSE GoOn
  /\ UNCHANGED <<low, sizeLow, aborted>>

(* A data packet finds room. *)
ReceiveData(p) ==
  /\ Fits(p)
  /\ low' = Append(low, p)
  /\ sizeLow' = sizeLow + p.size
  /\ StartIfIdle(low', high)
  /\ left' = "none"
  /\ UNCHANGED <<high, sizeHigh, aborted>>

(* The position of the packet that is trimmed to make room: the newest.    *)
Booted(l) == Len(l)

(* Fault: the packet is stripped before its size is taken off. *)
SizeWithoutFault(p) == sizeLow - HeaderSize

SizeWithout(p) == sizeLow - p.size

(* The newest data packet is trimmed to make room for p: its assert that   *)
(* there is one, and the one that this is enough.                          *)
MakeRoom(p) ==
  /\ ~ Fits(p)
  /\ IF low = <<>>
       THEN /\ aborted' = TRUE
            /\ left' = "none"
            /\ GoOn
            /\ UNCHANGED <<low, high, sizeLow, sizeHigh>>
       ELSE LET booted == low[Booted(low)]
                kept == RemoveAt(low, Booted(low))
            IN /\ TakeHeader(booted)
               /\ IF SizeWithout(booted) + p.size <= maxsize
                    THEN /\ low' = Append(kept, p)
                         /\ sizeLow' = SizeWithout(booted) + p.size
                         /\ StartIfIdle(low', high')
                         /\ UNCHANGED aborted
                    ELSE /\ low' = kept
                         /\ sizeLow' = SizeWithout(booted)
                         /\ aborted' = TRUE
                         /\ GoOn

(* No room, and the coin decides for the packet that comes. *)
TrimArriving(p) == ~ Fits(p) /\ ReceiveHeader(p)

Queued(id) == id \in {p.id : p \in Range(low) \cup Range(high)}

(* receivePacket(): of the packets of a kind it does not matter which one. *)
ReceivePacket ==
  /\ ~ aborted
  /\ \E kind \in {Returnable, Packets \ Returnable} :
       LET free == {i \in kind : ~ Queued(i)}
           Sized(n) == [id |-> Min(free), size |-> n]
       IN /\ free # {}
          /\ \/ ReceiveHeader(Sized(HeaderSize))
             \/ \E n \in sizes : \/ ReceiveData(Sized(n))
                                 \/ MakeRoom(Sized(n))
                                 \/ TrimArriving(Sized(n))
  /\ UNCHANGED <<sizes, maxsize>>

(* completeService(): the oldest packet of the level in service leaves.    *)
CompleteService ==
  /\ ~ aborted
  /\ events > 0
  /\ IF serv = "INVALID" \/ (IF serv = "LOW" THEN low ELSE high) = <<>>
       THEN /\ aborted' = TRUE
            /\ left' = "none"
            /\ GoOn
            /\ UNCHANGED <<low, high, sizeLow, sizeHigh>>
       ELSE /\ IF serv = "LOW"
                 THEN /\ sizeLow' = sizeLow - Head(low).size
                      /\ low' = Tail(low)
                      /\ UNCHANGED <<high, sizeHigh>>
                 ELSE /\ sizeHigh' = sizeHigh - Head(high).size
                      /\ high' = Tail(high)
                      /\ UNCHANGED <<low, sizeLow>>
            /\ left' = "sent"
            /\ IF low' = <<>> /\ high' = <<>>
                 THEN /\ serv' = "INVALID" /\ events' = events - 1 /\ begun' = None
                      /\ UNCHANGED <<crt, row>>
                 ELSE BeginService(low', high', events - 1)
            /\ UNCHANGED aborted
  /\ UNCHANGED <<sizes, maxsize>>

Next == ReceivePacket \/ CompleteService

(* The event list serves every entry in the end. *)
Spec == Init /\ [][Next]_vars /\ WF_vars(CompleteService)

-----------------------------------------------------------------------------
(* The sum of the sizes of the packets of s (a recursive function and not  *)
(* a fold, for the proof to unfold).                                       *)
SumOf(s) ==
  LET sum[n \in 0 .. Len(s)] == IF n = 0 THEN 0 ELSE sum[n - 1] + s[n].size
  IN  sum[Len(s)]

FirstInService == Head(IF serv = "LOW" THEN low ELSE high)
OneSize == \E n \in sizes : sizes = {n} /\ n <= maxsize

(* When all data packets have one size, as those of an NDP flow, trimming  *)
(* one makes room for another, and no assert fails.                        *)
NoAssertFails == OneSize => ~ aborted

(* A packet is never trimmed, nor another one sent in its place, while it  *)
(* is in service, so each gets its own drain time - provided that there is *)
(* room for two of the largest.                                            *)
FullService ==
  (\A n \in sizes : 2 * n <= maxsize) /\ events = 1 =>
    begun = FirstInService

(* While the program runs the queue has one event if it holds a packet,    *)
(* for a level that holds one, and none otherwise.                         *)
ServiceEvent ==
  ~ aborted =>
    /\ events = IF low = <<>> /\ high = <<>> THEN 0 ELSE 1
    /\ serv = "INVALID" <=> events = 0
    /\ serv = "LOW" => low # <<>>
    /\ serv = "HIGH" => high # <<>>

(* The queue serves what it holds, one packet at a time and each in full,  *)
(* and both byte counts are those of the lists, whatever was trimmed, and  *)
(* within _maxsize.                                                        *)
OneService ==
  /\ TypeOK
  /\ NoAssertFails
  /\ FullService
  /\ ServiceEvent
  /\ sizeLow = SumOf(low) /\ sizeLow <= maxsize
  /\ sizeHigh = SumOf(high) /\ sizeHigh <= maxsize

(* While data wait, at most RatioHigh headers are served in a row, and     *)
(* while headers wait at most RatioLow data packets, although the count of *)
(* turns stands still whenever one level is empty.                         *)
WeightedTurns ==
  row.length <= IF row.level = "HIGH" THEN RatioHigh ELSE RatioLow

(* A packet is in the queue once, and leaves it by being served first on   *)
(* its level, or as a header for which there was no room; what can be      *)
(* returned to its sender is never dropped.                                *)
NothingVanishes ==
  [][/\ IsInjective([i \in DOMAIN (low \o high)' |-> (low \o high)'[i].id])
     /\ \A p \in Packets :
          Queued(p) /\ ~ Queued(p)' =>
            \/ left' = "sent" /\ p = FirstInService.id
            \/ left' = "returned" /\ p \in Returnable /\ ~ HeaderFits
            \/ left' = "dropped" /\ p \notin Returnable /\ ~ HeaderFits
    ]_vars

OnLevel(id, l) == \E i \in DOMAIN l : l[i].id = id

(* However many headers come, every data packet leaves its level, and so   *)
(* does every header, however many data packets come.                      *)
Moves ==
  \A p \in Packets : /\ OnLevel(p, low) ~> ~ OnLevel(p, low) \/ aborted
                     /\ OnLevel(p, high) ~> ~ OnLevel(p, high) \/ aborted
=============================================================================
