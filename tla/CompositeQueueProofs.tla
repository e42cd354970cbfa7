------------------------ MODULE CompositeQueueProofs ------------------------
(***************************************************************************)
(* Proofs about the composite queue, for any ratio of headers to data, any *)
(* sizes and any number of packets: the service in turns, the one event    *)
(* that serves the queue, that no packet vanishes, the byte counts, and    *)
(* that each packet is served in full.                                     *)
(***************************************************************************)
EXTENDS CompositeQueue, SequenceLemmas

LEMMA Constants ==
  /\ Packets \subseteq Nat
  /\ RatioHigh \in Nat \ {0}
  /\ RatioLow \in Nat \ {0}
  BY CompositeQueueAssumption

-----------------------------------------------------------------------------
(* How long a row of services for one level may be at the count c: at most *)
(* as long as the part of its turns that is over, and none in the turns of *)
(* the other level.                                                        *)
Allowance(level, c) ==
  IF level = "HIGH" THEN IF c < RatioHigh THEN c + 1 ELSE 0
                    ELSE IF c < RatioHigh THEN 0 ELSE c - RatioHigh + 1

Turns ==
  /\ crt \in 0 .. RatioHigh + RatioLow - 1
  /\ row \in [level : Levels, length : Nat]
  /\ row.length <= Allowance(row.level, crt)

(* A service that begins with packets on both levels is one more turn.     *)
LEMMA BeginKeepsTurns ==
  ASSUME Turns, NEW l, NEW h, NEW e, BeginService(l, h, e)
  PROVE  Turns'
<1> DEFINE both == l # <<>> /\ h # <<>>
           turn == IF both THEN NextTurn(crt) ELSE crt
           level == IF both THEN LevelAt(turn) ELSE IF h # <<>> THEN "HIGH" ELSE "LOW"
           length == IF ~ both THEN 0
                     ELSE IF row.level # level THEN 1
                     ELSE IF row.length < MaxRow THEN row.length + 1 ELSE MaxRow
<1>1. crt' = turn /\ row' = [level |-> level, length |-> length]
  BY DEF BeginService
<1>2. RatioHigh \in Nat /\ RatioHigh > 0 /\ RatioLow \in Nat /\ RatioLow > 0
  BY Constants
<1>3. level \in Levels
  BY DEF Levels, LevelAt
<1>4. CASE ~ both
  <2>1. crt' = crt /\ row' = [level |-> level, length |-> 0]
    BY <1>1, <1>4
  <2>2. crt \in 0 .. RatioHigh + RatioLow - 1 /\ 0 <= Allowance(level, crt)
    BY <1>2 DEF Turns, Allowance
  <2> QED BY <1>3, <2>1, <2>2 DEF Turns
<1>5. CASE both
  <2>1. turn = NextTurn(crt) /\ level = LevelAt(turn)
    BY <1>5
  <2>2. crt \in 0 .. RatioHigh + RatioLow - 1 /\ row.level \in Levels /\ row.length \in Nat
    BY DEF Turns
  <2>3. turn \in 0 .. RatioHigh + RatioLow - 1
    BY <1>2, <2>1, <2>2 DEF NextTurn
  <2>4. length \in Nat /\ length <= Allowance(level, turn)
    <3>1. CASE row.level # level
      <4>1. length = 1
        BY <1>5, <3>1
      <4>2. 1 <= Allowance(level, turn)
        BY <1>2, <2>1, <2>3 DEF Allowance, LevelAt
      <4> QED BY <4>1, <4>2
    <3>2. CASE row.level = level
      <4>1. row.length <= Allowance(level, crt)
        BY <3>2 DEF Turns
      <4> HIDE DEF level, turn
      <4>2. row.length + 1 <= Allowance(level, turn)
        BY <1>2, <2>1, <2>2, <4>1 DEF Allowance, LevelAt, NextTurn
      <4>3. Allowance(level, turn) <= MaxRow
        BY <1>2, <2>3 DEF Allowance, MaxRow
      <4>4. Allowance(level, turn) \in Nat /\ MaxRow \in Nat
        BY <1>2, <2>3 DEF Allowance, MaxRow
      <4>5. row.length < MaxRow
        BY <2>2, <4>2, <4>3, <4>4
      <4>6. length = row.length + 1
        BY <1>5, <3>2, <4>5
      <4> QED BY <2>2, <4>2, <4>6
    <3> QED BY <3>1, <3>2
  <2> HIDE DEF turn, level, length
  <2> QED BY <1>1, <1>3, <2>3, <2>4 DEF Turns
<1> QED BY <1>4, <1>5

LEMMA StartKeepsTurns ==
  ASSUME Turns, NEW l, NEW h, StartIfIdle(l, h) \/ GoOn
  PROVE  Turns'
<1>1. CASE BeginService(l, h, events)
  BY <1>1, BeginKeepsTurns
<1>2. CASE GoOn
  BY <1>2 DEF GoOn, Turns
<1> QED BY <1>1, <1>2 DEF StartIfIdle

LEMMA TurnsInvariant == Spec => []Turns
<1>1. Init => Turns
  BY Constants DEF Init, Turns, Allowance, Levels
<1>2. Turns /\ [Next]_vars => Turns'
  <2> SUFFICES ASSUME Turns, [Next]_vars PROVE Turns'
    OBVIOUS
  <2>1. CASE UNCHANGED vars
    BY <2>1 DEF vars, Turns
  <2>2. ASSUME NEW p, ReceiveHeader(p) PROVE Turns'
    BY <2>2, StartKeepsTurns DEF ReceiveHeader
  <2>3. ASSUME NEW p, ReceiveData(p) PROVE Turns'
    BY <2>3, StartKeepsTurns DEF ReceiveData
  <2>4. ASSUME NEW p, MakeRoom(p) PROVE Turns'
    <3>1. StartIfIdle(low', high') \/ GoOn
      BY <2>4 DEF MakeRoom
    <3> QED BY <3>1, StartKeepsTurns
  <2>5. CASE ReceivePacket
    BY <2>2, <2>3, <2>4, <2>5 DEF ReceivePacket, TrimArriving
  <2>6. CASE CompleteService
    <3>1. GoOn \/ UNCHANGED <<crt, row>> \/ BeginService(low', high', events - 1)
      BY <2>6 DEF CompleteService
    <3>2. CASE UNCHANGED <<crt, row>>
      BY <3>2 DEF Turns
    <3>3. CASE GoOn
      BY <3>3, StartKeepsTurns
    <3>4. CASE BeginService(low', high', events - 1)
      BY <3>4, BeginKeepsTurns
    <3> QED BY <3>1, <3>2, <3>3, <3>4
  <2> QED BY <2>1, <2>5, <2>6 DEF Next
<1> QED BY <1>1, <1>2, PTL DEF Spec

(* While both levels wait each is served in rows that are no longer than   *)
(* its weight, for any two weights.                                        *)
THEOREM ServesInTurns == Spec => []WeightedTurns
<1>1. Turns => WeightedTurns
  BY Constants DEF Turns, WeightedTurns, Allowance, Levels
<1> QED BY <1>1, TurnsInvariant, PTL

-----------------------------------------------------------------------------
(* The packets of one list have different ids. *)
IdsOf(s) == {s[i].id : i \in 1 .. Len(s)}
Distinct(s) == \A i, j \in 1 .. Len(s) : s[i].id = s[j].id => i = j

LEMMA AppendKeepsDistinct ==
  ASSUME NEW s \in Seq(Packet), NEW p \in Packet, Distinct(s), p.id \notin IdsOf(s)
  PROVE  /\ Append(s, p) \in Seq(Packet) /\ Append(s, p) # <<>>
         /\ Distinct(Append(s, p))
         /\ IdsOf(Append(s, p)) = IdsOf(s) \cup {p.id}
<1> DEFINE t == Append(s, p)
<1>1. /\ t \in Seq(Packet) /\ Len(t) = Len(s) + 1 /\ Len(s) \in Nat
      /\ \A i \in 1 .. Len(s) : t[i] = s[i]
      /\ t[Len(s) + 1] = p
  OBVIOUS
<1> HIDE DEF t
<1>2. Distinct(t)
  BY <1>1 DEF Distinct, IdsOf
<1>3. IdsOf(t) = IdsOf(s) \cup {p.id}
  <2>1. \A i \in 1 .. Len(t) : t[i].id \in IdsOf(s) \cup {p.id}
    BY <1>1 DEF IdsOf
  <2>2. \A i \in 1 .. Len(s) : s[i].id \in IdsOf(t)
    BY <1>1 DEF IdsOf
  <2>3. p.id \in IdsOf(t)
    <3>1. Len(t) \in 1 .. Len(t) /\ t[Len(t)] = p
      BY <1>1
    <3> QED BY <3>1, Zenon DEF IdsOf
  <2> QED BY <2>1, <2>2, <2>3 DEF IdsOf
<1>4. t # <<>>
  BY <1>1
<1> QED BY <1>1, <1>2, <1>3, <1>4 DEF t

LEMMA TailKeepsDistinct ==
  ASSUME NEW s \in Seq(Packet), Distinct(s), s # <<>>
  PROVE  /\ Tail(s) \in Seq(Packet)
         /\ Distinct(Tail(s))
         /\ IdsOf(Tail(s)) = IdsOf(s) \ {Head(s).id}
<1> DEFINE t == Tail(s)
<1>1. /\ t \in Seq(Packet) /\ Len(t) = Len(s) - 1 /\ Len(s) \in Nat \ {0}
      /\ \A i \in 1 .. Len(t) : t[i] = s[i + 1]
      /\ Head(s) = s[1]
  OBVIOUS
<1> HIDE DEF t
<1>2. Distinct(t)
  BY <1>1 DEF Distinct
<1>3. ASSUME NEW i \in 1 .. Len(t)
      PROVE  t[i].id \in IdsOf(s) \ {s[1].id}
  <2>1. i + 1 \in 1 .. Len(s) /\ 1 \in 1 .. Len(s) /\ i + 1 # 1
    BY <1>1
  <2>2. s[i + 1].id # s[1].id
    BY <2>1 DEF Distinct
  <2>3. s[i + 1].id \in IdsOf(s)
    BY <2>1 DEF IdsOf
  <2> QED BY <1>1, <2>2, <2>3
<1>4. ASSUME NEW i \in 1 .. Len(s), i # 1
      PROVE  s[i].id \in IdsOf(t)
  <2>1. i - 1 \in 1 .. Len(t) /\ t[i - 1] = s[i]
    BY <1>1, <1>4
  <2> QED BY <2>1, Zenon DEF IdsOf
<1>5. IdsOf(t) = IdsOf(s) \ {s[1].id}
  BY <1>3, <1>4 DEF IdsOf
<1> QED BY <1>1, <1>2, <1>5 DEF t

LEMMA RemoveLastKeepsDistinct ==
  ASSUME NEW s \in Seq(Packet), Distinct(s), s # <<>>
  PROVE  LET t == RemoveAt(s, Len(s))
         IN  /\ t \in Seq(Packet)
             /\ Distinct(t)
             /\ s[Len(s)] \in Packet
             /\ s[Len(s)].id \in IdsOf(s)
             /\ IdsOf(t) = IdsOf(s) \ {s[Len(s)].id}
<1> DEFINE n == Len(s)
           t == RemoveAt(s, n)
<1>1. n \in Nat \ {0} /\ n \in 1 .. n
  OBVIOUS
<1>2. /\ t \in Seq(Packet) /\ Len(t) = n - 1
      /\ \A i \in 1 .. n - 1 : t[i] = IF i < n THEN s[i] ELSE s[i + 1]
  BY <1>1, RemoveAtProperties
<1>3. \A i \in 1 .. Len(t) : i \in 1 .. n /\ i # n /\ t[i] = s[i]
  BY <1>1, <1>2
<1> HIDE DEF t
<1>4. Distinct(t)
  BY <1>3 DEF Distinct
<1>5. ASSUME NEW i \in 1 .. Len(t)
      PROVE  t[i].id \in IdsOf(s) \ {s[n].id}
  <2>1. s[i].id # s[n].id
    BY <1>1, <1>3 DEF Distinct
  <2> QED BY <1>3, <2>1 DEF IdsOf
<1>6. ASSUME NEW i \in 1 .. n, i # n
      PROVE  s[i].id \in IdsOf(t)
  <2>1. i \in 1 .. Len(t) /\ t[i] = s[i]
    BY <1>1, <1>2, <1>3, <1>6
  <2> QED BY <2>1, Zenon DEF IdsOf
<1>7. IdsOf(t) = IdsOf(s) \ {s[n].id}
  BY <1>5, <1>6 DEF IdsOf
<1>8. s[n] \in Packet /\ s[n].id \in IdsOf(s)
  <2>1. s[n] \in Packet
    BY <1>1
  <2>2. s[n].id \in IdsOf(s)
    BY <1>1, Zenon DEF IdsOf
  <2> QED BY <2>1, <2>2
<1> QED BY <1>2, <1>4, <1>7, <1>8 DEF t

-----------------------------------------------------------------------------
(* The lists hold packets, each of them once, and are served.              *)
Lists ==
  /\ low \in Seq(Packet) /\ high \in Seq(Packet)
  /\ Distinct(low) /\ Distinct(high)
  /\ IdsOf(low) \cap IdsOf(high) = {}

Service ==
  /\ serv \in Levels \cup {"INVALID"}
  /\ events \in {0, 1}
  /\ sizes \subseteq DataSizes
  /\ ServiceEvent

IInv == Lists /\ Service

LEMMA IdsOfBoth ==
  ASSUME NEW l \in Seq(Packet), NEW h \in Seq(Packet)
  PROVE  {p.id : p \in Range(l) \cup Range(h)} = IdsOf(l) \cup IdsOf(h)
<1>1. DOMAIN l = 1 .. Len(l) /\ DOMAIN h = 1 .. Len(h)
  OBVIOUS
<1> QED BY <1>1 DEF IdsOf, Range

LEMMA QueuedIds ==
  ASSUME Lists, NEW id
  PROVE  Queued(id) <=> id \in IdsOf(low) \cup IdsOf(high)
  BY IdsOfBoth DEF Queued, Lists

(* A header takes its place on the high level, or is turned away.          *)
LEMMA HeaderTaken ==
  ASSUME Lists, NEW p \in Packet, p.id \notin IdsOf(high), TakeHeader(p)
  PROVE  /\ high' \in Seq(Packet) /\ Distinct(high')
         /\ \/ IdsOf(high') = IdsOf(high) \cup {p.id} /\ high' # <<>>
            \/ high' = high /\ ~ HeaderFits /\ left' = Rejected(p)
<1>1. CASE HeaderFits
  <2>1. Header(p) \in Packet /\ Header(p).id = p.id
    BY DEF Header, Packet
  <2>2. high' = Append(high, Header(p))
    BY <1>1 DEF TakeHeader
  <2> QED BY <2>1, <2>2, AppendKeepsDistinct DEF Lists
<1>2. CASE ~ HeaderFits
  BY <1>2 DEF TakeHeader, Lists
<1> QED BY <1>1, <1>2

(* Service that begins books the one event, for a level that has a packet. *)
LEMMA Begins ==
  ASSUME NEW l, NEW h, l # <<>> \/ h # <<>>, NEW e \in Nat, BeginService(l, h, e)
  PROVE  /\ serv' \in Levels /\ events' = e + 1
         /\ serv' = "LOW" => l # <<>>
         /\ serv' = "HIGH" => h # <<>>
  BY DEF BeginService, LevelAt, Levels

LEMMA Starts ==
  ASSUME Service, ~ aborted, ~ aborted', low' # <<>> \/ high' # <<>>,
         low # <<>> => low' # <<>>, high # <<>> => high' # <<>>,
         StartIfIdle(low', high') \/ (serv # "INVALID" /\ GoOn),
         UNCHANGED sizes
  PROVE  Service'
<1>1. CASE serv = "INVALID"
  <2>1. events = 0
    BY <1>1 DEF Service, ServiceEvent
  <2>2. BeginService(low', high', 0)
    BY <1>1, <2>1 DEF StartIfIdle
  <2>3. /\ serv' \in Levels /\ events' = 1
        /\ serv' = "LOW" => low' # <<>>
        /\ serv' = "HIGH" => high' # <<>>
    <3>1. \A e \in Nat : BeginService(low', high', e) =>
            /\ serv' \in Levels /\ events' = e + 1
            /\ serv' = "LOW" => low' # <<>>
            /\ serv' = "HIGH" => high' # <<>>
      BY Begins
    <3> QED BY <2>2, <3>1
  <2> QED BY <2>3 DEF Service, ServiceEvent, Levels
<1>2. CASE serv # "INVALID"
  BY <1>2 DEF StartIfIdle, GoOn, Service, ServiceEvent, Levels
<1> QED BY <1>1, <1>2

-----------------------------------------------------------------------------
(* What a step makes of the ids: p is the packet that comes. *)
NewPacket(p) == p \in Packet /\ ~ Queued(p.id)

LEMMA HeaderKeeps ==
  ASSUME IInv, ~ aborted, UNCHANGED sizes, NEW p, NewPacket(p), ReceiveHeader(p)
  PROVE  IInv' /\ IdsOf(low) \cup IdsOf(high) \subseteq IdsOf(low') \cup IdsOf(high')
<1>1. /\ p \in Packet /\ p.id \notin IdsOf(low) /\ p.id \notin IdsOf(high)
      /\ Lists /\ Service
  BY QueuedIds DEF NewPacket, IInv
<1>2. low' = low /\ aborted' = aborted /\ TakeHeader(p)
  BY DEF ReceiveHeader
<1>3. /\ high' \in Seq(Packet) /\ Distinct(high')
      /\ \/ IdsOf(high') = IdsOf(high) \cup {p.id} /\ high' # <<>>
         \/ high' = high
  BY <1>1, <1>2, HeaderTaken
<1>4. Lists'
  BY <1>1, <1>2, <1>3 DEF Lists
<1>5. Service'
  <2>1. CASE HeaderFits
    <3>1. high' # <<>> /\ StartIfIdle(low', high')
      BY <1>1, <1>2, <2>1 DEF TakeHeader, ReceiveHeader, Lists
    <3> QED BY <1>1, <1>2, <3>1, Starts
  <2>2. CASE ~ HeaderFits
    <3>1. high' = high /\ GoOn
      BY <1>2, <2>2 DEF TakeHeader, ReceiveHeader
    <3> QED BY <1>1, <1>2, <3>1 DEF GoOn, Service, ServiceEvent
  <2> QED BY <2>1, <2>2
<1> QED BY <1>2, <1>3, <1>4, <1>5 DEF IInv

LEMMA DataKeeps ==
  ASSUME IInv, ~ aborted, UNCHANGED sizes, NEW p, NewPacket(p), ReceiveData(p)
  PROVE  IInv' /\ IdsOf(low) \cup IdsOf(high) \subseteq IdsOf(low') \cup IdsOf(high')
<1>1. /\ p \in Packet /\ p.id \notin IdsOf(low) /\ p.id \notin IdsOf(high)
      /\ Lists /\ Service
  BY QueuedIds DEF NewPacket, IInv
<1>2. /\ high' = high /\ aborted' = aborted
      /\ low' = Append(low, p) /\ StartIfIdle(low', high')
  BY DEF ReceiveData
<1>3. /\ low' \in Seq(Packet) /\ low' # <<>> /\ Distinct(low')
      /\ IdsOf(low') = IdsOf(low) \cup {p.id}
  BY <1>1, <1>2, AppendKeepsDistinct DEF Lists
<1>4. Lists'
  BY <1>1, <1>2, <1>3 DEF Lists
<1>5. Service'
  BY <1>1, <1>2, <1>3, Starts
<1> QED BY <1>2, <1>3, <1>4, <1>5 DEF IInv

(* The newest packet of the low level goes to the high level, or is turned *)
(* away; no other one goes.                                                *)
LEMMA MakeRoomKeeps ==
  ASSUME IInv, ~ aborted, UNCHANGED sizes, NEW p, NewPacket(p), MakeRoom(p)
  PROVE  /\ IInv'
         /\ \A id \in IdsOf(low) \cup IdsOf(high) :
              \/ id \in IdsOf(low') \cup IdsOf(high')
              \/ ~ HeaderFits /\ left' = IF id \in Returnable THEN "returned" ELSE "dropped"
<1> DEFINE booted == low[Len(low)]
           kept == RemoveAt(low, Len(low))
<1>1. /\ p \in Packet /\ p.id \notin IdsOf(low) /\ p.id \notin IdsOf(high)
      /\ Lists /\ Service
  BY QueuedIds DEF NewPacket, IInv
<1>2. CASE low = <<>>
  <2>1. UNCHANGED <<low, high>> /\ GoOn /\ aborted' = TRUE
    BY <1>2 DEF MakeRoom
  <2>2. Lists' /\ IdsOf(low') \cup IdsOf(high') = IdsOf(low) \cup IdsOf(high)
    BY <1>1, <2>1 DEF Lists
  <2>3. Service'
    BY <1>1, <2>1 DEF GoOn, Service, ServiceEvent
  <2> QED BY <2>2, <2>3 DEF IInv
<1>3. CASE low # <<>>
  <2>1. /\ kept \in Seq(Packet) /\ Distinct(kept)
        /\ booted \in Packet /\ booted.id \in IdsOf(low)
        /\ IdsOf(kept) = IdsOf(low) \ {booted.id}
    BY <1>1, <1>3, RemoveLastKeepsDistinct DEF Lists
  <2>2. /\ TakeHeader(booted)
        /\ \/ /\ low' = Append(kept, p) /\ StartIfIdle(low', high') /\ UNCHANGED aborted
           \/ /\ low' = kept /\ GoOn /\ aborted' = TRUE
    BY <1>3 DEF MakeRoom, Booted
  <2> HIDE DEF kept, booted
  <2>3. booted.id \notin IdsOf(high)
    BY <1>1, <2>1 DEF Lists
  <2>4. /\ high' \in Seq(Packet) /\ Distinct(high')
        /\ \/ IdsOf(high') = IdsOf(high) \cup {booted.id} /\ high' # <<>>
           \/ high' = high /\ ~ HeaderFits /\ left' = Rejected(booted)
    BY <1>1, <2>1, <2>2, <2>3, HeaderTaken
  <2>5. /\ low' \in Seq(Packet) /\ Distinct(low')
        /\ IdsOf(kept) \subseteq IdsOf(low')
        /\ IdsOf(low') \subseteq IdsOf(kept) \cup {p.id}
    <3>1. CASE low' = kept
      BY <2>1, <3>1
    <3>2. CASE low' = Append(kept, p)
      BY <1>1, <2>1, <3>2, AppendKeepsDistinct
    <3> QED BY <2>2, <3>1, <3>2
  <2>6. Lists'
    <3>1. IdsOf(low') \cap IdsOf(high') = {}
      BY <1>1, <2>1, <2>3, <2>4, <2>5 DEF Lists
    <3> QED BY <2>4, <2>5, <3>1 DEF Lists
  <2>7. Service'
    <3>1. CASE low' = Append(kept, p) /\ StartIfIdle(low', high') /\ UNCHANGED aborted
      <4>1. low' # <<>>
        BY <1>1, <2>1, <3>1, AppendKeepsDistinct
      <4>2. high # <<>> => high' # <<>>
        BY <2>4
      <4> QED BY <1>1, <3>1, <4>1, <4>2, Starts
    <3>2. CASE GoOn /\ aborted' = TRUE
      BY <1>1, <3>2 DEF GoOn, Service, ServiceEvent
    <3> QED BY <2>2, <3>1, <3>2
  <2>8. \A id \in IdsOf(low) \cup IdsOf(high) :
          \/ id \in IdsOf(low') \cup IdsOf(high')
          \/ /\ ~ HeaderFits
             /\ left' = IF id \in Returnable THEN "returned" ELSE "dropped"
    BY <2>1, <2>4, <2>5 DEF Rejected
  <2> QED BY <2>6, <2>7, <2>8 DEF IInv
<1> QED BY <1>2, <1>3

(* The packet that is served is the first of its level; no other one goes. *)
LEMMA CompleteKeeps ==
  ASSUME IInv, CompleteService
  PROVE  /\ IInv'
         /\ \A id \in IdsOf(low) \cup IdsOf(high) :
              \/ id \in IdsOf(low') \cup IdsOf(high')
              \/ left' = "sent" /\ id = FirstInService.id
<1> DEFINE l == IF serv = "LOW" THEN low ELSE high
<1>1. Lists /\ Service /\ ~ aborted /\ UNCHANGED sizes
  BY DEF IInv, CompleteService
<1>2. serv \in Levels /\ l # <<>> /\ events = 1
  BY <1>1 DEF CompleteService, Service, ServiceEvent, Levels
<1>3. /\ low' = IF serv = "LOW" THEN Tail(low) ELSE low
      /\ high' = IF serv = "LOW" THEN high ELSE Tail(high)
      /\ left' = "sent"
      /\ UNCHANGED aborted
      /\ IF low' = <<>> /\ high' = <<>>
           THEN serv' = "INVALID" /\ events' = 0
           ELSE BeginService(low', high', 0)
  BY <1>2 DEF CompleteService, Levels
<1>4. /\ low' \in Seq(Packet) /\ Distinct(low')
      /\ high' \in Seq(Packet) /\ Distinct(high')
      /\ IdsOf(low') \subseteq IdsOf(low) /\ IdsOf(high') \subseteq IdsOf(high)
      /\ IdsOf(low) \cup IdsOf(high)
           \subseteq IdsOf(low') \cup IdsOf(high') \cup {FirstInService.id}
  <2>1. CASE serv = "LOW"
    BY <1>1, <1>2, <1>3, <2>1, TailKeepsDistinct DEF Lists, FirstInService
  <2>2. CASE serv # "LOW"
    BY <1>1, <1>2, <1>3, <2>2, TailKeepsDistinct DEF Lists, FirstInService
  <2> QED BY <2>1, <2>2
<1>5. Lists'
  BY <1>1, <1>4 DEF Lists
<1>6. Service'
  <2>1. CASE low' = <<>> /\ high' = <<>>
    BY <1>1, <1>3, <2>1 DEF Service, ServiceEvent
  <2>2. CASE low' # <<>> \/ high' # <<>>
    <3>1. BeginService(low', high', 0)
      BY <1>3, <2>2
    <3>2. \A e \in Nat : BeginService(low', high', e) =>
            /\ serv' \in Levels /\ events' = e + 1
            /\ serv' = "LOW" => low' # <<>>
            /\ serv' = "HIGH" => high' # <<>>
      BY <2>2, Begins
    <3>3. /\ serv' \in Levels /\ events' = 1
          /\ serv' = "LOW" => low' # <<>>
          /\ serv' = "HIGH" => high' # <<>>
      BY <3>1, <3>2
    <3> QED BY <1>1, <2>2, <3>3 DEF Service, ServiceEvent, Levels
  <2> QED BY <2>1, <2>2
<1> QED BY <1>3, <1>4, <1>5, <1>6 DEF IInv

-----------------------------------------------------------------------------
LEMMA ReceiveKeeps ==
  ASSUME IInv, ReceivePacket
  PROVE  /\ IInv'
         /\ \A id \in IdsOf(low) \cup IdsOf(high) :
              \/ id \in IdsOf(low') \cup IdsOf(high')
              \/ ~ HeaderFits /\ left' = IF id \in Returnable THEN "returned" ELSE "dropped"
<1>1. ~ aborted /\ UNCHANGED sizes /\ sizes \subseteq DataSizes
  BY DEF ReceivePacket, IInv, Service
<1>2. PICK kind \in {Returnable, Packets \ Returnable} :
        LET free == {i \in kind : ~ Queued(i)}
            Sized(n) == [id |-> Min(free), size |-> n]
        IN /\ free # {}
           /\ \/ ReceiveHeader(Sized(HeaderSize))
              \/ \E n \in sizes : \/ ReceiveData(Sized(n))
                                  \/ MakeRoom(Sized(n))
                                  \/ TrimArriving(Sized(n))
  BY DEF ReceivePacket
<1> DEFINE free == {i \in kind : ~ Queued(i)}
           Sized(n) == [id |-> Min(free), size |-> n]
<1>3. Min(free) \in Packets /\ ~ Queued(Min(free))
  <2>1. free \subseteq Packets /\ free \in SUBSET Nat
    BY CompositeQueueAssumption
  <2>2. Min(free) \in free
    BY <1>2, <2>1, MinProperties
  <2> QED BY <2>1, <2>2
<1>4. \A n \in DataSizes \cup {HeaderSize} : NewPacket(Sized(n))
  BY <1>3 DEF NewPacket, Packet
<1>5. PICK n \in DataSizes \cup {HeaderSize} :
        ReceiveHeader(Sized(n)) \/ ReceiveData(Sized(n)) \/ MakeRoom(Sized(n))
  BY <1>1, <1>2 DEF TrimArriving
<1> HIDE DEF Sized
<1>6. NewPacket(Sized(n))
  BY <1>4
<1> QED BY <1>1, <1>5, <1>6, HeaderKeeps, DataKeeps, MakeRoomKeeps

THEOREM Invariant == Spec => []IInv
<1>1. Init => IInv
  <2>1. Init => low = <<>> /\ high = <<>> /\ Lists
    BY DEF Init, Lists, Distinct, IdsOf
  <2> QED BY <2>1 DEF Init, IInv, Service, ServiceEvent
<1>2. IInv /\ [Next]_vars => IInv'
  <2>1. IInv /\ UNCHANGED vars => IInv'
    BY DEF vars, IInv, Lists, Service, ServiceEvent
  <2> QED BY <2>1, ReceiveKeeps, CompleteKeeps DEF Next
<1> QED BY <1>1, <1>2, PTL DEF Spec

(* For any number of packets: until an assert fails the queue has its one  *)
(* event exactly while it holds a packet, and for a level that holds one.  *)
THEOREM HasItsEvent == Spec => []ServiceEvent
<1>1. IInv => ServiceEvent
  BY DEF IInv, Service
<1> QED BY <1>1, Invariant, PTL

(* The ids of both lists together are different. *)
LEMMA InjectiveIds ==
  ASSUME Lists
  PROVE  IsInjective([i \in DOMAIN (low \o high) |-> (low \o high)[i].id])
<1> DEFINE q == low \o high
           n == Len(low)
           m == Len(high)
<1>1. /\ n \in Nat /\ m \in Nat /\ DOMAIN q = 1 .. n + m
      /\ \A i \in 1 .. n + m : q[i] = IF i <= n THEN low[i] ELSE high[i - n]
  BY DEF Lists
<1> HIDE DEF q
<1>2. ASSUME NEW i \in 1 .. n + m, NEW j \in 1 .. n + m, q[i].id = q[j].id
      PROVE  i = j
  <2>1. ASSUME NEW k \in 1 .. n + m, k <= n
        PROVE  k \in 1 .. n /\ q[k] = low[k] /\ q[k].id \in IdsOf(low)
    BY <1>1, <2>1 DEF IdsOf
  <2>2. ASSUME NEW k \in 1 .. n + m, ~ (k <= n)
        PROVE  k - n \in 1 .. m /\ q[k] = high[k - n] /\ q[k].id \in IdsOf(high)
    <3>1. k - n \in 1 .. m /\ q[k] = high[k - n]
      BY <1>1, <2>2
    <3>2. high[k - n].id \in IdsOf(high)
      BY <3>1 DEF IdsOf
    <3> QED BY <3>1, <3>2
  <2>3. CASE i <= n /\ j <= n
    BY <1>2, <2>1, <2>3 DEF Lists, Distinct
  <2>4. CASE ~ (i <= n) /\ ~ (j <= n)
    <3>1. i - n = j - n
      BY <1>2, <2>2, <2>4 DEF Lists, Distinct
    <3> QED BY <1>1, <3>1
  <2>5. CASE (i <= n) # (j <= n)
    BY <1>2, <2>1, <2>2, <2>5 DEF Lists
  <2> QED BY <2>3, <2>4, <2>5
<1> QED BY <1>1, <1>2 DEF IsInjective, q

(* No packet is in the queue twice, and none leaves it but by service or   *)
(* for want of room for its header, and then it goes back if it can.       *)
THEOREM NoneVanishes == Spec => NothingVanishes
<1> DEFINE Leaves ==
      \A p \in Packets :
        Queued(p) /\ ~ Queued(p)' =>
          \/ left' = "sent" /\ p = FirstInService.id
          \/ left' = "returned" /\ p \in Returnable /\ ~ HeaderFits
          \/ left' = "dropped" /\ p \notin Returnable /\ ~ HeaderFits
      Once == IsInjective([i \in DOMAIN (low \o high) |-> (low \o high)[i].id])
<1>1. IInv => Once
  BY InjectiveIds DEF IInv
<1>2. IInv /\ IInv' /\ [Next]_vars => Leaves
  <2> SUFFICES ASSUME IInv, IInv', [Next]_vars, NEW p \in Packets, Queued(p), ~ Queued(p)'
               PROVE  \/ left' = "sent" /\ p = FirstInService.id
                      \/ left' = "returned" /\ p \in Returnable /\ ~ HeaderFits
                      \/ left' = "dropped" /\ p \notin Returnable /\ ~ HeaderFits
    OBVIOUS
  <2>1. p \in IdsOf(low) \cup IdsOf(high)
    BY QueuedIds DEF IInv
  <2>2. p \notin IdsOf(low') \cup IdsOf(high')
    BY IdsOfBoth DEF Queued, IInv, Lists
  <2>3. CASE ReceivePacket
    BY <2>1, <2>2, <2>3, ReceiveKeeps
  <2>4. CASE CompleteService
    BY <2>1, <2>2, <2>4, CompleteKeeps
  <2>5. CASE UNCHANGED vars
    BY <2>1, <2>2, <2>5 DEF vars
  <2> QED BY <2>3, <2>4, <2>5 DEF Next
<1>3. Spec => []IInv /\ []Once
  BY <1>1, Invariant, PTL
<1>4. IInv /\ IInv' /\ Once' /\ [Next]_vars =>
        /\ IsInjective([i \in DOMAIN (low \o high)' |-> (low \o high)'[i].id])
        /\ Leaves
  BY <1>2
<1> QED BY <1>3, <1>4, PTL DEF Spec, NothingVanishes

-----------------------------------------------------------------------------
(* The list l holds packets of the sizes S, n bytes together.              *)
Filled(l, S, n) ==
  /\ l \in Seq(Packet)
  /\ \A i \in 1 .. Len(l) : l[i].size \in S
  /\ Summed(l, n)

(* m still begins with the packet that l begins with. *)
SameFirst(l, m) == l # <<>> => m # <<>> /\ Head(m) = Head(l)

LEMMA FilledEmpty ==
  ASSUME NEW S
  PROVE  Filled(<<>>, S, 0)
  BY SummedEmpty DEF Filled

LEMMA FilledAppend ==
  ASSUME NEW S \in SUBSET Nat, NEW l, NEW n, Filled(l, S, n),
         NEW p \in Packet, p.size \in S
  PROVE  /\ Filled(Append(l, p), S, n + p.size) /\ n + p.size \in Nat
         /\ Append(l, p) # <<>> /\ SameFirst(l, Append(l, p))
<1> DEFINE m == Append(l, p)
           k == Len(l) + 1
<1>1. l \in Seq(Packet) /\ Summed(l, n) /\ p.size \in Nat
  BY DEF Filled
<1>2. /\ m \in Seq(Packet) /\ Len(m) = k /\ m[k] = p /\ m # <<>>
      /\ \A i \in 1 .. Len(l) : m[i] = l[i]
  BY <1>1
<1>3. k \in Nat /\ \A i \in 1 .. k : i \in 1 .. Len(l) \/ i = k
  BY <1>1
<1> HIDE DEF m
<1>4. Summed(m, n + m[Len(l) + 1].size)
  BY <1>1, <1>2, SummedAppend
<1>5. \A i \in 1 .. Len(m) : m[i].size \in S
  BY <1>2, <1>3 DEF Filled
<1>6. Summed(m, n + p.size) /\ n + p.size \in Nat
  BY <1>1, <1>2, <1>4, SummedIsTotal
<1>7. l # <<>> => Head(m) = Head(l)
  <2>1. l # <<>> => 1 \in 1 .. Len(l) /\ Head(l) = l[1]
    BY <1>1
  <2>2. Head(m) = m[1]
    BY <1>2
  <2> QED BY <1>2, <2>1, <2>2
<1> QED BY <1>2, <1>5, <1>6, <1>7 DEF Filled, SameFirst, m

LEMMA FilledTail ==
  ASSUME NEW S \in SUBSET Nat, NEW l, NEW n, Filled(l, S, n), l # <<>>
  PROVE  /\ Filled(Tail(l), S, n - Head(l).size)
         /\ n \in Nat /\ Head(l).size \in Nat /\ n - Head(l).size \in Nat
<1> DEFINE m == Tail(l)
<1>1. l \in Seq(Packet) /\ Summed(l, n) /\ \A i \in 1 .. Len(l) : l[i].size \in S
  BY DEF Filled
<1>2. /\ m \in Seq(Packet) /\ Len(m) = Len(l) - 1 /\ Len(l) \in Nat /\ Len(l) >= 1
      /\ \A i \in 1 .. Len(m) : m[i] = l[i + 1]
      /\ Head(l) = l[1]
  BY <1>1
<1> HIDE DEF m
<1>3. \A i \in 1 .. Len(l) : l[i].size \in Nat
  BY <1>1
<1>4. Summed(m, n - l[1].size)
  BY <1>1, <1>2, <1>3, SummedTail
<1>5. n \in Nat /\ n - l[1].size \in Nat /\ l[1].size \in Nat
  BY <1>1, <1>2, <1>3, <1>4, SummedIsTotal
<1>6. \A i \in 1 .. Len(m) : i + 1 \in 1 .. Len(l)
  BY <1>2
<1> QED BY <1>1, <1>2, <1>4, <1>5, <1>6 DEF Filled, m

LEMMA FilledFront ==
  ASSUME NEW S \in SUBSET Nat, NEW l, NEW n, Filled(l, S, n), l # <<>>
  PROVE  LET m == RemoveAt(l, Len(l))
             last == l[Len(l)]
         IN  /\ Filled(m, S, n - last.size)
             /\ n \in Nat /\ last.size \in S /\ last.size <= n /\ n - last.size \in Nat
             /\ m = <<>> => n = last.size
             /\ m # <<>> => SameFirst(l, m)
<1> DEFINE k == Len(l)
           m == RemoveAt(l, k)
           last == l[k]
<1>1. l \in Seq(Packet) /\ Summed(l, n) /\ \A i \in 1 .. k : l[i].size \in S
  BY DEF Filled
<1>2. k \in Nat /\ k >= 1 /\ k \in 1 .. k
  BY <1>1
<1>3. /\ m \in Seq(Packet) /\ Len(m) = k - 1
      /\ \A i \in 1 .. k - 1 : m[i] = IF i < k THEN l[i] ELSE l[i + 1]
  BY <1>1, <1>2, RemoveAtProperties
<1>4. \A i \in 1 .. Len(m) : i \in 1 .. k /\ m[i] = l[i]
  BY <1>2, <1>3
<1>5. last.size \in Nat /\ last.size \in S
  BY <1>1, <1>2
<1> HIDE DEF m
<1>6. /\ Summed(m, n - last.size) /\ n \in Nat /\ last.size <= n
      /\ k = 1 => n = last.size
  BY <1>1, <1>2, <1>3, <1>4, <1>5, SummedFront
<1>7. n - last.size \in Nat
  BY <1>3, <1>6, SummedIsTotal
<1>8. m = <<>> => k = 1
  BY <1>2, <1>3
<1>9. m # <<>> => Head(m) = Head(l)
  <2>1. CASE m # <<>>
    <3>1. Head(m) = m[1] /\ 1 \in 1 .. Len(m) /\ Head(l) = l[1]
      BY <1>1, <1>3, <2>1
    <3> QED BY <1>4, <3>1
  <2> QED BY <2>1
<1> QED BY <1>1, <1>3, <1>4, <1>5, <1>6, <1>7, <1>8, <1>9 DEF Filled, SameFirst, m

-----------------------------------------------------------------------------
(* Both levels hold what their byte counts say and no more than _maxsize:  *)
(* data packets of the sizes there are, and headers.                       *)
Levelled ==
  /\ Filled(low, sizes, sizeLow) /\ sizeLow <= maxsize
  /\ Filled(high, {HeaderSize}, sizeHigh) /\ sizeHigh <= maxsize

Rest ==
  /\ maxsize \in MaxSizes
  /\ begun \in Packet \cup {None}
  /\ left \in {"none", "sent", "returned", "dropped"}
  /\ aborted \in BOOLEAN

Served == Levelled /\ Rest /\ NoAssertFails /\ FullService

(* The premise of FullService, and what it is the premise of.              *)
RoomForTwo == \A n \in sizes : 2 * n <= maxsize
InFull == events = 1 => begun = FirstInService

LEMMA Sizes ==
  ASSUME Service
  PROVE  sizes \in SUBSET Nat /\ {HeaderSize} \in SUBSET Nat /\ HeaderSize \in Nat
  BY CompositeQueueAssumption DEF Service

LEMMA HeaderFills ==
  ASSUME Levelled, Rest, Service, UNCHANGED maxsize, NEW p \in Packet, TakeHeader(p)
  PROVE  /\ Filled(high', {HeaderSize}, sizeHigh') /\ sizeHigh' <= maxsize'
         /\ left' \in {"none", "sent", "returned", "dropped"}
         /\ SameFirst(high, high')
         /\ HeaderFits => high' # <<>>
<1>1. CASE HeaderFits
  <2>1. /\ high' = Append(high, Header(p)) /\ sizeHigh' = sizeHigh + HeaderSize
        /\ left' = "none" /\ sizeHigh + HeaderSize <= maxsize
    BY <1>1 DEF TakeHeader, HeaderFits
  <2>2. Header(p) \in Packet /\ Header(p).size = HeaderSize
    BY DEF Header, Packet
  <2>3. /\ Filled(Append(high, Header(p)), {HeaderSize}, sizeHigh + HeaderSize)
        /\ Append(high, Header(p)) # <<>>
        /\ SameFirst(high, Append(high, Header(p)))
    BY <2>2, Sizes, FilledAppend DEF Levelled
  <2> QED BY <2>1, <2>3
<1>2. CASE ~ HeaderFits
  <2>1. high' = high /\ sizeHigh' = sizeHigh /\ left' = Rejected(p)
    BY <1>2 DEF TakeHeader
  <2> QED BY <1>2, <2>1 DEF Levelled, Rejected, SameFirst
<1> QED BY <1>1, <1>2

(* A service that begins is that of the first packet of its level.         *)
LEMMA BeginsInFull ==
  ASSUME NEW e, BeginService(low', high', e), low' # <<>> \/ high' # <<>>,
         low' \in Seq(Packet), high' \in Seq(Packet)
  PROVE  begun' \in Packet /\ begun' = FirstInService'
<1>1. \/ serv' = "HIGH" /\ begun' = Head(high') /\ high' # <<>>
      \/ serv' = "LOW" /\ begun' = Head(low') /\ low' # <<>>
  BY DEF BeginService, LevelAt
<1>2. \A q \in Seq(Packet) : q # <<>> => Head(q) \in Packet
  OBVIOUS
<1> QED BY <1>1, <1>2 DEF FirstInService

(* While a service runs nothing takes its packet from the head of the      *)
(* level.                                                                  *)
LEMMA StaysInFull ==
  ASSUME Service, Rest, ~ aborted, low' \in Seq(Packet), high' \in Seq(Packet),
         SameFirst(low, low'), SameFirst(high, high'),
         (StartIfIdle(low', high') /\ (low' # <<>> \/ high' # <<>>)) \/ GoOn
  PROVE  begun' \in Packet \cup {None} /\ (InFull => InFull')
<1>1. CASE GoOn
  <2>1. begun' = begun /\ events' = events /\ serv' = serv
    BY <1>1 DEF GoOn
  <2>2. events = 1 => FirstInService' = FirstInService
    BY <2>1 DEF FirstInService, SameFirst, Service, ServiceEvent, Levels
  <2> QED BY <2>1, <2>2 DEF InFull, Rest
<1>2. CASE StartIfIdle(low', high') /\ (low' # <<>> \/ high' # <<>>) /\ ~ GoOn
  <2>1. BeginService(low', high', events)
    BY <1>2 DEF StartIfIdle
  <2> QED BY <1>2, <2>1, BeginsInFull DEF InFull
<1> QED BY <1>1, <1>2

LEMMA HeaderServed ==
  ASSUME IInv, Served, ~ aborted, UNCHANGED <<sizes, maxsize>>,
         NEW p \in Packet, ReceiveHeader(p)
  PROVE  Served'
<1>1. Service /\ Levelled /\ Rest /\ NoAssertFails /\ FullService
  BY DEF IInv, Served
<1>2. UNCHANGED <<low, sizeLow, aborted>> /\ TakeHeader(p)
  BY DEF ReceiveHeader
<1>3. /\ Filled(high', {HeaderSize}, sizeHigh') /\ sizeHigh' <= maxsize'
      /\ left' \in {"none", "sent", "returned", "dropped"}
      /\ SameFirst(high, high')
      /\ HeaderFits => high' # <<>>
  BY <1>1, <1>2, HeaderFills
<1>4. Levelled'
  BY <1>1, <1>2, <1>3 DEF Levelled
<1>5. begun' \in Packet \cup {None} /\ (InFull => InFull')
  <2>1. (StartIfIdle(low', high') /\ (low' # <<>> \/ high' # <<>>)) \/ GoOn
    BY <1>2, <1>3 DEF ReceiveHeader
  <2>2. low' \in Seq(Packet) /\ high' \in Seq(Packet) /\ SameFirst(low, low')
    BY <1>2, <1>3, <1>4 DEF Levelled, Filled, SameFirst
  <2> QED BY <1>1, <1>3, <2>1, <2>2, StaysInFull
<1>6. Rest' /\ NoAssertFails'
  BY <1>1, <1>2, <1>3, <1>5 DEF Rest, NoAssertFails, OneSize
<1>7. FullService'
  BY <1>1, <1>5 DEF FullService, InFull
<1> QED BY <1>4, <1>6, <1>7 DEF Served

LEMMA DataServed ==
  ASSUME IInv, Served, ~ aborted, UNCHANGED <<sizes, maxsize>>,
         NEW p \in Packet, p.size \in sizes, ReceiveData(p)
  PROVE  Served'
<1>1. Service /\ Levelled /\ Rest /\ NoAssertFails /\ FullService
  BY DEF IInv, Served
<1>2. /\ UNCHANGED <<high, sizeHigh, aborted>> /\ left' = "none"
      /\ low' = Append(low, p) /\ sizeLow' = sizeLow + p.size
      /\ sizeLow + p.size <= maxsize
      /\ StartIfIdle(low', high')
  BY DEF ReceiveData, Fits
<1>3. Filled(low', sizes, sizeLow') /\ low' # <<>> /\ SameFirst(low, low')
  BY <1>1, <1>2, Sizes, FilledAppend DEF Levelled
<1>4. Levelled'
  BY <1>1, <1>2, <1>3 DEF Levelled
<1>5. begun' \in Packet \cup {None} /\ (InFull => InFull')
  <2>1. low' \in Seq(Packet) /\ high' \in Seq(Packet) /\ SameFirst(high, high')
    BY <1>2, <1>4 DEF Levelled, Filled, SameFirst
  <2> QED BY <1>1, <1>2, <1>3, <2>1, StaysInFull
<1>6. Rest' /\ NoAssertFails'
  BY <1>1, <1>2, <1>5 DEF Rest, NoAssertFails, OneSize
<1>7. FullService'
  BY <1>1, <1>5 DEF FullService, InFull
<1> QED BY <1>4, <1>6, <1>7 DEF Served

(* With one size of data packet there is one to trim, and room for one     *)
(* more once it is; with room for two the packet that is trimmed is not    *)
(* the one in service.                                                     *)
LEMMA MakeRoomServed ==
  ASSUME IInv, Served, ~ aborted, UNCHANGED <<sizes, maxsize>>,
         NEW p \in Packet, p.size \in sizes, MakeRoom(p)
  PROVE  Served'
<1> DEFINE booted == low[Len(low)]
           kept == RemoveAt(low, Len(low))
           rest == sizeLow - booted.size
<1>1. /\ Service /\ Levelled /\ Rest /\ NoAssertFails /\ FullService
      /\ maxsize \in Nat /\ p.size \in Nat /\ sizes \in SUBSET Nat
  BY Sizes, CompositeQueueAssumption DEF IInv, Served, Rest
<1>2. ~ (sizeLow + p.size <= maxsize)
  BY DEF MakeRoom, Fits
<1>3. CASE low = <<>>
  <2>1. UNCHANGED <<low, high, sizeLow, sizeHigh>> /\ GoOn /\ aborted' /\ left' = "none"
    BY <1>3 DEF MakeRoom
  <2>2. Levelled'
    BY <1>1, <2>1 DEF Levelled
  <2>3. begun' \in Packet \cup {None} /\ (InFull => InFull')
    BY <1>1, <2>1 DEF GoOn, Rest, InFull, FirstInService
  <2>4. NoAssertFails'
    <3>1. Summed(<<>>, sizeLow)
      BY <1>1, <1>3 DEF Levelled, Filled
    <3>2. sizeLow = 0
      <4>1. \A n : Summed(<<>>, n) => n = TotalSize(<<>>)
        <5>1. <<>> \in Seq(Packet)
          OBVIOUS
        <5> QED BY <5>1, SummedIsTotal
      <4> QED BY <3>1, <4>1, SummedEmpty
    <3>3. ~ OneSize
      BY <1>1, <1>2, <3>2 DEF OneSize
    <3> QED BY <3>3 DEF NoAssertFails, OneSize
  <2>5. aborted' \in BOOLEAN
    BY <1>3 DEF MakeRoom
  <2>6. Rest'
    BY <1>1, <2>1, <2>3, <2>5 DEF Rest
  <2>7. FullService'
    BY <1>1, <2>3 DEF FullService, InFull
  <2> QED BY <2>2, <2>4, <2>6, <2>7 DEF Served
<1>4. CASE low # <<>>
  <2>1. /\ Filled(kept, sizes, rest)
        /\ sizeLow \in Nat /\ booted.size \in sizes /\ booted.size \in Nat
        /\ booted.size <= sizeLow /\ rest \in Nat
        /\ kept = <<>> => sizeLow = booted.size
        /\ kept # <<>> => SameFirst(low, kept)
    <3>1. Filled(low, sizes, sizeLow)
      BY <1>1 DEF Levelled
    <3>2. /\ Filled(kept, sizes, rest)
          /\ sizeLow \in Nat /\ booted.size \in sizes
          /\ booted.size <= sizeLow /\ rest \in Nat
          /\ kept = <<>> => sizeLow = booted.size
          /\ kept # <<>> => SameFirst(low, kept)
      BY <1>1, <1>4, <3>1, FilledFront
    <3> HIDE DEF booted, kept, rest
    <3> QED BY <1>1, <3>2
  <2>2. booted \in Packet
    BY <1>1, <1>4, RemoveLastKeepsDistinct DEF IInv, Lists
  <2>3. /\ TakeHeader(booted)
        /\ \/ /\ rest + p.size <= maxsize
              /\ low' = Append(kept, p) /\ sizeLow' = rest + p.size
              /\ StartIfIdle(low', high') /\ UNCHANGED aborted
           \/ /\ ~ (rest + p.size <= maxsize)
              /\ low' = kept /\ sizeLow' = rest /\ GoOn /\ aborted' = TRUE
    BY <1>4 DEF MakeRoom, Booted, SizeWithout
  <2>4. /\ Filled(high', {HeaderSize}, sizeHigh') /\ sizeHigh' <= maxsize'
        /\ left' \in {"none", "sent", "returned", "dropped"}
        /\ SameFirst(high, high')
    BY <1>1, <2>2, <2>3, HeaderFills
  <2>5. rest <= maxsize
    <3>1. sizeLow <= maxsize /\ rest <= sizeLow
      BY <1>1, <2>1 DEF Levelled
    <3> HIDE DEF rest
    <3> QED BY <1>1, <2>1, <3>1
  <2>6. RoomForTwo => kept # <<>>
    <3> SUFFICES ASSUME RoomForTwo, kept = <<>> PROVE FALSE
      OBVIOUS
    <3>1. sizeLow = booted.size /\ 2 * booted.size <= maxsize /\ 2 * p.size <= maxsize
      BY <2>1 DEF RoomForTwo
    <3> HIDE DEF booted
    <3> QED BY <1>1, <1>2, <2>1, <3>1
  <2>7. OneSize => rest + p.size <= maxsize
    <3> SUFFICES ASSUME OneSize PROVE rest + p.size <= maxsize
      OBVIOUS
    <3>1. booted.size = p.size
      BY <2>1 DEF OneSize
    <3>2. sizeLow <= maxsize
      BY <1>1 DEF Levelled
    <3> HIDE DEF booted
    <3> QED BY <1>1, <2>1, <3>1, <3>2
  <2>8. \/ /\ low' = Append(kept, p) /\ low' # <<>> /\ SameFirst(kept, low')
           /\ Filled(low', sizes, sizeLow')
           /\ StartIfIdle(low', high') /\ UNCHANGED aborted
        \/ low' = kept /\ Filled(low', sizes, sizeLow') /\ GoOn /\ aborted' = TRUE /\ ~ OneSize
    <3> HIDE DEF booted, kept, rest
    <3> QED BY <1>1, <2>1, <2>3, <2>7, FilledAppend
  <2>9. Levelled'
    <3>1. sizeLow' <= maxsize
      BY <2>3, <2>5
    <3> QED BY <2>4, <2>8, <3>1 DEF Levelled
  <2> HIDE DEF booted, kept, rest
  <2>10. low' \in Seq(Packet) /\ high' \in Seq(Packet)
    BY <2>9 DEF Levelled, Filled
  <2>11. begun' \in Packet \cup {None}
    <3>1. CASE GoOn
      BY <1>1, <3>1 DEF GoOn, Rest
    <3>2. CASE BeginService(low', high', events) /\ low' # <<>>
      BY <2>10, <3>2, BeginsInFull
    <3> QED BY <2>8, <3>1, <3>2 DEF StartIfIdle
  <2>12. RoomForTwo /\ InFull => InFull'
    <3> SUFFICES ASSUME RoomForTwo, InFull PROVE InFull'
      OBVIOUS
    <3>1. SameFirst(low, low')
      BY <2>1, <2>6, <2>8 DEF SameFirst
    <3>2. (StartIfIdle(low', high') /\ (low' # <<>> \/ high' # <<>>)) \/ GoOn
      BY <2>8
    <3> QED BY <1>1, <2>4, <2>10, <3>1, <3>2, StaysInFull
  <2>13. Rest' /\ NoAssertFails'
    <3>1. aborted' \in BOOLEAN
      BY <1>1, <2>8, Zenon DEF Rest
    <3>2. Rest'
      BY <1>1, <2>4, <2>11, <3>1 DEF Rest
    <3>3. OneSize' <=> OneSize
      BY DEF OneSize
    <3>4. OneSize => ~ aborted'
      BY <2>8
    <3> QED BY <3>2, <3>3, <3>4 DEF NoAssertFails
  <2>14. FullService'
    BY <1>1, <2>12 DEF FullService, InFull, RoomForTwo
  <2> QED BY <2>9, <2>13, <2>14 DEF Served
<1> QED BY <1>3, <1>4

LEMMA CompleteServed ==
  ASSUME IInv, Served, CompleteService
  PROVE  Served'
<1>1. /\ Service /\ Levelled /\ Rest /\ NoAssertFails /\ FullService
      /\ ~ aborted /\ UNCHANGED <<sizes, maxsize>>
      /\ maxsize \in Nat
  BY CompositeQueueAssumption DEF IInv, Served, Rest, CompleteService
<1>2. serv \in Levels /\ events = 1 /\ (serv = "LOW" => low # <<>>)
      /\ (serv = "HIGH" => high # <<>>)
  BY <1>1 DEF CompleteService, Service, ServiceEvent, Levels
<1>3. /\ \/ /\ serv = "LOW" /\ low' = Tail(low) /\ sizeLow' = sizeLow - Head(low).size
            /\ UNCHANGED <<high, sizeHigh>>
         \/ /\ serv = "HIGH" /\ high' = Tail(high) /\ sizeHigh' = sizeHigh - Head(high).size
            /\ UNCHANGED <<low, sizeLow>>
      /\ left' = "sent" /\ UNCHANGED aborted
      /\ \/ low' = <<>> /\ high' = <<>> /\ events' = 0 /\ begun' = None
         \/ (low' # <<>> \/ high' # <<>>) /\ BeginService(low', high', 0)
  BY <1>2 DEF CompleteService, Levels
<1>4. \A n, k \in Nat : n <= maxsize /\ n - k \in Nat => n - k <= maxsize
  BY <1>1
<1>5. Levelled'
  <2>1. CASE serv = "LOW"
    <3>1. /\ Filled(Tail(low), sizes, sizeLow - Head(low).size)
          /\ sizeLow \in Nat /\ Head(low).size \in Nat /\ sizeLow - Head(low).size \in Nat
      BY <1>1, <1>2, <2>1, Sizes, FilledTail DEF Levelled
    <3>2. sizeLow - Head(low).size <= maxsize
      BY <1>1, <1>4, <3>1 DEF Levelled
    <3> QED BY <1>1, <1>3, <2>1, <3>1, <3>2 DEF Levelled
  <2>2. CASE serv = "HIGH"
    <3>1. /\ Filled(Tail(high), {HeaderSize}, sizeHigh - Head(high).size)
          /\ sizeHigh \in Nat /\ Head(high).size \in Nat /\ sizeHigh - Head(high).size \in Nat
      BY <1>1, <1>2, <2>2, Sizes, FilledTail DEF Levelled
    <3>2. sizeHigh - Head(high).size <= maxsize
      BY <1>1, <1>4, <3>1 DEF Levelled
    <3> QED BY <1>1, <1>3, <2>2, <3>1, <3>2 DEF Levelled
  <2> QED BY <1>2, <2>1, <2>2 DEF Levels
<1>6. begun' \in Packet \cup {None} /\ InFull'
  <2>1. low' \in Seq(Packet) /\ high' \in Seq(Packet)
    BY <1>5 DEF Levelled, Filled
  <2>2. CASE (low' # <<>> \/ high' # <<>>) /\ BeginService(low', high', 0)
    BY <2>1, <2>2, BeginsInFull DEF InFull
  <2>3. CASE events' = 0 /\ begun' = None
    BY <2>3 DEF InFull
  <2> QED BY <1>3, <2>2, <2>3
<1>7. Rest' /\ NoAssertFails' /\ FullService'
  <2>1. Rest'
    BY <1>1, <1>3, <1>6 DEF Rest
  <2>2. NoAssertFails' /\ FullService'
    BY <1>1, <1>3, <1>6 DEF NoAssertFails, OneSize, FullService, InFull
  <2> QED BY <2>1, <2>2
<1> QED BY <1>5, <1>7 DEF Served

LEMMA ReceiveServed ==
  ASSUME IInv, Served, ReceivePacket
  PROVE  Served'
<1>1. ~ aborted /\ UNCHANGED <<sizes, maxsize>> /\ sizes \subseteq DataSizes
  BY DEF ReceivePacket, IInv, Service
<1>2. PICK kind \in {Returnable, Packets \ Returnable} :
        LET free == {i \in kind : ~ Queued(i)}
            Sized(n) == [id |-> Min(free), size |-> n]
        IN /\ free # {}
           /\ \/ ReceiveHeader(Sized(HeaderSize))
              \/ \E n \in sizes : \/ ReceiveData(Sized(n))
                                  \/ MakeRoom(Sized(n))
                                  \/ TrimArriving(Sized(n))
  BY DEF ReceivePacket
<1> DEFINE free == {i \in kind : ~ Queued(i)}
           Sized(n) == [id |-> Min(free), size |-> n]
<1>3. Min(free) \in Packets
  <2>1. free \subseteq Packets /\ free \in SUBSET Nat
    BY CompositeQueueAssumption
  <2>2. Min(free) \in free
    BY <1>2, <2>1, MinProperties
  <2> QED BY <2>1, <2>2
<1>4. \A n \in DataSizes \cup {HeaderSize} : Sized(n) \in Packet /\ Sized(n).size = n
  BY <1>3 DEF Packet
<1>5. \/ ReceiveHeader(Sized(HeaderSize))
      \/ \E n \in sizes : ReceiveData(Sized(n)) \/ MakeRoom(Sized(n)) \/ ReceiveHeader(Sized(n))
  BY <1>2 DEF TrimArriving
<1> HIDE DEF Sized
<1>6. CASE ReceiveHeader(Sized(HeaderSize))
  BY <1>1, <1>4, <1>6, HeaderServed
<1>7. ASSUME NEW n \in sizes,
             ReceiveData(Sized(n)) \/ MakeRoom(Sized(n)) \/ ReceiveHeader(Sized(n))
      PROVE  Served'
  <2>1. Sized(n) \in Packet /\ Sized(n).size \in sizes
    BY <1>1, <1>4
  <2> QED BY <1>1, <1>7, <2>1, HeaderServed, DataServed, MakeRoomServed
<1> QED BY <1>5, <1>6, <1>7

LEMMA ServedInvariant == Spec => []Served
<1>1. Init => Served
  <2>1. Init => Levelled
    BY FilledEmpty, CompositeQueueAssumption DEF Init, Levelled
  <2>2. Init => Rest
    BY Zenon DEF Init, Rest
  <2>3. Init => NoAssertFails /\ FullService
    <3>1. Init => ~ aborted /\ events # 1
      BY DEF Init
    <3> QED BY <3>1 DEF NoAssertFails, FullService
  <2> QED BY <2>1, <2>2, <2>3 DEF Served
<1>2. IInv /\ Served /\ [Next]_vars => Served'
  <2> SUFFICES ASSUME IInv, Served, [Next]_vars PROVE Served'
    OBVIOUS
  <2>1. CASE UNCHANGED vars
    BY <2>1 DEF vars, Served, Levelled, Rest, NoAssertFails, OneSize, FullService,
                FirstInService
  <2> QED BY <2>1, ReceiveServed, CompleteServed DEF Next
<1> QED BY <1>1, <1>2, Invariant, PTL DEF Spec

(* For any packets, sizes, _maxsize and weights: whatever is trimmed, both *)
(* byte counts are those of the lists and within _maxsize, the queue has   *)
(* its one event, with room for two packets none is trimmed while it is    *)
(* served, and with one size of data no assert fails.                      *)
THEOREM ServesInFull == Spec => []OneService
<1>1. IInv /\ Turns /\ Served => OneService
  <2> SUFFICES ASSUME IInv, Turns, Served PROVE OneService
    OBVIOUS
  <2>1. \A l \in Seq(Packet) : \A n : Summed(l, n) => n = SumOf(l) /\ n \in Nat
    <3> SUFFICES ASSUME NEW l \in Seq(Packet), NEW n, Summed(l, n)
                 PROVE  n = SumOf(l) /\ n \in Nat
      OBVIOUS
    <3>1. n = TotalSize(l) /\ n \in Nat
      BY SummedIsTotal
    <3> QED BY <3>1 DEF SumOf, TotalSize
  <2>2. /\ sizeLow = SumOf(low) /\ sizeLow \in Nat /\ sizeLow <= maxsize
        /\ sizeHigh = SumOf(high) /\ sizeHigh \in Nat /\ sizeHigh <= maxsize
    BY <2>1 DEF Served, Levelled, Filled
  <2>3. TypeOK
    BY <2>2 DEF TypeOK, IInv, Lists, Service, Turns, Served, Rest
  <2> QED BY <2>2, <2>3 DEF OneService, IInv, Service, Served
<1> QED BY <1>1, Invariant, TurnsInvariant, ServedInvariant, PTL
=============================================================================
