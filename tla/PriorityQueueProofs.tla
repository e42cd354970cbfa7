------------------------ MODULE PriorityQueueProofs ------------------------
(***************************************************************************)
(* Proofs about the priority queue of a host, for any number of packets.   *)
(***************************************************************************)
EXTENDS PriorityQueue, TLAPS

(* The level of the next service is one that holds a packet, and none      *)
(* above it does.                                                          *)
LEMMA NextLevelProperties ==
  ASSUME NEW q, Waiting(q) # {}
  PROVE  /\ NextLevel(q) \in Waiting(q)
         /\ \A p \in Waiting(q) : p <= NextLevel(q)
<1> DEFINE W == Waiting(q)
<1>1. W \subseteq {0, 1, 2}
  BY DEF Waiting, Prio, Q_LO, Q_MID, Q_HI
<1>2. \E x \in W : \A y \in W : x >= y
  <2>1. CASE 2 \in W
    BY <1>1, <2>1
  <2>2. CASE 2 \notin W /\ 1 \in W
    BY <1>1, <2>2
  <2>3. CASE W = {0}
    BY <2>3
  <2> QED BY <1>1, <2>1, <2>2, <2>3
<1>3. NextLevel(q) \in W /\ \A y \in W : NextLevel(q) >= y
  BY <1>2 DEF NextLevel, Max
<1> QED BY <1>1, <1>3

(* A departure leaves sequences of packets on all levels.                  *)
LEMMA DepartProperties ==
  ASSUME TypeOK, NEW p \in Waiting(queue)
  PROVE  /\ Depart(p) \in [Prio -> Seq(Packet)]
         /\ \A l \in Prio \ {p} : Len(Depart(p)[l]) = Len(queue[l])
<1> DEFINE D == Depart(p)
<1>1. queue \in [Prio -> Seq(Packet)] /\ p \in Prio /\ queue[p] # <<>>
  BY DEF TypeOK, Waiting
<1>2. ASSUME NEW l \in Prio, l # p, l > p
      PROVE  D[l] \in Seq(Packet) /\ Len(D[l]) = Len(queue[l])
  <2>1. D[l] = [i \in DOMAIN queue[l] |-> [overtaken |-> queue[l][i].overtaken + 1]]
    BY <1>2 DEF Depart
  <2>2. queue[l] \in Seq(Packet) /\ DOMAIN queue[l] = 1 .. Len(queue[l])
    BY <1>1
  <2>3. ASSUME NEW i \in DOMAIN queue[l]
        PROVE  [overtaken |-> queue[l][i].overtaken + 1] \in Packet
    <3>1. queue[l][i] \in Packet
      BY <2>2
    <3> QED BY <3>1 DEF Packet
  <2> QED BY <2>1, <2>2, <2>3
<1>3. ASSUME NEW l \in Prio, l # p, ~ (l > p)
      PROVE  D[l] \in Seq(Packet) /\ Len(D[l]) = Len(queue[l])
  <2>1. D[l] = queue[l]
    BY <1>3 DEF Depart
  <2> QED BY <1>1, <2>1
<1>4. D[p] \in Seq(Packet)
  <2>1. D[p] = Tail(queue[p])
    BY <1>1 DEF Depart
  <2> QED BY <1>1, <2>1
<1>5. D = [l \in Prio |-> D[l]]
  BY DEF Depart
<1>6. \A l \in Prio : D[l] \in Seq(Packet)
  BY <1>2, <1>3, <1>4
<1> QED BY <1>2, <1>3, <1>5, <1>6

-----------------------------------------------------------------------------
(* The inductive invariant.  Until a PAUSE ends early: a queue that was    *)
(* told to PAUSE is not READY, and what it has sent since then and what is *)
(* in service make one packet at most; and a packet that has been          *)
(* overtaken no longer waits for a lower level in service.                 *)
Held ==
  told /\ ~ early => stateSend # "READY" /\ afterPause + events <= 1

Passed ==
  ~ early => \A p \in Prio : \A i \in DOMAIN queue[p] :
    /\ queue[p][i].overtaken <= 1
    /\ events = 1 /\ servicing < p => queue[p][i].overtaken = 0

IInv == TypeOK /\ OneService /\ Held /\ Passed

-----------------------------------------------------------------------------
(* The type invariant. *)
LEMMA BeginServiceType ==
  ASSUME NEW q, NEW e \in Nat, NEW s, servicing \in Prio \cup {Q_NONE},
         BeginService(q, e, s)
  PROVE  events' \in Nat /\ servicing' \in Prio \cup {Q_NONE} /\ aborted' \in BOOLEAN
<1>1. CASE s = "READY" /\ Waiting(q) # {}
  <2>1. NextLevel(q) \in Prio
    BY <1>1, NextLevelProperties DEF Waiting
  <2> QED BY <1>1, <2>1 DEF BeginService
<1>2. CASE ~ (s = "READY" /\ Waiting(q) # {})
  BY <1>2 DEF BeginService
<1> QED BY <1>1, <1>2

LEMMA TypeStep == TypeOK /\ [Next]_vars => TypeOK'
<1> SUFFICES ASSUME TypeOK, [Next]_vars PROVE TypeOK'
  OBVIOUS
<1>0. /\ servicing \in Prio \cup {Q_NONE} /\ events \in Nat /\ aborted \in BOOLEAN
      /\ MaxPackets \in Nat /\ received \in 0 .. MaxPackets /\ afterPause \in Nat
      /\ queue \in [Prio -> Seq(Packet)]
      /\ stateSend \in {"READY", "PAUSED", "PAUSE_RECEIVED"}
      /\ told \in BOOLEAN /\ early \in BOOLEAN
  BY PriorityQueueAssumption DEF TypeOK
<1>1. CASE ReceivePause
  BY <1>0, <1>1 DEF ReceivePause, NoService, TypeOK
<1>2. CASE ReceiveUnpause
  <2>1. events' \in Nat /\ servicing' \in Prio \cup {Q_NONE} /\ aborted' \in BOOLEAN
    BY <1>0, <1>2, BeginServiceType DEF ReceiveUnpause, NoService
  <2> QED BY <1>0, <1>2, <2>1 DEF ReceiveUnpause, TypeOK
<1>3. CASE \E p \in Prio : ReceivePacket(p)
  <2>1. PICK p \in Prio : ReceivePacket(p)
    BY <1>3
  <2>2. events' \in Nat /\ servicing' \in Prio \cup {Q_NONE} /\ aborted' \in BOOLEAN
    BY <1>0, <2>1, BeginServiceType DEF ReceivePacket, NoService
  <2>3. [overtaken |-> 0] \in Packet
    BY DEF Packet
  <2>4. queue' \in [Prio -> Seq(Packet)]
    BY <1>0, <2>1, <2>3 DEF ReceivePacket
  <2>5. received' \in 0 .. MaxPackets
    BY <1>0, <2>1 DEF ReceivePacket
  <2> QED BY <1>0, <2>1, <2>2, <2>4, <2>5 DEF ReceivePacket, TypeOK
<1>4. CASE CompleteService
  <2>1. CASE servicing \notin Waiting(queue)
    BY <1>0, <1>4, <2>1 DEF CompleteService, TypeOK
  <2>2. CASE servicing \in Waiting(queue)
    <3>1. queue' \in [Prio -> Seq(Packet)]
      BY <1>4, <2>2, DepartProperties DEF CompleteService
    <3>2. events - 1 \in Nat
      BY <1>0, <1>4 DEF CompleteService
    <3>3. events' \in Nat /\ servicing' \in Prio \cup {Q_NONE} /\ aborted' \in BOOLEAN
      BY <1>0, <1>4, <2>2, <3>2, BeginServiceType DEF CompleteService, NoService
    <3>4. /\ stateSend' \in {"READY", "PAUSED", "PAUSE_RECEIVED"}
          /\ afterPause' \in Nat
      BY <1>0, <1>4, <2>2 DEF CompleteService, AfterService
    <3> QED BY <1>0, <1>4, <2>2, <3>1, <3>3, <3>4 DEF CompleteService, TypeOK
  <2> QED BY <2>1, <2>2
<1>5. CASE DropAll
  <2>1. [p \in Prio |-> <<>>] \in [Prio -> Seq(Packet)]
    OBVIOUS
  <2> QED BY <1>0, <1>5, <2>1 DEF DropAll, Cancelled, TypeOK
<1>6. CASE UNCHANGED vars
  BY <1>6 DEF vars, TypeOK
<1> QED BY <1>1, <1>2, <1>3, <1>4, <1>5, <1>6 DEF Next

-----------------------------------------------------------------------------
(* The steps, one lemma for each action that changes the queue or its      *)
(* events, under the assumption that no PAUSE has ended early.             *)
Safe == OneService /\ Held /\ Passed

(* Service starts at levels q of which none was in service, with no other  *)
(* event, and no packet has been overtaken more than once.                 *)
LEMMA BeginServiceStep ==
  ASSUME NEW q \in [Prio -> Seq(Packet)], queue' = q, Waiting(q) # {},
         stateSend' = "READY", BeginService(q, 0, "READY"), ~ told',
         \A p \in Prio : \A i \in DOMAIN q[p] : q[p][i].overtaken <= 1
  PROVE  Safe'
<1>1. /\ ~ aborted' /\ events' = 1 /\ servicing' = NextLevel(q)
      /\ servicing' \in Waiting(q)
      /\ \A p \in Waiting(q) : p <= servicing'
  <2>1. aborted' = FALSE /\ events' = 0 + 1 /\ servicing' = NextLevel(q)
    BY DEF BeginService
  <2>2. NextLevel(q) \in Waiting(q) /\ \A p \in Waiting(q) : p <= NextLevel(q)
    BY NextLevelProperties
  <2> QED BY <2>1, <2>2
<1>2. OneService'
  BY <1>1 DEF OneService, NoAssertFails
<1>3. Held'
  BY DEF Held
<1>4. ASSUME NEW p \in Prio, NEW i \in DOMAIN q[p] PROVE ~ (servicing' < p)
  <2>1. q[p] # <<>>
    BY <1>4
  <2>2. p \in Waiting(q)
    BY <2>1 DEF Waiting
  <2> QED BY <1>1, <2>2 DEF Waiting, Prio, Q_LO, Q_MID, Q_HI
<1>5. Passed'
  BY <1>4 DEF Passed
<1> QED BY <1>2, <1>3, <1>5 DEF Safe

LEMMA ReceivePauseStep ==
  ASSUME TypeOK, Safe, ReceivePause, ~ early
  PROVE  Safe'
<1>1. /\ UNCHANGED <<queue, events, servicing, aborted, early>>
      /\ stateSend' # "READY" /\ afterPause' = 0 /\ events \in Nat
  BY DEF ReceivePause, NoService, TypeOK
<1>2. OneService'
  BY <1>1 DEF OneService, NoAssertFails, Safe, Waiting
<1>3. Held'
  BY <1>1 DEF Held, OneService, Safe
<1>4. Passed'
  BY <1>1 DEF Passed, Safe
<1> QED BY <1>2, <1>3, <1>4 DEF Safe

LEMMA ReceiveUnpauseStep ==
  ASSUME TypeOK, Safe, ReceiveUnpause, ~ early'
  PROVE  Safe'
<1>1. ~ early /\ events = 0 /\ queue' = queue /\ ~ told' /\ stateSend' = "READY"
  <2>1. early' = (early \/ events > 0)
    BY DEF ReceiveUnpause
  <2>2. ~ early /\ ~ (events > 0)
    BY <2>1, Zenon
  <2>3. events \in Nat
    BY DEF TypeOK
  <2>4. queue' = queue /\ told' = FALSE /\ stateSend' = "READY"
    BY DEF ReceiveUnpause
  <2> QED BY <2>2, <2>3, <2>4
<1>2. CASE Waiting(queue) # {}
  <2>1. BeginService(queue, 0, "READY") /\ queue \in [Prio -> Seq(Packet)]
    BY <1>1, <1>2 DEF ReceiveUnpause, TypeOK
  <2>2. \A p \in Prio : \A i \in DOMAIN queue[p] : queue[p][i].overtaken <= 1
    BY <1>1 DEF Safe, Passed
  <2> QED BY <1>1, <1>2, <2>1, <2>2, BeginServiceStep
<1>3. CASE Waiting(queue) = {}
  <2>1. UNCHANGED <<servicing, aborted>> /\ events' = 0
    BY <1>1, <1>3 DEF ReceiveUnpause, NoService
  <2>2. OneService'
    BY <1>1, <1>3, <2>1 DEF OneService, NoAssertFails, Safe, Waiting
  <2>3. Held'
    BY <1>1 DEF Held
  <2>4. Passed'
    BY <1>1, <2>1 DEF Passed, Safe
  <2> QED BY <2>2, <2>3, <2>4 DEF Safe
<1> QED BY <1>2, <1>3

LEMMA ReceivePacketStep ==
  ASSUME TypeOK, Safe, NEW prio \in Prio, ReceivePacket(prio), ~ early
  PROVE  Safe'
<1>1. /\ queue \in [Prio -> Seq(Packet)] /\ events \in Nat
      /\ UNCHANGED <<stateSend, told, afterPause, early>>
      /\ queue' = [queue EXCEPT ![prio] = Append(@, [overtaken |-> 0])]
  BY DEF ReceivePacket, TypeOK
<1>2. /\ ~ aborted /\ events <= 1
      /\ events = 1 => servicing \in Waiting(queue)
      /\ stateSend = "READY" /\ Waiting(queue) # {} => events = 1
  BY DEF OneService, NoAssertFails, Safe
<1>3. queue' \in [Prio -> Seq(Packet)]
  <2>1. [overtaken |-> 0] \in Packet
    BY DEF Packet
  <2> QED BY <1>1, <2>1
<1>4. Waiting(queue') = Waiting(queue) \cup {prio}
  BY <1>1 DEF Waiting
<1>5. ASSUME NEW p \in Prio, NEW i \in DOMAIN queue'[p]
      PROVE  \/ queue'[p][i].overtaken = 0
             \/ i \in DOMAIN queue[p] /\ queue'[p][i] = queue[p][i]
  BY <1>1
<1>6. \A p \in Prio : \A i \in DOMAIN queue'[p] : queue'[p][i].overtaken <= 1
  BY <1>5 DEF Passed, Safe
<1>7. CASE MayStart(Waiting(queue))
  <2>1. Waiting(queue) = {} /\ stateSend = "READY" /\ events = 0
    BY <1>1, <1>2, <1>7 DEF MayStart
  <2>2. BeginService(queue', 0, "READY") /\ Waiting(queue') # {}
    BY <1>4, <1>7, <2>1 DEF ReceivePacket
  <2>3. ~ told' /\ stateSend' = "READY"
    BY <1>1, <2>1 DEF Held, Safe
  <2> HIDE DEF Safe
  <2> QED BY <1>3, <1>6, <2>2, <2>3, BeginServiceStep
<1>8. CASE ~ MayStart(Waiting(queue))
  <2>1. UNCHANGED <<events, servicing, aborted>>
    BY <1>8 DEF ReceivePacket, NoService
  <2>2. OneService'
    BY <1>1, <1>2, <1>4, <1>8, <2>1 DEF OneService, NoAssertFails, MayStart
  <2>3. Held'
    BY <1>1, <2>1 DEF Held, Safe
  <2>4. Passed'
    BY <1>1, <1>5, <1>6, <2>1 DEF Passed, Safe
  <2> QED BY <2>2, <2>3, <2>4 DEF Safe
<1> QED BY <1>7, <1>8

LEMMA CompleteServiceStep ==
  ASSUME TypeOK, Safe, CompleteService, ~ early
  PROVE  Safe'
<1>1. /\ events = 1 /\ servicing \in Waiting(queue) /\ ~ aborted
      /\ servicing \in Prio
  BY DEF OneService, NoAssertFails, Safe, CompleteService, TypeOK, Waiting
<1> DEFINE p == servicing
           D == Depart(p)
<1>2. /\ queue' = D /\ stateSend' = AfterService
      /\ afterPause' = (IF told THEN afterPause + 1 ELSE 0)
      /\ UNCHANGED <<told, early>>
  BY <1>1 DEF CompleteService
<1>3. /\ D \in [Prio -> Seq(Packet)]
      /\ queue \in [Prio -> Seq(Packet)] /\ afterPause \in Nat
      /\ \A l \in Prio \ {p} : Len(D[l]) = Len(queue[l])
  BY <1>1, DepartProperties DEF TypeOK
<1>4. \A l \in Prio : \A i \in DOMAIN D[l] : D[l][i].overtaken <= 1
  <2> SUFFICES ASSUME NEW l \in Prio, NEW i \in DOMAIN D[l]
               PROVE  D[l][i].overtaken <= 1
    OBVIOUS
  <2>1. ASSUME NEW j \in DOMAIN queue[l]
        PROVE  /\ queue[l][j].overtaken <= 1
               /\ p < l => queue[l][j].overtaken = 0
    BY <1>1 DEF Passed, Safe
  <2> HIDE DEF D
  <2>2. CASE l = p
    <3>1. D[l] = Tail(queue[l]) /\ queue[l] # <<>> /\ queue[l] \in Seq(Packet)
      BY <1>1, <1>3, <2>2 DEF D, Depart, Waiting
    <3>2. D[l][i] = queue[l][i + 1] /\ i + 1 \in DOMAIN queue[l]
      BY <3>1
    <3> QED BY <2>1, <3>2
  <2>3. CASE l # p /\ l > p
    <3>1. D[l] = [j \in DOMAIN queue[l] |-> [overtaken |-> queue[l][j].overtaken + 1]]
      BY <2>3 DEF D, Depart
    <3>2. i \in DOMAIN queue[l] /\ D[l][i].overtaken = queue[l][i].overtaken + 1
      BY <3>1
    <3>3. p < l
      BY <1>1, <2>3 DEF Prio, Q_LO, Q_MID, Q_HI
    <3> QED BY <2>1, <3>2, <3>3
  <2>4. CASE l # p /\ ~ (l > p)
    <3>1. D[l] = queue[l]
      BY <2>4 DEF D, Depart
    <3> QED BY <2>1, <3>1
  <2> QED BY <2>2, <2>3, <2>4
<1>5. told => stateSend # "READY" /\ afterPause = 0
  BY <1>1, <1>3 DEF Held, Safe
<1>6. CASE Waiting(D) # {} /\ stateSend' = "READY"
  <2>1. BeginService(queue', 0, "READY") /\ ~ told'
    BY <1>1, <1>2, <1>5, <1>6 DEF CompleteService, AfterService
  <2> QED BY <1>2, <1>3, <1>4, <1>6, <2>1, BeginServiceStep
<1>7. CASE Waiting(D) = {} \/ stateSend' # "READY"
  <2>1. events' = 0 /\ UNCHANGED aborted
    BY <1>1, <1>2, <1>7 DEF CompleteService, NoService
  <2>2. OneService'
    BY <1>1, <1>2, <1>7, <2>1 DEF OneService, NoAssertFails
  <2>3. Held'
    BY <1>2, <1>5, <2>1 DEF Held, AfterService
  <2>4. Passed'
    BY <1>2, <1>4, <2>1 DEF Passed
  <2> QED BY <2>2, <2>3, <2>4 DEF Safe
<1> QED BY <1>6, <1>7

LEMMA DropAllStep ==
  ASSUME TypeOK, Safe, DropAll, ~ early
  PROVE  Safe'
<1>1. /\ queue' = [p \in Prio |-> <<>>] /\ events' = 0
      /\ UNCHANGED <<stateSend, told, afterPause, early, aborted>>
  BY DEF DropAll, Cancelled, OneService, Safe, TypeOK
<1>2. Waiting(queue') = {}
  BY <1>1 DEF Waiting
<1>3. OneService'
  BY <1>1, <1>2 DEF OneService, NoAssertFails, Safe
<1>4. Held'
  BY <1>1 DEF Held, Safe, TypeOK
<1>5. Passed'
  BY <1>1 DEF Passed
<1> QED BY <1>3, <1>4, <1>5 DEF Safe

LEMMA SafeStep == TypeOK /\ Safe /\ [Next]_vars => Safe'
<1> SUFFICES ASSUME TypeOK, Safe, [Next]_vars PROVE Safe'
  OBVIOUS
<1>1. CASE early'
  BY <1>1 DEF Safe, OneService, Held, Passed
<1>2. CASE ~ early'
  <2>1. CASE ReceivePause
    BY <1>2, <2>1, ReceivePauseStep DEF ReceivePause
  <2>2. CASE ReceiveUnpause
    BY <1>2, <2>2, ReceiveUnpauseStep
  <2>3. CASE \E p \in Prio : ReceivePacket(p)
    <3>1. PICK p \in Prio : ReceivePacket(p)
      BY <2>3
    <3>2. ~ early
      BY <1>2, <3>1 DEF ReceivePacket
    <3> QED BY <3>1, <3>2, ReceivePacketStep
  <2>4. CASE CompleteService
    BY <1>2, <2>4, CompleteServiceStep DEF CompleteService
  <2>5. CASE DropAll
    BY <1>2, <2>5, DropAllStep DEF DropAll
  <2>6. CASE UNCHANGED vars
    BY <2>6 DEF vars, Safe, OneService, NoAssertFails, Held, Passed, Waiting
  <2> QED BY <2>1, <2>2, <2>3, <2>4, <2>5, <2>6 DEF Next
<1> QED BY <1>1, <1>2

LEMMA InitInvariant == Init => IInv
<1> SUFFICES ASSUME Init PROVE IInv
  OBVIOUS
<1>1. [p \in Prio |-> <<>>] \in [Prio -> Seq(Packet)]
  OBVIOUS
<1>2. TypeOK
  <2>1. 0 \in 0 .. MaxPackets
    BY PriorityQueueAssumption
  <2>2. queue \in [Prio -> Seq(Packet)]
    BY <1>1 DEF Init
  <2> QED BY <2>1, <2>2 DEF Init, TypeOK
<1>3. Waiting(queue) = {}
  BY DEF Init, Waiting
<1> QED BY <1>2, <1>3 DEF Init, IInv, OneService, NoAssertFails, Held, Passed

-----------------------------------------------------------------------------
(* IInv holds in every state. *)
THEOREM Invariant == Spec => []IInv
<1>1. IInv /\ [Next]_vars => IInv'
  BY TypeStep, SafeStep DEF IInv, Safe
<1> QED BY <1>1, InitInvariant, PTL DEF Spec

(* The state of the queue is always of its type. *)
THEOREM TypeCorrect == Spec => []TypeOK
<1>1. IInv => TypeOK
  BY DEF IInv
<1> QED BY <1>1, Invariant, PTL

(* However many packets come and go, until a PAUSE ends early at most one  *)
(* service is under way, none is forgotten, and no assert of               *)
(* beginService() and completeService() fails.                             *)
THEOREM ServesOneByOne == Spec => []OneService
<1>1. IInv => OneService
  BY DEF IInv
<1> QED BY <1>1, Invariant, PTL

(* Priority inversion is bounded: a packet waits for at most one packet of *)
(* lower priority.                                                         *)
THEOREM OvertakenAtMostOnce == Spec => []OvertakenOnce
<1>1. IInv => OvertakenOnce
  BY DEF IInv, Passed, OvertakenOnce
<1> QED BY <1>1, Invariant, PTL

(* After a PAUSE at most one packet leaves before its end. *)
THEOREM HoldsBack == Spec => []PauseHonoured
<1>1. IInv => PauseHonoured
  BY DEF IInv, Held, TypeOK, PauseHonoured
<1> QED BY <1>1, Invariant, PTL
=============================================================================
