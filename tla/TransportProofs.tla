-------------------------- MODULE TransportProofs --------------------------
(***************************************************************************)
(* Proofs about the transports that run over routes: the sub-flows of a    *)
(* multipath flow and the counts of their routes, for any paths, number of *)
(* sub-flows, updates and packets; and a TCP connection over a network     *)
(* that loses packets and delivers them out of order, for any packet size, *)
(* size of the flow, initial window and number of troubles.                *)
(***************************************************************************)
EXTENDS SubFlows, TcpFlow, SequenceLemmas

-----------------------------------------------------------------------------
(* The sub-flows of a multipath flow.                                      *)

(* How often i is in the sequence s. *)
Cnt(s, i) == Cardinality({n \in DOMAIN s : s[n] = i})

LEMMA CntType ==
  ASSUME NEW s \in Seq(SubFlow), NEW i
  PROVE  /\ IsFiniteSet({n \in DOMAIN s : s[n] = i})
         /\ Cnt(s, i) \in Nat
<1>1. DOMAIN s = 1 .. Len(s) /\ Len(s) \in Nat
  OBVIOUS
<1>2. IsFiniteSet(1 .. Len(s))
  BY <1>1, FS_Interval
<1>3. IsFiniteSet({n \in DOMAIN s : s[n] = i})
  BY <1>1, <1>2, FS_Subset
<1> QED BY <1>3, FS_CardinalityType DEF Cnt

LEMMA CntAppend ==
  ASSUME NEW s \in Seq(SubFlow), NEW j \in SubFlow, NEW i
  PROVE  Cnt(Append(s, j), i) = IF i = j THEN Cnt(s, i) + 1 ELSE Cnt(s, i)
<1> DEFINE t == Append(s, j)
           S == {n \in DOMAIN s : s[n] = i}
           T == {n \in DOMAIN t : t[n] = i}
<1>1. /\ Len(s) \in Nat /\ DOMAIN s = 1 .. Len(s) /\ DOMAIN t = 1 .. Len(s) + 1
      /\ t[Len(s) + 1] = j
      /\ \A n \in 1 .. Len(s) : t[n] = s[n]
  OBVIOUS
<1>2. IsFiniteSet(S) /\ Len(s) + 1 \notin S
  <2>1. IsFiniteSet(S)
    BY CntType
  <2> QED BY <1>1, <2>1
<1>3. CASE i = j
  <2>1. T = S \cup {Len(s) + 1}
    BY <1>1, <1>3
  <2>2. Cardinality(T) = Cardinality(S) + 1
    BY <1>2, <2>1, FS_AddElement
  <2> QED BY <1>3, <2>2 DEF Cnt
<1>4. CASE i # j
  <2>1. T = S
    BY <1>1, <1>4
  <2> QED BY <1>4, <2>1 DEF Cnt
<1> QED BY <1>3, <1>4

LEMMA CntFront ==
  ASSUME NEW s \in Seq(SubFlow), s # <<>>, NEW i
  PROVE  /\ Front(s) \in Seq(SubFlow) /\ Last(s) \in SubFlow
         /\ \E n \in DOMAIN s : s[n] = Last(s)
         /\ \A n \in DOMAIN Front(s) : n \in DOMAIN s /\ Front(s)[n] = s[n]
         /\ Cnt(Front(s), i) = IF i = Last(s) THEN Cnt(s, i) - 1 ELSE Cnt(s, i)
<1> DEFINE m == Len(s)
           t == Front(s)
           S == {n \in DOMAIN s : s[n] = i}
           T == {n \in DOMAIN t : t[n] = i}
<1>1. m \in Nat /\ m > 0 /\ DOMAIN s = 1 .. m /\ Last(s) = s[m] /\ s[m] \in SubFlow
  BY DEF Last
<1>2. /\ t \in Seq(SubFlow) /\ DOMAIN t = 1 .. m - 1
      /\ \A n \in 1 .. m - 1 : t[n] = s[n]
  <2>1. t = SubSeq(s, 1, m - 1)
    BY DEF Front
  <2> QED BY <1>1, <2>1, SubSeqProperties
<1> HIDE DEF t
<1>3. IsFiniteSet(S)
  BY CntType
<1>4. Cnt(t, i) = IF i = s[m] THEN Cnt(s, i) - 1 ELSE Cnt(s, i)
  <2>1. CASE i = s[m]
    <3>1. T = S \ {m} /\ m \in S
      BY <1>1, <1>2, <2>1
    <3>2. Cardinality(T) = Cardinality(S) - 1
      BY <1>3, <3>1, FS_RemoveElement
    <3> QED BY <2>1, <3>2 DEF Cnt
  <2>2. CASE i # s[m]
    <3>1. T = S
      BY <1>1, <1>2, <2>2
    <3> QED BY <2>2, <3>1 DEF Cnt
  <2> QED BY <2>1, <2>2
<1>5. \E n \in DOMAIN s : s[n] = Last(s)
  <2>1. m \in DOMAIN s /\ s[m] = Last(s)
    BY <1>1
  <2> QED BY <2>1, Zenon
<1>6. \A n \in DOMAIN t : n \in DOMAIN s /\ t[n] = s[n]
  BY <1>1, <1>2
<1> QED BY <1>1, <1>2, <1>4, <1>5, <1>6 DEF t
-----------------------------------------------------------------------------
(* Nothing is ever collected, packets have the routes of sub-flows made,   *)
(* and each way carries the kinds of packets that go it.                   *)
SubFlowsTypes ==
  /\ path \in Seq(Path) /\ Len(path) <= MaxSubFlows
  /\ current \subseteq Made /\ garbage \subseteq Made /\ gone = {}
  /\ now \in 0 .. MaxUpdates /\ gcTime = Never
  /\ refs \in [Way -> [SubFlow -> Nat]]
  /\ deleted \in [Way -> SUBSET SubFlow] /\ deleted["out"] = {}
  /\ flight \in [Way -> [SubFlow -> Seq(Kind)]]
  /\ flight["out"] \in [SubFlow -> Seq({"ctl", "data"})]
  /\ flight["back"] \in [SubFlow -> Seq({"ctlack", "ack"})]
  /\ \A w \in Way : \A i \in SubFlow : i \in Made \/ flight[w][i] = <<>>
  /\ pool \in [Kind -> Seq(SubFlow)]
  /\ \A k \in Kind : \A n \in DOMAIN pool[k] : pool[k][n] \in Made
  /\ ctls \in [SubFlow -> Nat] /\ kept \in [SubFlow -> Nat]
  /\ broken \in BOOLEAN

(* A route out has the reference of its map entry and one per packet; one  *)
(* back has one per packet until it is deleted, when no packet has it.     *)
Counts ==
  ~ broken =>
    /\ \A i \in Made : refs["out"][i] > Users("out", i)
    /\ \A i \in SubFlow : refs["out"][i] >= Users("out", i)
    /\ \A i \in SubFlow : IF i \in deleted["back"]
                            THEN flight["back"][i] = <<>>
                            ELSE refs["back"][i] = Users("back", i)

Kept == \A i \in deleted["back"] : kept[i] = 0

SubFlowsInv == SubFlowsTypes /\ Counts /\ Kept

LEMMA SubFlowsConstants ==
  /\ MaxSubFlows \in Nat /\ MaxUpdates \in Nat /\ Rtt \in Nat /\ Never \in Nat
  /\ Never > MaxUpdates + 2 * Rtt
  /\ IsFiniteSet(Path)
  BY SubFlowsAssumption

(* The garbage is never collected: its time is at the end of all times.    *)
LEMMA NeverCollects ==
  ASSUME SubFlowsTypes
  PROVE  ~ Collects
  BY SubFlowsConstants DEF SubFlowsTypes, Collects

LEMMA PooledIs ==
  ASSUME NEW k, NEW i
  PROVE  Pooled(k, i) = Cnt(pool[k], i)
  BY DEF Pooled, Cnt

LEMMA CountTypes ==
  ASSUME SubFlowsTypes, NEW i \in SubFlow
  PROVE  /\ \A w \in Way : refs[w][i] \in Nat /\ Len(flight[w][i]) \in Nat
         /\ \A k \in Kind : Pooled(k, i) \in Nat
         /\ kept[i] \in Nat
         /\ Users("out", i) \in Nat /\ Users("back", i) \in Nat
<1>1. \A k \in Kind : pool[k] \in Seq(SubFlow)
  BY DEF SubFlowsTypes
<1>2. \A k \in Kind : Pooled(k, i) \in Nat
  BY <1>1, CntType, PooledIs
<1>3. \A w \in Way : refs[w][i] \in Nat /\ flight[w][i] \in Seq(Kind)
  BY DEF SubFlowsTypes
<1>4. kept[i] \in Nat
  BY DEF SubFlowsTypes
<1>5. \A w \in Way : refs[w][i] \in Nat /\ Len(flight[w][i]) \in Nat
  BY <1>3
<1>6. /\ Len(flight["out"][i]) \in Nat /\ Len(flight["back"][i]) \in Nat
      /\ Pooled("ctl", i) \in Nat /\ Pooled("data", i) \in Nat
      /\ Pooled("ctlack", i) \in Nat /\ Pooled("ack", i) \in Nat
  BY <1>2, <1>5 DEF Way, Kind
<1>7. Users("out", i) \in Nat /\ Users("back", i) \in Nat
  <2>1. Users("out", i) = Len(flight["out"][i]) + Pooled("ctl", i) + Pooled("data", i)
    BY DEF Users
  <2>2. Users("back", i) = Len(flight["back"][i]) + Pooled("ctlack", i) + Pooled("ack", i)
                             + kept[i]
    BY DEF Users
  <2> DEFINE a == Len(flight["out"][i])
             b == Pooled("ctl", i)
             c == Pooled("data", i)
             d == Len(flight["back"][i])
             e == Pooled("ctlack", i)
             f == Pooled("ack", i)
             h == kept[i]
  <2>3. /\ a \in Nat /\ b \in Nat /\ c \in Nat
        /\ d \in Nat /\ e \in Nat /\ f \in Nat /\ h \in Nat
        /\ Users("out", i) = a + b + c /\ Users("back", i) = d + e + f + h
    BY <1>4, <1>6, <2>1, <2>2
  <2> HIDE DEF a, b, c, d, e, f, h
  <2> QED BY <2>3
<1> QED BY <1>2, <1>4, <1>5, <1>7

LEMMA MadeSubFlow ==
  ASSUME SubFlowsTypes
  PROVE  Made \subseteq SubFlow
  BY SubFlowsConstants DEF SubFlowsTypes, Made, SubFlow

LEMMA SetToSeqLen ==
  ASSUME NEW S, IsFiniteSet(S)
  PROVE  SetToSeq(S) \in Seq(S) /\ Len(SetToSeq(S)) = Cardinality(S)
<1> DEFINE n == Cardinality(S)
<1>1. n \in Nat /\ ExistsBijection(1 .. n, S)
  BY FS_CardinalityType
<1>2. \E f \in [1 .. n -> S] : IsInjective(f)
  BY <1>1 DEF ExistsBijection, Bijection, Injection, IsInjective
<1>3. SetToSeq(S) \in [1 .. n -> S]
  BY <1>2, Zenon DEF SetToSeq
<1> QED BY <1>1, <1>3

LEMMA Joined ==
  ASSUME NEW S, NEW s \in Seq(S), NEW t \in Seq(S)
  PROVE  s \o t \in Seq(S) /\ Len(s \o t) = Len(s) + Len(t) /\ Len(s) \in Nat
  OBVIOUS

-----------------------------------------------------------------------------
LEMMA UpdateKeeps ==
  ASSUME SubFlowsInv, NEW found \in SUBSET Path, Update(found)
  PROVE  SubFlowsInv'
<1> DEFINE known == {i \in current : path[i] \in found}
           new == found \ {path[i] : i \in known}
           newIds == Len(path) + 1 .. Len(path) + Cardinality(new)
<1>1. SubFlowsTypes /\ Counts /\ Kept /\ ~ Collects
  BY NeverCollects DEF SubFlowsInv
<1>2. /\ now < MaxUpdates /\ Len(path) + Cardinality(new) <= MaxSubFlows
      /\ now' = now + 1 /\ path' = path \o SetToSeq(new)
      /\ current' = known \cup newIds
      /\ garbage' = garbage \cup (current \ known)
      /\ gone' = gone
      /\ UNCHANGED <<flight, pool, ctls, kept, broken>> /\ ~ broken
  BY <1>1, Zenon DEF Update
<1>3. /\ Cardinality(new) \in Nat /\ SetToSeq(new) \in Seq(Path)
      /\ Len(SetToSeq(new)) = Cardinality(new)
  <2>1. IsFiniteSet(new)
    BY SubFlowsConstants, FS_Subset
  <2>2. SetToSeq(new) \in Seq(new) /\ Len(SetToSeq(new)) = Cardinality(new)
    BY <2>1, SetToSeqLen
  <2> QED BY <2>1, <2>2, FS_CardinalityType
<1> HIDE DEF new
<1>4. /\ path' \in Seq(Path) /\ Len(path') = Len(path) + Cardinality(new)
      /\ Len(path) \in Nat /\ Made \subseteq Made' /\ newIds \subseteq Made' /\ newIds \subseteq SubFlow
      /\ Made' = Made \cup newIds
  <2>1. /\ path' \in Seq(Path) /\ Len(path') = Len(path) + Cardinality(new)
        /\ Len(path) \in Nat
    <3> DEFINE t == SetToSeq(new)
    <3>1. path \in Seq(Path) /\ t \in Seq(Path) /\ Len(t) = Cardinality(new) /\ path' = path \o t
      BY <1>1, <1>2, <1>3 DEF SubFlowsTypes
    <3> HIDE DEF t
    <3>2. path \o t \in Seq(Path) /\ Len(path \o t) = Len(path) + Len(t) /\ Len(path) \in Nat
      BY <3>1, Joined
    <3> QED BY <3>1, <3>2
  <2> QED BY <1>2, <1>3, <2>1, SubFlowsConstants DEF Made, SubFlow
<1>5. /\ refs' = [refs EXCEPT !["out"] = Owners(known \cup newIds, refs["out"])]
      /\ deleted' = deleted
  <2> DEFINE low == [w \in Way |-> Lowered(refs[w], {})]
  <2>1. /\ refs' = [low EXCEPT !["out"] = Owners(known \cup newIds, @)]
        /\ deleted' = [w \in Way |-> deleted[w] \cup {i \in {} : low[w][i] = 0}]
    BY <1>1 DEF Update, new
  <2>2. \A w \in Way : Lowered(refs[w], {}) = refs[w]
    BY <1>1 DEF Lowered, SubFlowsTypes
  <2>3. low = refs
    BY <1>1, <2>2 DEF SubFlowsTypes
  <2>4. \A w \in Way : {i \in {} : low[w][i] = 0} = {}
    OBVIOUS
  <2> HIDE DEF low
  <2>5. deleted' = deleted
    BY <1>1, <2>1, <2>4 DEF SubFlowsTypes
  <2> QED BY <2>1, <2>3, <2>5
<1>6. gcTime' = Never
  <2> DEFINE rtt == IF current \ known = {} THEN 0 ELSE Rtt
  <2>1. gcTime' = IF gcTime < now' + 2 * rtt THEN now' + 2 * rtt ELSE gcTime
    BY <1>1 DEF Update
  <2>2. rtt \in Nat /\ rtt <= Rtt
    BY SubFlowsConstants
  <2> HIDE DEF rtt
  <2>3. ~ (Never < now' + 2 * rtt)
    BY <1>1, <1>2, <2>2, SubFlowsConstants DEF SubFlowsTypes
  <2> QED BY <1>1, <2>1, <2>3 DEF SubFlowsTypes
<1>7. /\ refs' \in [Way -> [SubFlow -> Nat]]
      /\ refs'["back"] = refs["back"]
      /\ \A i \in SubFlow :
           /\ refs'["out"][i] >= refs["out"][i]
           /\ i \in newIds => refs'["out"][i] > refs["out"][i]
  <2>1. refs["out"] \in [SubFlow -> Nat]
    BY <1>1 DEF SubFlowsTypes, Way
  <2>2. /\ Owners(known \cup newIds, refs["out"]) \in [SubFlow -> Nat]
        /\ \A i \in SubFlow :
             /\ Owners(known \cup newIds, refs["out"])[i] >= refs["out"][i]
             /\ i \in newIds => Owners(known \cup newIds, refs["out"])[i] > refs["out"][i]
    BY <2>1 DEF Owners
  <2> QED BY <1>1, <1>5, <2>2 DEF SubFlowsTypes, Way
<1>8. SubFlowsTypes'
  <2>1. current' \subseteq Made' /\ garbage' \subseteq Made'
    BY <1>1, <1>2, <1>4 DEF SubFlowsTypes
  <2>2. now' \in 0 .. MaxUpdates /\ Len(path') <= MaxSubFlows
    BY <1>1, <1>2, <1>4, SubFlowsConstants DEF SubFlowsTypes
  <2>3. \A k \in Kind : \A n \in DOMAIN pool'[k] : pool'[k][n] \in Made'
    BY <1>1, <1>2, <1>4 DEF SubFlowsTypes
  <2>4. ctls' \in [SubFlow -> Nat] /\ kept' \in [SubFlow -> Nat] /\ pool' = pool
        /\ flight' = flight /\ broken' = broken /\ gone' = {}
    BY <1>1, <1>2 DEF SubFlowsTypes
  <2>5. \A v \in Way : \A j \in SubFlow : j \in Made' \/ flight'[v][j] = <<>>
    BY <1>1, <1>2, <1>4 DEF SubFlowsTypes
  <2> QED BY <1>1, <1>4, <1>5, <1>6, <1>7, <2>1, <2>2, <2>3, <2>4, <2>5 DEF SubFlowsTypes
<1>9. \A i : Users("out", i)' = Users("out", i) /\ Users("back", i)' = Users("back", i)
  BY <1>2 DEF Users, Pooled
<1>10. Counts'
  <2>1. /\ \A i \in Made : refs["out"][i] > Users("out", i)
        /\ \A i \in SubFlow : refs["out"][i] >= Users("out", i)
        /\ \A i \in SubFlow : IF i \in deleted["back"]
                                THEN flight["back"][i] = <<>>
                                ELSE refs["back"][i] = Users("back", i)
    BY <1>1, <1>2 DEF Counts
  <2>2. \A i \in SubFlow :
          /\ refs["out"][i] \in Nat /\ refs'["out"][i] \in Nat /\ Users("out", i) \in Nat
    BY <1>1, <1>7, CountTypes DEF Way
  <2>3. Made \subseteq SubFlow /\ newIds \subseteq SubFlow /\ Made' = Made \cup newIds
    BY <1>1, <1>4, MadeSubFlow
  <2>4. \A i \in Made' : refs'["out"][i] > Users("out", i)
    <3>1. ASSUME NEW i \in Made PROVE refs'["out"][i] > Users("out", i)
      BY <1>7, <2>1, <2>2, <2>3
    <3>2. ASSUME NEW i \in newIds PROVE refs'["out"][i] > Users("out", i)
      BY <1>7, <2>1, <2>2, <2>3
    <3> QED BY <2>3, <3>1, <3>2
  <2>5. \A i \in SubFlow : refs'["out"][i] >= Users("out", i)
    BY <1>7, <2>1, <2>2
  <2>6. \A i \in SubFlow : IF i \in deleted'["back"]
                             THEN flight'["back"][i] = <<>>
                             ELSE refs'["back"][i] = Users("back", i)
    BY <1>2, <1>5, <1>7, <2>1
  <2> QED BY <1>9, <2>4, <2>5, <2>6 DEF Counts
<1>11. Kept'
  BY <1>1, <1>2, <1>5 DEF Kept
<1> QED BY <1>8, <1>10, <1>11 DEF SubFlowsInv

-----------------------------------------------------------------------------
Kinds(w) == IF w = "out" THEN {"ctl", "data"} ELSE {"ctlack", "ack"}

(* A packet that is taken from its pool, if there is one: its old route is *)
(* that of a sub-flow that was made.                                       *)
LEMMA PoolPops ==
  ASSUME SubFlowsTypes, NEW k \in Kind
  PROVE  /\ Rest(k) \in Seq(SubFlow)
         /\ OldRoute(k) \subseteq Made
         /\ \A n \in DOMAIN Rest(k) : Rest(k)[n] \in Made
         /\ \A j : Cnt(Rest(k), j) = IF j \in OldRoute(k) THEN Pooled(k, j) - 1
                                                          ELSE Pooled(k, j)
         /\ \A j \in OldRoute(k) : OldRoute(k) = {j}
<1>1. pool[k] \in Seq(SubFlow) /\ \A n \in DOMAIN pool[k] : pool[k][n] \in Made
  BY DEF SubFlowsTypes
<1>2. CASE pool[k] = <<>>
  <2>1. Rest(k) = <<>> /\ OldRoute(k) = {} /\ DOMAIN Rest(k) = {}
    BY <1>2 DEF Rest, OldRoute
  <2>2. \A j : Cnt(Rest(k), j) = Pooled(k, j)
    BY <1>2, <2>1, PooledIs
  <2> QED BY <2>1, <2>2
<1>3. CASE pool[k] # <<>>
  <2>1. Rest(k) = Front(pool[k]) /\ OldRoute(k) = {Last(pool[k])}
    BY <1>3 DEF Rest, OldRoute
  <2>2. /\ Front(pool[k]) \in Seq(SubFlow)
        /\ \E n \in DOMAIN pool[k] : pool[k][n] = Last(pool[k])
        /\ \A n \in DOMAIN Front(pool[k]) :
             n \in DOMAIN pool[k] /\ Front(pool[k])[n] = pool[k][n]
        /\ \A j : Cnt(Front(pool[k]), j) = IF j = Last(pool[k]) THEN Cnt(pool[k], j) - 1
                                                                 ELSE Cnt(pool[k], j)
    BY <1>1, <1>3, CntFront
  <2>3. Last(pool[k]) \in Made /\ \A n \in DOMAIN Rest(k) : Rest(k)[n] \in Made
    BY <1>1, <2>1, <2>2
  <2>4. \A j : Cnt(Rest(k), j) = IF j \in OldRoute(k) THEN Pooled(k, j) - 1
                                                      ELSE Pooled(k, j)
    BY <2>1, <2>2, PooledIs
  <2> QED BY <2>1, <2>2, <2>3, <2>4
<1> QED BY <1>2, <1>3

(* What set_route() does to the counts of both routes. *)
LEMMA RouteSet ==
  ASSUME SubFlowsTypes, NEW w \in Way, NEW k \in Kind, WayOf(k) = w,
         NEW i \in SubFlow, SetRoute(k, i)
  PROVE  /\ refs' \in [Way -> [SubFlow -> Nat]]
         /\ \A v \in Way \ {w} : refs'[v] = refs[v] /\ deleted'[v] = deleted[v]
         /\ deleted' \in [Way -> SUBSET SubFlow]
         /\ deleted'[w] = deleted[w] \cup {j \in OldRoute(k) \ {i} : refs'[w][j] = 0}
         /\ refs'[w][i] = IF i \in OldRoute(k) THEN refs[w][i] ELSE refs[w][i] + 1
         /\ \A j \in SubFlow \ {i} :
              refs'[w][j] = IF j \in OldRoute(k) /\ refs[w][j] > 0
                              THEN refs[w][j] - 1 ELSE refs[w][j]
         /\ broken' \in BOOLEAN
         /\ ~ broken' => i \notin deleted[w] /\ OldRoute(k) \cap deleted[w] \subseteq {i}
<1> DEFINE old == OldRoute(k) \ {i}
           low == Lowered(refs[w], old)
<1>1. /\ refs' = [refs EXCEPT ![w] =
                    IF OldRoute(k) = {i} THEN refs[w] ELSE [low EXCEPT ![i] = @ + 1]]
      /\ deleted' = [deleted EXCEPT ![w] = deleted[w] \cup {j \in old : low[j] = 0}]
      /\ broken' = \E j \in {i} \cup old : j \in deleted[w]
  BY DEF SetRoute
<1>2. /\ refs[w] \in [SubFlow -> Nat] /\ deleted[w] \subseteq SubFlow
      /\ OldRoute(k) \subseteq SubFlow
      /\ i \in OldRoute(k) <=> OldRoute(k) = {i}
      /\ refs \in [Way -> [SubFlow -> Nat]] /\ deleted \in [Way -> SUBSET SubFlow]
  BY PoolPops, MadeSubFlow DEF SubFlowsTypes
<1>3. /\ low \in [SubFlow -> Nat]
      /\ \A j \in SubFlow : low[j] = IF j \in old /\ refs[w][j] > 0
                                       THEN refs[w][j] - 1 ELSE refs[w][j]
  BY <1>2 DEF Lowered
<1> HIDE DEF low
<1>4. CASE i \in OldRoute(k)
  <2>1. old = {} /\ refs' = [refs EXCEPT ![w] = refs[w]]
    BY <1>1, <1>2, <1>4
  <2>2. refs' = refs /\ deleted'[w] = deleted[w]
    BY <1>1, <1>2, <2>1
  <2>3. OldRoute(k) = {i} /\ OldRoute(k) \ {i} = {}
    BY <1>2, <1>4
  <2>4. broken' \in BOOLEAN /\ (~ broken' => i \notin deleted[w])
    BY <1>1
  <2>5. \A v \in Way \ {w} : refs'[v] = refs[v] /\ deleted'[v] = deleted[v]
    BY <1>1, <1>2, <2>2
  <2>6. deleted' \in [Way -> SUBSET SubFlow]
    BY <1>1, <1>2, <2>1
  <2> QED BY <1>2, <1>4, <2>2, <2>3, <2>4, <2>5, <2>6
<1>5. CASE i \notin OldRoute(k)
  <2>1. old = OldRoute(k) /\ refs' = [refs EXCEPT ![w] = [low EXCEPT ![i] = low[i] + 1]]
    BY <1>1, <1>2, <1>5
  <2>2. refs'[w] = [low EXCEPT ![i] = low[i] + 1] /\ refs' \in [Way -> [SubFlow -> Nat]]
    BY <1>2, <1>3, <2>1
  <2>3. /\ refs'[w][i] = refs[w][i] + 1
        /\ \A j \in SubFlow \ {i} :
             refs'[w][j] = IF j \in OldRoute(k) /\ refs[w][j] > 0
                             THEN refs[w][j] - 1 ELSE refs[w][j]
    BY <1>2, <1>3, <1>5, <2>1, <2>2
  <2>4. {j \in old : low[j] = 0} = {j \in OldRoute(k) \ {i} : refs'[w][j] = 0}
    BY <1>2, <1>3, <1>5, <2>1, <2>2
  <2>5. deleted'[w] = deleted[w] \cup {j \in OldRoute(k) \ {i} : refs'[w][j] = 0}
    BY <1>1, <1>2, <2>4
  <2>6. \A v \in Way \ {w} : refs'[v] = refs[v] /\ deleted'[v] = deleted[v]
    BY <1>1, <1>2, <2>1
  <2>7. deleted' \in [Way -> SUBSET SubFlow]
    BY <1>1, <1>2, <2>1
  <2>8. broken' \in BOOLEAN /\ (~ broken' => i \notin deleted[w] /\ old \cap deleted[w] = {})
    BY <1>1
  <2> QED BY <1>5, <2>1, <2>2, <2>3, <2>5, <2>6, <2>7, <2>8
<1> QED BY <1>4, <1>5

(* The users of a route, before and after a step. *)
LEMMA UsersAre ==
  ASSUME NEW j
  PROVE  /\ Users("out", j) = Len(flight["out"][j]) + Pooled("ctl", j) + Pooled("data", j)
         /\ Users("back", j) = Len(flight["back"][j]) + Pooled("ctlack", j)
                                 + Pooled("ack", j) + kept[j]
<1>1. Users("out", j) = Len(flight["out"][j]) + Pooled("ctl", j) + Pooled("data", j)
  BY DEF Users
<1>2. Users("back", j) = Len(flight["back"][j]) + Pooled("ctlack", j)
                           + Pooled("ack", j) + kept[j]
  BY DEF Users
<1> QED BY <1>1, <1>2

LEMMA UsersAreNext ==
  ASSUME NEW j
  PROVE  /\ Users("out", j)' = Len(flight'["out"][j]) + Pooled("ctl", j)' + Pooled("data", j)'
         /\ Users("back", j)' = Len(flight'["back"][j]) + Pooled("ctlack", j)'
                                  + Pooled("ack", j)' + kept'[j]
<1>1. Users("out", j)' = Len(flight'["out"][j]) + Pooled("ctl", j)' + Pooled("data", j)'
  BY DEF Users
<1>2. Users("back", j)' = Len(flight'["back"][j]) + Pooled("ctlack", j)'
                            + Pooled("ack", j)' + kept'[j]
  BY DEF Users
<1> QED BY <1>1, <1>2

One(b) == IF b THEN 1 ELSE 0

(* What changes in one of the addends changes in the sum.                  *)
LEMMA Sums ==
  ASSUME NEW a \in Int, NEW b \in Int, NEW c \in Int, NEW d \in Int,
         NEW x \in Int, NEW y \in Int, NEW z \in Int
  PROVE  /\ x + y + c = a + b + c + ((x - a) + (y - b) + 0)
         /\ x + c + y = a + c + b + ((x - a) + (y - b) + 0)
         /\ x + y + c + z = a + b + c + d + ((x - a) + (y - b) + (z - d))
         /\ x + c + y + z = a + c + b + d + ((x - a) + (y - b) + (z - d))
  OBVIOUS

(* How many more packets are on the way, in one pool of a way, and kept.   *)
More(w, k, j) ==
  (Len(flight'[w][j]) - Len(flight[w][j])) + (Pooled(k, j)' - Pooled(k, j))
    + (IF w = "back" THEN kept'[j] - kept[j] ELSE 0)

LEMMA UsersChange ==
  ASSUME SubFlowsTypes, NEW w \in Way, NEW k \in Kinds(w), NEW j \in SubFlow,
         \A l \in Kinds(w) \ {k} : pool'[l] = pool[l],
         Len(flight'[w][j]) \in Int, Pooled(k, j)' \in Int, kept'[j] \in Int
  PROVE  Users(w, j)' = Users(w, j) + More(w, k, j)
<1>1. /\ Len(flight["out"][j]) \in Int /\ Len(flight["back"][j]) \in Int
      /\ Pooled("ctl", j) \in Int /\ Pooled("data", j) \in Int
      /\ Pooled("ctlack", j) \in Int /\ Pooled("ack", j) \in Int /\ kept[j] \in Int
  BY CountTypes DEF Way, Kind
<1>2. \A l \in Kinds(w) \ {k} : Pooled(l, j)' = Pooled(l, j)
  BY DEF Pooled
<1>3. ASSUME w = "out", k = "ctl" PROVE Users("out", j)' = Users("out", j) + More("out", "ctl", j)
  <2> DEFINE f == Len(flight["out"][j])
             ff == Len(flight'["out"][j])
             p == Pooled("ctl", j)
             pp == Pooled("ctl", j)'
             o == Pooled("data", j)
             h == kept[j]
             hh == kept'[j]
  <2>1. /\ f \in Int /\ ff \in Int /\ p \in Int /\ pp \in Int
        /\ o \in Int /\ h \in Int /\ hh \in Int
    BY <1>1, <1>3
  <2>2. Pooled("data", j)' = o
    BY <1>2, <1>3 DEF Kinds
  <2>3. Users("out", j)' = ff + pp + o
    BY <2>2, UsersAreNext
  <2>4. Users("out", j) = f + p + o
    BY UsersAre
  <2>5. More("out", "ctl", j) = (ff - f) + (pp - p) + 0
    BY DEF More
  <2> HIDE DEF f, ff, p, pp, o, h, hh
  <2> QED BY <2>1, <2>3, <2>4, <2>5, Sums
<1>4. ASSUME w = "out", k = "data" PROVE Users("out", j)' = Users("out", j) + More("out", "data", j)
  <2> DEFINE f == Len(flight["out"][j])
             ff == Len(flight'["out"][j])
             p == Pooled("data", j)
             pp == Pooled("data", j)'
             o == Pooled("ctl", j)
             h == kept[j]
             hh == kept'[j]
  <2>1. /\ f \in Int /\ ff \in Int /\ p \in Int /\ pp \in Int
        /\ o \in Int /\ h \in Int /\ hh \in Int
    BY <1>1, <1>4
  <2>2. Pooled("ctl", j)' = o
    BY <1>2, <1>4 DEF Kinds
  <2>3. Users("out", j)' = ff + o + pp
    BY <2>2, UsersAreNext
  <2>4. Users("out", j) = f + o + p
    BY UsersAre
  <2>5. More("out", "data", j) = (ff - f) + (pp - p) + 0
    BY DEF More
  <2> HIDE DEF f, ff, p, pp, o, h, hh
  <2> QED BY <2>1, <2>3, <2>4, <2>5, Sums
<1>5. ASSUME w = "back", k = "ctlack" PROVE Users("back", j)' = Users("back", j) + More("back", "ctlack", j)
  <2> DEFINE f == Len(flight["back"][j])
             ff == Len(flight'["back"][j])
             p == Pooled("ctlack", j)
             pp == Pooled("ctlack", j)'
             o == Pooled("ack", j)
             h == kept[j]
             hh == kept'[j]
  <2>1. /\ f \in Int /\ ff \in Int /\ p \in Int /\ pp \in Int
        /\ o \in Int /\ h \in Int /\ hh \in Int
    BY <1>1, <1>5
  <2>2. Pooled("ack", j)' = o
    BY <1>2, <1>5 DEF Kinds
  <2>3. Users("back", j)' = ff + pp + o + hh
    BY <2>2, UsersAreNext
  <2>4. Users("back", j) = f + p + o + h
    BY UsersAre
  <2>5. More("back", "ctlack", j) = (ff - f) + (pp - p) + (hh - h)
    BY DEF More
  <2> HIDE DEF f, ff, p, pp, o, h, hh
  <2> QED BY <2>1, <2>3, <2>4, <2>5, Sums
<1>6. ASSUME w = "back", k = "ack" PROVE Users("back", j)' = Users("back", j) + More("back", "ack", j)
  <2> DEFINE f == Len(flight["back"][j])
             ff == Len(flight'["back"][j])
             p == Pooled("ack", j)
             pp == Pooled("ack", j)'
             o == Pooled("ctlack", j)
             h == kept[j]
             hh == kept'[j]
  <2>1. /\ f \in Int /\ ff \in Int /\ p \in Int /\ pp \in Int
        /\ o \in Int /\ h \in Int /\ hh \in Int
    BY <1>1, <1>6
  <2>2. Pooled("ctlack", j)' = o
    BY <1>2, <1>6 DEF Kinds
  <2>3. Users("back", j)' = ff + o + pp + hh
    BY <2>2, UsersAreNext
  <2>4. Users("back", j) = f + o + p + h
    BY UsersAre
  <2>5. More("back", "ack", j) = (ff - f) + (pp - p) + (hh - h)
    BY DEF More
  <2> HIDE DEF f, ff, p, pp, o, h, hh
  <2> QED BY <2>1, <2>3, <2>4, <2>5, Sums
<1>7. \/ w = "out" /\ (k = "ctl" \/ k = "data")
      \/ w = "back" /\ (k = "ctlack" \/ k = "ack")
  BY DEF Way, Kinds
<1> QED BY <1>3, <1>4, <1>5, <1>6, <1>7

(* A packet taken from its pool and sent: the route of i has one more user *)
(* and the old route of the packet one less.                               *)
LEMMA UsersPopped ==
  ASSUME SubFlowsTypes, NEW w \in Way, NEW k \in Kinds(w), NEW i \in SubFlow,
         pool'[k] = Rest(k),
         \A l \in Kinds(w) \ {k} : pool'[l] = pool[l],
         flight'[w] = [flight[w] EXCEPT ![i] = Append(flight[w][i], k)],
         kept' = kept
  PROVE  \A j \in SubFlow :
           Users(w, j)' = Users(w, j) + (One(j = i) + (0 - One(j \in OldRoute(k))) + 0)
<1> SUFFICES ASSUME NEW j \in SubFlow
             PROVE  Users(w, j)' = Users(w, j) + (One(j = i) + (0 - One(j \in OldRoute(k))) + 0)
  OBVIOUS
<1>1. One(j = i) \in Int /\ 0 - One(j \in OldRoute(k)) \in Int /\ 0 \in Int
  BY DEF One
<1>2. Len(flight'[w][j]) = Len(flight[w][j]) + One(j = i)
  <2>1. flight[w] \in [SubFlow -> Seq(Kind)] /\ flight[w][j] \in Seq(Kind)
        /\ flight[w][i] \in Seq(Kind)
    BY DEF SubFlowsTypes
  <2>2. k \in Kind
    BY DEF Kinds, Kind
  <2>3. CASE j = i
    BY <2>1, <2>2, <2>3 DEF One
  <2>4. CASE j # i
    BY <2>1, <2>4 DEF One
  <2> QED BY <2>3, <2>4
<1>3. Pooled(k, j)' = Pooled(k, j) + (0 - One(j \in OldRoute(k)))
  <2>1. k \in Kind
    BY DEF Kinds, Kind
  <2>2. Pooled(k, j)' = Cnt(Rest(k), j)
    BY DEF Pooled, Cnt
  <2>3. Cnt(Rest(k), j) = IF j \in OldRoute(k) THEN Pooled(k, j) - 1 ELSE Pooled(k, j)
    BY <2>1, PoolPops
  <2>4. Pooled(k, j) \in Nat
    BY <2>1, CountTypes
  <2> QED BY <2>2, <2>3, <2>4 DEF One
<1>4. kept'[j] = kept[j] + 0
  <2>1. kept[j] \in Nat
    BY CountTypes
  <2> QED BY <2>1
<1>5. Len(flight[w][j]) \in Int /\ Pooled(k, j) \in Int /\ kept[j] \in Int
  <2>1. k \in Kind
    BY DEF Kinds, Kind
  <2> QED BY <2>1, CountTypes
<1>6. Users(w, j)' = Users(w, j) + More(w, k, j)
  <2>1. Len(flight'[w][j]) \in Int /\ Pooled(k, j)' \in Int /\ kept'[j] \in Int
    BY <1>1, <1>2, <1>3, <1>4, <1>5
  <2> QED BY <2>1, UsersChange
<1>7. More(w, k, j) = One(j = i) + (0 - One(j \in OldRoute(k))) + 0
  <2> DEFINE x == One(j = i)
             y == 0 - One(j \in OldRoute(k))
  <2>1. Len(flight'[w][j]) - Len(flight[w][j]) = x
    <3> DEFINE f == Len(flight[w][j])
               ff == Len(flight'[w][j])
    <3>1. f \in Int /\ x \in Int /\ ff = f + x
      BY <1>1, <1>2, <1>5
    <3> HIDE DEF f, ff, x
    <3>2. ff - f = x
      BY <3>1
    <3> QED BY <3>2 DEF f, ff
  <2>2. Pooled(k, j)' - Pooled(k, j) = y
    BY <1>1, <1>3, <1>5
  <2>3. (IF w = "back" THEN kept'[j] - kept[j] ELSE 0) = 0
    BY <1>4, <1>5
  <2> HIDE DEF x, y
  <2>4. More(w, k, j) = x + y + 0
    BY <2>1, <2>2, <2>3 DEF More
  <2> QED BY <2>4 DEF x, y
<1> QED BY <1>6, <1>7

(* A packet that goes from the way to its pool leaves the count alone.     *)
LEMMA UsersPushed ==
  ASSUME SubFlowsTypes, NEW w \in Way, NEW k \in Kinds(w), NEW i \in SubFlow,
         pool'[k] = Append(pool[k], i),
         \A l \in Kinds(w) \ {k} : pool'[l] = pool[l],
         Len(flight'[w][i]) = Len(flight[w][i]) - 1,
         \A j \in SubFlow \ {i} : flight'[w][j] = flight[w][j],
         kept' = kept
  PROVE  \A j \in SubFlow : Users(w, j)' = Users(w, j)
<1> SUFFICES ASSUME NEW j \in SubFlow
             PROVE  Users(w, j)' = Users(w, j)
  OBVIOUS
<1>1. 0 - One(j = i) \in Int /\ One(j = i) \in Int /\ 0 \in Int
  BY DEF One
<1>2. Len(flight[w][j]) \in Nat /\ kept[j] \in Nat
  BY CountTypes
<1>3. Len(flight'[w][j]) = Len(flight[w][j]) + (0 - One(j = i))
  <2>1. CASE j = i
    <3>1. Len(flight'[w][j]) = Len(flight[w][j]) - 1
      BY <2>1
    <3> QED BY <1>2, <2>1, <3>1 DEF One
  <2>2. CASE j # i
    <3>1. Len(flight'[w][j]) = Len(flight[w][j])
      BY <2>2
    <3> QED BY <1>2, <2>2, <3>1 DEF One
  <2> QED BY <2>1, <2>2
<1>4. Pooled(k, j)' = Pooled(k, j) + One(j = i)
  <2>1. k \in Kind
    BY DEF Kinds, Kind
  <2>2. Pooled(k, j)' = Cnt(Append(pool[k], i), j)
    BY DEF Pooled, Cnt
  <2>3. Cnt(Append(pool[k], i), j) = IF j = i THEN Pooled(k, j) + 1 ELSE Pooled(k, j)
    <3>1. pool[k] \in Seq(SubFlow)
      BY <2>1 DEF SubFlowsTypes
    <3>2. Cnt(Append(pool[k], i), j) = IF j = i THEN Cnt(pool[k], j) + 1 ELSE Cnt(pool[k], j)
      BY <3>1, CntAppend
    <3> QED BY <3>2, PooledIs
  <2>4. Pooled(k, j) \in Nat
    BY <2>1, CountTypes
  <2> QED BY <2>2, <2>3, <2>4 DEF One
<1>5. kept'[j] = kept[j] + 0
  BY <1>2
<1>6. Pooled(k, j) \in Int
  <2>1. k \in Kind
    BY DEF Kinds, Kind
  <2> QED BY <2>1, CountTypes
<1>7. Users(w, j)' = Users(w, j) + More(w, k, j)
  <2>1. Len(flight'[w][j]) \in Int /\ Pooled(k, j)' \in Int /\ kept'[j] \in Int
    <3>1. Len(flight'[w][j]) \in Int
      BY <1>1, <1>2, <1>3
    <3>2. Pooled(k, j)' \in Int
      BY <1>1, <1>4, <1>6
    <3>3. kept'[j] \in Int
      BY <1>2
    <3> QED BY <3>1, <3>2, <3>3
  <2> QED BY <2>1, UsersChange
<1>8. More(w, k, j) = 0
  <2> DEFINE x == 0 - One(j = i)
             y == One(j = i)
  <2>1. Len(flight'[w][j]) - Len(flight[w][j]) = x
    BY <1>1, <1>2, <1>3
  <2>2. Pooled(k, j)' - Pooled(k, j) = y
    BY <1>1, <1>4, <1>6
  <2>3. (IF w = "back" THEN kept'[j] - kept[j] ELSE 0) = 0
    BY <1>2
  <2>4. x + y + 0 = 0
    BY <1>1
  <2> HIDE DEF x, y
  <2> QED BY <2>1, <2>2, <2>3, <2>4 DEF More
<1>9. Users(w, j) \in Nat
  BY CountTypes DEF Way
<1> QED BY <1>7, <1>8, <1>9

(* The old route of a packet in a pool has at least this one user.         *)
LEMMA OldUses ==
  ASSUME SubFlowsTypes, NEW w \in Way, NEW k \in Kinds(w), NEW j \in OldRoute(k)
  PROVE  /\ j \in Made /\ j \in SubFlow
         /\ Users(w, j) >= 1
         /\ w = "back" /\ Users(w, j) = 1 => kept[j] = 0 /\ Len(flight["back"][j]) = 0
<1>1. k \in Kind /\ j \in Made /\ j \in SubFlow
  <2>1. k \in Kind
    BY DEF Kinds, Kind
  <2> QED BY <2>1, PoolPops, MadeSubFlow
<1>2. Pooled(k, j) >= 1
  <2>1. Rest(k) \in Seq(SubFlow) /\ Cnt(Rest(k), j) = Pooled(k, j) - 1
    BY <1>1, PoolPops
  <2>2. Pooled(k, j) \in Nat /\ Cnt(Rest(k), j) \in Nat
    BY <1>1, <2>1, CntType, CountTypes
  <2> QED BY <2>1, <2>2
<1>3. /\ Len(flight["out"][j]) \in Nat /\ Len(flight["back"][j]) \in Nat
      /\ Pooled("ctl", j) \in Nat /\ Pooled("data", j) \in Nat
      /\ Pooled("ctlack", j) \in Nat /\ Pooled("ack", j) \in Nat /\ kept[j] \in Nat
  BY <1>1, CountTypes DEF Way, Kind
<1>4. CASE w = "out"
  <2> DEFINE f == Len(flight["out"][j])
             a == Pooled("ctl", j)
             b == Pooled("data", j)
  <2>1. a >= 1 \/ b >= 1
    BY <1>2, <1>4 DEF Kinds
  <2>2. Users("out", j) = f + a + b /\ f \in Nat /\ a \in Nat /\ b \in Nat
    BY <1>3, UsersAre
  <2> HIDE DEF f, a, b
  <2>3. Users("out", j) >= 1
    BY <2>1, <2>2
  <2> QED BY <1>1, <1>4, <2>3
<1>5. CASE w = "back"
  <2> DEFINE f == Len(flight["back"][j])
             a == Pooled("ctlack", j)
             b == Pooled("ack", j)
             h == kept[j]
  <2>1. a >= 1 \/ b >= 1
    BY <1>2, <1>5 DEF Kinds
  <2>2. /\ Users("back", j) = f + a + b + h
        /\ f \in Nat /\ a \in Nat /\ b \in Nat /\ h \in Nat
    BY <1>3, UsersAre
  <2> HIDE DEF f, a, b, h
  <2>3. Users("back", j) >= 1 /\ (Users("back", j) = 1 => f = 0 /\ h = 0)
    BY <2>1, <2>2
  <2> QED BY <1>1, <1>5, <2>3 DEF f, h
<1> QED BY <1>4, <1>5 DEF Way

(* A packet allocated for the way out: a route out keeps the reference of  *)
(* its map entry, so none is deleted.                                      *)
LEMMA OutKept ==
  ASSUME SubFlowsTypes, Counts, ~ broken, NEW k \in Kinds("out"), NEW i \in Made, SetRoute(k, i),
         \A j \in SubFlow :
           Users("out", j)' = Users("out", j) + (One(j = i) + (0 - One(j \in OldRoute(k))) + 0)
  PROVE  /\ deleted'["out"] = {}
         /\ \A j \in Made : refs'["out"][j] > Users("out", j)'
         /\ \A j \in SubFlow : refs'["out"][j] >= Users("out", j)'
<1>1. k \in Kind /\ WayOf(k) = "out" /\ "out" \in Way /\ i \in SubFlow /\ Made \subseteq SubFlow
  BY MadeSubFlow DEF Kinds, Kind, WayOf, Way
<1>2. /\ deleted'["out"] = deleted["out"] \cup {j \in OldRoute(k) \ {i} : refs'["out"][j] = 0}
      /\ refs'["out"][i] = IF i \in OldRoute(k) THEN refs["out"][i] ELSE refs["out"][i] + 1
      /\ \A j \in SubFlow \ {i} :
           refs'["out"][j] = IF j \in OldRoute(k) /\ refs["out"][j] > 0
                               THEN refs["out"][j] - 1 ELSE refs["out"][j]
  BY <1>1, RouteSet
<1>3. /\ \A j \in Made : refs["out"][j] > Users("out", j)
      /\ \A j \in SubFlow : refs["out"][j] >= Users("out", j)
  BY DEF Counts
<1>4. \A j \in SubFlow : refs["out"][j] \in Nat /\ Users("out", j) \in Nat
  BY <1>1, CountTypes
<1>5. \A j \in OldRoute(k) : j \in Made /\ Users("out", j) >= 1
  BY <1>1, OldUses
<1>6. \A j \in SubFlow :
        Users("out", j)' = IF j = i
                             THEN IF j \in OldRoute(k) THEN Users("out", j) ELSE Users("out", j) + 1
                             ELSE IF j \in OldRoute(k) THEN Users("out", j) - 1 ELSE Users("out", j)
  <2> SUFFICES ASSUME NEW j \in SubFlow
               PROVE  Users("out", j)' =
                        IF j = i
                          THEN IF j \in OldRoute(k) THEN Users("out", j) ELSE Users("out", j) + 1
                          ELSE IF j \in OldRoute(k) THEN Users("out", j) - 1 ELSE Users("out", j)
    OBVIOUS
  <2>1. Users("out", j)' = Users("out", j) + (One(j = i) + (0 - One(j \in OldRoute(k))) + 0)
    OBVIOUS
  <2> QED BY <1>4, <2>1 DEF One
<1>7. \A j \in OldRoute(k) \ {i} : refs'["out"][j] # 0
  <2> SUFFICES ASSUME NEW j \in OldRoute(k) \ {i} PROVE refs'["out"][j] # 0
    OBVIOUS
  <2>1. j \in Made /\ j \in SubFlow \ {i} /\ Users("out", j) >= 1
    BY <1>1, <1>5
  <2>2. refs["out"][j] > Users("out", j)
    BY <1>3, <2>1
  <2>3. refs'["out"][j] = IF refs["out"][j] > 0 THEN refs["out"][j] - 1 ELSE refs["out"][j]
    BY <1>2, <2>1
  <2>4. refs["out"][j] \in Nat /\ Users("out", j) \in Nat
    BY <1>4, <2>1
  <2> QED BY <2>1, <2>2, <2>3, <2>4
<1>8. deleted'["out"] = {}
  BY <1>2, <1>7 DEF SubFlowsTypes
<1>9. ASSUME NEW j \in SubFlow
      PROVE  /\ refs'["out"][j] >= Users("out", j)'
             /\ j \in Made => refs'["out"][j] > Users("out", j)'
  <2>1. /\ refs["out"][j] \in Nat /\ Users("out", j) \in Nat
        /\ refs["out"][j] >= Users("out", j)
        /\ j \in Made => refs["out"][j] > Users("out", j)
    BY <1>3, <1>4
  <2>2. CASE j = i
    <3>1. /\ refs'["out"][j] = IF j \in OldRoute(k) THEN refs["out"][j] ELSE refs["out"][j] + 1
          /\ Users("out", j)' = IF j \in OldRoute(k) THEN Users("out", j) ELSE Users("out", j) + 1
      BY <1>2, <1>6, <2>2
    <3> QED BY <2>1, <3>1
  <2>3. CASE j # i /\ j \in OldRoute(k)
    <3>1. /\ refs'["out"][j] = IF refs["out"][j] > 0 THEN refs["out"][j] - 1 ELSE refs["out"][j]
          /\ Users("out", j)' = Users("out", j) - 1
          /\ j \in Made /\ Users("out", j) >= 1
      BY <1>2, <1>5, <1>6, <2>3
    <3> QED BY <2>1, <3>1
  <2>4. CASE j # i /\ j \notin OldRoute(k)
    <3>1. refs'["out"][j] = refs["out"][j] /\ Users("out", j)' = Users("out", j)
      BY <1>2, <1>6, <2>4
    <3> QED BY <2>1, <3>1
  <2> QED BY <2>2, <2>3, <2>4
<1> QED BY <1>1, <1>8, <1>9

(* A packet allocated for the way back: the route that loses its last      *)
(* packet is deleted, and then no control ack was kept over it.            *)
LEMMA BackKept ==
  ASSUME SubFlowsTypes, Counts, ~ broken, NEW k \in Kinds("back"), NEW i \in Made, SetRoute(k, i),
         kept' = kept,
         \A j \in SubFlow \ {i} : flight'["back"][j] = flight["back"][j],
         \A j \in SubFlow :
           Users("back", j)' = Users("back", j) + (One(j = i) + (0 - One(j \in OldRoute(k))) + 0)
  PROVE  /\ \A j \in deleted'["back"] \ deleted["back"] : kept[j] = 0
         /\ ~ broken' => \A j \in SubFlow : IF j \in deleted'["back"]
                                               THEN flight'["back"][j] = <<>>
                                               ELSE refs'["back"][j] = Users("back", j)'
<1>1. k \in Kind /\ WayOf(k) = "back" /\ "back" \in Way /\ i \in SubFlow /\ Made \subseteq SubFlow
  BY MadeSubFlow DEF Kinds, Kind, WayOf, Way
<1>2. /\ deleted'["back"] = deleted["back"] \cup {j \in OldRoute(k) \ {i} : refs'["back"][j] = 0}
      /\ refs'["back"][i] = IF i \in OldRoute(k) THEN refs["back"][i] ELSE refs["back"][i] + 1
      /\ \A j \in SubFlow \ {i} :
           refs'["back"][j] = IF j \in OldRoute(k) /\ refs["back"][j] > 0
                                THEN refs["back"][j] - 1 ELSE refs["back"][j]
      /\ ~ broken' => i \notin deleted["back"] /\ OldRoute(k) \cap deleted["back"] \subseteq {i}
  BY <1>1, RouteSet
<1>3. \A j \in SubFlow : IF j \in deleted["back"]
                            THEN flight["back"][j] = <<>>
                            ELSE refs["back"][j] = Users("back", j)
  BY DEF Counts
<1>4. \A j \in SubFlow : /\ refs["back"][j] \in Nat /\ Users("back", j) \in Nat
                          /\ flight["back"][j] \in Seq(Kind)
  <2>1. \A j \in SubFlow : flight["back"][j] \in Seq(Kind)
    BY <1>1 DEF SubFlowsTypes
  <2>2. \A j \in SubFlow : refs["back"][j] \in Nat /\ Users("back", j) \in Nat
    BY <1>1, CountTypes
  <2> QED BY <2>1, <2>2
<1>5. \A j \in OldRoute(k) :
        /\ j \in SubFlow /\ Users("back", j) >= 1
        /\ Users("back", j) = 1 => kept[j] = 0 /\ Len(flight["back"][j]) = 0
  BY <1>1, OldUses
<1>6. \A j \in SubFlow :
        Users("back", j)' = IF j = i
                              THEN IF j \in OldRoute(k) THEN Users("back", j) ELSE Users("back", j) + 1
                              ELSE IF j \in OldRoute(k) THEN Users("back", j) - 1 ELSE Users("back", j)
  <2> SUFFICES ASSUME NEW j \in SubFlow
               PROVE  Users("back", j)' =
                        IF j = i
                          THEN IF j \in OldRoute(k) THEN Users("back", j) ELSE Users("back", j) + 1
                          ELSE IF j \in OldRoute(k) THEN Users("back", j) - 1 ELSE Users("back", j)
    OBVIOUS
  <2>1. Users("back", j)' = Users("back", j) + (One(j = i) + (0 - One(j \in OldRoute(k))) + 0)
    OBVIOUS
  <2> QED BY <1>4, <2>1 DEF One
<1>7. ASSUME NEW j \in OldRoute(k) \ {i}, j \notin deleted["back"], refs'["back"][j] = 0
      PROVE  kept[j] = 0 /\ flight["back"][j] = <<>>
  <2>1. /\ j \in SubFlow \ {i} /\ Users("back", j) >= 1 /\ Users("back", j) \in Nat
        /\ refs["back"][j] = Users("back", j)
    BY <1>3, <1>4, <1>5, <1>7
  <2>2. refs'["back"][j] = IF refs["back"][j] > 0 THEN refs["back"][j] - 1 ELSE refs["back"][j]
    BY <1>2, <1>7, <2>1
  <2>3. Users("back", j) = 1
    BY <1>7, <2>1, <2>2
  <2> QED BY <1>4, <1>5, <1>7, <2>1, <2>3
<1>8. \A j \in deleted'["back"] \ deleted["back"] : kept[j] = 0
  BY <1>2, <1>7
<1>9. ASSUME ~ broken', NEW j \in SubFlow
      PROVE  IF j \in deleted'["back"] THEN flight'["back"][j] = <<>>
                                       ELSE refs'["back"][j] = Users("back", j)'
  <2>1. i \notin deleted'["back"]
    BY <1>2, <1>9
  <2>2. CASE j \in deleted'["back"]
    <3>1. j # i /\ flight'["back"][j] = flight["back"][j]
      BY <2>1, <2>2
    <3>2. CASE j \in deleted["back"]
      BY <1>3, <2>2, <3>1, <3>2
    <3>3. CASE j \notin deleted["back"]
      BY <1>2, <1>7, <2>2, <3>1, <3>3
    <3> QED BY <3>2, <3>3
  <2>3. CASE j \notin deleted'["back"]
    <3>1. j \notin deleted["back"] /\ refs["back"][j] = Users("back", j)
      BY <1>2, <1>3, <2>3
    <3>2. CASE j = i
      BY <1>2, <1>6, <2>3, <3>1, <3>2
    <3>3. CASE j # i /\ j \in OldRoute(k)
      <4>1. /\ refs'["back"][j] = IF refs["back"][j] > 0 THEN refs["back"][j] - 1
                                                         ELSE refs["back"][j]
            /\ Users("back", j)' = Users("back", j) - 1
            /\ Users("back", j) >= 1 /\ Users("back", j) \in Nat
        BY <1>2, <1>4, <1>5, <1>6, <3>3
      <4>2. refs'["back"][j] = Users("back", j)'
        BY <3>1, <4>1
      <4> QED BY <2>3, <4>2
    <3>4. CASE j # i /\ j \notin OldRoute(k)
      BY <1>2, <1>6, <2>3, <3>1, <3>4
    <3> QED BY <3>2, <3>3, <3>4
  <2> QED BY <2>2, <2>3
<1> QED BY <1>8, <1>9

(* What goes on, whatever the packets: all of SubFlowsTypes but the packets.       *)
LEMMA FlowTypes ==
  ASSUME SubFlowsTypes, UNCHANGED flowVars
  PROVE  /\ path' \in Seq(Path) /\ Len(path') <= MaxSubFlows
         /\ current' \subseteq Made' /\ garbage' \subseteq Made' /\ gone' = {}
         /\ now' \in 0 .. MaxUpdates /\ gcTime' = Never
         /\ Made' = Made
  BY DEF SubFlowsTypes, flowVars, Made

(* The pools after a packet was taken from one, or one of i put back.      *)
LEMMA PoolTypes ==
  ASSUME SubFlowsTypes, UNCHANGED path, NEW i \in Made,
         \A k \in Kind : \/ pool'[k] = pool[k]
                         \/ pool'[k] = Rest(k)
                         \/ pool'[k] = Append(pool[k], i),
         DOMAIN pool' = Kind, pool' = [k \in Kind |-> pool'[k]]
  PROVE  /\ pool' \in [Kind -> Seq(SubFlow)]
         /\ \A k \in Kind : \A n \in DOMAIN pool'[k] : pool'[k][n] \in Made'
<1>1. Made' = Made /\ i \in SubFlow
  BY MadeSubFlow DEF Made
<1>2. ASSUME NEW k \in Kind
      PROVE  pool'[k] \in Seq(SubFlow) /\ \A n \in DOMAIN pool'[k] : pool'[k][n] \in Made
  <2>1. pool[k] \in Seq(SubFlow) /\ \A n \in DOMAIN pool[k] : pool[k][n] \in Made
    BY DEF SubFlowsTypes
  <2>2. CASE pool'[k] = pool[k]
    BY <2>1, <2>2
  <2>3. CASE pool'[k] = Rest(k)
    BY <2>3, PoolPops
  <2>4. CASE pool'[k] = Append(pool[k], i)
    BY <1>1, <2>1, <2>4
  <2> QED BY <2>2, <2>3, <2>4
<1> QED BY <1>1, <1>2

LEMMA SendKeeps ==
  ASSUME SubFlowsInv, NEW i \in SubFlow, NEW k \in {"ctl", "data"}, Send(k, i)
  PROVE  SubFlowsInv'
<1>1. /\ SubFlowsTypes /\ Counts /\ Kept /\ ~ broken
      /\ i \in Made /\ SetRoute(k, i) /\ UNCHANGED flowVars /\ kept' = kept
      /\ pool' = [pool EXCEPT ![k] = Rest(k)]
      /\ flight' = [flight EXCEPT !["out"][i] = Append(flight["out"][i], k)]
      /\ ctls' = IF k = "ctl" THEN [ctls EXCEPT ![i] = ctls[i] + 1] ELSE ctls
  BY DEF SubFlowsInv, SubFlowsTypes, Send
<1>2. /\ k \in Kinds("out") /\ k \in Kind /\ WayOf(k) = "out" /\ "out" \in Way /\ "back" \in Way
      /\ "back" # "out" /\ k \notin Kinds("back") /\ Kinds("back") \subseteq Kind
      /\ Kinds("out") \subseteq Kind
  BY DEF Kinds, Kind, WayOf, Way
<1>3. /\ pool \in [Kind -> Seq(SubFlow)] /\ flight \in [Way -> [SubFlow -> Seq(Kind)]]
      /\ flight["out"] \in [SubFlow -> Seq({"ctl", "data"})]
  BY <1>1 DEF SubFlowsTypes
<1>4. /\ flight'["out"] = [flight["out"] EXCEPT ![i] = Append(flight["out"][i], k)]
      /\ flight'["back"] = flight["back"]
      /\ pool'[k] = Rest(k) /\ \A l \in Kind \ {k} : pool'[l] = pool[l]
  BY <1>1, <1>2, <1>3
<1>5. \A j \in SubFlow :
        Users("out", j)' = Users("out", j) + (One(j = i) + (0 - One(j \in OldRoute(k))) + 0)
  BY <1>1, <1>2, <1>4, UsersPopped
<1>6. \A j \in SubFlow : Users("back", j)' = Users("back", j)
  <2>1. \A l \in Kinds("back") : pool'[l] = pool[l]
    BY <1>2, <1>4
  <2>2. \A j : Pooled("ctlack", j)' = Pooled("ctlack", j) /\ Pooled("ack", j)' = Pooled("ack", j)
    BY <2>1 DEF Pooled, Kinds
  <2> QED BY <1>1, <1>4, <2>2, UsersAre, UsersAreNext
<1>7. /\ refs' \in [Way -> [SubFlow -> Nat]] /\ deleted' \in [Way -> SUBSET SubFlow]
      /\ refs'["back"] = refs["back"] /\ deleted'["back"] = deleted["back"]
      /\ broken' \in BOOLEAN
  BY <1>1, <1>2, RouteSet
<1>8. /\ deleted'["out"] = {}
      /\ \A j \in Made : refs'["out"][j] > Users("out", j)'
      /\ \A j \in SubFlow : refs'["out"][j] >= Users("out", j)'
  BY <1>1, <1>2, <1>5, OutKept
<1>9. SubFlowsTypes'
  <2>1. /\ pool' \in [Kind -> Seq(SubFlow)]
        /\ \A l \in Kind : \A n \in DOMAIN pool'[l] : pool'[l][n] \in Made'
    BY <1>1, <1>2, <1>3, <1>4, PoolTypes DEF flowVars
  <2>2. /\ flight' \in [Way -> [SubFlow -> Seq(Kind)]]
        /\ flight'["out"] \in [SubFlow -> Seq({"ctl", "data"})]
        /\ flight'["back"] \in [SubFlow -> Seq({"ctlack", "ack"})]
    <3>1. Append(flight["out"][i], k) \in Seq({"ctl", "data"})
      BY <1>3
    <3>2. Append(flight["out"][i], k) \in Seq(Kind)
      BY <1>2, <1>3
    <3> QED BY <1>1, <1>2, <1>3, <1>4, <3>1, <3>2 DEF SubFlowsTypes
  <2>3. ctls' \in [SubFlow -> Nat] /\ kept' \in [SubFlow -> Nat]
    BY <1>1 DEF SubFlowsTypes
  <2> QED BY <1>1, <1>7, <1>8, <2>1, <2>2, <2>3, FlowTypes DEF SubFlowsTypes
<1>10. Counts'
  <2>1. \A j \in SubFlow : IF j \in deleted["back"] THEN flight["back"][j] = <<>>
                                                      ELSE refs["back"][j] = Users("back", j)
    BY <1>1 DEF Counts
  <2>2. \A j \in SubFlow : IF j \in deleted'["back"] THEN flight'["back"][j] = <<>>
                                                       ELSE refs'["back"][j] = Users("back", j)'
    BY <1>4, <1>6, <1>7, <2>1
  <2>3. Made' = Made
    BY <1>1, FlowTypes
  <2> QED BY <1>8, <2>2, <2>3 DEF Counts
<1>11. Kept'
  BY <1>1, <1>7 DEF Kept
<1> QED BY <1>9, <1>10, <1>11 DEF SubFlowsInv

LEMMA SinkReceivesKeeps ==
  ASSUME SubFlowsInv, NEW i \in SubFlow, SinkReceives(i)
  PROVE  SubFlowsInv'
<1> DEFINE k == Head(flight["out"][i])
           a == Answer(k)
<1>1. /\ SubFlowsTypes /\ Counts /\ Kept /\ ~ broken
      /\ i \in Made /\ SetRoute(a, i) /\ UNCHANGED <<flowVars, ctls, kept>>
      /\ flight["out"][i] # <<>>
      /\ pool' = [pool EXCEPT ![a] = Rest(a), ![k] = Append(@, i)]
      /\ flight' = [flight EXCEPT !["out"][i] = Tail(@), !["back"][i] = Append(@, a)]
  BY DEF SubFlowsInv, SubFlowsTypes, SinkReceives
<1>2. /\ pool \in [Kind -> Seq(SubFlow)] /\ flight \in [Way -> [SubFlow -> Seq(Kind)]]
      /\ flight["out"] \in [SubFlow -> Seq({"ctl", "data"})]
      /\ flight["back"] \in [SubFlow -> Seq({"ctlack", "ack"})]
  BY <1>1 DEF SubFlowsTypes
<1>3. /\ k \in {"ctl", "data"} /\ Tail(flight["out"][i]) \in Seq({"ctl", "data"})
      /\ Len(Tail(flight["out"][i])) = Len(flight["out"][i]) - 1
  <2>1. flight["out"][i] \in Seq({"ctl", "data"})
    BY <1>2
  <2> QED BY <1>1, <2>1
<1>4. a \in {"ctlack", "ack"} /\ a # k
  BY <1>3 DEF Answer
<1> HIDE DEF k, a
<1>5. /\ k \in Kinds("out") /\ a \in Kinds("back") /\ k \in Kind /\ a \in Kind /\ WayOf(a) = "back"
      /\ "out" \in Way /\ "back" \in Way /\ "back" # "out"
      /\ k \notin Kinds("back") /\ a \notin Kinds("out")
      /\ Kinds("back") \subseteq Kind /\ Kinds("out") \subseteq Kind
  BY <1>3, <1>4 DEF Kinds, Kind, WayOf, Way
<1>6. /\ pool'[a] = Rest(a) /\ pool'[k] = Append(pool[k], i)
      /\ \A l \in Kind \ {a, k} : pool'[l] = pool[l]
      /\ DOMAIN pool' = Kind /\ pool' = [l \in Kind |-> pool'[l]]
  BY <1>1, <1>2, <1>4, <1>5
<1>7. /\ flight'["out"] = [flight["out"] EXCEPT ![i] = Tail(flight["out"][i])]
      /\ flight'["back"] = [flight["back"] EXCEPT ![i] = Append(flight["back"][i], a)]
  BY <1>1, <1>2, <1>5
<1>8. \A j \in SubFlow : Users("out", j)' = Users("out", j)
  <2>1. \A l \in Kinds("out") \ {k} : pool'[l] = pool[l]
    BY <1>5, <1>6
  <2>2. Len(flight'["out"][i]) = Len(flight["out"][i]) - 1
    BY <1>2, <1>3, <1>7
  <2>3. \A j \in SubFlow \ {i} : flight'["out"][j] = flight["out"][j]
    BY <1>2, <1>7
  <2>4. SubFlowsTypes /\ kept' = kept /\ pool'[k] = Append(pool[k], i)
    BY <1>1, <1>6
  <2>5. "out" \in Way /\ k \in Kinds("out")
    BY <1>5
  <2> QED BY <2>1, <2>2, <2>3, <2>4, <2>5, UsersPushed
<1>9. \A j \in SubFlow :
        Users("back", j)' = Users("back", j) + (One(j = i) + (0 - One(j \in OldRoute(a))) + 0)
  <2>1. \A l \in Kinds("back") \ {a} : pool'[l] = pool[l]
    BY <1>5, <1>6
  <2>2. SubFlowsTypes /\ kept' = kept /\ pool'[a] = Rest(a)
    BY <1>1, <1>6
  <2>3. "back" \in Way /\ a \in Kinds("back")
    BY <1>5
  <2>4. flight'["back"] = [flight["back"] EXCEPT ![i] = Append(flight["back"][i], a)]
    BY <1>7
  <2> QED BY <2>1, <2>2, <2>3, <2>4, UsersPopped
<1>10. /\ refs' \in [Way -> [SubFlow -> Nat]] /\ deleted' \in [Way -> SUBSET SubFlow]
       /\ refs'["out"] = refs["out"] /\ deleted'["out"] = deleted["out"]
       /\ broken' \in BOOLEAN
  BY <1>1, <1>5, RouteSet
<1>11. /\ \A j \in deleted'["back"] \ deleted["back"] : kept[j] = 0
       /\ ~ broken' => \A j \in SubFlow : IF j \in deleted'["back"]
                                             THEN flight'["back"][j] = <<>>
                                             ELSE refs'["back"][j] = Users("back", j)'
  <2>1. \A j \in SubFlow \ {i} : flight'["back"][j] = flight["back"][j]
    BY <1>2, <1>7
  <2> QED BY <1>1, <1>5, <1>9, <2>1, BackKept
<1>12. SubFlowsTypes'
  <2>1. /\ pool' \in [Kind -> Seq(SubFlow)]
        /\ \A l \in Kind : \A n \in DOMAIN pool'[l] : pool'[l][n] \in Made'
    <3>1. \A l \in Kind : pool'[l] = pool[l] \/ pool'[l] = Rest(l) \/ pool'[l] = Append(pool[l], i)
      BY <1>6
    <3> QED BY <1>1, <1>6, <3>1, PoolTypes DEF flowVars
  <2>2. /\ flight' \in [Way -> [SubFlow -> Seq(Kind)]]
        /\ flight'["out"] \in [SubFlow -> Seq({"ctl", "data"})]
        /\ flight'["back"] \in [SubFlow -> Seq({"ctlack", "ack"})]
    <3>1. Append(flight["back"][i], a) \in Seq({"ctlack", "ack"})
      BY <1>2, <1>4
    <3>2. Append(flight["back"][i], a) \in Seq(Kind) /\ Tail(flight["out"][i]) \in Seq(Kind)
      BY <1>1, <1>2, <1>5
    <3> QED BY <1>1, <1>2, <1>3, <1>5, <1>7, <3>1, <3>2
  <2>3. ctls' \in [SubFlow -> Nat] /\ kept' \in [SubFlow -> Nat]
    BY <1>1 DEF SubFlowsTypes
  <2>4. deleted'["out"] = {}
    BY <1>1, <1>10 DEF SubFlowsTypes
  <2>5. \A v \in Way : \A j \in SubFlow : j \in Made' \/ flight'[v][j] = <<>>
    <3>1. Made' = Made
      BY <1>1, FlowTypes
    <3>2. \A j \in SubFlow \ {i} :
            flight'["out"][j] = flight["out"][j] /\ flight'["back"][j] = flight["back"][j]
      BY <1>2, <1>7
    <3> QED BY <1>1, <3>1, <3>2 DEF SubFlowsTypes, Way
  <2> QED BY <1>1, <1>10, <2>1, <2>2, <2>3, <2>4, <2>5, FlowTypes DEF SubFlowsTypes
<1>13. Counts'
  <2>1. Made' = Made /\ Made \subseteq SubFlow
    BY <1>1, FlowTypes, MadeSubFlow
  <2>2. /\ \A j \in Made : refs["out"][j] > Users("out", j)
        /\ \A j \in SubFlow : refs["out"][j] >= Users("out", j)
    BY <1>1 DEF Counts
  <2>3. /\ \A j \in Made : refs'["out"][j] > Users("out", j)'
        /\ \A j \in SubFlow : refs'["out"][j] >= Users("out", j)'
    BY <1>8, <1>10, <2>1, <2>2
  <2> QED BY <1>11, <2>1, <2>3 DEF Counts
<1>14. Kept'
  BY <1>1, <1>11 DEF Kept
<1> QED BY <1>12, <1>13, <1>14 DEF SubFlowsInv

(* A packet that arrives or is lost, without a new one.                    *)
Moved(w, i, rest) ==
  /\ UNCHANGED <<flowVars, refs, deleted, ctls, broken>>
  /\ flight' = [flight EXCEPT ![w][i] = rest]
  /\ \A k \in Kind : pool'[k] = pool[k] \/ pool'[k] = Append(pool[k], i)
  /\ \A k \in Kind \ Kinds(w) : pool'[k] = pool[k]
  /\ DOMAIN pool' = Kind /\ pool' = [k \in Kind |-> pool'[k]]
  /\ kept' = kept \/ (w = "back" /\ kept' = [kept EXCEPT ![i] = kept[i] + 1])
  /\ \A j \in SubFlow : Users(w, j)' = Users(w, j)

LEMMA MovedKeeps ==
  ASSUME SubFlowsInv, ~ broken, NEW w \in Way, NEW i \in Made, NEW rest \in Seq(Kinds(w)),
         flight[w][i] # <<>>, Moved(w, i, rest)
  PROVE  SubFlowsInv'
<1>a. /\ UNCHANGED flowVars /\ path' = path
      /\ refs' = refs /\ deleted' = deleted /\ ctls' = ctls /\ broken' = broken
  BY DEF Moved, flowVars
<1>b. flight' = [flight EXCEPT ![w][i] = rest]
  BY DEF Moved
<1>c. /\ \A k \in Kind : pool'[k] = pool[k] \/ pool'[k] = Append(pool[k], i)
      /\ \A k \in Kind \ Kinds(w) : pool'[k] = pool[k]
      /\ DOMAIN pool' = Kind /\ pool' = [k \in Kind |-> pool'[k]]
  BY DEF Moved
<1>d. kept' = kept \/ (w = "back" /\ kept' = [kept EXCEPT ![i] = kept[i] + 1])
  BY DEF Moved
<1>e. \A j \in SubFlow : Users(w, j)' = Users(w, j)
  BY DEF Moved
<1>1. SubFlowsTypes /\ Counts /\ Kept /\ i \in SubFlow /\ Made' = Made /\ Made \subseteq SubFlow
  BY <1>a, MadeSubFlow, FlowTypes DEF SubFlowsInv
<1>2. /\ "out" \in Way /\ "back" \in Way /\ "back" # "out" /\ Kinds(w) \subseteq Kind
      /\ Kinds("out") = {"ctl", "data"} /\ Kinds("back") = {"ctlack", "ack"}
  BY DEF Kinds, Kind, Way
<1>3. /\ flight \in [Way -> [SubFlow -> Seq(Kind)]]
      /\ flight["out"] \in [SubFlow -> Seq(Kinds("out"))]
      /\ flight["back"] \in [SubFlow -> Seq(Kinds("back"))]
      /\ rest \in Seq(Kind)
  <2>1. rest \in Seq(Kind)
    BY <1>2
  <2> QED BY <1>1, <1>2, <2>1 DEF SubFlowsTypes
<1>4. /\ flight'[w] = [flight[w] EXCEPT ![i] = rest]
      /\ \A v \in Way \ {w} : flight'[v] = flight[v]
      /\ flight' \in [Way -> [SubFlow -> Seq(Kind)]]
  BY <1>1, <1>3, <1>b
<1>5. w = "back" => i \notin deleted["back"]
  BY <1>1 DEF Counts
<1>6. \A v \in Way, j \in SubFlow : Users(v, j)' = Users(v, j)
  <2>1. CASE w = "out"
    <3>1. \A l \in Kinds("back") : pool'[l] = pool[l]
      BY <1>2, <1>c, <2>1 DEF Kind
    <3>2. \A j : Pooled("ctlack", j)' = Pooled("ctlack", j) /\ Pooled("ack", j)' = Pooled("ack", j)
      BY <3>1 DEF Pooled, Kinds
    <3>3. flight'["back"] = flight["back"] /\ kept' = kept
      BY <1>2, <1>4, <1>d, <2>1
    <3>4. \A j \in SubFlow : Users("back", j)' = Users("back", j)
      BY <3>2, <3>3, UsersAre, UsersAreNext
    <3> QED BY <1>e, <2>1, <3>4 DEF Way
  <2>2. CASE w = "back"
    <3>1. \A l \in Kinds("out") : pool'[l] = pool[l]
      BY <1>2, <1>c, <2>2 DEF Kind
    <3>2. \A j : Pooled("ctl", j)' = Pooled("ctl", j) /\ Pooled("data", j)' = Pooled("data", j)
      BY <3>1 DEF Pooled, Kinds
    <3>3. flight'["out"] = flight["out"]
      BY <1>2, <1>4, <2>2
    <3>4. \A j \in SubFlow : Users("out", j)' = Users("out", j)
      BY <3>2, <3>3, UsersAre, UsersAreNext
    <3> QED BY <1>e, <2>2, <3>4 DEF Way
  <2> QED BY <2>1, <2>2 DEF Way
<1>7. SubFlowsTypes'
  <2>1. /\ pool' \in [Kind -> Seq(SubFlow)]
        /\ \A l \in Kind : \A n \in DOMAIN pool'[l] : pool'[l][n] \in Made'
    BY <1>1, <1>a, <1>c, PoolTypes
  <2>2. /\ flight'["out"] \in [SubFlow -> Seq({"ctl", "data"})]
        /\ flight'["back"] \in [SubFlow -> Seq({"ctlack", "ack"})]
    <3>1. CASE w = "out"
      BY <1>1, <1>2, <1>3, <1>4, <3>1
    <3>2. CASE w = "back"
      BY <1>1, <1>2, <1>3, <1>4, <3>2
    <3> QED BY <3>1, <3>2 DEF Way
  <2>3. ctls' \in [SubFlow -> Nat] /\ kept' \in [SubFlow -> Nat]
    BY <1>1, <1>a, <1>d DEF SubFlowsTypes
  <2>4. /\ refs' \in [Way -> [SubFlow -> Nat]] /\ deleted' \in [Way -> SUBSET SubFlow]
        /\ deleted'["out"] = {} /\ broken' \in BOOLEAN
    BY <1>1, <1>a DEF SubFlowsTypes
  <2>5. \A v \in Way : \A j \in SubFlow : j \in Made' \/ flight'[v][j] = <<>>
    <3>1. \A v \in Way, j \in SubFlow : j = i \/ flight'[v][j] = flight[v][j]
      BY <1>3, <1>4
    <3> QED BY <1>1, <3>1 DEF SubFlowsTypes
  <2> QED BY <1>1, <1>4, <1>a, <2>1, <2>2, <2>3, <2>4, <2>5, FlowTypes DEF SubFlowsTypes
<1>8. Counts'
  <2>1. /\ \A j \in Made : refs["out"][j] > Users("out", j)
        /\ \A j \in SubFlow : refs["out"][j] >= Users("out", j)
        /\ \A j \in SubFlow : IF j \in deleted["back"]
                                THEN flight["back"][j] = <<>>
                                ELSE refs["back"][j] = Users("back", j)
    BY <1>1 DEF Counts
  <2>2. \A j \in deleted["back"] : flight'["back"][j] = flight["back"][j]
    <3>1. CASE w = "out"
      BY <1>2, <1>4, <3>1
    <3>2. CASE w = "back"
      BY <1>1, <1>3, <1>4, <1>5, <3>2 DEF SubFlowsTypes
    <3> QED BY <3>1, <3>2 DEF Way
  <2> QED BY <1>1, <1>2, <1>6, <1>a, <2>1, <2>2 DEF Counts
<1>9. Kept'
  BY <1>1, <1>5, <1>a, <1>d DEF Kept, SubFlowsTypes
<1> QED BY <1>7, <1>8, <1>9 DEF SubFlowsInv

LEMMA SourceReceivesKeeps ==
  ASSUME SubFlowsInv, NEW i \in SubFlow, SourceReceives(i)
  PROVE  SubFlowsInv'
<1> DEFINE k == Head(flight["back"][i])
           rest == Tail(flight["back"][i])
<1>1. /\ SubFlowsTypes /\ i \in Made /\ ~ broken
      /\ UNCHANGED <<flowVars, refs, deleted, ctls, broken>>
      /\ flight["back"][i] # <<>>
      /\ pool' = IF k = "ack" THEN [pool EXCEPT ![k] = Append(@, i)] ELSE pool
      /\ kept' = IF k = "ctlack" THEN [kept EXCEPT ![i] = @ + 1] ELSE kept
      /\ flight' = [flight EXCEPT !["back"][i] = rest]
  BY DEF SubFlowsInv, SubFlowsTypes, SourceReceives, FreedBy
<1>2. /\ k \in {"ctlack", "ack"} /\ rest \in Seq({"ctlack", "ack"})
      /\ Len(rest) = Len(flight["back"][i]) - 1
  <2>1. flight["back"][i] \in Seq({"ctlack", "ack"})
    BY <1>1 DEF SubFlowsTypes
  <2> QED BY <1>1, <2>1
<1> HIDE DEF k, rest
<1>3. /\ pool \in [Kind -> Seq(SubFlow)] /\ kept \in [SubFlow -> Nat]
      /\ flight \in [Way -> [SubFlow -> Seq(Kind)]]
      /\ "back" \in Way /\ Kinds("back") = {"ctlack", "ack"} /\ {"ctlack", "ack"} \subseteq Kind
  BY <1>1 DEF SubFlowsTypes, Way, Kinds, Kind
<1>4. flight'["back"] = [flight["back"] EXCEPT ![i] = rest]
  BY <1>1, <1>3
<1>5. /\ Len(flight'["back"][i]) = Len(flight["back"][i]) - 1
      /\ \A j \in SubFlow \ {i} : flight'["back"][j] = flight["back"][j]
  BY <1>2, <1>3, <1>4
<1>6. \A j \in SubFlow : Users("back", j)' = Users("back", j)
  <2>1. CASE k = "ack"
    <3>1. /\ kept' = kept /\ pool'["ack"] = Append(pool["ack"], i)
          /\ \A l \in Kinds("back") \ {"ack"} : pool'[l] = pool[l]
          /\ "ack" \in Kinds("back")
      BY <1>1, <1>3, <2>1
    <3> QED BY <1>1, <1>3, <1>5, <3>1, UsersPushed
  <2>2. CASE k = "ctlack"
    <3>1. pool' = pool /\ kept' = [kept EXCEPT ![i] = kept[i] + 1]
      BY <1>1, <2>2
    <3> SUFFICES ASSUME NEW j \in SubFlow PROVE Users("back", j)' = Users("back", j)
      OBVIOUS
    <3> DEFINE f == Len(flight["back"][j])
               ff == Len(flight'["back"][j])
               c == Pooled("ctlack", j)
               a == Pooled("ack", j)
               h == kept[j]
               hh == kept'[j]
    <3>2. f \in Nat /\ c \in Nat /\ a \in Nat /\ h \in Nat
      BY <1>1, <1>3, CountTypes
    <3>3. Pooled("ctlack", j)' = c /\ Pooled("ack", j)' = a
      BY <3>1 DEF Pooled
    <3>4. Users("back", j)' = ff + c + a + hh /\ Users("back", j) = f + c + a + h
      BY <3>3, UsersAre, UsersAreNext
    <3>5. ff + hh = f + h /\ ff \in Int /\ hh \in Int
      <4>1. CASE j = i
        <5>1. ff = f - 1 /\ hh = h + 1
          BY <1>3, <1>5, <3>1, <4>1
        <5> HIDE DEF f, ff, h, hh
        <5> QED BY <3>2, <5>1
      <4>2. CASE j # i
        <5>1. ff = f /\ hh = h
          BY <1>3, <1>5, <3>1, <4>2
        <5> HIDE DEF f, ff, h, hh
        <5> QED BY <3>2, <5>1
      <4> QED BY <4>1, <4>2
    <3> HIDE DEF f, ff, c, a, h, hh
    <3> QED BY <3>2, <3>4, <3>5
  <2> QED BY <1>2, <2>1, <2>2
<1>7. /\ rest \in Seq(Kinds("back"))
      /\ \A l \in Kind : pool'[l] = pool[l] \/ pool'[l] = Append(pool[l], i)
      /\ \A l \in Kind \ Kinds("back") : pool'[l] = pool[l]
      /\ DOMAIN pool' = Kind /\ pool' = [l \in Kind |-> pool'[l]]
      /\ kept' = kept \/ kept' = [kept EXCEPT ![i] = kept[i] + 1]
  BY <1>1, <1>2, <1>3
<1>8. Moved("back", i, rest)
  BY <1>1, <1>6, <1>7 DEF Moved
<1> QED BY <1>1, <1>3, <1>7, <1>8, MovedKeeps

LEMMA LoseKeeps ==
  ASSUME SubFlowsInv, NEW i \in SubFlow, NEW w \in Way, Lose(w, i)
  PROVE  SubFlowsInv'
<1>1. PICK n \in DOMAIN flight[w][i] :
        /\ pool' = [pool EXCEPT ![flight[w][i][n]] = Append(@, i)]
        /\ flight' = [flight EXCEPT ![w][i] = RemoveAt(@, n)]
  BY DEF Lose
<1> DEFINE k == flight[w][i][n]
           rest == RemoveAt(flight[w][i], n)
<1>2. /\ SubFlowsTypes /\ Counts /\ ~ broken
      /\ UNCHANGED <<flowVars, refs, deleted, ctls, kept, broken>>
  BY DEF SubFlowsInv, Lose
<1>3. /\ flight \in [Way -> [SubFlow -> Seq(Kind)]] /\ pool \in [Kind -> Seq(SubFlow)]
      /\ flight[w][i] \in Seq(Kinds(w)) /\ Kinds(w) \subseteq Kind
  BY <1>2 DEF SubFlowsTypes, Kinds, Kind, Way
<1>4. /\ k \in Kinds(w) /\ flight[w][i] # <<>>
      /\ rest \in Seq(Kinds(w)) /\ Len(rest) = Len(flight[w][i]) - 1
  <2>1. n \in 1 .. Len(flight[w][i]) /\ flight[w][i][n] \in Kinds(w)
    BY <1>3
  <2>2. rest \in Seq(Kinds(w)) /\ Len(rest) = Len(flight[w][i]) - 1
    BY <1>3, <2>1, RemoveAtProperties
  <2> QED BY <1>3, <2>1, <2>2
<1>5. i \in Made
  BY <1>2, <1>3, <1>4 DEF Counts, SubFlowsTypes
<1> HIDE DEF k, rest
<1>6. /\ pool'[k] = Append(pool[k], i)
      /\ \A l \in Kind \ {k} : pool'[l] = pool[l]
      /\ DOMAIN pool' = Kind /\ pool' = [l \in Kind |-> pool'[l]]
  BY <1>1, <1>3, <1>4 DEF k
<1>7. flight' = [flight EXCEPT ![w][i] = rest]
  BY <1>1 DEF rest
<1>8. \A j \in SubFlow : Users(w, j)' = Users(w, j)
  <2>1. /\ Len(flight'[w][i]) = Len(flight[w][i]) - 1
        /\ \A j \in SubFlow \ {i} : flight'[w][j] = flight[w][j]
    BY <1>3, <1>4, <1>7
  <2>2. \A l \in Kinds(w) \ {k} : pool'[l] = pool[l]
    BY <1>3, <1>6
  <2> QED BY <1>2, <1>4, <1>6, <2>1, <2>2, UsersPushed
<1>9. /\ \A l \in Kind : pool'[l] = pool[l] \/ pool'[l] = Append(pool[l], i)
      /\ \A l \in Kind \ Kinds(w) : pool'[l] = pool[l]
  BY <1>4, <1>6
<1>10. Moved(w, i, rest)
  BY <1>2, <1>6, <1>7, <1>8, <1>9 DEF Moved
<1> QED BY <1>2, <1>4, <1>5, <1>10, MovedKeeps

-----------------------------------------------------------------------------
LEMMA SubFlowsInit ==
  ASSUME Init
  PROVE  SubFlowsInv
<1>1. Made = {} /\ Len(path) = 0
  BY DEF Init, Made
<1>2. SubFlowsTypes
  <2>1. /\ path \in Seq(Path) /\ Len(path) <= MaxSubFlows
        /\ current \subseteq Made /\ garbage \subseteq Made /\ gone = {}
        /\ now \in 0 .. MaxUpdates /\ gcTime = Never
    BY <1>1, SubFlowsConstants DEF Init, GarbageTime
  <2>2. /\ refs \in [Way -> [SubFlow -> Nat]]
        /\ deleted \in [Way -> SUBSET SubFlow] /\ deleted["out"] = {}
        /\ flight \in [Way -> [SubFlow -> Seq(Kind)]]
        /\ flight["out"] \in [SubFlow -> Seq({"ctl", "data"})]
        /\ flight["back"] \in [SubFlow -> Seq({"ctlack", "ack"})]
        /\ \A w \in Way : \A i \in SubFlow : flight[w][i] = <<>>
    BY DEF Init, Way
  <2>3. /\ pool \in [Kind -> Seq(SubFlow)]
        /\ \A k \in Kind : \A n \in DOMAIN pool[k] : pool[k][n] \in Made
        /\ ctls \in [SubFlow -> Nat] /\ kept \in [SubFlow -> Nat] /\ broken \in BOOLEAN
    <3>1. pool = [k \in Kind |-> <<>>] /\ <<>> \in Seq(SubFlow)
      BY DEF Init
    <3>2. pool \in [Kind -> Seq(SubFlow)]
      BY <3>1
    <3>3. \A k \in Kind : DOMAIN pool[k] = {}
      BY <3>1
    <3> QED BY <3>2, <3>3 DEF Init
  <2> QED BY <2>1, <2>2, <2>3 DEF SubFlowsTypes
<1>3. \A i \in SubFlow : Users("out", i) = 0 /\ Users("back", i) = 0
  <2> SUFFICES ASSUME NEW i \in SubFlow PROVE Users("out", i) = 0 /\ Users("back", i) = 0
    OBVIOUS
  <2>1. \A k \in Kind : Pooled(k, i) = 0
    <3>1. \A k \in Kind : pool[k] = <<>>
      BY DEF Init
    <3>2. \A k \in Kind : {n \in DOMAIN pool[k] : pool[k][n] = i} = {}
      BY <3>1
    <3> QED BY <3>2, FS_EmptySet DEF Pooled
  <2>2. /\ Len(flight["out"][i]) = 0 /\ Len(flight["back"][i]) = 0 /\ kept[i] = 0
        /\ Pooled("ctl", i) = 0 /\ Pooled("data", i) = 0
        /\ Pooled("ctlack", i) = 0 /\ Pooled("ack", i) = 0
    BY <2>1 DEF Init, Way, Kind
  <2>3. 0 + 0 + 0 = 0 /\ 0 + 0 + 0 + 0 = 0
    OBVIOUS
  <2> QED BY <2>2, <2>3, UsersAre
<1>4. Counts
  BY <1>1, <1>3 DEF Init, Counts, Way
<1>5. Kept
  BY DEF Init, Kept, Way
<1> QED BY <1>2, <1>4, <1>5 DEF SubFlowsInv

LEMMA SubFlowsStep ==
  ASSUME SubFlowsInv, [Next]_vars
  PROVE  SubFlowsInv'
<1>1. CASE UNCHANGED vars
  <2>1. UNCHANGED vars
    BY <1>1
  <2>2. SubFlowsTypes' = SubFlowsTypes /\ Kept' = Kept
    BY <2>1 DEF vars, SubFlowsTypes, Kept, Made
  <2>3. \A w, i : Users(w, i)' = Users(w, i)
    BY <2>1 DEF vars, Users, Pooled
  <2>4. Counts'
    BY <2>1, <2>3 DEF vars, Counts, Made, SubFlowsInv
  <2> QED BY <2>2, <2>4 DEF SubFlowsInv
<1>2. ASSUME NEW found \in SUBSET Path, Update(found) PROVE SubFlowsInv'
  BY <1>2, UpdateKeeps
<1>3. ASSUME NEW i \in SubFlow, NEW k \in {"ctl", "data"}, Send(k, i) PROVE SubFlowsInv'
  BY <1>3, SendKeeps
<1>4. ASSUME NEW i \in SubFlow, SinkReceives(i) PROVE SubFlowsInv'
  BY <1>4, SinkReceivesKeeps
<1>5. ASSUME NEW i \in SubFlow, SourceReceives(i) PROVE SubFlowsInv'
  BY <1>5, SourceReceivesKeeps
<1>6. ASSUME NEW i \in SubFlow, NEW w \in Way, Lose(w, i) PROVE SubFlowsInv'
  BY <1>6, LoseKeeps
<1> QED BY <1>1, <1>2, <1>3, <1>4, <1>5, <1>6 DEF Next

(* Whatever is sent, lost and used again, the counts and the packets agree *)
(* as SubFlowsInv says, until a deleted route is used.                            *)
THEOREM SubFlowsInvariant == Spec => []SubFlowsInv
<1> QED BY SubFlowsInit, SubFlowsStep, PTL DEF Spec

(* Each packet of set_route() is counted by its route once, on the way, in *)
(* a pool or kept for ever, and the map of routes once more than that.     *)
THEOREM CountsAgree == Spec => []Counted
<1>1. SubFlowsInv => Counted
  <2> SUFFICES ASSUME SubFlowsInv PROVE Counted
    OBVIOUS
  <2>1. SubFlowsTypes /\ Counts
    BY DEF SubFlowsInv
  <2>2. TypeOK
    BY <2>1, SubFlowsConstants DEF SubFlowsTypes, TypeOK
  <2>3. Made \subseteq SubFlow
    BY <2>1, MadeSubFlow
  <2> QED BY <2>1, <2>2, <2>3 DEF Counts, Counted
<1> QED BY <1>1, SubFlowsInvariant, PTL

(* A sub-flow whose control ack came back never loses a route it may use,  *)
(* and no sub-flow ever loses its route out.                               *)
THEOREM NoRouteLost == Spec => []RoutesKept
<1>1. SubFlowsInv => RoutesKept
  BY DEF SubFlowsInv, SubFlowsTypes, Kept, RoutesKept
<1> QED BY <1>1, SubFlowsInvariant, PTL

-----------------------------------------------------------------------------
(* The inductive invariant of a TCP connection.                            *)

(* The sink k has acked what is without a hole of the packets A that have  *)
(* arrived, and keeps the rest.                                            *)
InPrefix(k, A) ==
  /\ \A b \in Seqno : b <= k.cumulativeAck => b \in A
  /\ k.cumulativeAck + 1 \notin A
  /\ ToSet(k.received) = {b \in A : b > k.cumulativeAck}
  /\ Ascending(k.received)
  /\ k.cumulativeAck = 0 => A = {}

(* The windows of a source are open, and what it has seen acked it has     *)
(* sent; before the SYN is acked there is nothing else.                    *)
Sound(s) ==
  /\ s \in Source /\ s.highestSent \in Ackno /\ s.lastAcked \in Ackno
  /\ s.lastAcked <= s.highestSent /\ s.cwnd > 0 /\ s.ssthresh > 0
  /\ s.established => s.lastAcked >= 1
  /\ ~ s.established => s.lastAcked = 0 /\ s.highestSent = 1

Timed(s) == s.lastAcked < s.highestSent => s.timer \/ s.pending

(* No ack is ahead of the sink's. *)
AcksBelow ==
  /\ src.lastAcked <= sink.cumulativeAck
  /\ \A i \in DOMAIN acks : 1 <= acks[i] /\ acks[i] <= sink.cumulativeAck

SynFirst ==
  ~ src.established =>
    /\ sink.cumulativeAck <= 1
    /\ \A i \in DOMAIN data : data[i] = SYN

InFlow == \A i \in DOMAIN data : data[i] <= LastByte \/ data[i] <= sink.cumulativeAck + 1

(* On a network without trouble everything comes in order, once, and no    *)
(* timeout is booked.                                                      *)
CalmAcks ==
  /\ acks = <<>> => sink.cumulativeAck = src.lastAcked
  /\ acks # <<>> => acks[1] > src.lastAcked /\ acks[Len(acks)] = sink.cumulativeAck
  /\ \A i \in 1 .. Len(acks) - 1 : acks[i] < acks[i + 1]
CalmData ==
  /\ src.highestSent <= LastByte /\ sink.received = <<>>
  /\ sink.cumulativeAck = 0 => data = <<SYN>>
  /\ sink.cumulativeAck > 0 =>
       /\ src.highestSent = sink.cumulativeAck + Len(data) * MSS
       /\ \A i \in DOMAIN data : data[i] = sink.cumulativeAck + 1 + (i - 1) * MSS
CalmTimer ==
  /\ ~ src.inFastRecovery /\ ~ src.pending
  /\ src.timer => src.lastAcked < src.highestSent
Calm == troubles = 0 => CalmAcks /\ CalmData /\ CalmTimer

Orderly ==
  /\ TcpTypeOK /\ Sound(src) /\ Timed(src) /\ InPrefix(sink, arrived)
  /\ AcksBelow /\ SynFirst /\ InFlow

TcpInv == Orderly /\ Calm

-----------------------------------------------------------------------------
(* Numbers: packets begin, and acks end, whole packets apart.              *)
LEMMA TcpConstants ==
  /\ MSS \in Nat \ {0} /\ FlowPackets \in Nat /\ InitWindow \in Nat \ {0}
  /\ MaxTroubles \in Nat
  /\ LastByte \in Nat /\ LastByte >= 1 + MSS /\ FlowSize + 1 = LastByte
<1>1. MSS \in Nat \ {0} /\ FlowPackets \in Nat /\ InitWindow \in Nat \ {0} /\ MaxTroubles \in Nat
  BY TcpFlowAssumption
<1>2. FlowPackets * MSS \in Nat /\ (FlowPackets + 1) * MSS = FlowPackets * MSS + MSS
  BY <1>1
<1> QED BY <1>1, <1>2 DEF LastByte, FlowSize

LEMMA AtLeast ==
  ASSUME NEW k \in Nat
  PROVE  k * MSS \in Nat /\ k <= k * MSS
<1>1. \A a, b \in Nat : a * b \in Nat
  OBVIOUS
<1>2. MSS \in Nat /\ MSS - 1 \in Nat
  BY TcpConstants
<1>3. k * (MSS - 1) \in Nat /\ k * MSS \in Nat
  BY <1>1, <1>2
<1>4. k * (MSS - 1) = k * MSS - k
  BY <1>2
<1> QED BY <1>3, <1>4

LEMMA AcknoIs ==
  ASSUME NEW x
  PROVE  x \in Ackno <=> x = 0 \/ \E k \in Nat : x = 1 + k * MSS
<1>1. ASSUME NEW k \in Nat, x = 1 + k * MSS
      PROVE  x \in Ackno
  <2>1. k * MSS \in Nat /\ k <= k * MSS
    BY AtLeast
  <2>2. x \in Nat /\ k \in 0 .. x
    BY <1>1, <2>1
  <2> QED BY <1>1, <2>2 DEF Ackno
<1>2. ASSUME x \in Ackno
      PROVE  x = 0 \/ \E k \in Nat : x = 1 + k * MSS
  BY <1>2 DEF Ackno
<1>3. 0 \in Ackno
  BY DEF Ackno
<1> QED BY <1>1, <1>2, <1>3

LEMMA SeqnoIs ==
  ASSUME NEW x
  PROVE  x \in Seqno <=> x = SYN \/ \E k \in Nat : x = 2 + k * MSS
<1>1. ASSUME NEW k \in Nat, x = 2 + k * MSS
      PROVE  x \in Seqno
  <2>1. k * MSS \in Nat /\ k <= k * MSS
    BY AtLeast
  <2>2. x \in Nat /\ k \in 0 .. x
    BY <1>1, <2>1
  <2> QED BY <1>1, <2>2 DEF Seqno
<1>2. ASSUME x \in Seqno
      PROVE  x = SYN \/ \E k \in Nat : x = 2 + k * MSS
  BY <1>2 DEF Seqno
<1>3. SYN \in Seqno
  BY DEF Seqno
<1> QED BY <1>1, <1>2, <1>3

LEMMA Numbers ==
  /\ 0 \in Ackno /\ 1 \in Ackno /\ SYN \in Seqno
  /\ \A a \in Ackno : a \in Nat /\ a + 1 \in Seqno
  /\ \A b \in Seqno : b \in Nat /\ b >= 1
<1>1. 0 \in Ackno /\ SYN \in Seqno
  BY AcknoIs, SeqnoIs
<1>2. 1 \in Ackno
  <2>1. 0 * MSS = 0
    BY TcpConstants
  <2>2. 1 = 1 + 0 * MSS /\ 0 \in Nat
    BY <2>1
  <2> QED BY <2>2, AcknoIs
<1>3. ASSUME NEW a \in Ackno PROVE a \in Nat /\ a + 1 \in Seqno
  <2>1. CASE a = 0
    BY <1>1, <2>1 DEF SYN
  <2>2. CASE a # 0
    <3>1. PICK k \in Nat : a = 1 + k * MSS
      BY <2>2, AcknoIs
    <3>2. k * MSS \in Nat
      BY AtLeast
    <3>3. a \in Nat /\ a + 1 = 2 + k * MSS
      BY <3>1, <3>2
    <3> QED BY <3>3, SeqnoIs
  <2> QED BY <2>1, <2>2
<1>4. ASSUME NEW b \in Seqno PROVE b \in Nat /\ b >= 1
  <2>1. CASE b = SYN
    BY <2>1 DEF SYN
  <2>2. CASE b # SYN
    <3>1. PICK k \in Nat : b = 2 + k * MSS
      BY <2>2, SeqnoIs
    <3>2. k * MSS \in Nat
      BY AtLeast
    <3> QED BY <3>1, <3>2
  <2> QED BY <2>1, <2>2
<1> QED BY <1>1, <1>2, <1>3, <1>4

(* Whole packets further on there is another number of the kind. *)
LEMMA PacketsOn ==
  ASSUME NEW a \in Ackno, a >= 1, NEW n \in Nat
  PROVE  /\ n * MSS \in Nat /\ a + n * MSS \in Ackno /\ a + 1 + n * MSS \in Seqno
         /\ (n + 1) * MSS = n * MSS + MSS
<1>1. a # 0
  BY Numbers
<1>2. PICK k \in Nat : a = 1 + k * MSS
  BY <1>1, AcknoIs
<1>3. /\ n * MSS \in Nat /\ k * MSS \in Nat /\ (k + n) * MSS = k * MSS + n * MSS
      /\ (n + 1) * MSS = n * MSS + MSS
  BY AtLeast, TcpConstants
<1>4. a + n * MSS = 1 + (k + n) * MSS /\ k + n \in Nat
  BY <1>2, <1>3
<1>5. a + n * MSS \in Ackno
  BY <1>4, AcknoIs
<1>6. (a + n * MSS) + 1 \in Seqno
  BY <1>5, Numbers
<1>7. (a + n * MSS) + 1 = a + 1 + n * MSS
  BY <1>2, <1>3
<1> QED BY <1>3, <1>5, <1>6, <1>7

(* A packet above the next one begins whole packets behind it. *)
LEMMA PacketsApart ==
  ASSUME NEW a \in Ackno, a >= 1, NEW b \in Seqno, b > a + 1
  PROVE  \E j \in Nat \ {0} : b = (a + 1) + j * MSS
<1>1. a # 0 /\ b # SYN
  BY Numbers DEF SYN
<1>2. PICK k \in Nat : a = 1 + k * MSS
  BY <1>1, AcknoIs
<1>3. PICK i \in Nat : b = 2 + i * MSS
  BY <1>1, SeqnoIs
<1>4. i * MSS \in Nat /\ k * MSS \in Nat /\ MSS \in Nat \ {0}
  BY AtLeast, TcpConstants
<1>5. i * MSS > k * MSS
  BY <1>2, <1>3, <1>4
<1>6. i > k
  <2>1. CASE i = k
    BY <1>4, <1>5, <2>1
  <2>2. CASE i < k
    <3>1. i * MSS + MSS <= k * MSS
      BY <1>4, <2>2, NextMultiple
    <3> QED BY <1>4, <1>5, <3>1
  <2> QED BY <2>1, <2>2
<1>7. (i - k) * MSS = i * MSS - k * MSS /\ i - k \in Nat \ {0}
  BY <1>4, <1>6
<1> QED BY <1>2, <1>3, <1>4, <1>7

-----------------------------------------------------------------------------
(* The sink's side.                                                        *)
(* The packet expected next moves the ack on to the next hole. *)
Expected(k, n) == n = k.cumulativeAck + 1

LEMMA NextMovesOn ==
  ASSUME NEW k \in Sink, NEW A \in SUBSET Seqno, InPrefix(k, A),
         NEW n \in Seqno, Expected(k, n),
         k.cumulativeAck = 0 => n = SYN,
         NEW size \in Nat \ {0}, n = SYN => size = 1, n # SYN => size = MSS
  PROVE  LET t == InOrder(k, n, size)
         IN  \E m \in 0 .. Len(k.received) :
               /\ t.cumulativeAck = n + size - 1 + m * size
               /\ \A j \in 1 .. m : n + j * size \in A
               /\ t.received \in Seq(Nat) /\ Ascending(t.received)
               /\ ToSet(t.received) = From(A \cup {n}, n + m * size + size)
               /\ n + m * size + size \notin A
<1> DEFINE c == k.cumulativeAck
           q == k.received
<1>1. /\ c \in Ackno /\ c \in Nat /\ q \in Seq(Seqno) /\ n \in Nat
      /\ A \in SUBSET Nat /\ size \in Nat \ {0}
  BY Numbers DEF Sink
<1>1n. n = c + 1
  BY DEF Expected
<1>2. q \in Seq(Nat) /\ Ascending(q)
  <2>1. Seqno \subseteq Nat
    BY Numbers
  <2> QED BY <1>1, <2>1, SeqMonotonic DEF InPrefix
<1>3. n \notin A /\ ToSet(q) = From(A, n)
  <2>1. \A b \in A : b > c <=> b >= n
    BY <1>1, <1>1n
  <2>2. n \notin A
    BY <1>1n DEF InPrefix
  <2> QED BY <2>1, <2>2 DEF From, InPrefix
<1>4. \A i \in 1 .. Len(q) : \E j \in Nat \ {0} : q[i] = n + j * size
  <2> SUFFICES ASSUME NEW i \in 1 .. Len(q)
               PROVE  \E j \in Nat \ {0} : q[i] = n + j * size
    OBVIOUS
  <2>1. q[i] \in ToSet(q)
    BY <1>2, LenProperties DEF ToSet
  <2>2. q[i] \in A /\ q[i] > c /\ q[i] # n
    BY <1>3, <2>1 DEF InPrefix
  <2>3. c # 0
    BY <2>2 DEF InPrefix
  <2>4. q[i] \in Seqno /\ c >= 1 /\ q[i] > c + 1
    <3> DEFINE x == q[i]
    <3>1. x \in Nat /\ x \in Seqno /\ x > c /\ x # c + 1 /\ c \in Nat /\ c # 0
      BY <1>1, <1>1n, <2>2, <2>3
    <3> HIDE DEF x, c
    <3> QED BY <3>1 DEF x
  <2>5. PICK j \in Nat \ {0} : q[i] = (c + 1) + j * MSS
    BY <1>1, <2>4, PacketsApart
  <2>6. n # SYN
    BY <1>1, <1>1n, <2>3 DEF SYN
  <2> QED BY <1>1n, <2>5, <2>6
<1> DEFINE m == Max(Stretch(q, n, size))
           r == SubSeq(q, m + 1, Len(q))
<1>5. /\ m \in 0 .. Len(q)
      /\ \A j \in 1 .. m : q[j] = n + j * size /\ n + j * size \in A
      /\ r \in Seq(Nat) /\ Ascending(r)
      /\ ToSet(r) = From(A \cup {n}, n + m * size + size)
      /\ n + m * size + size \notin A
  <2>1. n \in Nat /\ n \notin A
    BY <1>1, <1>3
  <2> QED BY <1>1, <1>2, <1>3, <1>4, <2>1, StretchMovesOn
<1>6. InOrder(k, n, size) = [cumulativeAck |-> n + size - 1 + m * size, received |-> r]
  BY DEF InOrder, Stretch
<1> DEFINE t == InOrder(k, n, size)
<1> HIDE DEF m, r
<1>7. t.cumulativeAck = n + size - 1 + m * size /\ t.received = r
  BY <1>6
<1> HIDE DEF t
<1> QED BY <1>5, <1>7 DEF t

LEMMA InOrderProperties ==
  ASSUME NEW k \in Sink, NEW A \in SUBSET Seqno, InPrefix(k, A),
         NEW n \in Seqno, Expected(k, n),
         k.cumulativeAck = 0 => n = SYN,
         NEW size \in Nat \ {0}, n = SYN => size = 1, n # SYN => size = MSS
  PROVE  LET t == InOrder(k, n, size)
         IN  /\ t \in Sink /\ k.cumulativeAck < t.cumulativeAck
             /\ InPrefix(t, A \cup {n})
             /\ k.received = <<>> =>
                  t.received = <<>> /\ t.cumulativeAck = k.cumulativeAck + size
<1> DEFINE c == k.cumulativeAck
           t == InOrder(k, n, size)
           B == A \cup {n}
<1>1. /\ c \in Ackno /\ c \in Nat /\ n \in Nat /\ A \in SUBSET Nat
      /\ size \in Nat \ {0} /\ k.received \in Seq(Seqno)
      /\ \A b \in Seqno : b \in Nat /\ b >= 1
  BY Numbers DEF Sink
<1>1n. n = c + 1
  BY DEF Expected
<1>0. PICK m \in 0 .. Len(k.received) :
        /\ t.cumulativeAck = n + size - 1 + m * size
        /\ \A j \in 1 .. m : n + j * size \in A
        /\ t.received \in Seq(Nat) /\ Ascending(t.received)
        /\ ToSet(t.received) = From(B, n + m * size + size)
        /\ n + m * size + size \notin A
  BY NextMovesOn
<1> DEFINE far == m * size
<1>2. /\ t.cumulativeAck = n + size - 1 + far
      /\ \A j \in 1 .. m : n + j * size \in A
      /\ t.received \in Seq(Nat) /\ Ascending(t.received)
      /\ ToSet(t.received) = From(B, n + far + size)
      /\ n + far + size \notin A
  BY <1>0
<1>3. t = [cumulativeAck |-> t.cumulativeAck, received |-> t.received]
  BY DEF InOrder
<1> HIDE DEF t
<1>4. m \in Nat /\ far \in Nat
  <2>1. m \in Nat
    BY <1>1, LenProperties
  <2>2. \A a, b \in Nat : a * b \in Nat
    OBVIOUS
  <2>3. size \in Nat
    BY <1>1
  <2> QED BY <2>1, <2>2, <2>3
<1>4b. (m + 1) * size = far + size
  <2>1. size \in Int /\ m \in Int
    BY <1>1, <1>4
  <2>2. (m + 1) * size = m * size + size
    BY <2>1
  <2> QED BY <2>2
<1>4a. m * size = far
  OBVIOUS
<1>4c. t.cumulativeAck = n + size - 1 + far
  BY <1>2
<1> HIDE DEF far, c
<1>5. /\ t.cumulativeAck \in Nat /\ t.cumulativeAck + 1 = n + far + size
      /\ c < t.cumulativeAck /\ t.cumulativeAck >= n
      /\ t.cumulativeAck = c + size + far
  BY <1>1, <1>1n, <1>4, <1>4c
<1>6. t.cumulativeAck \in Ackno
  <2>1. CASE c = 0
    <3>1. A = {} /\ n = SYN /\ size = 1
      BY <2>1 DEF InPrefix, c
    <3>2. m = 0
      <4>1. ~ (1 \in 1 .. m)
        BY <1>2, <3>1
      <4> QED BY <1>4, <4>1
    <3>3. far = 0
      BY <3>1, <3>2, <1>4a
    <3>4. t.cumulativeAck = 1
      BY <1>5, <2>1, <3>1, <3>3
    <3> QED BY <3>4, Numbers
  <2>2. CASE c # 0
    <3>1. size = MSS /\ c >= 1
      BY <1>1, <1>1n, <2>2 DEF SYN
    <3>2. c + (m + 1) * MSS \in Ackno
      <4>1. m + 1 \in Nat
        BY <1>4
      <4> QED BY <1>1, <1>1n, <3>1, <4>1, PacketsOn
    <3>3. t.cumulativeAck = c + (m + 1) * MSS
      BY <1>1, <1>1n, <1>4, <1>4b, <1>5, <3>1
    <3> QED BY <3>2, <3>3
  <2> QED BY <2>1, <2>2
<1>7. \A x \in B : x >= n + far + size <=> x > t.cumulativeAck
  BY <1>1, <1>1n, <1>4, <1>5
<1>8. ToSet(t.received) = {x \in B : x > t.cumulativeAck}
  BY <1>2, <1>7 DEF From
<1>9. t \in Sink
  <2>1. \A x \in ToSet(t.received) : x \in Seqno
    BY <1>8
  <2>2. t.received \in Seq(Seqno)
    BY <1>2, <2>1, ListOf
  <2> QED BY <1>3, <1>6, <2>2 DEF Sink
<1>10. ASSUME NEW b \in Seqno, b <= t.cumulativeAck PROVE b \in B
  <2>1. CASE b <= c
    BY <2>1 DEF InPrefix, c
  <2>2. CASE b = n
    BY <2>2
  <2>3. CASE b > c + 1
    <3>1. CASE c = 0
      <4>1. A = {} /\ n = SYN /\ size = 1
        BY <3>1 DEF InPrefix, c
      <4>2. ~ (1 \in 1 .. m)
        BY <1>2, <4>1
      <4>3. m = 0
        BY <1>4, <4>2
      <4>4. far = 0
        BY <4>1, <4>3, <1>4a
      <4>5. t.cumulativeAck = 1
        BY <1>5, <3>1, <4>1, <4>4
      <4> QED BY <1>1, <1>1n, <1>10, <2>3, <4>5
    <3>2. CASE c # 0
      <4>1. size = MSS /\ c >= 1
        BY <1>1, <1>1n, <3>2 DEF SYN
      <4>2. PICK j \in Nat \ {0} : b = (c + 1) + j * MSS
        BY <1>1, <1>1n, <2>3, <4>1, PacketsApart
      <4> DEFINE way == j * size
      <4>3. way \in Nat /\ b = (c + 1) + way
        BY <4>1, <4>2, AtLeast
      <4>4. ~ (m < j)
        <5>1. CASE m < j
          <6>0. m \in Int /\ j \in Int /\ size \in Nat \ {0}
            BY <1>1, <1>1n, <1>4
          <6>1. far + size <= way
            BY <1>4a, <5>1, <6>0, NextMultiple
          <6> HIDE DEF way
          <6> QED BY <1>1, <1>1n, <1>4, <1>5, <1>10, <4>3, <6>1
        <5> QED BY <5>1
      <4>5. b = n + j * size
        BY <1>1, <1>1n, <4>1, <4>2
      <4>6. j \in 1 .. m
        BY <1>4, <4>4
      <4> QED BY <1>2, <4>5, <4>6
    <3> QED BY <3>1, <3>2
  <2>4. b \in Nat /\ (b <= c \/ b = c + 1 \/ b > c + 1)
    BY <1>1
  <2> QED BY <1>1n, <2>1, <2>2, <2>3, <2>4
<1>11. t.cumulativeAck + 1 \notin B
  BY <1>1, <1>1n, <1>2, <1>5
<1>12. InPrefix(t, B)
  <2>1. t.cumulativeAck # 0
    BY <1>1, <1>1n, <1>5
  <2> HIDE DEF B
  <2> QED BY <1>2, <1>8, <1>10, <1>11, <2>1 DEF InPrefix, c
<1>13. ASSUME k.received = <<>>
       PROVE  t.received = <<>> /\ t.cumulativeAck = k.cumulativeAck + size
  <2>1. m = 0
    BY <1>13
  <2>2. far = 0
    BY <1>1, <1>4a, <2>1
  <2>3. t.received = <<>>
    <3>1. ToSet(k.received) = {}
      BY <1>13 DEF ToSet
    <3>2. \A x \in A : ~ (x > c)
      BY <3>1 DEF InPrefix, c
    <3>3. \A x \in B : ~ (x > t.cumulativeAck)
      <4>1. \A x \in A : ~ (x > t.cumulativeAck)
        BY <1>1, <1>1n, <1>5, <3>2
      <4>2. ~ (n > t.cumulativeAck)
        BY <1>1, <1>1n, <1>5
      <4> QED BY <4>1, <4>2
    <3>5. ToSet(t.received) = {}
      BY <1>8, <3>3
    <3>4. Len(t.received) = 0
      <4>1. CASE Len(t.received) # 0
        <5>1. 1 \in DOMAIN t.received
          BY <1>2, <4>1, LenProperties
        <5>2. t.received[1] \in ToSet(t.received)
          BY <5>1 DEF ToSet
        <5> QED BY <3>5, <5>2
      <4> QED BY <4>1
    <3> QED BY <1>2, <3>4, EmptySeq
  <2>4. t.cumulativeAck = c + size
    BY <1>1, <1>5, <2>2
  <2> QED BY <2>3, <2>4 DEF c
<1> QED BY <1>5, <1>9, <1>12, <1>13 DEF t, c

LEMMA SinkTakesIn ==
  ASSUME NEW k \in Sink, NEW A \in SUBSET Seqno, InPrefix(k, A),
         NEW n \in Seqno, k.cumulativeAck = 0 => n = SYN
  PROVE  LET t == Receive(k, n)
         IN  /\ t \in Sink /\ k.cumulativeAck <= t.cumulativeAck /\ t.cumulativeAck >= 1
             /\ InPrefix(t, A \cup {n})
             /\ n = SYN /\ k.cumulativeAck <= 1 => t.cumulativeAck = 1
             /\ n = k.cumulativeAck + 1 /\ k.received = <<>> =>
                  /\ t.received = <<>>
                  /\ t.cumulativeAck = k.cumulativeAck + (IF n = SYN THEN 1 ELSE MSS)
<1> DEFINE c == k.cumulativeAck
           q == k.received
           size == IF n = SYN THEN 1 ELSE MSS
           t == Receive(k, n)
<1>1. /\ c \in Ackno /\ c \in Nat /\ n \in Nat /\ n >= 1 /\ q \in Seq(Seqno)
      /\ A \in SUBSET Nat /\ Seqno \subseteq Nat
  BY Numbers DEF Sink
<1>2. q \in Seq(Nat) /\ Ascending(q) /\ ToSet(q) = {b \in A : b > c}
  BY <1>1, SeqMonotonic DEF InPrefix
<1>3. CASE n = c + 1
  <2>1. t = InOrder(k, n, size)
    BY <1>3 DEF Receive
  <2>2. /\ t \in Sink /\ c < t.cumulativeAck /\ InPrefix(t, A \cup {n})
        /\ k.received = <<>> => t.received = <<>> /\ t.cumulativeAck = c + size
    <3> HIDE DEF size, t
    <3>1. size \in Nat \ {0} /\ (n = SYN => size = 1) /\ (n # SYN => size = MSS)
      BY TcpConstants DEF size
    <3>2. LET u == InOrder(k, n, size)
          IN  /\ u \in Sink /\ k.cumulativeAck < u.cumulativeAck
              /\ InPrefix(u, A \cup {n})
              /\ k.received = <<>> =>
                   u.received = <<>> /\ u.cumulativeAck = k.cumulativeAck + size
      <4>1. Expected(k, n)
        BY <1>3 DEF Expected
      <4> QED BY <3>1, <4>1, InOrderProperties
    <3> QED BY <2>1, <3>2
  <2>3. ASSUME n = SYN PROVE t.cumulativeAck = 1
    <3>1. c = 0
      BY <1>1, <1>3, <2>3 DEF SYN
    <3>2. A = {}
      BY <3>1 DEF InPrefix
    <3>3. ToSet(q) = {}
      BY <1>2, <3>2
    <3>4. q = <<>>
      <4>1. CASE Len(q) # 0
        <5>1. 1 \in DOMAIN q
          BY <1>2, <4>1, LenProperties
        <5>2. q[1] \in ToSet(q)
          BY <5>1 DEF ToSet
        <5> QED BY <3>3, <5>2
      <4> QED BY <1>2, <4>1, EmptySeq
    <3>5. t.cumulativeAck = c + size /\ size = 1
      BY <2>2, <2>3, <3>4
    <3> QED BY <3>1, <3>5
  <2>4. t.cumulativeAck \in Nat
    BY <2>2, Numbers DEF Sink
  <2> HIDE DEF t
  <2>5. c <= t.cumulativeAck /\ t.cumulativeAck >= 1
    BY <1>1, <2>2, <2>4
  <2> QED BY <2>2, <2>3, <2>5 DEF t
<1>4. CASE n <= c
  <2>1. t = k
    BY <1>1, <1>4 DEF Receive
  <2>2. A \cup {n} = A
    BY <1>4 DEF InPrefix
  <2>3. c <= c /\ c >= 1 /\ n # c + 1 /\ (n = SYN /\ c <= 1 => c = 1)
    BY <1>1, <1>4
  <2> HIDE DEF t
  <2> QED BY <2>1, <2>2, <2>3 DEF t
<1>5. CASE n > c + 1
  <2>1. t = AboveHole(k, n)
    BY <1>1, <1>5 DEF Receive
  <2>2. c # 0 /\ c >= 1 /\ n # SYN /\ n # c + 1
    BY <1>1, <1>5 DEF SYN
  <2>3. CASE n \in ToSet(q)
    <3>1. t = k
      BY <2>1, <2>3 DEF AboveHole
    <3>2. A \cup {n} = A
      BY <1>2, <2>3
    <3>3. c <= c
      BY <1>1
    <3> HIDE DEF t
    <3> QED BY <2>2, <3>1, <3>2, <3>3 DEF t
  <2>4. CASE n \notin ToSet(q)
    <3> DEFINE r == InsertAt(q, Cardinality({i \in DOMAIN q : q[i] < n}) + 1, n)
    <3>1. t = [k EXCEPT !.received = r]
      BY <2>1, <2>4 DEF AboveHole
    <3>2. r \in Seq(Nat) /\ Ascending(r) /\ ToSet(r) = ToSet(q) \cup {n}
      BY <1>1, <1>2, <2>4, InsertKeepsAscending
    <3> HIDE DEF r
    <3>3. r \in Seq(Seqno)
      <4>1. \A x \in ToSet(r) : x \in Seqno
        BY <1>2, <3>2
      <4> QED BY <3>2, <4>1, ListOf
    <3>4. /\ t \in Sink /\ t.cumulativeAck = c /\ t.received = r
      BY <3>1, <3>3 DEF Sink
    <3> HIDE DEF t
    <3>5. ToSet(r) = {b \in A \cup {n} : b > c}
      BY <1>1, <1>2, <1>5, <3>2
    <3>6. c + 1 \notin A \cup {n}
      BY <1>1, <1>5 DEF InPrefix
    <3>7. InPrefix(t, A \cup {n})
      BY <2>2, <3>2, <3>4, <3>5, <3>6 DEF InPrefix
    <3>8. c <= t.cumulativeAck /\ t.cumulativeAck >= 1
      BY <1>1, <2>2, <3>4
    <3> QED BY <2>2, <3>4, <3>7, <3>8 DEF t
  <2> QED BY <2>3, <2>4
<1> QED BY <1>1, <1>3, <1>4, <1>5

-----------------------------------------------------------------------------
(* The source's side: the windows, and the packets that a step sends.      *)
Open(s) ==
  /\ s \in Source /\ s.highestSent \in Ackno /\ s.lastAcked \in Ackno
  /\ s.highestSent >= 1 /\ s.cwnd > 0 /\ s.ssthresh > 0

(* r sends what follows highestSent, and no more than the flow. *)
Continues(s, r) ==
  \E n \in Nat :
    /\ r.packets \in Seq(Seqno) /\ Len(r.packets) = n
    /\ \A i \in 1 .. n : r.packets[i] = s.highestSent + 1 + (i - 1) * MSS
                           /\ r.packets[i] <= LastByte
    /\ n > 0 => s.highestSent + n * MSS <= LastByte
    /\ Sound(r.s) /\ Timed(r.s)
    /\ r.s.highestSent = s.highestSent + n * MSS
    /\ r.s.lastAcked = s.lastAcked /\ r.s.established = s.established
    /\ r.s.inFastRecovery = s.inFastRecovery /\ r.s.pending = s.pending
    /\ r.s.timer <=> s.timer \/ n > 0

(* What r sends is in the flow or the packet that comes next. *)
Fine(r) ==
  /\ Sound(r.s) /\ Timed(r.s) /\ r.packets \in Seq(Seqno)
  /\ \A i \in 1 .. Len(r.packets) :
       /\ r.packets[i] <= LastByte \/ r.packets[i] <= r.s.lastAcked + 1
       /\ ~ r.s.established => r.packets[i] = SYN

LEMMA SoundIsOpen ==
  ASSUME NEW s, Sound(s)
  PROVE  Open(s) /\ s.lastAcked \in Nat /\ s.highestSent \in Nat
<1>1. s.lastAcked \in Nat /\ s.highestSent \in Nat
  BY Numbers DEF Sound
<1>2. s.established \in BOOLEAN
  BY DEF Sound, Source
<1>3. s.highestSent >= 1
  BY <1>1, <1>2 DEF Sound
<1> QED BY <1>1, <1>3 DEF Sound, Open

LEMMA AllowedFits ==
  ASSUME NEW s, Open(s)
  PROVE  /\ Allowed(s) \in Nat
         /\ Allowed(s) > 0 => s.highestSent + Allowed(s) * MSS <= LastByte
<1> DEFINE m == FlowPackets + 1
           S == {i \in 1 .. m : /\ s.lastAcked + s.cwnd >= s.highestSent + i * MSS
                                /\ s.highestSent + i * MSS <= FlowSize + 1}
<1>1. /\ s.lastAcked \in Nat /\ s.highestSent \in Nat /\ s.cwnd \in Nat /\ m \in Nat
      /\ MSS \in Nat \ {0} /\ FlowSize + 1 = LastByte /\ LastByte \in Nat
  BY Numbers, TcpConstants DEF Open, Source
<1>2. Allowed(s) = Cardinality(S)
  BY DEF Allowed
<1>3. \A i \in S : \A j \in 1 .. m : j <= i => j \in S
  <2> SUFFICES ASSUME NEW i \in S, NEW j \in 1 .. m, j < i PROVE j \in S
    BY <1>1
  <2>1. i \in Int /\ j \in Int /\ i \in Nat /\ j \in Nat
    BY <1>1
  <2> DEFINE im == i * MSS
             jm == j * MSS
  <2>2. jm + MSS <= im
    BY <1>1, <2>1, NextMultiple
  <2>3. im \in Nat /\ jm \in Nat
    BY <2>1, AtLeast
  <2>4. s.lastAcked + s.cwnd >= s.highestSent + im /\ s.highestSent + im <= FlowSize + 1
    OBVIOUS
  <2> HIDE DEF im, jm
  <2>5. s.lastAcked + s.cwnd >= s.highestSent + jm /\ s.highestSent + jm <= FlowSize + 1
    BY <1>1, <2>2, <2>3, <2>4
  <2> QED BY <2>5 DEF jm
<1>4. S \in SUBSET (1 .. m)
  OBVIOUS
<1>5. /\ Cardinality(S) \in Nat
      /\ Cardinality(S) > 0 => Cardinality(S) \in S
  <2> HIDE DEF S, m
  <2> QED BY <1>1, <1>3, <1>4, DownTo
<1>6. \A i \in S : s.highestSent + i * MSS <= LastByte
  BY <1>1
<1> HIDE DEF S
<1> QED BY <1>2, <1>5, <1>6

LEMMA SendNewContinues ==
  ASSUME NEW s, Sound(s), Timed(s), s.established, NEW n \in Nat,
         n > 0 => s.highestSent + n * MSS <= LastByte
  PROVE  Continues(s, SendNew(s, n))
<1> DEFINE h == s.highestSent
           far == n * MSS
           q == [i \in 1 .. n |-> h + 1 + (i - 1) * MSS]
           t == [s EXCEPT !.highestSent = @ + n * MSS, !.timer = @ \/ n > 0]
           r == SendNew(s, n)
<1>1. /\ s \in Source /\ h \in Ackno /\ h \in Nat /\ h >= 1 /\ s.lastAcked \in Nat
      /\ MSS \in Nat \ {0} /\ s.timer \in BOOLEAN
  BY SoundIsOpen, TcpConstants DEF Sound, Open, Source
<1>2. far \in Nat /\ h + far \in Ackno /\ h + far \in Nat
  <2>1. far \in Nat /\ h + far \in Ackno
    BY <1>1, PacketsOn
  <2> QED BY <1>1, <2>1
<1>3. ASSUME NEW i \in 1 .. n
      PROVE  /\ h + 1 + (i - 1) * MSS \in Seqno
             /\ h + 1 + (i - 1) * MSS <= LastByte
  <2>1. i - 1 \in Nat /\ i - 1 < n /\ n > 0 /\ i - 1 \in Int
    OBVIOUS
  <2> DEFINE way == (i - 1) * MSS
  <2>2. way \in Nat /\ h + 1 + way \in Seqno
    BY <1>1, <2>1, PacketsOn
  <2>3. way + MSS <= far
    BY <1>1, <2>1, NextMultiple
  <2>4. h + far <= LastByte
    BY <2>1
  <2> HIDE DEF way, far, h
  <2>5. h + 1 + way <= LastByte
    BY <1>1, <1>2, <2>2, <2>3, <2>4, TcpConstants
  <2> QED BY <2>2, <2>5 DEF way, h
<1>4. r.s = t /\ r.packets = q
  BY DEF SendNew, Sends
<1>5. q \in Seq(Seqno) /\ Len(q) = n /\ \A i \in 1 .. n : q[i] = h + 1 + (i - 1) * MSS
  <2>1. q \in [1 .. n -> Seqno]
    BY <1>3
  <2> QED BY <2>1
<1> HIDE DEF q, r
<1>6. /\ t \in Source /\ t.highestSent = h + far /\ (t.timer <=> s.timer \/ n > 0)
      /\ t.lastAcked = s.lastAcked /\ t.established = s.established
      /\ t.inFastRecovery = s.inFastRecovery /\ t.pending = s.pending
      /\ t.cwnd = s.cwnd /\ t.ssthresh = s.ssthresh
  <2>1. (s.timer \/ n > 0) \in BOOLEAN
    OBVIOUS
  <2> QED BY <1>1, <1>2, <2>1 DEF Source
<1> HIDE DEF t, far
<1>7. Sound(t)
  <2>1. s.lastAcked <= h /\ s.lastAcked <= h + far
    BY <1>1, <1>2 DEF Sound
  <2> QED BY <1>2, <1>6, <2>1 DEF Sound
<1>8. Timed(t)
  <2>1. CASE n > 0
    BY <1>6, <2>1 DEF Timed
  <2>2. CASE ~ (n > 0)
    <3>1. n = 0
      BY <2>2
    <3>2. far = 0
      BY <1>1, <3>1 DEF far
    <3>3. h + far = h
      BY <1>1, <3>2
    <3> QED BY <1>6, <3>3 DEF Timed
  <2> QED BY <2>1, <2>2
<1>9. h + far <= LastByte \/ ~ (n > 0)
  BY DEF far
<1>10. Continues(s, r)
  <2>1. /\ r.packets \in Seq(Seqno) /\ Len(r.packets) = n
        /\ \A i \in 1 .. n : r.packets[i] = h + 1 + (i - 1) * MSS
                               /\ r.packets[i] <= LastByte
    BY <1>3, <1>4, <1>5
  <2>2. /\ Sound(r.s) /\ Timed(r.s) /\ r.s.highestSent = h + far
        /\ r.s.lastAcked = s.lastAcked /\ r.s.established = s.established
        /\ r.s.inFastRecovery = s.inFastRecovery /\ r.s.pending = s.pending
        /\ (r.s.timer <=> s.timer \/ n > 0)
    BY <1>4, <1>6, <1>7, <1>8
  <2> QED BY <1>9, <2>1, <2>2 DEF Continues, far
<1> QED BY <1>10 DEF r

LEMMA SendPacketsContinues ==
  ASSUME NEW s, Sound(s), Timed(s), s.established
  PROVE  Continues(s, SendPackets(s))
<1>1. SendPackets(s) = SendNew(s, Allowed(s))
  BY DEF SendPackets
<1>2. /\ Allowed(s) \in Nat
      /\ Allowed(s) > 0 => s.highestSent + Allowed(s) * MSS <= LastByte
  BY AllowedFits, SoundIsOpen
<1> QED BY <1>1, <1>2, SendNewContinues

LEMMA ContinuesIsFine ==
  ASSUME NEW s, NEW r, Continues(s, r), s.established
  PROVE  Fine(r) /\ r.s.lastAcked = s.lastAcked /\ r.s.established
BY DEF Continues, Fine

-----------------------------------------------------------------------------
(* What an ack does to the source.                                         *)

(* Any open window will do for a source. *)
LEMMA WindowChanges ==
  ASSUME NEW s, Open(s), NEW w \in Nat \ {0}
  PROVE  LET t == [s EXCEPT !.cwnd = w]
         IN  /\ Open(t) /\ t.highestSent = s.highestSent /\ t.lastAcked = s.lastAcked
             /\ t.established = s.established /\ t.timer = s.timer
             /\ t.pending = s.pending /\ t.inFastRecovery = s.inFastRecovery
BY DEF Open, Source

LEMMA InflateIs ==
  ASSUME NEW s, Open(s)
  PROVE  \E w \in Nat \ {0} : InflateWindow(s) = [s EXCEPT !.cwnd = w]
<1> DEFINE newly == Min({s.lastAcked + s.cwnd - s.highestSent, MSS})
           slow == Min({s.ssthresh - s.cwnd, newly})
           part == (newly * MSS) \div s.cwnd
           fast == Max({part, 1})
<1>1. /\ s \in Source /\ s.lastAcked \in Nat /\ s.highestSent \in Nat
      /\ s.cwnd \in Nat \ {0} /\ s.ssthresh \in Nat /\ MSS \in Nat \ {0}
  BY Numbers, TcpConstants DEF Open, Source
<1>2. CASE s.lastAcked + s.cwnd < s.highestSent
  <2>1. InflateWindow(s) = [s EXCEPT !.cwnd = s.cwnd]
    BY <1>1, <1>2 DEF InflateWindow, Source
  <2> QED BY <1>1, <2>1
<1>3. CASE ~ (s.lastAcked + s.cwnd < s.highestSent)
  <2>1. newly \in Nat
    <3>1. s.lastAcked + s.cwnd - s.highestSent \in Nat
      BY <1>1, <1>3
    <3> QED BY <1>1, <3>1, MinOfTwo
  <2>2. CASE s.cwnd < s.ssthresh
    <3> HIDE DEF newly
    <3>1. s.ssthresh - s.cwnd \in Nat
      BY <1>1, <2>2
    <3>2. slow \in Nat
      BY <2>1, <3>1, MinOfTwo
    <3>3. InflateWindow(s) = [s EXCEPT !.cwnd = s.cwnd + slow]
      BY <1>3, <2>2 DEF InflateWindow, newly
    <3> HIDE DEF slow
    <3>4. s.cwnd + slow \in Nat \ {0}
      BY <1>1, <3>2
    <3> QED BY <3>3, <3>4
  <2>3. CASE ~ (s.cwnd < s.ssthresh)
    <3>1. InflateWindow(s) = [s EXCEPT !.cwnd = s.cwnd + fast]
      BY <1>3, <2>3 DEF InflateWindow
    <3> HIDE DEF newly
    <3>2. newly * MSS \in Nat
      <4>1. \A a, b \in Nat : a * b \in Nat
        OBVIOUS
      <4> QED BY <1>1, <2>1, <4>1
    <3> DEFINE area == newly * MSS
    <3>3. part \in Int
      <4>1. \A a \in Nat, b \in Nat \ {0} : a \div b \in Int
        OBVIOUS
      <4>2. area \in Nat
        BY <3>2
      <4> HIDE DEF area
      <4>3. area \div s.cwnd \in Int
        BY <1>1, <4>1, <4>2
      <4> QED BY <4>3 DEF area
    <3> HIDE DEF part, area
    <3>4. fast \in Nat \ {0}
      BY <3>3, MaxOfTwo
    <3> HIDE DEF fast
    <3>5. s.cwnd + fast \in Nat \ {0}
      BY <1>1, <3>4
    <3> QED BY <3>1, <3>5
  <2> QED BY <2>2, <2>3
<1> QED BY <1>2, <1>3

LEMMA DeflateIs ==
  ASSUME NEW s, s \in Source
  PROVE  \E w \in Nat \ {0} : DeflateWindow(s) = [s EXCEPT !.ssthresh = w]
<1> DEFINE half == s.cwnd \div 2
           two == 2 * MSS
           w == Max({half, two})
<1>1. half \in Int /\ two \in Nat \ {0}
  <2>1. s.cwnd \in Nat /\ MSS \in Nat \ {0}
    BY TcpConstants DEF Source
  <2> QED BY <2>1
<1>2. DeflateWindow(s) = [s EXCEPT !.ssthresh = w]
  BY DEF DeflateWindow
<1> HIDE DEF half, two
<1>3. w \in Nat \ {0}
  BY <1>1, MaxOfTwo
<1> HIDE DEF w
<1> QED BY <1>2, <1>3

(* The source sends the packet that is to come next and goes on. *)
LEMMA RetransmitsFine ==
  ASSUME NEW s, Sound(s), s.established
  PROVE  /\ Fine(Retransmits(s, SendPackets))
         /\ Retransmits(s, SendPackets).s.lastAcked = s.lastAcked
         /\ Retransmits(s, SendPackets).s.established
<1> DEFINE v == [s EXCEPT !.timer = TRUE]
           t == SendPackets(v)
           r == Retransmits(s, SendPackets)
           p == <<s.lastAcked + 1>>
<1>1. r.s = t.s /\ r.packets = p \o t.packets
  BY DEF Retransmits, RetransmitPacket, At, Sends
<1>2. /\ Sound(v) /\ Timed(v) /\ v.established /\ v.lastAcked = s.lastAcked
  <2>1. /\ v \in Source /\ v.highestSent = s.highestSent /\ v.lastAcked = s.lastAcked
        /\ v.cwnd = s.cwnd /\ v.ssthresh = s.ssthresh
        /\ v.established = s.established /\ v.timer
    BY DEF Sound, Source
  <2> HIDE DEF v
  <2> QED BY <2>1 DEF Sound, Timed
<1> HIDE DEF v
<1>3. Fine(t) /\ t.s.lastAcked = v.lastAcked /\ t.s.established
  BY <1>2, SendPacketsContinues, ContinuesIsFine
<1>4. p \in Seq(Seqno) /\ Len(p) = 1 /\ p[1] = t.s.lastAcked + 1
  <2>1. s.lastAcked + 1 \in Seqno
    BY Numbers DEF Sound
  <2> QED BY <1>2, <1>3, <2>1
<1> HIDE DEF p, t, r
<1>5. t.packets \in Seq(Seqno) /\ Len(t.packets) \in Nat
  BY <1>3, LenProperties DEF Fine
<1>6. /\ r.packets \in Seq(Seqno) /\ Len(r.packets) = 1 + Len(t.packets)
      /\ \A i \in 1 .. 1 + Len(t.packets) :
           r.packets[i] = IF i <= 1 THEN p[i] ELSE t.packets[i - 1]
  <2> DEFINE u == t.packets
             w == p \o u
  <2>1. u \in Seq(Seqno) /\ r.packets = w
    BY <1>1, <1>5
  <2> HIDE DEF u
  <2>2. /\ w \in Seq(Seqno) /\ Len(w) = Len(p) + Len(u)
        /\ \A i \in 1 .. Len(p) + Len(u) :
             w[i] = IF i <= Len(p) THEN p[i] ELSE u[i - Len(p)]
    BY <1>4, <2>1, ConcatProperties
  <2> HIDE DEF w
  <2> QED BY <1>4, <2>1, <2>2 DEF u
<1>7. ASSUME NEW i \in 1 .. Len(r.packets)
      PROVE  r.packets[i] <= LastByte \/ r.packets[i] <= r.s.lastAcked + 1
  <2>1. CASE i = 1
    <3>1. r.packets[i] = r.s.lastAcked + 1
      BY <1>1, <1>4, <1>6, <2>1
    <3>2. r.s.lastAcked \in Nat
      BY <1>1, <1>3, Numbers DEF Fine, Sound
    <3> QED BY <3>1, <3>2
  <2>2. CASE i # 1
    <3>1. i - 1 \in 1 .. Len(t.packets) /\ ~ (i <= 1)
      BY <1>5, <1>6, <2>2
    <3>2. r.packets[i] = t.packets[i - 1]
      BY <1>6, <3>1
    <3> QED BY <1>1, <1>3, <3>1, <3>2 DEF Fine
  <2> QED BY <2>1, <2>2
<1>8. Fine(r)
  BY <1>1, <1>3, <1>6, <1>7 DEF Fine
<1> QED BY <1>1, <1>2, <1>3, <1>8 DEF r
(* u is the source s with an ack a taken note of, in one window or another. *)
AfterAck(s, a, u) ==
  /\ u \in Source /\ u.lastAcked = a /\ u.established /\ u.pending = s.pending
  /\ u.highestSent = (IF a >= s.highestSent THEN a ELSE s.highestSent)
  /\ u.timer = (IF a >= s.highestSent THEN FALSE ELSE TRUE)
  /\ u.cwnd \in Nat \ {0} /\ u.ssthresh = s.ssthresh

LEMMA AfterAckSound ==
  ASSUME NEW s, Open(s), NEW a \in Ackno, a >= 1, NEW u, AfterAck(s, a, u)
  PROVE  Sound(u) /\ Timed(u)
<1>1. /\ s.highestSent \in Nat /\ a \in Nat /\ s.highestSent \in Ackno
      /\ s.ssthresh \in Nat /\ s.ssthresh > 0
  BY Numbers DEF Open, Source
<1>2. u.highestSent \in Ackno /\ a <= u.highestSent
  BY <1>1 DEF AfterAck
<1>3. Sound(u)
  BY <1>1, <1>2 DEF AfterAck, Sound
<1>4. CASE a >= s.highestSent
  BY <1>1, <1>3, <1>4 DEF AfterAck, Timed
<1>5. CASE ~ (a >= s.highestSent)
  BY <1>3, <1>5 DEF AfterAck, Timed
<1> QED BY <1>3, <1>4, <1>5

LEMMA NewAckFine ==
  ASSUME NEW s, Open(s), s.established,
         NEW a \in Ackno, a >= 1, a > s.lastAcked
  PROVE  LET r == NewAck(s, a)
         IN  /\ Fine(r) /\ r.s.lastAcked = a /\ r.s.established
             /\ ~ s.inFastRecovery =>
                  \E u : AfterAck(s, a, u) /\ ~ u.inFastRecovery /\ Continues(u, r)
<1> DEFINE t == IF AllAcked(s, a)
                  THEN [s EXCEPT !.highestSent = a, !.timer = FALSE]
                  ELSE [s EXCEPT !.timer = TRUE]
           r == NewAck(s, a)
<1>1. /\ s \in Source /\ s.highestSent \in Nat /\ s.lastAcked \in Nat /\ a \in Nat
      /\ s.cwnd \in Nat \ {0} /\ s.ssthresh \in Nat \ {0} /\ MSS \in Nat \ {0}
      /\ a \in Ackno /\ s.highestSent \in Ackno /\ s.lastAcked \in Ackno
  BY Numbers, TcpConstants DEF Open, Source
<1>2. /\ t \in Source /\ t.established = s.established /\ t.pending = s.pending
      /\ t.highestSent = (IF a >= s.highestSent THEN a ELSE s.highestSent)
      /\ t.timer = (IF a >= s.highestSent THEN FALSE ELSE TRUE)
      /\ t.cwnd = s.cwnd /\ t.ssthresh = s.ssthresh /\ t.lastAcked = s.lastAcked
      /\ t.inFastRecovery = s.inFastRecovery
  <2>1. CASE a >= s.highestSent
    <3>1. t = [s EXCEPT !.highestSent = a, !.timer = FALSE]
      BY <2>1 DEF AllAcked
    <3> HIDE DEF t
    <3> QED BY <1>1, <2>1, <3>1 DEF Source
  <2>2. CASE ~ (a >= s.highestSent)
    <3>1. t = [s EXCEPT !.timer = TRUE]
      BY <2>2 DEF AllAcked
    <3> HIDE DEF t
    <3> QED BY <1>1, <2>2, <3>1 DEF Source
  <2> QED BY <2>1, <2>2
<1>3. r = IF t.inFastRecovery
            THEN NewAckInRecovery(t, a)
            ELSE SendPackets(InflateWindow([t EXCEPT !.lastAcked = a, !.dupacks = 0]))
  BY DEF NewAck
<1> HIDE DEF t, r
<1>4. t.highestSent \in Nat /\ t.highestSent >= a /\ t.highestSent \in Ackno /\ t.highestSent >= 1
  BY <1>1, <1>2
<1>5. CASE ~ s.inFastRecovery
  <2> DEFINE v == [t EXCEPT !.lastAcked = a, !.dupacks = 0]
             u == InflateWindow(v)
  <2>1. /\ v \in Source /\ v.lastAcked = a /\ v.established = t.established
        /\ v.pending = t.pending /\ v.highestSent = t.highestSent /\ v.timer = t.timer
        /\ v.cwnd = t.cwnd /\ v.ssthresh = t.ssthresh
        /\ v.inFastRecovery = t.inFastRecovery
    BY <1>1, <1>2 DEF Source
  <2>2. r = SendPackets(u)
    BY <1>2, <1>3, <1>5
  <2> HIDE DEF v
  <2>3. Open(v)
    BY <1>1, <1>2, <1>4, <2>1 DEF Open
  <2>4. PICK w \in Nat \ {0} : u = [v EXCEPT !.cwnd = w]
    BY <2>3, InflateIs
  <2> HIDE DEF u
  <2>5. /\ u \in Source /\ u.lastAcked = v.lastAcked /\ u.established = v.established
        /\ u.pending = v.pending /\ u.highestSent = v.highestSent /\ u.timer = v.timer
        /\ u.cwnd = w /\ u.ssthresh = v.ssthresh
        /\ u.inFastRecovery = v.inFastRecovery
    BY <2>1, <2>4 DEF Source
  <2>6. AfterAck(s, a, u) /\ ~ u.inFastRecovery
    BY <1>2, <1>5, <2>1, <2>5 DEF AfterAck
  <2>7. Sound(u) /\ Timed(u) /\ u.established
    BY <2>6, AfterAckSound DEF AfterAck
  <2>8. Continues(u, r)
    BY <2>2, <2>7, SendPacketsContinues
  <2>9. Fine(r) /\ r.s.lastAcked = a /\ r.s.established
    BY <2>6, <2>7, <2>8, ContinuesIsFine DEF AfterAck
  <2> QED BY <2>6, <2>8, <2>9 DEF r
<1>6. CASE s.inFastRecovery /\ a >= t.recoverq
  <2> DEFINE w == Min({t.ssthresh, t.highestSent - a + MSS})
             u == [t EXCEPT !.cwnd = w, !.lastAcked = a, !.dupacks = 0,
                            !.inFastRecovery = FALSE]
  <2>1. w \in Nat \ {0}
    <3>1. t.highestSent - a + MSS \in Nat \ {0}
      BY <1>1, <1>4
    <3>2. t.ssthresh \in Nat \ {0}
      BY <1>1, <1>2
    <3> QED BY <3>1, <3>2, MinOfTwo
  <2>2. r = SendPackets(u)
    BY <1>2, <1>3, <1>6 DEF NewAckInRecovery
  <2> HIDE DEF w
  <2>3. AfterAck(s, a, u)
    <3>1. /\ u \in Source /\ u.lastAcked = a /\ u.established = t.established
          /\ u.pending = t.pending /\ u.highestSent = t.highestSent /\ u.timer = t.timer
          /\ u.cwnd = w /\ u.ssthresh = t.ssthresh
      BY <1>1, <1>2, <2>1 DEF Source
    <3> HIDE DEF u
    <3> QED BY <1>2, <2>1, <3>1 DEF AfterAck
  <2> HIDE DEF u
  <2>4. Sound(u) /\ Timed(u) /\ u.established
    BY <2>3, AfterAckSound DEF AfterAck
  <2>5. Continues(u, r)
    BY <2>2, <2>4, SendPacketsContinues
  <2>6. Fine(r) /\ r.s.lastAcked = a /\ r.s.established
    BY <2>3, <2>4, <2>5, ContinuesIsFine DEF AfterAck
  <2> QED BY <1>6, <2>6 DEF r
<1>7. CASE s.inFastRecovery /\ ~ (a >= t.recoverq)
  <2> DEFINE new == a - t.lastAcked
             w == (IF new < t.cwnd THEN t.cwnd - new ELSE 0) + MSS
             u == [t EXCEPT !.lastAcked = a, !.cwnd = w]
  <2>1. w \in Nat \ {0}
    <3>1. new \in Nat /\ t.cwnd \in Nat
      BY <1>1, <1>2
    <3> HIDE DEF new
    <3> QED BY <1>1, <3>1
  <2>2. r = Retransmits(u, SendPackets)
    BY <1>2, <1>3, <1>7 DEF NewAckInRecovery
  <2> HIDE DEF w
  <2>3. AfterAck(s, a, u)
    <3>1. /\ u \in Source /\ u.lastAcked = a /\ u.established = t.established
          /\ u.pending = t.pending /\ u.highestSent = t.highestSent /\ u.timer = t.timer
          /\ u.cwnd = w /\ u.ssthresh = t.ssthresh
      BY <1>1, <1>2, <2>1 DEF Source
    <3> HIDE DEF u
    <3> QED BY <1>2, <2>1, <3>1 DEF AfterAck
  <2> HIDE DEF u
  <2>4. Sound(u) /\ u.established /\ u.lastAcked = a
    BY <2>3, AfterAckSound DEF AfterAck
  <2>5. Fine(r) /\ r.s.lastAcked = a /\ r.s.established
    BY <2>2, <2>4, RetransmitsFine
  <2> QED BY <1>7, <2>5 DEF r
<1> QED BY <1>5, <1>6, <1>7

(* A step that sends nothing, or the next packet alone. *)
LEMMA SendsNothing ==
  ASSUME NEW s, Sound(s), Timed(s), s.established
  PROVE  LET r == Sends(s, <<>>)
         IN  Fine(r) /\ r.s.lastAcked = s.lastAcked /\ r.s.established
<1> DEFINE r == Sends(s, <<>>)
<1>1. r.s = s /\ r.packets = <<>>
  BY DEF Sends
<1>2. <<>> \in Seq(Seqno) /\ Len(<<>>) = 0
  OBVIOUS
<1> HIDE DEF r
<1>3. Fine(r)
  <2>1. r.packets \in Seq(Seqno) /\ \A i \in 1 .. Len(r.packets) : FALSE
    BY <1>1, <1>2
  <2> QED BY <1>1, <2>1 DEF Fine
<1> QED BY <1>1, <1>3 DEF r

LEMMA SendsNext ==
  ASSUME NEW s, Sound(s), Timed(s), NEW p,
         p = <<IF s.established THEN s.lastAcked + 1 ELSE SYN>>
  PROVE  LET r == Sends(s, p)
         IN  Fine(r) /\ r.s.lastAcked = s.lastAcked /\ r.s.established = s.established
<1> DEFINE r == Sends(s, p)
           n == IF s.established THEN s.lastAcked + 1 ELSE SYN
<1>1. r.s = s /\ r.packets = p
  BY DEF Sends
<1>2. n \in Seqno /\ s.lastAcked \in Nat /\ (n = s.lastAcked + 1)
  <2>1. s.lastAcked \in Nat /\ s.lastAcked + 1 \in Seqno /\ SYN \in Seqno
    BY Numbers DEF Sound
  <2>2. ~ s.established => SYN = s.lastAcked + 1
    BY DEF Sound, SYN
  <2> QED BY <2>1, <2>2
<1>3. p = <<n>> /\ (~ s.established => n = SYN)
  OBVIOUS
<1> HIDE DEF r, n
<1>4. p \in Seq(Seqno) /\ Len(p) = 1 /\ p[1] = n
  BY <1>2, <1>3
<1>5. ASSUME NEW i \in 1 .. Len(p)
      PROVE  p[i] <= s.lastAcked + 1 /\ (~ s.established => p[i] = SYN)
  <2>1. p[i] = n
    BY <1>4
  <2> QED BY <1>2, <1>3, <2>1
<1>6. Fine(r)
  BY <1>1, <1>4, <1>5 DEF Fine
<1> QED BY <1>1, <1>6 DEF r

LEMMA FastRetransmitFine ==
  ASSUME NEW s, Sound(s), s.established
  PROVE  LET r == FastRetransmit(s)
         IN  Fine(r) /\ r.s.lastAcked = s.lastAcked /\ r.s.established
<1>1. PICK w \in Nat \ {0} : DeflateWindow(s) = [s EXCEPT !.ssthresh = w]
  BY DeflateIs DEF Sound
<1> DEFINE d == DeflateWindow(s)
           v == [d EXCEPT !.timer = TRUE]
           u == [v EXCEPT !.cwnd = v.ssthresh + 3 * MSS, !.inFastRecovery = TRUE,
                          !.recoverq = v.highestSent]
           p == <<d.lastAcked + 1>>
           r == FastRetransmit(s)
<1>2. /\ d \in Source /\ d.lastAcked = s.lastAcked /\ d.highestSent = s.highestSent
      /\ d.established = s.established /\ d.cwnd = s.cwnd /\ d.ssthresh = w
  BY <1>1 DEF Source, Sound
<1>3. r = Sends(u, p \o <<>>)
  <2> HIDE DEF d
  <2>1. d.established
    BY <1>2
  <2> QED BY <2>1 DEF FastRetransmit, Retransmits, RetransmitPacket, At, Sends, d
<1> HIDE DEF d, r
<1>4. /\ v \in Source /\ v.lastAcked = s.lastAcked /\ v.highestSent = s.highestSent
      /\ v.established = s.established /\ v.ssthresh = w /\ v.timer
  BY <1>2 DEF Source
<1> HIDE DEF v
<1>5. /\ u \in Source /\ u.lastAcked = s.lastAcked /\ u.highestSent = s.highestSent
      /\ u.established = s.established /\ u.ssthresh = w /\ u.timer
      /\ u.cwnd = v.ssthresh + 3 * MSS
  <2>1. v.ssthresh + 3 * MSS \in Nat /\ v.highestSent \in Nat
    BY <1>4, TcpConstants DEF Source
  <2> QED BY <1>4, <2>1 DEF Source
<1>6. v.ssthresh + 3 * MSS > 0
  BY <1>4, TcpConstants
<1> HIDE DEF u
<1>7. Sound(u) /\ Timed(u)
  BY <1>5, <1>6 DEF Sound, Timed
<1>8. p \o <<>> = <<s.lastAcked + 1>>
  BY <1>2
<1> HIDE DEF p
<1>9. LET x == Sends(u, p \o <<>>)
      IN  Fine(x) /\ x.s.lastAcked = u.lastAcked /\ x.s.established = u.established
  <2> DEFINE q == p \o <<>>
  <2>1. q = <<IF u.established THEN u.lastAcked + 1 ELSE SYN>>
    BY <1>5, <1>8
  <2> HIDE DEF q
  <2>2. LET x == Sends(u, q)
        IN  Fine(x) /\ x.s.lastAcked = u.lastAcked /\ x.s.established = u.established
    BY <1>7, <2>1, SendsNext
  <2> QED BY <2>2 DEF q
<1> QED BY <1>3, <1>5, <1>9 DEF r

LEMMA DuplicateAckFine ==
  ASSUME NEW s, Sound(s), Timed(s), s.established
  PROVE  LET r == DuplicateAck(s)
         IN  Fine(r) /\ r.s.lastAcked = s.lastAcked /\ r.s.established
<1> DEFINE r == DuplicateAck(s)
           t == [s EXCEPT !.dupacks = @ + 1]
           u == [s EXCEPT !.cwnd = @ + MSS]
<1>1. Sound(t) /\ Timed(t) /\ t.established /\ t.lastAcked = s.lastAcked
  <2>1. /\ t \in Source /\ t.lastAcked = s.lastAcked /\ t.highestSent = s.highestSent
        /\ t.established = s.established /\ t.timer = s.timer /\ t.pending = s.pending
        /\ t.cwnd = s.cwnd /\ t.ssthresh = s.ssthresh
    <3>1. s.dupacks + 1 \in Nat /\ s \in Source
      BY DEF Sound, Source
    <3> QED BY <3>1 DEF Source
  <2> HIDE DEF t
  <2> QED BY <2>1 DEF Sound, Timed
<1>2. Sound(u) /\ Timed(u) /\ u.established /\ u.lastAcked = s.lastAcked
  <2>1. s.cwnd \in Nat /\ s.cwnd + MSS \in Nat /\ s.cwnd + MSS > 0
    BY TcpConstants DEF Sound, Source
  <2>2. /\ u \in Source /\ u.lastAcked = s.lastAcked /\ u.highestSent = s.highestSent
        /\ u.established = s.established /\ u.timer = s.timer /\ u.pending = s.pending
        /\ u.cwnd = s.cwnd + MSS /\ u.ssthresh = s.ssthresh
    BY <2>1 DEF Sound, Source
  <2> HIDE DEF u
  <2> QED BY <2>1, <2>2 DEF Sound, Timed
<1>3. r = IF s.inFastRecovery THEN SendPackets(u)
          ELSE IF t.dupacks # 3 THEN SendPackets(t)
          ELSE IF t.lastAcked < t.recoverq THEN Sends(t, <<>>)
          ELSE FastRetransmit(t)
  BY DEF DuplicateAck
<1> HIDE DEF r, t, u
<1>4. CASE s.inFastRecovery
  <2>1. Continues(u, r)
    BY <1>2, <1>3, <1>4, SendPacketsContinues
  <2> QED BY <1>2, <2>1, ContinuesIsFine DEF r
<1>5. CASE ~ s.inFastRecovery /\ t.dupacks # 3
  <2>1. Continues(t, r)
    BY <1>1, <1>3, <1>5, SendPacketsContinues
  <2> QED BY <1>1, <2>1, ContinuesIsFine DEF r
<1>6. CASE ~ s.inFastRecovery /\ t.dupacks = 3 /\ t.lastAcked < t.recoverq
  <2>1. r = Sends(t, <<>>)
    BY <1>3, <1>6
  <2>2. Fine(r) /\ r.s.lastAcked = t.lastAcked /\ r.s.established
    BY <1>1, <2>1, SendsNothing
  <2> QED BY <1>1, <2>2 DEF r
<1>7. CASE ~ s.inFastRecovery /\ t.dupacks = 3 /\ ~ (t.lastAcked < t.recoverq)
  <2>1. r = FastRetransmit(t)
    BY <1>3, <1>7
  <2>2. Fine(r) /\ r.s.lastAcked = t.lastAcked /\ r.s.established
    BY <1>1, <2>1, FastRetransmitFine
  <2> QED BY <1>1, <2>2 DEF r
<1> QED BY <1>4, <1>5, <1>6, <1>7

LEMMA AcknowledgeFine ==
  ASSUME NEW s, Sound(s), Timed(s),
         NEW a \in Ackno, a >= 1, ~ s.established => a = 1
  PROVE  LET r == Acknowledge(s, a)
         IN  /\ Fine(r) /\ r.s.established
             /\ r.s.lastAcked = (IF a > s.lastAcked THEN a ELSE s.lastAcked)
             /\ a > s.lastAcked /\ ~ s.inFastRecovery =>
                  \E u : AfterAck(s, a, u) /\ ~ u.inFastRecovery /\ Continues(u, r)
<1> DEFINE t == [s EXCEPT !.established = @ \/ a = 1]
           r == Acknowledge(s, a)
<1>1. /\ t \in Source /\ t.established /\ t.lastAcked = s.lastAcked
      /\ t.highestSent = s.highestSent /\ t.cwnd = s.cwnd /\ t.ssthresh = s.ssthresh
      /\ t.timer = s.timer /\ t.pending = s.pending
      /\ t.inFastRecovery = s.inFastRecovery
  <2>1. (s.established \/ a = 1) \in BOOLEAN /\ (s.established \/ a = 1) = TRUE
    BY DEF Sound, Source
  <2>2. t = [s EXCEPT !.established = TRUE]
    BY <2>1
  <2> HIDE DEF t
  <2> QED BY <2>2 DEF Sound, Source
<1>2. s.established => t = s
  <2>1. ASSUME s.established PROVE t = s
    <3>1. s.established = TRUE /\ (s.established \/ a = 1) = TRUE
      BY <2>1 DEF Sound, Source
    <3>2. t = [s EXCEPT !.established = s.established]
      BY <3>1
    <3> HIDE DEF t
    <3> QED BY <3>2 DEF Sound, Source
  <2> QED BY <2>1
<1>3. r = IF a < s.lastAcked THEN Sends(s, <<>>)
          ELSE IF a > s.lastAcked THEN NewAck(t, a)
          ELSE DuplicateAck(t)
  BY DEF Acknowledge
<1> HIDE DEF r, t
<1>4. a \in Nat /\ s.lastAcked \in Nat /\ Open(s)
  BY Numbers, SoundIsOpen
<1>5. a <= s.lastAcked => s.established
  <2>1. ~ s.established => s.lastAcked = 0
    BY DEF Sound
  <2> QED BY <1>4, <2>1
<1>6. CASE a < s.lastAcked
  <2>1. s.established
    BY <1>4, <1>5, <1>6
  <2>2. r = Sends(s, <<>>) /\ ~ (a > s.lastAcked)
    BY <1>3, <1>4, <1>6
  <2>3. Fine(r) /\ r.s.lastAcked = s.lastAcked /\ r.s.established
    BY <2>1, <2>2, SendsNothing
  <2> QED BY <2>2, <2>3 DEF r
<1>7. CASE a > s.lastAcked
  <2>1. r = NewAck(t, a)
    BY <1>3, <1>4, <1>7
  <2>2. Open(t)
    BY <1>1, <1>4 DEF Open
  <2>3. /\ Fine(r) /\ r.s.lastAcked = a /\ r.s.established
        /\ ~ t.inFastRecovery =>
             \E u : AfterAck(t, a, u) /\ ~ u.inFastRecovery /\ Continues(u, r)
    BY <1>1, <1>7, <2>1, <2>2, NewAckFine
  <2>4. \A u : AfterAck(t, a, u) => AfterAck(s, a, u)
    BY <1>1 DEF AfterAck
  <2> QED BY <1>1, <1>7, <2>3, <2>4 DEF r
<1>8. CASE a = s.lastAcked
  <2>1. r = DuplicateAck(s) /\ ~ (a > s.lastAcked) /\ s.established
    BY <1>2, <1>3, <1>4, <1>5, <1>8
  <2>2. Fine(r) /\ r.s.lastAcked = s.lastAcked /\ r.s.established
    BY <2>1, DuplicateAckFine
  <2> QED BY <2>1, <2>2 DEF r
<1> QED BY <1>4, <1>6, <1>7, <1>8

(* The timeout sends the next packet again and forgets the ones behind it. *)
LEMMA TimeoutFine ==
  ASSUME NEW src0, Sound(src0)
  PROVE  LET s == IF src0.inFastRecovery
                    THEN [src0 EXCEPT !.cwnd = Min({src0.ssthresh,
                                         src0.highestSent - src0.lastAcked + MSS})]
                    ELSE src0
             t == [DeflateWindow(s) EXCEPT !.cwnd = MSS, !.inFastRecovery = FALSE,
                     !.recoverq = s.highestSent, !.dupacks = 0, !.pending = FALSE]
             r == RetransmitPacket(FallBack(t))
         IN  Fine(r) /\ r.s.lastAcked = src0.lastAcked
                     /\ r.s.established = src0.established
<1> DEFINE w0 == Min({src0.ssthresh, src0.highestSent - src0.lastAcked + MSS})
           s == IF src0.inFastRecovery THEN [src0 EXCEPT !.cwnd = w0] ELSE src0
           d == DeflateWindow(s)
           t == [d EXCEPT !.cwnd = MSS, !.inFastRecovery = FALSE,
                   !.recoverq = s.highestSent, !.dupacks = 0, !.pending = FALSE]
           f == FallBack(t)
           v == [f EXCEPT !.timer = TRUE]
           r == RetransmitPacket(f)
<1>1. /\ src0 \in Source /\ src0.highestSent \in Nat /\ src0.lastAcked \in Nat
      /\ src0.lastAcked <= src0.highestSent /\ MSS \in Nat \ {0}
      /\ src0.ssthresh \in Nat
  BY SoundIsOpen, TcpConstants DEF Sound, Source
<1>2. w0 \in Nat
  <2>1. src0.highestSent - src0.lastAcked + MSS \in Nat
    BY <1>1
  <2> QED BY <1>1, <2>1, MinOfTwo
<1> HIDE DEF w0
<1>3. /\ s \in Source /\ s.highestSent = src0.highestSent
      /\ s.lastAcked = src0.lastAcked /\ s.established = src0.established
  BY <1>1, <1>2 DEF Source
<1> HIDE DEF s
<1>4. PICK w \in Nat \ {0} : d = [s EXCEPT !.ssthresh = w]
  BY <1>3, DeflateIs
<1> HIDE DEF d
<1>5. /\ d \in Source /\ d.highestSent = src0.highestSent
      /\ d.lastAcked = src0.lastAcked /\ d.established = src0.established
      /\ d.ssthresh = w
  BY <1>3, <1>4 DEF Source
<1>6. /\ t \in Source /\ t.highestSent = src0.highestSent
      /\ t.lastAcked = src0.lastAcked /\ t.established = src0.established
      /\ t.ssthresh = w /\ t.cwnd = MSS
  BY <1>1, <1>3, <1>5 DEF Source
<1> HIDE DEF t
<1>7. /\ f \in Source /\ f.lastAcked = src0.lastAcked
      /\ f.established = src0.established /\ f.ssthresh = w /\ f.cwnd = MSS
      /\ f.highestSent = IF src0.established THEN src0.lastAcked + MSS
                         ELSE src0.highestSent
  <2>1. src0.lastAcked + MSS \in Nat
    BY <1>1
  <2> QED BY <1>1, <1>6, <2>1 DEF FallBack, Source
<1>8. f.highestSent \in Ackno /\ f.lastAcked <= f.highestSent
  <2>1. CASE src0.established
    <3>1. src0.lastAcked \in Ackno /\ src0.lastAcked >= 1
      BY <2>1 DEF Sound
    <3>2. src0.lastAcked + 1 * MSS \in Ackno
      BY <3>1, PacketsOn
    <3>3. 1 * MSS = MSS
      BY <1>1
    <3> QED BY <1>1, <1>7, <2>1, <3>2, <3>3
  <2>2. CASE ~ src0.established
    BY <1>1, <1>7, <2>2 DEF Sound
  <2> QED BY <2>1, <2>2
<1> HIDE DEF f
<1>9. /\ v \in Source /\ v.lastAcked = src0.lastAcked /\ v.timer
      /\ v.established = src0.established /\ v.ssthresh = w /\ v.cwnd = MSS
      /\ v.highestSent = f.highestSent
  BY <1>7 DEF Source
<1> HIDE DEF v
<1>10. Sound(v) /\ Timed(v)
  <2>1. ~ src0.established => f.highestSent = 1 /\ src0.lastAcked = 0
    BY <1>7 DEF Sound
  <2>2. src0.established => src0.lastAcked >= 1
    BY DEF Sound
  <2>3. src0.lastAcked \in Ackno
    BY DEF Sound
  <2> QED BY <1>1, <1>7, <1>8, <1>9, <2>1, <2>2, <2>3 DEF Sound, Timed
<1> DEFINE p == <<IF v.established THEN v.lastAcked + 1 ELSE SYN>>
<1>11. r = Sends(v, p)
  BY <1>7, <1>9 DEF RetransmitPacket, At, Sends, v
<1>12. p = <<IF v.established THEN v.lastAcked + 1 ELSE SYN>>
  OBVIOUS
<1> HIDE DEF p, r
<1>13. Fine(r) /\ r.s.lastAcked = v.lastAcked /\ r.s.established = v.established
  BY <1>10, <1>11, <1>12, SendsNext
<1>14. Fine(r) /\ r.s.lastAcked = src0.lastAcked /\ r.s.established = src0.established
  BY <1>9, <1>13
<1> QED BY <1>14 DEF r, f, t, d, s, w0

-----------------------------------------------------------------------------
(* The steps of the connection.                                            *)

(* What the source sends in a step, for an ack or for a timeout, does no   *)
(* harm to anything but the order of a calm network.                       *)
LEMMA SourceStep ==
  ASSUME Orderly, NEW r, Fine(r), src' = r.s, data' = data \o r.packets,
         UNCHANGED <<sink, arrived>>, troubles' \in 0 .. MaxTroubles,
         r.s.lastAcked <= sink.cumulativeAck, src.established => r.s.established,
         acks' \in Seq(Ackno),
         \A i \in DOMAIN acks' : \E j \in DOMAIN acks : acks'[i] = acks[j]
  PROVE  Orderly'
<1>1. /\ data \in Seq(Seqno) /\ r.packets \in Seq(Seqno)
      /\ Sound(r.s) /\ Timed(r.s)
  BY DEF Orderly, TcpTypeOK, Fine
<1>2. /\ data' \in Seq(Seqno)
      /\ \A i \in DOMAIN data' :
           \/ \E j \in DOMAIN data : data'[i] = data[j]
           \/ \E j \in 1 .. Len(r.packets) : data'[i] = r.packets[j]
  <2> DEFINE p == data
             q == r.packets
             c == data'
  <2>1. p \in Seq(Seqno) /\ q \in Seq(Seqno) /\ c = p \o q
    BY <1>1
  <2> HIDE DEF p, q, c
  <2>2. c \in Seq(Seqno) /\ OfBoth(c, p, q)
    BY <2>1, ConcatElements
  <2> QED BY <2>2 DEF OfBoth, p, q, c
<1>3. TcpTypeOK'
  <2>1. r.s \in Source /\ r.s.highestSent \in Ackno /\ r.s.lastAcked \in Ackno
    BY <1>1 DEF Sound
  <2> QED BY <1>2, <2>1 DEF Orderly, TcpTypeOK
<1>4. Sound(src)' /\ Timed(src)'
  BY <1>1 DEF Sound, Timed
<1>5. InPrefix(sink, arrived)'
  BY DEF Orderly, InPrefix
<1>6. AcksBelow'
  BY DEF Orderly, AcksBelow
<1>7. SynFirst'
  <2>1. ASSUME ~ src'.established, NEW i \in DOMAIN data' PROVE data'[i] = SYN
    <3>1. ~ r.s.established /\ ~ src.established
      BY <2>1
    <3>2. CASE \E j \in DOMAIN data : data'[i] = data[j]
      BY <3>1, <3>2 DEF Orderly, SynFirst
    <3>3. CASE \E j \in 1 .. Len(r.packets) : data'[i] = r.packets[j]
      BY <3>1, <3>3 DEF Fine
    <3> QED BY <1>2, <3>2, <3>3
  <2> QED BY <2>1 DEF Orderly, SynFirst
<1>8. InFlow'
  <2>1. ASSUME NEW i \in DOMAIN data'
        PROVE  data'[i] <= LastByte \/ data'[i] <= sink.cumulativeAck + 1
    <3>1. CASE \E j \in DOMAIN data : data'[i] = data[j]
      BY <3>1 DEF Orderly, InFlow
    <3>2. CASE \E j \in 1 .. Len(r.packets) : data'[i] = r.packets[j]
      <4>1. PICK j \in 1 .. Len(r.packets) : data'[i] = r.packets[j]
        BY <3>2
      <4>2. r.packets[j] <= LastByte \/ r.packets[j] <= r.s.lastAcked + 1
        BY DEF Fine
      <4>3. /\ data'[i] \in Nat /\ r.s.lastAcked \in Nat /\ sink.cumulativeAck \in Nat
        <5>1. data'[i] \in Seqno
          BY <1>2
        <5>2. r.s.lastAcked \in Ackno /\ sink.cumulativeAck \in Ackno
          BY <1>1 DEF Sound, Orderly, TcpTypeOK, Sink
        <5> QED BY <5>1, <5>2, Numbers
      <4> DEFINE x == data'[i]
                 a == r.s.lastAcked
                 c == sink.cumulativeAck
      <4>4. /\ x <= LastByte \/ x <= a + 1
            /\ a <= c /\ x \in Nat /\ a \in Nat /\ c \in Nat
        BY <4>1, <4>2, <4>3
      <4> HIDE DEF x, a, c
      <4>5. x <= LastByte \/ x <= c + 1
        BY <4>4, TcpConstants
      <4> QED BY <4>5 DEF x, c
    <3> QED BY <1>2, <3>1, <3>2
  <2> QED BY <2>1 DEF InFlow
<1> QED BY <1>3, <1>4, <1>5, <1>6, <1>7, <1>8 DEF Orderly

LEMMA TimeoutKeeps ==
  ASSUME TcpInv, Timeout
  PROVE  TcpInv' /\ src'.lastAcked = src.lastAcked
<1> DEFINE s == IF src.inFastRecovery
                  THEN [src EXCEPT !.cwnd = Min({src.ssthresh,
                                      src.highestSent - src.lastAcked + MSS})]
                  ELSE src
           t == [DeflateWindow(s) EXCEPT !.cwnd = MSS, !.inFastRecovery = FALSE,
                   !.recoverq = s.highestSent, !.dupacks = 0, !.pending = FALSE]
           r == RetransmitPacket(FallBack(t))
<1>1. /\ src.pending /\ src' = r.s /\ data' = data \o r.packets
      /\ UNCHANGED <<sink, acks, arrived, troubles>>
  BY DEF Timeout
<1>2. Orderly /\ Calm
  BY DEF TcpInv
<1>3. Fine(r) /\ r.s.lastAcked = src.lastAcked /\ r.s.established = src.established
  <2>1. Sound(src)
    BY <1>2 DEF Orderly
  <2> QED BY <2>1, TimeoutFine
<1> HIDE DEF r
<1>4. /\ r.s.lastAcked <= sink.cumulativeAck /\ acks' \in Seq(Ackno)
      /\ troubles' \in 0 .. MaxTroubles
      /\ \A i \in DOMAIN acks' : \E j \in DOMAIN acks : acks'[i] = acks[j]
  BY <1>1, <1>2, <1>3 DEF Orderly, AcksBelow, TcpTypeOK
<1>5. Orderly'
  BY <1>1, <1>2, <1>3, <1>4, SourceStep
<1>6. Calm'
  BY <1>1, <1>2 DEF Calm, CalmTimer
<1>7. src'.lastAcked = src.lastAcked
  BY <1>1, <1>3
<1> QED BY <1>5, <1>6, <1>7 DEF TcpInv

LEMMA NetworkLosesKeeps ==
  ASSUME TcpInv, NetworkLoses
  PROVE  TcpInv'
<1>1. Orderly /\ Calm
  BY DEF TcpInv
<1>2. /\ data \in Seq(Seqno) /\ acks \in Seq(Ackno) /\ troubles \in Nat
      /\ MaxTroubles \in Nat
  BY <1>1, TcpConstants DEF Orderly, TcpTypeOK
<1>3. /\ troubles' = troubles + 1 /\ troubles < MaxTroubles
      /\ UNCHANGED <<src, sink, arrived>>
  BY DEF NetworkLoses
<1>4. /\ data' \in Seq(Seqno)
      /\ \A i \in DOMAIN data' : \E j \in DOMAIN data : data'[i] = data[j]
  <2>1. CASE data' = data
    BY <1>2, <2>1
  <2>2. CASE \E i \in DOMAIN data : data' = RemoveAt(data, i)
    BY <1>2, <2>2, RemoveAtElements
  <2> QED BY <2>1, <2>2 DEF NetworkLoses
<1>5. /\ acks' \in Seq(Ackno)
      /\ \A i \in DOMAIN acks' : \E j \in DOMAIN acks : acks'[i] = acks[j]
  <2>1. CASE acks' = acks
    BY <1>2, <2>1
  <2>2. CASE \E i \in DOMAIN acks : acks' = RemoveAt(acks, i)
    BY <1>2, <2>2, RemoveAtElements
  <2> QED BY <2>1, <2>2 DEF NetworkLoses
<1>6. troubles' \in 0 .. MaxTroubles /\ troubles' # 0
  BY <1>2, <1>3
<1>7. TcpTypeOK'
  BY <1>1, <1>3, <1>4, <1>5, <1>6 DEF Orderly, TcpTypeOK
<1>8. Sound(src)' /\ Timed(src)' /\ InPrefix(sink, arrived)'
  BY <1>1, <1>3 DEF Orderly, Sound, Timed, InPrefix
<1>9. AcksBelow' /\ SynFirst' /\ InFlow'
  BY <1>1, <1>3, <1>4, <1>5 DEF Orderly, AcksBelow, SynFirst, InFlow
<1>10. Calm'
  BY <1>6 DEF Calm
<1> QED BY <1>7, <1>8, <1>9, <1>10 DEF TcpInv, Orderly

(* Without trouble the timer is off when nothing is under way.             *)
LEMMA RtxTimerHookKeeps ==
  ASSUME TcpInv, RtxTimerHook
  PROVE  TcpInv'
<1>1. Orderly /\ Calm
  BY DEF TcpInv
<1>2. /\ src.timer /\ ~ src.pending /\ src' = [src EXCEPT !.pending = TRUE]
      /\ UNCHANGED <<sink, data, acks, arrived>>
  BY DEF RtxTimerHook
<1>3. /\ src \in Source /\ troubles \in Nat /\ MaxTroubles \in Nat
  BY <1>1, TcpConstants DEF Orderly, TcpTypeOK
<1>4. troubles' # 0 /\ troubles' \in 0 .. MaxTroubles
  <2>1. CASE data = <<>> /\ acks = <<>>
    <3>1. troubles' = troubles
      BY <2>1 DEF RtxTimerHook
    <3>2. ASSUME troubles = 0 PROVE FALSE
      <4>1. CalmAcks /\ CalmData /\ CalmTimer
        BY <1>1, <3>2 DEF Calm
      <4>2. sink.cumulativeAck = src.lastAcked
        BY <2>1, <4>1 DEF CalmAcks
      <4>3. src.lastAcked < src.highestSent /\ src.lastAcked \in Nat /\ src.highestSent \in Nat
        BY <1>2, <1>3, <4>1 DEF CalmTimer, Source
      <4>4. CASE sink.cumulativeAck = 0
        <5>1. data = <<SYN>>
          BY <4>1, <4>4 DEF CalmData
        <5> QED BY <2>1, <5>1
      <4>5. CASE sink.cumulativeAck > 0
        <5>1. src.highestSent = sink.cumulativeAck + Len(data) * MSS
          BY <4>1, <4>5 DEF CalmData
        <5>2. Len(data) * MSS = 0
          BY <2>1, TcpConstants
        <5> QED BY <4>2, <4>3, <5>1, <5>2
      <4> QED BY <4>2, <4>3, <4>4, <4>5
    <3> QED BY <1>1, <3>1, <3>2 DEF Orderly, TcpTypeOK
  <2>2. CASE ~ (data = <<>> /\ acks = <<>>)
    <3>1. troubles < MaxTroubles /\ troubles' = troubles + 1
      BY <2>2 DEF RtxTimerHook
    <3> QED BY <1>3, <3>1
  <2> QED BY <2>1, <2>2
<1>5. /\ src' \in Source /\ src'.highestSent = src.highestSent
      /\ src'.lastAcked = src.lastAcked /\ src'.established = src.established
      /\ src'.cwnd = src.cwnd /\ src'.ssthresh = src.ssthresh /\ src'.pending
  BY <1>2, <1>3 DEF Source
<1>6. TcpTypeOK'
  BY <1>1, <1>2, <1>4, <1>5 DEF Orderly, TcpTypeOK
<1>7. Sound(src)' /\ Timed(src)' /\ InPrefix(sink, arrived)'
  BY <1>1, <1>2, <1>5 DEF Orderly, Sound, Timed, InPrefix
<1>8. AcksBelow' /\ SynFirst' /\ InFlow'
  BY <1>1, <1>2, <1>5 DEF Orderly, AcksBelow, SynFirst, InFlow
<1>9. Calm'
  BY <1>4 DEF Calm
<1> QED BY <1>6, <1>7, <1>8, <1>9 DEF TcpInv, Orderly

(* The packets of q follow each other behind c, and end with h. *)
EndsAt(c, q, h) == h = c + Len(q) * MSS
Following(c, q) == \A i \in 1 .. Len(q) : q[i] = c + 1 + (i - 1) * MSS

LEMMA FollowingOn ==
  ASSUME NEW c \in Nat, NEW p \in Seq(Seqno), Following(c, p),
         NEW h \in Nat, EndsAt(c, p, h),
         NEW q \in Seq(Seqno), Following(h, q), NEW b, b = p \o q
  PROVE  Following(c, b) /\ \A g : EndsAt(h, q, g) => EndsAt(c, b, g)
<1>1. /\ b \in Seq(Seqno) /\ Len(b) = Len(p) + Len(q)
      /\ \A i \in 1 .. Len(p) + Len(q) :
           b[i] = IF i <= Len(p) THEN p[i] ELSE q[i - Len(p)]
  BY ConcatProperties
<1>2. Len(p) \in Nat /\ Len(q) \in Nat /\ MSS \in Nat
  BY LenProperties, TcpConstants
<1>3. ASSUME NEW i \in 1 .. Len(b)
      PROVE  b[i] = c + 1 + (i - 1) * MSS
  <2>1. CASE i <= Len(p)
    <3>1. i \in 1 .. Len(p) /\ b[i] = p[i]
      BY <1>1, <1>2, <2>1
    <3> QED BY <3>1 DEF Following
  <2>2. CASE ~ (i <= Len(p))
    <3> DEFINE j == i - Len(p)
    <3>1. j \in 1 .. Len(q) /\ b[i] = q[j]
      BY <1>1, <1>2, <2>2
    <3>2. q[j] = h + 1 + (j - 1) * MSS
      BY <3>1 DEF Following
    <3>3. (i - 1) * MSS = Len(p) * MSS + (j - 1) * MSS
      <4>1. i - 1 = Len(p) + (j - 1) /\ j - 1 \in Nat
        BY <1>1, <1>2, <3>1
      <4>2. \A x, y \in Nat : (x + y) * MSS = x * MSS + y * MSS
        BY <1>2
      <4> QED BY <1>2, <4>1, <4>2
    <3>4. Len(p) * MSS \in Nat /\ (j - 1) * MSS \in Nat
      <4>1. j - 1 \in Nat
        BY <3>1
      <4> QED BY <1>2, <4>1, AtLeast
    <3> DEFINE x == Len(p) * MSS
               y == (j - 1) * MSS
               z == (i - 1) * MSS
    <3>5. b[i] = h + 1 + y /\ h = c + x /\ z = x + y /\ x \in Nat /\ y \in Nat
      BY <3>1, <3>2, <3>3, <3>4 DEF EndsAt
    <3> HIDE DEF x, y, z
    <3>6. b[i] = c + 1 + z
      BY <3>5
    <3> QED BY <3>6 DEF z
  <2> QED BY <2>1, <2>2
<1>4. Len(b) * MSS = Len(p) * MSS + Len(q) * MSS
  <2>1. \A x, y \in Nat : (x + y) * MSS = x * MSS + y * MSS
    BY <1>2
  <2> QED BY <1>1, <1>2, <2>1
<1>5. Len(p) * MSS \in Nat /\ Len(q) * MSS \in Nat
  BY <1>2, AtLeast
<1>6. h + Len(q) * MSS = c + Len(b) * MSS
  BY <1>4, <1>5 DEF EndsAt
<1> QED BY <1>3, <1>6 DEF Following, EndsAt

(* The first ack on a calm network takes the source along and lets data    *)
(* follow the packets under way.                                           *)
LEMMA CalmAck ==
  ASSUME Orderly, CalmAcks, CalmData, CalmTimer, acks # <<>>,
         NEW u, NEW r, AfterAck(src, acks[1], u), ~ u.inFastRecovery,
         Continues(u, r), src' = r.s, data' = data \o r.packets,
         acks' = RemoveAt(acks, 1), UNCHANGED sink
  PROVE  CalmAcks' /\ CalmData' /\ CalmTimer'
<1> DEFINE c == sink.cumulativeAck
           a == acks[1]
           h == src.highestSent
           g == r.s.highestSent
           q == r.packets
<1>1. /\ acks \in Seq(Ackno) /\ data \in Seq(Seqno) /\ c \in Nat /\ h \in Nat
      /\ LastByte \in Nat /\ MSS \in Nat \ {0}
  BY Numbers, TcpConstants DEF Orderly, TcpTypeOK, Sink, Source
<1>2. /\ Len(acks) \in Nat /\ Len(acks) # 0 /\ DOMAIN acks = 1 .. Len(acks)
      /\ 1 \in DOMAIN acks /\ Len(data) \in Nat
      /\ \A i \in DOMAIN acks : acks[i] \in Nat
  <2>1. /\ Len(acks) \in Nat /\ DOMAIN acks = 1 .. Len(acks) /\ Len(data) \in Nat
    BY <1>1, LenProperties
  <2>2. Len(acks) # 0
    BY <1>1, EmptySeq
  <2>3. \A i \in 1 .. Len(acks) : acks[i] \in Ackno
    BY <1>1, <2>1
  <2> QED BY <2>1, <2>2, <2>3, Numbers
<1>3. a \in Nat /\ 1 <= a /\ a <= c /\ src.lastAcked < a
  BY <1>2 DEF Orderly, AcksBelow, CalmAcks
<1>4. /\ h = c + Len(data) * MSS /\ h <= LastByte /\ sink.received = <<>>
      /\ \A i \in DOMAIN data : data[i] = c + 1 + (i - 1) * MSS
  <2>1. c > 0
    BY <1>1, <1>3
  <2> QED BY <2>1 DEF CalmData
<1>5. h >= c
  <2> DEFINE far == Len(data) * MSS
  <2>1. far \in Nat /\ h = c + far
    BY <1>2, <1>4, AtLeast
  <2> HIDE DEF far, c, h
  <2> QED BY <1>1, <2>1
<1> HIDE DEF c, a, h, g, q
<1>6. u.highestSent = h /\ u.lastAcked = a /\ (u.timer <=> a < h) /\ u.pending = src.pending
  <2>1. h >= a
    BY <1>1, <1>3, <1>5
  <2>2. a >= h => a = h
    BY <1>1, <1>3, <2>1
  <2>3. a >= h <=> ~ (a < h)
    BY <1>1, <1>3
  <2> QED BY <2>2, <2>3 DEF AfterAck, a, h
<1>7. PICK n \in Nat :
        /\ q \in Seq(Seqno) /\ Len(q) = n
        /\ \A i \in 1 .. n : q[i] = h + 1 + (i - 1) * MSS /\ q[i] <= LastByte
        /\ n > 0 => h + n * MSS <= LastByte
        /\ g = h + n * MSS /\ r.s.lastAcked = a
        /\ r.s.inFastRecovery = u.inFastRecovery /\ r.s.pending = u.pending
        /\ r.s.timer <=> u.timer \/ n > 0
  BY <1>6 DEF Continues, g, q
<1>8. n * MSS \in Nat /\ n <= n * MSS /\ (n = 0 => n * MSS = 0)
  BY <1>1, AtLeast
<1>9. Following(c, data') /\ EndsAt(c, data', g)
  <2>1. Following(c, data)
    BY <1>1, <1>4, LenProperties DEF Following
  <2>2. Following(h, q)
    BY <1>7 DEF Following
  <2> DEFINE b == data'
             p == data
  <2>3. /\ b = p \o q /\ EndsAt(c, p, h) /\ Following(c, p) /\ p \in Seq(Seqno)
        /\ EndsAt(h, q, g) /\ q \in Seq(Seqno)
    BY <1>1, <1>4, <1>7, <2>1 DEF q, EndsAt
  <2> HIDE DEF b, p
  <2>4. Following(c, b) /\ \A x : EndsAt(h, q, x) => EndsAt(c, b, x)
    BY <1>1, <2>2, <2>3, FollowingOn
  <2> QED BY <2>3, <2>4 DEF b
<1>10. CalmData'
  <2>1. g <= LastByte
    <3>1. CASE n = 0
      <4>1. g = h + 0
        BY <1>7, <1>8, <3>1
      <4> QED BY <1>1, <1>4, <4>1
    <3>2. CASE n # 0
      BY <1>7, <3>2
    <3> QED BY <3>1, <3>2
  <2>2. data' \in Seq(Seqno)
    BY <1>1, <1>7, ConcatProperties DEF q
  <2>3. DOMAIN data' = 1 .. Len(data')
    BY <2>2, LenProperties
  <2>4. c # 0
    BY <1>1, <1>3
  <2>5. src'.highestSent = g /\ sink' = sink
    BY DEF g
  <2> QED BY <1>4, <1>9, <2>1, <2>3, <2>4, <2>5 DEF CalmData, Following, EndsAt, c
<1>11. CalmTimer'
  <2>1. src'.lastAcked = a /\ src'.highestSent = g
    BY <1>7 DEF g
  <2>2. src'.inFastRecovery = FALSE \/ ~ src'.inFastRecovery
    BY <1>7
  <2>3. a < h \/ n > 0 => a < g
    <3> DEFINE step == n * MSS
    <3>1. step \in Nat /\ (n > 0 => step > 0) /\ g = h + step
      BY <1>7, <1>8
    <3> HIDE DEF step
    <3>2. a <= h
      BY <1>1, <1>3, <1>5
    <3> QED BY <1>1, <1>3, <3>1, <3>2
  <2>4. ~ src'.inFastRecovery /\ ~ src'.pending
    BY <1>6, <1>7 DEF CalmTimer
  <2>5. src'.timer => a < h \/ n > 0
    BY <1>6, <1>7
  <2> QED BY <2>1, <2>3, <2>4, <2>5 DEF CalmTimer
<1>12. CalmAcks'
  <2> DEFINE b == acks'
  <2>1. /\ b \in Seq(Ackno) /\ Len(b) = Len(acks) - 1
        /\ \A i \in 1 .. Len(acks) - 1 : b[i] = acks[i + 1]
    <3>1. 1 \in 1 .. Len(acks)
      BY <1>2
    <3>2. /\ RemoveAt(acks, 1) \in Seq(Ackno) /\ Len(RemoveAt(acks, 1)) = Len(acks) - 1
          /\ \A i \in 1 .. Len(acks) - 1 :
               RemoveAt(acks, 1)[i] = IF i < 1 THEN acks[i] ELSE acks[i + 1]
      BY <1>1, <3>1, RemoveAtProperties
    <3>3. \A i \in 1 .. Len(acks) - 1 : ~ (i < 1)
      BY <1>2
    <3> QED BY <3>2, <3>3
  <2>2. src'.lastAcked = a /\ sink'.cumulativeAck = c
    BY <1>7 DEF c
  <2>3. acks[Len(acks)] = c /\ \A i \in 1 .. Len(acks) - 1 : acks[i] < acks[i + 1]
    BY DEF CalmAcks, c
  <2>4. CASE Len(acks) = 1
    <3>1. b = <<>> /\ a = c
      <4>1. Len(b) = 0
        BY <2>1, <2>4
      <4> QED BY <2>1, <2>3, <2>4, <4>1, EmptySeq DEF a
    <3>2. Len(b) = 0
      BY <3>1
    <3>3. \A i \in 1 .. Len(b) - 1 : FALSE
      BY <3>2
    <3> QED BY <2>2, <3>1, <3>3 DEF CalmAcks
  <2>5. CASE Len(acks) # 1
    <3>1. Len(b) \in Nat /\ Len(b) > 0 /\ 1 \in 1 .. Len(acks) - 1
      BY <1>2, <2>1, <2>5
    <3> HIDE DEF b
    <3>2. b[1] > a
      <4>1. b[1] = acks[1 + 1] /\ acks[1] < acks[1 + 1]
        BY <2>1, <2>3, <3>1
      <4>2. 1 \in DOMAIN acks /\ 1 + 1 \in DOMAIN acks
        BY <1>2, <3>1
      <4>3. acks[1] \in Nat /\ acks[1 + 1] \in Nat
        BY <1>2, <4>2
      <4> QED BY <4>1, <4>3 DEF a
    <3>3. b[Len(b)] = c
      <4>1. Len(b) \in 1 .. Len(acks) - 1 /\ Len(b) + 1 = Len(acks)
        BY <1>2, <2>1, <3>1
      <4> QED BY <2>1, <2>3, <4>1
    <3>4. ASSUME NEW i \in 1 .. Len(b) - 1 PROVE b[i] < b[i + 1]
      <4>1. /\ i \in 1 .. Len(acks) - 1 /\ i + 1 \in 1 .. Len(acks) - 1
        BY <1>2, <2>1, <3>1
      <4> QED BY <2>1, <2>3, <4>1
    <3>5. b # <<>>
      BY <3>1
    <3> QED BY <2>2, <3>2, <3>3, <3>4, <3>5 DEF CalmAcks, b
  <2> QED BY <2>4, <2>5
<1> QED BY <1>10, <1>11, <1>12

LEMMA ReceiveAckKeeps ==
  ASSUME TcpInv, ReceiveAck
  PROVE  TcpInv' /\ src'.lastAcked >= src.lastAcked
<1>1. Orderly /\ Calm
  BY DEF TcpInv
<1>2. PICK i \in DOMAIN acks :
        /\ Delivers(i)
        /\ src' = Acknowledge(src, acks[i]).s
        /\ data' = data \o Acknowledge(src, acks[i]).packets
        /\ acks' = RemoveAt(acks, i)
        /\ UNCHANGED <<sink, arrived>>
  BY DEF ReceiveAck
<1> DEFINE a == acks[i]
           r == Acknowledge(src, a)
<1>3. /\ acks \in Seq(Ackno) /\ Sound(src) /\ Timed(src) /\ sink.cumulativeAck \in Nat
      /\ troubles \in 0 .. MaxTroubles /\ MaxTroubles \in Nat
  BY <1>1, Numbers, TcpConstants DEF Orderly, TcpTypeOK, Sink
<1>4. a \in Ackno /\ a \in Nat /\ a >= 1 /\ a <= sink.cumulativeAck
  <2>1. a \in Ackno
    BY <1>3, LenProperties
  <2> QED BY <1>1, <2>1, Numbers DEF Orderly, AcksBelow
<1>5. ~ src.established => a = 1
  BY <1>1, <1>3, <1>4 DEF Orderly, SynFirst
<1>6. /\ src' = r.s /\ data' = data \o r.packets
  BY <1>2
<1> HIDE DEF a, r
<1>7. /\ Fine(r) /\ r.s.established
      /\ r.s.lastAcked = (IF a > src.lastAcked THEN a ELSE src.lastAcked)
      /\ a > src.lastAcked /\ ~ src.inFastRecovery =>
           \E u : AfterAck(src, a, u) /\ ~ u.inFastRecovery /\ Continues(u, r)
  <2>1. LET x == Acknowledge(src, a)
        IN  /\ Fine(x) /\ x.s.established
            /\ x.s.lastAcked = (IF a > src.lastAcked THEN a ELSE src.lastAcked)
            /\ a > src.lastAcked /\ ~ src.inFastRecovery =>
                 \E u : AfterAck(src, a, u) /\ ~ u.inFastRecovery /\ Continues(u, x)
    BY <1>3, <1>4, <1>5, AcknowledgeFine
  <2> QED BY <2>1 DEF r
<1>8. r.s.lastAcked <= sink.cumulativeAck
  BY <1>1, <1>4, <1>7 DEF Orderly, AcksBelow
<1>9. troubles' \in 0 .. MaxTroubles /\ (troubles' = 0 => i = 1 /\ troubles = 0)
  BY <1>2, <1>3 DEF Delivers
<1>10. Orderly'
  <2>1. /\ acks' \in Seq(Ackno)
        /\ \A m \in DOMAIN acks' : \E j \in DOMAIN acks : acks'[m] = acks[j]
    BY <1>2, <1>3, RemoveAtElements
  <2> QED BY <1>1, <1>2, <1>6, <1>7, <1>8, <1>9, <2>1, SourceStep
<1>11. ASSUME troubles' = 0 PROVE CalmAcks' /\ CalmData' /\ CalmTimer'
  <2>1. i = 1 /\ CalmAcks /\ CalmData /\ CalmTimer
    BY <1>1, <1>9, <1>11 DEF Calm
  <2>2. acks # <<>> /\ a = acks[1]
    <3>1. 1 \in DOMAIN acks
      BY <2>1
    <3> QED BY <2>1, <3>1 DEF a
  <2>3. a > src.lastAcked /\ ~ src.inFastRecovery
    BY <2>1, <2>2 DEF CalmAcks, CalmTimer
  <2>4. PICK u : AfterAck(src, acks[1], u) /\ ~ u.inFastRecovery /\ Continues(u, r)
    BY <1>7, <2>2, <2>3
  <2>5. acks' = RemoveAt(acks, 1) /\ UNCHANGED sink
    BY <1>2, <2>1
  <2> QED BY <1>1, <1>6, <2>1, <2>2, <2>4, <2>5, CalmAck
<1>12. src'.lastAcked >= src.lastAcked
  <2>1. src.lastAcked \in Nat
    BY <1>3, SoundIsOpen
  <2> QED BY <1>4, <1>6, <1>7, <2>1
<1> QED BY <1>10, <1>11, <1>12 DEF TcpInv, Calm

(* The first packet on a calm network is the one the sink expects. *)
LEMMA CalmPacket ==
  ASSUME Orderly, CalmAcks, CalmData, CalmTimer, data # <<>>
  PROVE  /\ data[1] = sink.cumulativeAck + 1 /\ sink.received = <<>>
         /\ data[1] = SYN => sink.cumulativeAck = 0
         /\ sink.cumulativeAck = 0 =>
              data = <<SYN>> /\ acks = <<>> /\ src.lastAcked = 0 /\ src.highestSent = 1
<1> DEFINE c == sink.cumulativeAck
<1>1. /\ acks \in Seq(Ackno) /\ data \in Seq(Seqno) /\ c \in Nat
      /\ Sound(src) /\ src.lastAcked \in Nat /\ src.lastAcked <= c
  BY Numbers, SoundIsOpen DEF Orderly, TcpTypeOK, Sink, AcksBelow
<1>2. sink.received = <<>>
  BY DEF CalmData
<1>3. CASE c = 0
  <2>1. data = <<SYN>> /\ SYN = 1
    BY <1>3 DEF CalmData, SYN
  <2>2. src.lastAcked = 0
    BY <1>1, <1>3
  <2>3. src.highestSent = 1
    BY <1>1, <2>2 DEF Sound
  <2>4. acks = <<>>
    <3>1. CASE acks # <<>>
      <4>1. Len(acks) \in DOMAIN acks
        <5>1. Len(acks) \in Nat /\ Len(acks) # 0 /\ DOMAIN acks = 1 .. Len(acks)
          BY <1>1, <3>1, EmptySeq, LenProperties
        <5> QED BY <5>1
      <4>2. 1 <= acks[Len(acks)] /\ acks[Len(acks)] = c
        BY <3>1, <4>1 DEF Orderly, AcksBelow, CalmAcks
      <4> QED BY <1>3, <4>2
    <3> QED BY <3>1
  <2> QED BY <1>2, <1>3, <2>1, <2>2, <2>3, <2>4
<1>4. CASE c # 0
  <2>1. 1 \in DOMAIN data
    <3>1. Len(data) \in Nat /\ Len(data) # 0 /\ DOMAIN data = 1 .. Len(data)
      BY <1>1, EmptySeq, LenProperties
    <3> QED BY <3>1
  <2>2. data[1] = c + 1 + (1 - 1) * MSS
    BY <1>1, <1>4, <2>1 DEF CalmData
  <2>3. (1 - 1) * MSS = 0
    BY TcpConstants
  <2>4. data[1] = c + 1
    BY <1>1, <2>2, <2>3
  <2> QED BY <1>1, <1>2, <1>4, <2>4 DEF SYN
<1> QED BY <1>3, <1>4

(* The first packet on a calm network moves the ack on by its size, and    *)
(* the new ack follows the others.                                         *)
LEMMA CalmArrival ==
  ASSUME Orderly, CalmAcks, CalmData, CalmTimer, data # <<>>,
         sink'.received = <<>>, sink'.cumulativeAck \in Nat,
         sink'.cumulativeAck = sink.cumulativeAck + (IF data[1] = SYN THEN 1 ELSE MSS),
         acks' = acks \o <<sink'.cumulativeAck>>, data' = RemoveAt(data, 1),
         UNCHANGED src
  PROVE  CalmAcks' /\ CalmData' /\ CalmTimer'
<1> DEFINE c == sink.cumulativeAck
           e == sink'.cumulativeAck
           h == src.highestSent
           b == acks'
           q == data'
<1>1. /\ acks \in Seq(Ackno) /\ acks \in Seq(Nat) /\ data \in Seq(Seqno)
      /\ c \in Nat /\ e \in Nat
      /\ h \in Nat /\ src.lastAcked \in Nat /\ src.lastAcked <= c /\ MSS \in Nat \ {0}
  <2>1. /\ acks \in Seq(Ackno) /\ data \in Seq(Seqno) /\ sink.cumulativeAck \in Ackno
        /\ Sound(src) /\ src.lastAcked <= c
    BY DEF Orderly, TcpTypeOK, Sink, AcksBelow
  <2>2. Ackno \subseteq Nat
    BY Numbers
  <2>3. acks \in Seq(Nat)
    BY <2>1, <2>2, SeqMonotonic
  <2> QED BY <2>1, <2>2, <2>3, SoundIsOpen, TcpConstants
<1>2. /\ data[1] = c + 1 /\ (data[1] = SYN => c = 0)
      /\ c = 0 => data = <<SYN>> /\ acks = <<>> /\ src.lastAcked = 0 /\ h = 1
  BY CalmPacket
<1>3. Len(data) \in Nat /\ Len(data) # 0 /\ DOMAIN data = 1 .. Len(data) /\ 1 \in DOMAIN data
  <2>1. Len(data) \in Nat /\ Len(data) # 0 /\ DOMAIN data = 1 .. Len(data)
    BY <1>1, EmptySeq, LenProperties
  <2> QED BY <2>1
<1>4. /\ q \in Seq(Seqno) /\ Len(q) = Len(data) - 1
      /\ \A i \in 1 .. Len(data) - 1 : q[i] = data[i + 1]
  <2>1. 1 \in 1 .. Len(data)
    BY <1>3
  <2>2. /\ RemoveAt(data, 1) \in Seq(Seqno) /\ Len(RemoveAt(data, 1)) = Len(data) - 1
        /\ \A i \in 1 .. Len(data) - 1 :
             RemoveAt(data, 1)[i] = IF i < 1 THEN data[i] ELSE data[i + 1]
    BY <1>1, <2>1, RemoveAtProperties
  <2>3. \A i \in 1 .. Len(data) - 1 : ~ (i < 1)
    BY <1>3
  <2> QED BY <2>2, <2>3
<1>5. /\ b \in Seq(Nat) /\ Len(b) = Len(acks) + 1 /\ Len(acks) \in Nat
      /\ \A i \in 1 .. Len(acks) : b[i] = acks[i]
      /\ b[Len(acks) + 1] = e
  <2>1. <<e>> \in Seq(Nat) /\ Len(<<e>>) = 1 /\ <<e>>[1] = e
    BY <1>1
  <2> DEFINE t == <<e>>
  <2>2. b = acks \o t /\ t \in Seq(Nat) /\ Len(t) = 1 /\ t[1] = e
    BY <2>1
  <2> HIDE DEF t, b, e
  <2>3. /\ acks \o t \in Seq(Nat) /\ Len(acks \o t) = Len(acks) + Len(t)
        /\ \A i \in 1 .. Len(acks) + Len(t) :
             (acks \o t)[i] = IF i <= Len(acks) THEN acks[i] ELSE t[i - Len(acks)]
    BY <1>1, <2>2, ConcatProperties
  <2>4. Len(acks) \in Nat
    BY <1>1, LenProperties
  <2> QED BY <2>2, <2>3, <2>4
<1>6. e = c + (IF c = 0 THEN 1 ELSE MSS) /\ e > c
  <2>1. data[1] = SYN <=> c = 0
    BY <1>1, <1>2 DEF SYN
  <2> QED BY <1>1, <2>1
<1> HIDE DEF c, e, h, b, q
<1>7. CalmAcks'
  <2>1. Len(b) \in Nat /\ Len(b) > 0
    BY <1>5
  <2>2. b # <<>>
    BY <2>1
  <2>3. b[Len(b)] = e
    BY <1>5
  <2>4. b[1] > src.lastAcked
    <3>1. CASE acks = <<>>
      <4>1. Len(acks) = 0
        BY <3>1
      <4>2. b[1] = e
        BY <1>5, <4>1
      <4> QED BY <1>1, <1>6, <4>2
    <3>2. CASE acks # <<>>
      <4>1. Len(acks) # 0
        BY <1>1, <3>2, EmptySeq
      <4>2. 1 \in 1 .. Len(acks)
        BY <1>5, <4>1
      <4>3. b[1] = acks[1] /\ acks[1] > src.lastAcked
        BY <1>5, <3>2, <4>2 DEF CalmAcks
      <4> QED BY <4>3
    <3> QED BY <3>1, <3>2
  <2>5. ASSUME NEW i \in 1 .. Len(b) - 1 PROVE b[i] < b[i + 1]
    <3>1. i \in 1 .. Len(acks) /\ b[i] = acks[i]
      BY <1>5
    <3>2. CASE i < Len(acks)
      <4>1. i + 1 \in 1 .. Len(acks) /\ i \in 1 .. Len(acks) - 1
        BY <1>5, <3>1, <3>2
      <4>2. acks[i] < acks[i + 1]
        BY <4>1 DEF CalmAcks
      <4> QED BY <1>5, <3>1, <4>1, <4>2
    <3>3. CASE i = Len(acks)
      <4>1. acks # <<>>
        BY <1>5, <3>1
      <4>2. b[i] = c
        BY <3>1, <3>3, <4>1 DEF CalmAcks, c
      <4>3. b[i + 1] = e
        BY <1>5, <3>3
      <4> QED BY <1>1, <1>6, <4>2, <4>3
    <3>4. i < Len(acks) \/ i = Len(acks)
      BY <1>5, <3>1
    <3> QED BY <3>2, <3>3, <3>4
  <2> QED BY <2>2, <2>3, <2>4, <2>5 DEF CalmAcks, b, e
<1>8. CalmTimer'
  BY DEF CalmTimer
<1>9. DOMAIN q = 1 .. Len(q)
  BY <1>4, LenProperties
<1>10. h <= LastByte
  BY DEF CalmData, h
<1>11. /\ h = e + Len(q) * MSS
       /\ \A i \in 1 .. Len(q) : q[i] = e + 1 + (i - 1) * MSS
  <2>1. CASE c = 0
    <3>1. Len(data) = 1
      BY <1>2, <2>1
    <3>2. Len(q) = 0 /\ e = 1 /\ h = 1
      BY <1>2, <1>4, <1>6, <2>1, <3>1
    <3>3. Len(q) * MSS = 0
      BY <1>1, <3>2
    <3>4. \A i \in 1 .. Len(q) : FALSE
      BY <3>2
    <3> QED BY <3>2, <3>3, <3>4
  <2>2. CASE c # 0
    <3>1. c > 0
      BY <1>1, <2>2
    <3>2. /\ h = c + Len(data) * MSS
          /\ \A i \in DOMAIN data : data[i] = c + 1 + (i - 1) * MSS
      BY <3>1 DEF CalmData, c, h
    <3>3. e = c + MSS
      BY <1>6, <2>2
    <3>4. h = e + Len(q) * MSS
      <4> DEFINE x == Len(data) * MSS
                 y == Len(q) * MSS
      <4>1. x = y + MSS /\ x \in Nat /\ y \in Nat /\ h = c + x
        <5>1. Len(q) \in Nat /\ Len(data) = Len(q) + 1
          BY <1>3, <1>4
        <5>2. (Len(q) + 1) * MSS = Len(q) * MSS + MSS
          BY <1>1, <5>1
        <5>3. Len(q) * MSS \in Nat /\ Len(data) * MSS \in Nat
          BY <1>3, <5>1, AtLeast
        <5> QED BY <3>2, <5>1, <5>2, <5>3
      <4> HIDE DEF x, y
      <4>2. h = e + y
        BY <1>1, <3>3, <4>1
      <4> QED BY <4>2 DEF y
    <3>5. ASSUME NEW i \in 1 .. Len(q) PROVE q[i] = e + 1 + (i - 1) * MSS
      <4>1. q[i] = data[i + 1] /\ i + 1 \in DOMAIN data
        BY <1>3, <1>4
      <4>2. data[i + 1] = c + 1 + ((i + 1) - 1) * MSS
        BY <3>2, <4>1
      <4> DEFINE x == ((i + 1) - 1) * MSS
                 y == (i - 1) * MSS
      <4>3. x = y + MSS /\ x \in Nat /\ y \in Nat
        <5>1. i - 1 \in Nat /\ (i + 1) - 1 = (i - 1) + 1 /\ (i + 1) - 1 \in Nat
          OBVIOUS
        <5>2. \A m \in Nat : (m + 1) * MSS = m * MSS + MSS
          BY <1>1
        <5>3. ((i - 1) + 1) * MSS = (i - 1) * MSS + MSS
          BY <5>1, <5>2
        <5>4. (i - 1) * MSS \in Nat /\ ((i + 1) - 1) * MSS \in Nat
          BY <5>1, AtLeast
        <5> QED BY <5>1, <5>3, <5>4
      <4>4. q[i] = c + 1 + x
        BY <4>1, <4>2
      <4> HIDE DEF x, y
      <4>5. q[i] = e + 1 + y
        BY <1>1, <3>3, <4>3, <4>4
      <4> QED BY <4>5 DEF y
    <3> QED BY <3>4, <3>5
  <2> QED BY <2>1, <2>2
<1>12. CalmData'
  <2>1. e # 0
    BY <1>1, <1>6
  <2> QED BY <1>9, <1>10, <1>11, <2>1 DEF CalmData, h, e, q
<1> QED BY <1>7, <1>8, <1>12

LEMMA ReceiveDataKeeps ==
  ASSUME TcpInv, ReceiveData
  PROVE  TcpInv' /\ sink.cumulativeAck <= sink'.cumulativeAck
<1>1. Orderly /\ Calm
  BY DEF TcpInv
<1>2. PICK i \in DOMAIN data :
        /\ Delivers(i)
        /\ sink' = Receive(sink, data[i])
        /\ acks' = acks \o SendAck(sink, sink')
        /\ arrived' = arrived \cup {data[i]}
        /\ data' = RemoveAt(data, i)
        /\ UNCHANGED src
  BY DEF ReceiveData
<1> DEFINE n == data[i]
           e == sink'.cumulativeAck
<1>3. /\ sink \in Sink /\ arrived \in SUBSET Seqno /\ InPrefix(sink, arrived)
      /\ data \in Seq(Seqno) /\ acks \in Seq(Ackno) /\ troubles \in 0 .. MaxTroubles
      /\ MaxTroubles \in Nat /\ sink.cumulativeAck \in Nat /\ Sound(src)
  BY <1>1, Numbers, TcpConstants DEF Orderly, TcpTypeOK, Sink
<1>4. n \in Seqno /\ (sink.cumulativeAck = 0 => n = SYN)
  <2>1. n \in Seqno
    BY <1>3, LenProperties
  <2>2. ASSUME sink.cumulativeAck = 0 PROVE ~ src.established
    BY <1>1, <1>3, <2>2, SoundIsOpen DEF Orderly, Sound, AcksBelow
  <2> QED BY <1>1, <2>1, <2>2 DEF Orderly, SynFirst
<1>5. /\ sink' \in Sink /\ sink.cumulativeAck <= e /\ e >= 1
      /\ InPrefix(sink', arrived \cup {n})
      /\ n = SYN /\ sink.cumulativeAck <= 1 => e = 1
      /\ n = sink.cumulativeAck + 1 /\ sink.received = <<>> =>
           /\ sink'.received = <<>>
           /\ e = sink.cumulativeAck + (IF n = SYN THEN 1 ELSE MSS)
  <2> DEFINE t == Receive(sink, n)
  <2> HIDE DEF n
  <2>1. /\ t \in Sink /\ sink.cumulativeAck <= t.cumulativeAck /\ t.cumulativeAck >= 1
        /\ InPrefix(t, arrived \cup {n})
        /\ n = SYN /\ sink.cumulativeAck <= 1 => t.cumulativeAck = 1
        /\ n = sink.cumulativeAck + 1 /\ sink.received = <<>> =>
             /\ t.received = <<>>
             /\ t.cumulativeAck = sink.cumulativeAck + (IF n = SYN THEN 1 ELSE MSS)
    BY <1>3, <1>4, SinkTakesIn
  <2>2. sink' = t
    BY <1>2 DEF n
  <2> HIDE DEF t
  <2> QED BY <2>1, <2>2
<1>6. e \in Ackno /\ e \in Nat
  <2>1. e \in Ackno
    BY <1>5 DEF Sink
  <2> QED BY <2>1, Numbers
<1>7. troubles' \in 0 .. MaxTroubles /\ (troubles' = 0 => i = 1 /\ troubles = 0)
  BY <1>2, <1>3 DEF Delivers
<1>8. /\ data' \in Seq(Seqno)
      /\ \A m \in DOMAIN data' : \E j \in DOMAIN data : data'[m] = data[j]
  BY <1>2, <1>3, RemoveAtElements
<1>9. acks' \in Seq(Ackno) /\ \A m \in DOMAIN acks' :
        (\E j \in DOMAIN acks : acks'[m] = acks[j]) \/ acks'[m] = e
  <2> DEFINE p == acks
             q == <<e>>
             b == acks'
  <2>1. /\ p \in Seq(Ackno) /\ q \in Seq(Ackno) /\ b = p \o q
        /\ Len(q) = 1 /\ q[1] = e
    BY <1>2, <1>3, <1>6 DEF SendAck
  <2> HIDE DEF p, q, b
  <2>2. b \in Seq(Ackno) /\ OfBoth(b, p, q)
    BY <2>1, ConcatElements
  <2> QED BY <2>1, <2>2 DEF OfBoth, p, b
<1> HIDE DEF n, e
<1>10. TcpTypeOK'
  BY <1>1, <1>2, <1>3, <1>4, <1>5, <1>7, <1>8, <1>9 DEF Orderly, TcpTypeOK, n
<1>11. Sound(src)' /\ Timed(src)' /\ InPrefix(sink, arrived)'
  <2>1. Sound(src)' /\ Timed(src)'
    BY <1>1, <1>2 DEF Orderly, Sound, Timed
  <2>2. arrived' = arrived \cup {n}
    BY <1>2 DEF n
  <2> QED BY <1>5, <2>1, <2>2 DEF InPrefix
<1>12. AcksBelow'
  <2>1. src'.lastAcked <= e
    <3>1. src.lastAcked <= sink.cumulativeAck /\ src.lastAcked \in Nat
      BY <1>1, <1>3, SoundIsOpen DEF Orderly, AcksBelow
    <3> QED BY <1>2, <1>3, <1>5, <1>6, <3>1
  <2>2. ASSUME NEW m \in DOMAIN acks' PROVE 1 <= acks'[m] /\ acks'[m] <= e
    <3>1. CASE acks'[m] = e
      BY <1>5, <1>6, <3>1
    <3>2. CASE \E j \in DOMAIN acks : acks'[m] = acks[j]
      <4>1. PICK j \in DOMAIN acks : acks'[m] = acks[j]
        BY <3>2
      <4>2. 1 <= acks[j] /\ acks[j] <= sink.cumulativeAck
        BY <1>1 DEF Orderly, AcksBelow
      <4>3. acks[j] \in Nat
        <5>1. acks[j] \in Ackno
          BY <1>3, LenProperties
        <5> QED BY <5>1, Numbers
      <4> QED BY <1>3, <1>5, <1>6, <4>1, <4>2, <4>3
    <3> QED BY <1>9, <3>1, <3>2
  <2> QED BY <2>1, <2>2 DEF AcksBelow, e
<1>13. SynFirst'
  <2>1. ASSUME ~ src.established PROVE e <= 1 /\ \A m \in DOMAIN data' : data'[m] = SYN
    <3>1. n = SYN /\ sink.cumulativeAck <= 1 /\ \A m \in DOMAIN data : data[m] = SYN
      BY <1>1, <2>1 DEF Orderly, SynFirst, n
    <3> QED BY <1>5, <1>8, <3>1
  <2> QED BY <1>2, <2>1 DEF SynFirst, e
<1>14. InFlow'
  <2>1. ASSUME NEW m \in DOMAIN data' PROVE data'[m] <= LastByte \/ data'[m] <= e + 1
    <3>1. PICK j \in DOMAIN data : data'[m] = data[j]
      BY <1>8
    <3>2. data[j] <= LastByte \/ data[j] <= sink.cumulativeAck + 1
      BY <1>1 DEF Orderly, InFlow
    <3>3. data[j] \in Nat
      <4>1. data[j] \in Seqno
        BY <1>3, LenProperties
      <4> QED BY <4>1, Numbers
    <3> DEFINE x == data[j]
               c == sink.cumulativeAck
    <3>4. (x <= LastByte \/ x <= c + 1) /\ x \in Nat /\ c \in Nat /\ c <= e
      BY <1>3, <1>5, <3>2, <3>3
    <3> HIDE DEF x, c
    <3>5. x <= LastByte \/ x <= e + 1
      BY <1>6, <3>4, TcpConstants
    <3> QED BY <3>1, <3>5 DEF x
  <2> QED BY <2>1 DEF InFlow, e
<1>15. ASSUME troubles' = 0 PROVE CalmAcks' /\ CalmData' /\ CalmTimer'
  <2>1. i = 1 /\ CalmAcks /\ CalmData /\ CalmTimer
    BY <1>1, <1>7, <1>15 DEF Calm
  <2>2. data # <<>>
    <3>1. 1 \in DOMAIN data
      BY <2>1
    <3> QED BY <3>1
  <2>3. data[1] = sink.cumulativeAck + 1 /\ sink.received = <<>>
    BY <1>1, <2>1, <2>2, CalmPacket
  <2>4. /\ sink'.received = <<>> /\ sink'.cumulativeAck \in Nat
        /\ sink'.cumulativeAck = sink.cumulativeAck + (IF data[1] = SYN THEN 1 ELSE MSS)
    BY <1>5, <1>6, <2>1, <2>3 DEF n, e
  <2>5. /\ acks' = acks \o <<sink'.cumulativeAck>> /\ data' = RemoveAt(data, 1)
        /\ UNCHANGED src
    BY <1>2, <2>1 DEF SendAck
  <2> QED BY <1>1, <2>1, <2>2, <2>4, <2>5, CalmArrival
<1>16. sink.cumulativeAck <= sink'.cumulativeAck
  BY <1>5 DEF e
<1> QED BY <1>10, <1>11, <1>12, <1>13, <1>14, <1>15, <1>16 DEF TcpInv, Orderly, Calm

LEMMA TcpInitKeeps ==
  ASSUME TcpInit
  PROVE  TcpInv
<1> DEFINE w == InitWindow * MSS
           s0 == [highestSent |-> 0, lastAcked |-> 0, cwnd |-> w,
                  ssthresh |-> Unlimited, dupacks |-> 0, recoverq |-> 0,
                  inFastRecovery |-> FALSE, established |-> FALSE,
                  timer |-> FALSE, pending |-> FALSE]
<1>1. /\ src = SendPackets(s0).s /\ data = SendPackets(s0).packets
      /\ sink = [cumulativeAck |-> 0, received |-> <<>>]
      /\ acks = <<>> /\ arrived = {} /\ troubles = 0
  BY DEF TcpInit
<1>2. w \in Nat \ {0} /\ Unlimited \in Nat \ {0}
  <2>1. /\ MSS \in Nat \ {0} /\ InitWindow \in Nat \ {0}
    BY TcpConstants
  <2>2. InitWindow * MSS \in Nat /\ InitWindow <= InitWindow * MSS
    BY <2>1, AtLeast
  <2> QED BY <2>1, <2>2 DEF Unlimited
<1>3. /\ src = [s0 EXCEPT !.highestSent = 1, !.timer = TRUE] /\ data = <<SYN>>
  BY <1>1 DEF SendPackets, At, Sends
<1> HIDE DEF w
<1>4. /\ src \in Source /\ src.highestSent = 1 /\ src.lastAcked = 0
      /\ src.cwnd = w /\ src.ssthresh = Unlimited /\ ~ src.established
      /\ src.timer /\ ~ src.pending /\ ~ src.inFastRecovery
  BY <1>2, <1>3 DEF Source
<1>5. SYN \in Seqno /\ data \in Seq(Seqno) /\ Len(data) = 1 /\ data[1] = SYN
  BY <1>3, Numbers
<1>6. TcpTypeOK
  <2>1. sink \in Sink /\ acks \in Seq(Ackno)
    BY <1>1, Numbers DEF Sink
  <2>2. troubles \in 0 .. MaxTroubles
    BY <1>1, TcpConstants
  <2> QED BY <1>1, <1>4, <1>5, <2>1, <2>2, Numbers DEF TcpTypeOK
<1>7. Sound(src) /\ Timed(src)
  BY <1>2, <1>4, Numbers DEF Sound, Timed
<1>8. InPrefix(sink, arrived)
  <2>1. \A b \in Seqno : ~ (b <= 0)
    BY Numbers
  <2>2. ToSet(<<>>) = {} /\ Ascending(<<>>)
    BY DEF ToSet, Ascending
  <2> QED BY <1>1, <2>1, <2>2 DEF InPrefix
<1>9. AcksBelow
  BY <1>1, <1>4 DEF AcksBelow
<1>10. SynFirst
  BY <1>1, <1>3 DEF SynFirst
<1>11. InFlow
  <2>1. \A i \in DOMAIN data : data[i] = 1
    BY <1>3 DEF SYN
  <2>2. 1 <= LastByte
    BY TcpConstants
  <2> QED BY <2>1, <2>2 DEF InFlow
<1>12. CalmAcks /\ CalmTimer
  <2>1. Len(acks) = 0
    BY <1>1
  <2> QED BY <1>1, <1>4, <2>1 DEF CalmAcks, CalmTimer
<1>13. CalmData
  <2>1. 1 <= LastByte
    BY TcpConstants
  <2>2. sink.received = <<>> /\ sink.cumulativeAck = 0 /\ ~ (sink.cumulativeAck > 0)
    BY <1>1
  <2>3. src.highestSent <= LastByte
    BY <1>4, <2>1
  <2> QED BY <1>3, <2>2, <2>3 DEF CalmData
<1> QED BY <1>6, <1>7, <1>8, <1>9, <1>10, <1>11, <1>12, <1>13
     DEF TcpInv, Orderly, Calm

LEMMA TcpStutters ==
  ASSUME TcpInv, UNCHANGED tcpVars
  PROVE  TcpInv'
BY DEF tcpVars, TcpInv, Orderly, TcpTypeOK, Sound, Timed, InPrefix, AcksBelow,
       SynFirst, InFlow, Calm, CalmAcks, CalmData, CalmTimer

(* The inductive invariant holds of every connection: the sink's ack is    *)
(* the end of the stretch without a hole, no ack is ahead of it, and as    *)
(* long as nothing is lost or overtaken everything comes once, in order.   *)
THEOREM TcpInvariant == TcpSpec => []TcpInv
<1>1. TcpInit => TcpInv
  BY TcpInitKeeps
<1>2. TcpInv /\ [TcpNext]_tcpVars => TcpInv'
  <2> SUFFICES ASSUME TcpInv, [TcpNext]_tcpVars PROVE TcpInv'
    OBVIOUS
  <2>1. CASE ReceiveAck
    BY <2>1, ReceiveAckKeeps
  <2>2. CASE ReceiveData
    BY <2>2, ReceiveDataKeeps
  <2>3. CASE NetworkLoses
    BY <2>3, NetworkLosesKeeps
  <2>4. CASE RtxTimerHook
    BY <2>4, RtxTimerHookKeeps
  <2>5. CASE Timeout
    BY <2>5, TimeoutKeeps
  <2>6. CASE UNCHANGED tcpVars
    BY <2>6, TcpStutters
  <2> QED BY <2>1, <2>2, <2>3, <2>4, <2>5, <2>6 DEF TcpNext
<1> QED BY <1>1, <1>2, PTL DEF TcpSpec

(* The sink's ack is the end of the stretch without a hole, and its list   *)
(* holds exactly the packets above it, in order and once each.             *)
THEOREM SinkAcksThePrefix == TcpSpec => []AcksPrefix
<1>1. TcpInv => AcksPrefix
  <2> SUFFICES ASSUME TcpInv PROVE AcksPrefix
    OBVIOUS
  <2> DEFINE c == sink.cumulativeAck
  <2>1. /\ InPrefix(sink, arrived) /\ arrived \subseteq Seqno /\ c \in Nat
    BY Numbers DEF TcpInv, Orderly, TcpTypeOK, Sink
  <2>2. c > 0 => SYN \in arrived
    <3>1. SYN \in Seqno /\ (c > 0 => SYN <= c)
      BY <2>1, Numbers DEF SYN
    <3> QED BY <2>1, <3>1 DEF InPrefix
  <2>3. ASSUME NEW b \in arrived, b > c PROVE b > c + 1
    <3>1. b # c + 1 /\ b \in Nat
      BY <2>1, Numbers DEF InPrefix
    <3> QED BY <2>1, <2>3, <3>1
  <2>4. ASSUME NEW i \in 0 .. FlowPackets, 2 + i * MSS <= c
        PROVE  2 + i * MSS \in arrived
    <3>1. 2 + i * MSS \in Seqno
      BY TcpConstants, SeqnoIs
    <3> QED BY <2>1, <2>4, <3>1 DEF InPrefix
  <2>5. /\ ToSet(sink.received) = {b \in arrived : b > c}
        /\ \A i \in 1 .. Len(sink.received) - 1 : sink.received[i] < sink.received[i + 1]
    BY <2>1 DEF InPrefix, Ascending
  <2> QED BY <2>2, <2>3, <2>4, <2>5 DEF AcksPrefix
<1> QED BY <1>1, TcpInvariant, PTL

(* No flow stops for want of a timer: while the SYN or data are            *)
(* outstanding it runs, or its timeout is booked.                          *)
THEOREM TimerAlwaysRuns == TcpSpec => []TimerRuns
<1>1. TcpInv => TimerRuns
  BY DEF TcpInv, Orderly, Timed, TimerRuns
<1> QED BY <1>1, TcpInvariant, PTL

(* Data behind the end of the flow are under way only when the sink has    *)
(* all in front of them, and without trouble what has arrived is not sent  *)
(* again.                                                                  *)
THEOREM StaysWithinTheFlow == TcpSpec => []WithinFlow
<1>1. TcpInv => WithinFlow
  <2> SUFFICES ASSUME TcpInv, NEW i \in DOMAIN data
               PROVE  /\ data[i] <= LastByte \/ data[i] <= sink.cumulativeAck + 1
                      /\ troubles = 0 => /\ sink.cumulativeAck < data[i]
                                         /\ data[i] <= LastByte
    BY DEF WithinFlow
  <2>1. Orderly /\ Calm
    BY DEF TcpInv
  <2>2. data[i] <= LastByte \/ data[i] <= sink.cumulativeAck + 1
    BY <2>1 DEF Orderly, InFlow
  <2>3. ASSUME troubles = 0
        PROVE  sink.cumulativeAck < data[i] /\ data[i] <= LastByte
    <3>1. CalmData
      BY <2>1, <2>3 DEF Calm
    <3> DEFINE c == sink.cumulativeAck
               h == src.highestSent
    <3>2. /\ c \in Nat /\ h \in Nat /\ h <= LastByte /\ data \in Seq(Seqno)
          /\ MSS \in Nat \ {0} /\ LastByte \in Nat /\ 1 <= LastByte
      BY <2>1, <3>1, Numbers, TcpConstants
      DEF CalmData, Orderly, TcpTypeOK, Sink, Source
    <3>3. CASE c = 0
      <4>1. data = <<SYN>>
        BY <3>1, <3>3 DEF CalmData
      <4>2. data[i] = 1
        BY <4>1 DEF SYN
      <4> QED BY <3>2, <3>3, <4>2
    <3>4. CASE c # 0
      <4>1. c > 0
        BY <3>2, <3>4
      <4>2. h = c + Len(data) * MSS /\ data[i] = c + 1 + (i - 1) * MSS
        BY <3>1, <4>1 DEF CalmData
      <4>3. i \in 1 .. Len(data) /\ Len(data) \in Nat
        BY <3>2, LenProperties
      <4> DEFINE x == Len(data) * MSS
                 y == (i - 1) * MSS
      <4>4. i - 1 \in Nat /\ i - 1 \in Int /\ Len(data) \in Int /\ i - 1 < Len(data)
        BY <4>3
      <4>5. y + MSS <= x
        BY <3>2, <4>4, NextMultiple
      <4>6. x \in Nat /\ y \in Nat
        BY <4>3, <4>4, AtLeast
      <4>7. h = c + x /\ data[i] = c + 1 + y
        BY <4>2
      <4> HIDE DEF x, y, c, h
      <4>8. c < c + 1 + y /\ c + 1 + y <= LastByte
        BY <3>2, <4>5, <4>6, <4>7
      <4> QED BY <4>7, <4>8 DEF c
    <3> QED BY <3>3, <3>4
  <2> QED BY <2>2, <2>3
<1> QED BY <1>1, TcpInvariant, PTL

(* A step of the connection is a step of the reliable stream or none.      *)
LEMMA TcpStreamStep ==
  ASSUME TcpInv, TcpInv', [TcpNext]_tcpVars
  PROVE  [Stream!Next]_(Stream!vars)
<1> DEFINE c == sink.cumulativeAck
           a == src.lastAcked
<1>1. c \in Nat /\ a \in Nat /\ c' \in Nat /\ a' \in Nat /\ a' <= c'
  <2>1. c \in Ackno /\ a \in Ackno
    BY DEF TcpInv, Orderly, TcpTypeOK, Sink
  <2>2. c' \in Ackno /\ a' \in Ackno /\ a' <= c'
    BY DEF TcpInv, Orderly, TcpTypeOK, Sink, AcksBelow
  <2> QED BY <2>1, <2>2, Numbers
<1>2. CASE ReceiveAck
  <2>1. a' >= a /\ c' = c
    <3>1. src'.lastAcked >= src.lastAcked
      BY <1>2, ReceiveAckKeeps
    <3>2. sink' = sink
      BY <1>2 DEF ReceiveAck
    <3> QED BY <3>1, <3>2
  <2> QED BY <1>1, <2>1 DEF Stream!Next, Stream!Learn, Stream!vars
<1>3. CASE ReceiveData
  <2>1. c' >= c /\ a' = a
    <3>1. sink.cumulativeAck <= sink'.cumulativeAck
      BY <1>3, ReceiveDataKeeps
    <3>2. src' = src
      BY <1>3 DEF ReceiveData
    <3> QED BY <1>1, <3>1, <3>2
  <2> QED BY <1>1, <2>1 DEF Stream!Next, Stream!Deliver, Stream!vars
<1>4. CASE NetworkLoses
  BY <1>4 DEF NetworkLoses, Stream!vars
<1>5. CASE RtxTimerHook
  <2>1. src' = [src EXCEPT !.pending = TRUE] /\ sink' = sink /\ src \in Source
    BY <1>5 DEF RtxTimerHook, TcpInv, Orderly, TcpTypeOK
  <2>2. a' = a /\ c' = c
    BY <2>1 DEF Source
  <2> QED BY <2>2 DEF Stream!vars
<1>6. CASE Timeout
  <2>1. a' = a /\ c' = c
    <3>1. src'.lastAcked = src.lastAcked
      BY <1>6, TimeoutKeeps
    <3>2. sink' = sink
      BY <1>6 DEF Timeout
    <3> QED BY <3>1, <3>2
  <2> QED BY <2>1 DEF Stream!vars
<1>7. CASE UNCHANGED tcpVars
  BY <1>7 DEF tcpVars, Stream!vars
<1> QED BY <1>2, <1>3, <1>4, <1>5, <1>6, <1>7 DEF TcpNext

(* The connection keeps the safe part of the reliable stream: the sink's   *)
(* ack only moves on and the source learns no more than the sink acks.     *)
THEOREM TcpInStep == TcpSpec => InStep
<1>1. TcpInit => Stream!Init
  <2> SUFFICES ASSUME TcpInit PROVE sink.cumulativeAck = 0 /\ src.lastAcked = 0
    BY DEF Stream!Init
  <2>1. TcpInv
    BY TcpInitKeeps
  <2>2. sink.cumulativeAck = 0
    BY DEF TcpInit
  <2>3. src.lastAcked \in Ackno /\ src.lastAcked <= sink.cumulativeAck
    BY <2>1 DEF TcpInv, Orderly, TcpTypeOK, AcksBelow
  <2>4. src.lastAcked \in Nat
    BY <2>3, Numbers
  <2> QED BY <2>2, <2>3, <2>4
<1> QED BY <1>1, TcpInvariant, TcpStreamStep, PTL DEF TcpSpec, InStep, Stream!Safe
=============================================================================
