--------------------------- MODULE StarlinkProofs ---------------------------
(***************************************************************************)
(* A link keeps the packets in order and its events in step with them, for *)
(* all sizes, rates, delays and numbers of packets, also when the factory  *)
(* hands it out again; and its assert holds when it does not.  A city      *)
(* keeps every satellite on one list, and the factory's pool keeps its     *)
(* books and the links in pairs, for all satellites and distances.         *)
(***************************************************************************)
EXTENDS IslLink, Constellation, SequenceLemmas

Event == [when : Nat, src : {"queue", "pipe"}]

(* The list p is in the order of the times, and nothing is due before t.   *)
InTime(p, t) ==
  /\ \A i, j \in 1 .. Len(p) : i < j => p[i].when <= p[j].when
  /\ \A i \in 1 .. Len(p) : p[i].when >= t

(* The list p has no event of s, or one, at time w. *)
None(p, s) == \A i \in 1 .. Len(p) : p[i].src # s
OneAt(p, s, w) ==
  \E k \in 1 .. Len(p) :
    /\ p[k].src = s /\ p[k].when = w
    /\ \A i \in 1 .. Len(p) : p[i].src = s => i = k

-----------------------------------------------------------------------------
(* In an ordered list the entries due no later than w are a prefix, and    *)
(* UpperBound is its length.                                               *)
LEMMA UpperBoundIsPrefix ==
  ASSUME NEW p \in Seq(Event), NEW t \in Nat, InTime(p, t), NEW w \in Nat
  PROVE  /\ UpperBound(p, w) \in 0 .. Len(p)
         /\ \A i \in 1 .. Len(p) : i <= UpperBound(p, w) <=> p[i].when <= w
<1> DEFINE C == {n \in 1 .. Len(p) + 1 : n = Len(p) + 1 \/ ~ (p[n].when <= w)}
           m == Min(C)
<1>0. /\ Len(p) \in Nat /\ DOMAIN p = 1 .. Len(p)
      /\ \A i \in 1 .. Len(p) : p[i] \in Event
  BY LenProperties, ElementOfSeq
<1>1. /\ Len(p) \in Nat /\ DOMAIN p = 1 .. Len(p)
      /\ \A i \in 1 .. Len(p) : p[i].when \in Nat
  BY <1>0 DEF Event
<1>2. m \in C /\ \A n \in C : m <= n
  <2>1. C \in SUBSET Nat /\ Len(p) + 1 \in C
    BY <1>1
  <2> QED BY <2>1, MinProperties
<1> HIDE DEF m
<1>3. m \in 1 .. Len(p) + 1
  BY <1>2
<1>4. ASSUME NEW i \in 1 .. Len(p)
      PROVE  p[i].when <= w <=> i < m
  <2>1. CASE i < m
    BY <1>1, <1>2, <1>3, <2>1
  <2>2. CASE ~ (i < m)
    <3>1. m \in 1 .. Len(p) /\ m <= i /\ ~ (p[m].when <= w)
      BY <1>1, <1>2, <1>3, <2>2
    <3>2. p[m].when <= p[i].when
      BY <1>1, <3>1 DEF InTime
    <3> QED BY <1>1, <2>2, <3>1, <3>2
  <2> QED BY <2>1, <2>2
<1>5. {i \in DOMAIN p : p[i].when <= w} = 1 .. m - 1
  BY <1>1, <1>3, <1>4
<1>6. UpperBound(p, w) = m - 1
  <2>1. Cardinality(1 .. m - 1) = m - 1
    BY <1>1, <1>3, FS_Interval
  <2> QED BY <1>5, <2>1 DEF UpperBound
<1> QED BY <1>1, <1>3, <1>4, <1>6

(* Inserting an event keeps the list in time and the events of others.     *)
LEMMA InsertKeeps ==
  ASSUME NEW p \in Seq(Event), NEW t \in Nat, InTime(p, t),
         NEW e \in Event, e.when >= t
  PROVE  /\ Insert(p, e) \in Seq(Event)
         /\ InTime(Insert(p, e), t)
         /\ None(p, e.src) => OneAt(Insert(p, e), e.src, e.when)
         /\ \A s : s # e.src /\ None(p, s) => None(Insert(p, e), s)
         /\ \A s, w : s # e.src /\ OneAt(p, s, w) => OneAt(Insert(p, e), s, w)
<1>0. Len(p) \in Nat /\ \A i \in 1 .. Len(p) : p[i] \in Event
  BY LenProperties, ElementOfSeq
<1>1. Len(p) \in Nat /\ \A i \in 1 .. Len(p) : p[i].when \in Nat
  BY <1>0 DEF Event
<1>2. e.when \in Nat
  BY DEF Event
<1>3. PICK k \in 1 .. Len(p) + 1 :
        /\ k = UpperBound(p, e.when) + 1
        /\ \A i \in 1 .. Len(p) : i < k <=> p[i].when <= e.when
  <2>1. /\ UpperBound(p, e.when) \in 0 .. Len(p)
        /\ \A i \in 1 .. Len(p) : i <= UpperBound(p, e.when) <=> p[i].when <= e.when
    BY <1>2, UpperBoundIsPrefix
  <2>2. PICK n \in 0 .. Len(p) : n = UpperBound(p, e.when)
    BY <2>1
  <2>3. \A i \in 1 .. Len(p) : i <= n <=> p[i].when <= e.when
    BY <2>1, <2>2
  <2>4. n + 1 \in 1 .. Len(p) + 1 /\ \A i \in 1 .. Len(p) : i < n + 1 <=> i <= n
    BY <1>1
  <2> QED BY <2>2, <2>3, <2>4
<1> DEFINE q == InsertAt(p, k, e)
<1>4. /\ q \in Seq(Event) /\ Len(q) = Len(p) + 1
      /\ \A i \in 1 .. Len(p) + 1 :
           q[i] = IF i < k THEN p[i] ELSE IF i = k THEN e ELSE p[i - 1]
  <2> DEFINE E == Event
  <2>1. p \in Seq(E) /\ e \in E /\ k \in 1 .. Len(p) + 1
    BY <1>3
  <2> HIDE DEF E
  <2>2. \A S : \A r \in Seq(S), x \in S : \A j \in 1 .. Len(r) + 1 :
          /\ InsertAt(r, j, x) \in Seq(S)
          /\ Len(InsertAt(r, j, x)) = Len(r) + 1
          /\ \A i \in 1 .. Len(r) + 1 :
               InsertAt(r, j, x)[i] = IF i < j THEN r[i] ELSE IF i = j THEN x ELSE r[i - 1]
    BY InsertAtProperties, Zenon
  <2>3. \A j \in 1 .. Len(p) + 1 :
          /\ InsertAt(p, j, e) \in Seq(E)
          /\ Len(InsertAt(p, j, e)) = Len(p) + 1
          /\ \A i \in 1 .. Len(p) + 1 :
               InsertAt(p, j, e)[i] = IF i < j THEN p[i] ELSE IF i = j THEN e ELSE p[i - 1]
    BY <2>1, <2>2
  <2>4. /\ InsertAt(p, k, e) \in Seq(E)
        /\ Len(InsertAt(p, k, e)) = Len(p) + 1
        /\ \A i \in 1 .. Len(p) + 1 :
             InsertAt(p, k, e)[i] = IF i < k THEN p[i] ELSE IF i = k THEN e ELSE p[i - 1]
    BY <2>1, <2>3, Zenon
  <2> QED BY <2>4 DEF E
<1>5. Insert(p, e) = q
  BY <1>3 DEF Insert
<1> HIDE DEF q
<1> DEFINE f(i) == IF i < k THEN i ELSE i - 1
<1>6. \A i \in 1 .. Len(q) : i # k =>
        /\ f(i) \in 1 .. Len(p) /\ q[i] = p[f(i)]
        /\ i < k <=> p[f(i)].when <= e.when
        /\ \A j \in 1 .. Len(q) : j # k /\ i < j => f(i) < f(j)
  <2>1. ASSUME NEW i \in 1 .. Len(q), i < k
        PROVE  f(i) = i /\ i \in 1 .. Len(p) /\ q[i] = p[i]
    BY <1>1, <1>3, <1>4, <2>1
  <2>2. ASSUME NEW i \in 1 .. Len(q), i > k
        PROVE  /\ f(i) = i - 1 /\ i - 1 \in 1 .. Len(p) /\ ~ (i - 1 < k)
               /\ q[i] = p[i - 1]
    BY <1>1, <1>3, <1>4, <2>2
  <2>3. \A i \in 1 .. Len(q) : i # k => i < k \/ i > k
    BY <1>3, <1>4
  <2>4. \A i, j \in 1 .. Len(q) : i # k /\ j # k /\ i < j => f(i) < f(j)
    BY <1>3, <1>4
  <2> QED BY <1>3, <2>1, <2>2, <2>3, <2>4
<1>7. k \in 1 .. Len(q) /\ q[k] = e
  BY <1>1, <1>3, <1>4
<1>8. InTime(q, t)
  <2> HIDE DEF f
  <2>1. ASSUME NEW i \in 1 .. Len(q), NEW j \in 1 .. Len(q), i < j
        PROVE  q[i].when <= q[j].when
    <3>1. CASE i # k /\ j # k
      BY <1>6, <2>1, <3>1 DEF InTime
    <3>2. CASE i = k
      <4>1. j # k /\ ~ (j < k)
        BY <2>1, <3>2
      <4>2. p[f(j)].when \in Nat /\ ~ (p[f(j)].when <= e.when) /\ q[j] = p[f(j)]
        BY <1>1, <1>6, <4>1
      <4> QED BY <1>2, <1>7, <3>2, <4>2
    <3>3. CASE j = k
      <4>1. i # k /\ i < k
        BY <2>1, <3>3
      <4> QED BY <1>6, <1>7, <3>3, <4>1
    <3> QED BY <3>1, <3>2, <3>3
  <2>2. ASSUME NEW i \in 1 .. Len(q) PROVE q[i].when >= t
    BY <1>6, <1>7 DEF InTime
  <2> QED BY <2>1, <2>2 DEF InTime
<1>9. \A n \in 1 .. Len(p) : \E m \in 1 .. Len(q) :
        m # k /\ f(m) = n /\ \A i \in 1 .. Len(q) : i # k /\ f(i) = n => i = m
  <2> SUFFICES ASSUME NEW n \in 1 .. Len(p)
               PROVE  \E m \in 1 .. Len(q) :
                        m # k /\ f(m) = n /\ \A i \in 1 .. Len(q) : i # k /\ f(i) = n => i = m
    OBVIOUS
  <2> DEFINE m == IF n < k THEN n ELSE n + 1
  <2>1. m \in 1 .. Len(q) /\ m # k /\ f(m) = n
    BY <1>1, <1>3, <1>4
  <2>2. \A i \in 1 .. Len(q) : i # k /\ f(i) = n => i = m
    BY <1>1, <1>3, <1>4
  <2> QED BY <2>1, <2>2
<1> HIDE DEF f
<1>10. ASSUME None(p, e.src) PROVE OneAt(q, e.src, e.when)
  <2>1. \A i \in 1 .. Len(q) : q[i].src = e.src => i = k
    BY <1>6, <1>10 DEF None
  <2> QED BY <1>7, <2>1 DEF OneAt
<1>11. ASSUME NEW s, s # e.src, None(p, s) PROVE None(q, s)
  BY <1>6, <1>7, <1>11 DEF None
<1>12. ASSUME NEW s, NEW w, s # e.src, OneAt(p, s, w) PROVE OneAt(q, s, w)
  <2>1. PICK n \in 1 .. Len(p) :
          /\ p[n].src = s /\ p[n].when = w
          /\ \A i \in 1 .. Len(p) : p[i].src = s => i = n
    BY <1>12 DEF OneAt
  <2>2. PICK m \in 1 .. Len(q) :
          m # k /\ f(m) = n /\ \A i \in 1 .. Len(q) : i # k /\ f(i) = n => i = m
    BY <1>9
  <2>3. q[m] = p[n]
    BY <1>6, <2>2
  <2>4. \A i \in 1 .. Len(q) : q[i].src = s => i = m
    <3>1. ASSUME NEW i \in 1 .. Len(q), q[i].src = s PROVE i # k /\ f(i) = n
      BY <1>6, <1>7, <1>12, <2>1, <3>1
    <3> QED BY <2>2, <3>1
  <2> QED BY <2>1, <2>3, <2>4 DEF OneAt
<1> QED BY <1>4, <1>5, <1>8, <1>10, <1>11, <1>12

(* Taking event k off the list leaves the events of other sources.         *)
LEMMA RemoveKeeps ==
  ASSUME NEW p \in Seq(Event), NEW t \in Nat, InTime(p, t), NEW k \in 1 .. Len(p)
  PROVE  /\ RemoveAt(p, k) \in Seq(Event)
         /\ InTime(RemoveAt(p, k), t)
         /\ \A w : OneAt(p, p[k].src, w) => None(RemoveAt(p, k), p[k].src)
         /\ \A s : None(p, s) => None(RemoveAt(p, k), s)
         /\ \A s, w : s # p[k].src /\ OneAt(p, s, w) => OneAt(RemoveAt(p, k), s, w)
<1> DEFINE q == RemoveAt(p, k)
<1>0. Len(p) \in Nat /\ \A i \in 1 .. Len(p) : p[i] \in Event
  BY LenProperties, ElementOfSeq
<1>1. Len(p) \in Nat /\ \A i \in 1 .. Len(p) : p[i].when \in Nat
  BY <1>0 DEF Event
<1>2. /\ q \in Seq(Event) /\ Len(q) = Len(p) - 1
      /\ \A i \in 1 .. Len(p) - 1 : q[i] = IF i < k THEN p[i] ELSE p[i + 1]
  BY RemoveAtProperties
<1> DEFINE f(i) == IF i < k THEN i ELSE i + 1
<1> HIDE DEF q
<1>3. \A i \in 1 .. Len(q) : /\ f(i) \in (1 .. Len(p)) \ {k} /\ q[i] = p[f(i)]
                             /\ \A j \in 1 .. Len(q) : i < j => f(i) < f(j)
  BY <1>1, <1>2
<1>4. InTime(q, t)
  <2> HIDE DEF f
  <2> QED BY <1>3 DEF InTime
<1>5. ASSUME NEW w, OneAt(p, p[k].src, w) PROVE None(q, p[k].src)
  BY <1>3, <1>5 DEF OneAt, None
<1>6. ASSUME NEW s, None(p, s) PROVE None(q, s)
  BY <1>3, <1>6 DEF None
<1>7. ASSUME NEW s, NEW w, s # p[k].src, OneAt(p, s, w) PROVE OneAt(q, s, w)
  <2>1. PICK n \in 1 .. Len(p) :
          /\ p[n].src = s /\ p[n].when = w
          /\ \A i \in 1 .. Len(p) : p[i].src = s => i = n
    BY <1>7 DEF OneAt
  <2>2. n # k
    BY <1>7, <2>1
  <2>3. PICK m \in 1 .. Len(q) : f(m) = n
    <3>1. CASE n < k
      BY <1>1, <1>2, <3>1
    <3>2. CASE ~ (n < k)
      <4>1. n - 1 \in 1 .. Len(q) /\ f(n - 1) = n
        BY <1>1, <1>2, <2>2, <3>2
      <4> QED BY <4>1
    <3> QED BY <3>1, <3>2
  <2>4. q[m] = p[n]
    BY <1>3, <2>3
  <2>5. \A i \in 1 .. Len(q) : q[i].src = s => i = m
    <3>1. \A i \in 1 .. Len(q) : q[i].src = s => f(i) = n
      BY <1>3, <2>1
    <3> QED BY <1>1, <1>2, <2>3, <3>1
  <2> QED BY <2>1, <2>4, <2>5 DEF OneAt
<1> HIDE DEF f
<1> QED BY <1>2, <1>4, <1>5, <1>6, <1>7 DEF q

(* Dispatching takes the first event off the list; nothing is due before   *)
(* its time then.                                                          *)
LEMMA DispatchKeeps ==
  ASSUME NEW p \in Seq(Event), p # <<>>, NEW t \in Nat, InTime(p, t)
  PROVE  /\ Head(p) \in Event /\ NextEventTime(p) \in Nat /\ NextEventTime(p) >= t
         /\ Tail(p) \in Seq(Event)
         /\ InTime(Tail(p), NextEventTime(p))
         /\ ~ None(p, Head(p).src)
         /\ \A w : OneAt(p, Head(p).src, w) =>
                     w = NextEventTime(p) /\ None(Tail(p), Head(p).src)
         /\ \A s : None(p, s) => None(Tail(p), s)
         /\ \A s, w : s # Head(p).src /\ OneAt(p, s, w) => OneAt(Tail(p), s, w)
<1>1. 1 \in 1 .. Len(p) /\ Head(p) = p[1] /\ Len(p) \in Nat
  BY EmptySeq, LenProperties
<1>2. Head(p) \in Event
  BY <1>1, ElementOfSeq
<1>3. NextEventTime(p) = p[1].when /\ p[1].when \in Nat /\ p[1].when >= t
  BY <1>1, <1>2 DEF NextEventTime, Event, InTime
<1>4. Tail(p) = RemoveAt(p, 1)
  <2>1. /\ Tail(p) \in Seq(Event) /\ Len(Tail(p)) = Len(p) - 1
        /\ \A i \in 1 .. Len(Tail(p)) : Tail(p)[i] = p[i + 1]
    BY HeadTailProperties
  <2>2. /\ RemoveAt(p, 1) \in Seq(Event) /\ Len(RemoveAt(p, 1)) = Len(p) - 1
        /\ \A i \in 1 .. Len(p) - 1 : RemoveAt(p, 1)[i] = IF i < 1 THEN p[i] ELSE p[i + 1]
    BY <1>1, RemoveAtProperties
  <2>3. \A i \in 1 .. Len(Tail(p)) : Tail(p)[i] = RemoveAt(p, 1)[i]
    BY <1>1, <2>1, <2>2
  <2> QED BY <2>1, <2>2, <2>3, SeqEqual
<1>5. /\ Tail(p) \in Seq(Event)
      /\ \A w : OneAt(p, Head(p).src, w) => None(Tail(p), Head(p).src)
      /\ \A s : None(p, s) => None(Tail(p), s)
      /\ \A s, w : s # Head(p).src /\ OneAt(p, s, w) => OneAt(Tail(p), s, w)
  BY <1>1, <1>4, RemoveKeeps
<1>6. InTime(Tail(p), p[1].when)
  <2>1. InTime(p, p[1].when)
    <3>1. \A i \in 1 .. Len(p) : p[i].when >= p[1].when
      BY <1>1, <1>3, ElementOfSeq DEF InTime, Event
    <3> QED BY <3>1 DEF InTime
  <2> QED BY <1>1, <1>3, <1>4, <2>1, RemoveKeeps
<1>7. ~ None(p, Head(p).src)
  BY <1>1 DEF None
<1>8. \A w : OneAt(p, Head(p).src, w) => w = p[1].when
  BY <1>1 DEF OneAt
<1> QED BY <1>2, <1>3, <1>5, <1>6, <1>7, <1>8

(* cancelPendingSource() of a source that has one event, or none.          *)
LEMMA CancelKeeps ==
  ASSUME NEW p \in Seq(Event), NEW t \in Nat, InTime(p, t), NEW s,
         None(p, s) \/ \E w : OneAt(p, s, w)
  PROVE  /\ Cancel(p, s) \in Seq(Event)
         /\ InTime(Cancel(p, s), t)
         /\ None(Cancel(p, s), s)
         /\ \A r : None(p, r) => None(Cancel(p, s), r)
         /\ \A r, w : r # s /\ OneAt(p, r, w) => OneAt(Cancel(p, s), r, w)
<1>1. DOMAIN p = 1 .. Len(p) /\ Len(p) \in Nat
  BY LenProperties
<1>2. CASE EntriesOf(p, s) = {}
  BY <1>1, <1>2 DEF EntriesOf, Cancel, None
<1>3. CASE EntriesOf(p, s) # {}
  <2>1. EntriesOf(p, s) \in SUBSET (1 .. Len(p)) /\ EntriesOf(p, s) \in SUBSET Nat
    BY <1>1 DEF EntriesOf
  <2>2. PICK k \in 1 .. Len(p) : k = Min(EntriesOf(p, s)) /\ k \in EntriesOf(p, s)
    BY <1>3, <2>1, MinProperties
  <2>3. p[k].src = s
    BY <2>2 DEF EntriesOf
  <2>4. PICK w : OneAt(p, s, w)
    BY <2>3 DEF None
  <2>5. Cancel(p, s) = RemoveAt(p, k)
    BY <1>3, <2>2 DEF Cancel
  <2> QED BY <2>3, <2>4, <2>5, RemoveKeeps
<1> QED BY <1>2, <1>3

(* sourceIsPending() of a source that has no event: the assert fails, or   *)
(* the source has one event then.                                          *)
LEMMA BookingKeeps ==
  ASSUME NEW p \in Seq(Event), now' \in Nat, InTime(p, now'),
         NEW s \in {"queue", "pipe"}, NEW w \in Nat, None(p, s),
         SourceIsPending(p, s, w)
  PROVE  /\ pending' \in Seq(Event) /\ aborted' \in BOOLEAN
         /\ w >= now' => ~ aborted'
         /\ ~ aborted' =>
              /\ InTime(pending', now')
              /\ OneAt(pending', s, w)
              /\ \A r : r # s /\ None(p, r) => None(pending', r)
              /\ \A r, v : r # s /\ OneAt(p, r, v) => OneAt(pending', r, v)
<1> DEFINE e == [when |-> w, src |-> s]
<1>1. e \in Event /\ e.when = w /\ e.src = s
  BY DEF Event
<1>2. aborted' = (w < now') /\ pending' = IF w < now' THEN p ELSE Insert(p, e)
  BY DEF SourceIsPending
<1> HIDE DEF e
<1>3. CASE w < now'
  <2>1. aborted' = TRUE
    <3>1. (w < now') = TRUE
      BY <1>3
    <3> QED BY <1>2, <3>1, Zenon
  <2>2. pending' = p /\ ~ (w >= now')
    BY <1>2, <1>3
  <2> QED BY <2>1, <2>2
<1>4. CASE ~ (w < now')
  <2>a. aborted' = FALSE
    <3>1. (w < now') = FALSE
      BY <1>4
    <3> QED BY <1>2, <3>1, Zenon
  <2>b. pending' = Insert(p, e)
    BY <1>2, <1>4
  <2>1. e.when >= now' /\ w >= now'
    BY <1>1, <1>4
  <2>2. /\ Insert(p, e) \in Seq(Event)
        /\ InTime(Insert(p, e), now')
        /\ None(p, e.src) => OneAt(Insert(p, e), e.src, e.when)
        /\ \A r : r # e.src /\ None(p, r) => None(Insert(p, e), r)
        /\ \A r, v : r # e.src /\ OneAt(p, r, v) => OneAt(Insert(p, e), r, v)
    BY <1>1, <2>1, InsertKeeps
  <2> QED BY <1>1, <2>a, <2>b, <2>2
<1> QED BY <1>3, <1>4

-----------------------------------------------------------------------------
(* The recursive function of Bytes sums the sizes up. *)
LEMMA BytesIsSum ==
  ASSUME NEW q \in Seq(Packet), NEW total, Summed(q, total)
  PROVE  total = Bytes(q) /\ total \in Nat
<1>1. total = TotalSize(q) /\ total \in Nat
  BY SummedIsTotal
<1> QED BY <1>1 DEF Bytes, TotalSize

-----------------------------------------------------------------------------
Flight == [at : Nat, pkt : Packet, light : 1 .. MaxLight]

(* The packets that have left are of lower number than those in flight,    *)
(* these of lower number than those queued, and all were sent.             *)
Ordered ==
  /\ \A i, j \in 1 .. Len(arrived) : i < j => arrived[i] < arrived[j]
  /\ \A i, j \in 1 .. Len(inflight) : i < j => inflight[i].pkt.id < inflight[j].pkt.id
  /\ \A i, j \in 1 .. Len(enqueued) : i < j => enqueued[i].id < enqueued[j].id
  /\ \A i \in 1 .. Len(arrived), j \in 1 .. Len(inflight) : arrived[i] < inflight[j].pkt.id
  /\ \A i \in 1 .. Len(arrived), j \in 1 .. Len(enqueued) : arrived[i] < enqueued[j].id
  /\ \A i \in 1 .. Len(inflight), j \in 1 .. Len(enqueued) :
       inflight[i].pkt.id < enqueued[j].id
  /\ \A i \in 1 .. Len(arrived) : arrived[i] <= sent
  /\ \A i \in 1 .. Len(inflight) : inflight[i].pkt.id <= sent
  /\ \A i \in 1 .. Len(enqueued) : enqueued[i].id <= sent

(* The events that are booked are in time, and are those of the queue and  *)
(* of the pipe.                                                            *)
QueueBooked ==
  IF enqueued = <<>> THEN None(pending, "queue")
                     ELSE \E w \in Nat : OneAt(pending, "queue", w)
PipeBooked ==
  IF inflight = <<>> THEN None(pending, "pipe")
                     ELSE OneAt(pending, "pipe", inflight[1].at)
Booked == InTime(pending, now) /\ QueueBooked /\ PipeBooked

(* The packets in flight arrive in turn, none later than one that would    *)
(* leave now: nodes move slower than light.                                *)
InTurn ==
  /\ \A i, j \in 1 .. Len(inflight) : i < j => inflight[i].at <= inflight[j].at
  /\ \A i \in 1 .. Len(inflight) : inflight[i].at <= now + light

(* The packet in service is served for as long as it takes from when it    *)
(* came, or longer, and what is in flight flies for the whole distance.    *)
ServedInTime ==
  enqueued # <<>> =>
    \E w \in Nat : /\ OneAt(pending, "queue", w)
                  /\ w >= enqueued[1].in + enqueued[1].service
Stamped ==
  /\ \A i \in 1 .. Len(enqueued) :
       /\ enqueued[i].in <= now
       /\ enqueued[i].service = enqueued[i].size * psperbyte
  /\ \A i \in 1 .. Len(inflight) :
       inflight[i].at >= inflight[i].pkt.in + inflight[i].pkt.service + inflight[i].light
Timely == ServedInTime /\ Stamped

IInv ==
  /\ TypeOK
  /\ Summed(enqueued, queuesize)
  /\ Ordered
  /\ Running => Booked
  /\ ~ reuse => Running /\ InTurn /\ Timely

(* What the types say of the elements, and of the times to come.           *)
LEMMA Elements ==
  ASSUME TypeOK
  PROVE  /\ pending \in Seq(Event) /\ enqueued \in Seq(Packet) /\ inflight \in Seq(Flight)
         /\ arrived \in Seq(1 .. MaxPackets)
         /\ Len(enqueued) \in Nat /\ Len(inflight) \in Nat /\ Len(arrived) \in Nat
         /\ now \in Nat /\ light \in Nat /\ sent \in Nat /\ psperbyte \in Nat
         /\ \A i \in 1 .. Len(arrived) : arrived[i] \in Nat
         /\ \A i \in 1 .. Len(enqueued) :
              /\ enqueued[i] \in Packet /\ enqueued[i].id \in Nat
              /\ enqueued[i].in \in Nat /\ enqueued[i].service \in Nat
              /\ enqueued[i].size \in Nat /\ enqueued[i].size * psperbyte \in Nat
         /\ \A i \in 1 .. Len(inflight) :
              /\ inflight[i] \in Flight /\ inflight[i].at \in Nat
              /\ inflight[i].pkt.id \in Nat /\ inflight[i].pkt.in \in Nat
              /\ inflight[i].pkt.service \in Nat /\ inflight[i].light \in Nat
<1>1. /\ pending \in Seq(Event) /\ enqueued \in Seq(Packet) /\ inflight \in Seq(Flight)
      /\ arrived \in Seq(1 .. MaxPackets)
  BY DEF TypeOK, Event, Flight
<1>2. /\ Len(enqueued) \in Nat /\ Len(inflight) \in Nat /\ Len(arrived) \in Nat
      /\ \A i \in 1 .. Len(arrived) : arrived[i] \in 1 .. MaxPackets
      /\ \A i \in 1 .. Len(enqueued) : enqueued[i] \in Packet
      /\ \A i \in 1 .. Len(inflight) : inflight[i] \in Flight
  BY <1>1, LenProperties, ElementOfSeq
<1>3. now \in Nat /\ light \in Nat /\ sent \in Nat /\ psperbyte \in Nat
  BY IslLinkAssumption DEF TypeOK
<1>4. \A k \in Packet : /\ k.id \in Nat /\ k.size \in Nat
                       /\ k.in \in Nat /\ k.service \in Nat
  <2>1. \A k \in Packet : /\ k.id \in 1 .. MaxPackets /\ k.size \in Sizes
                         /\ k.in \in Nat /\ k.service \in Nat
    BY DEF Packet
  <2>2. \A i \in 1 .. MaxPackets : i \in Nat
    OBVIOUS
  <2>3. \A s \in Sizes : s \in Nat
    BY IslLinkAssumption
  <2> QED BY <2>1, <2>2, <2>3
<1>5. \A f \in Flight : f.at \in Nat /\ f.pkt \in Packet /\ f.light \in Nat
  <2>1. \A f \in Flight : f.at \in Nat /\ f.pkt \in Packet /\ f.light \in 1 .. MaxLight
    BY DEF Flight
  <2>2. \A l \in 1 .. MaxLight : l \in Nat
    OBVIOUS
  <2> QED BY <2>1, <2>2
<1>6. \A a, b \in Nat : a * b \in Nat
  OBVIOUS
<1>7. \A i \in 1 .. MaxPackets : i \in Nat
  OBVIOUS
<1> QED BY <1>1, <1>2, <1>3, <1>4, <1>5, <1>6, <1>7

LEMMA InitGood == Init => IInv
<1> SUFFICES ASSUME Init PROVE IInv
  OBVIOUS
<1>1. Len(<<>>) = 0 /\ \A S : <<>> \in Seq(S)
  OBVIOUS
<1>2. TypeOK
  <2>1. /\ pending \in Seq([when : Nat, src : {"queue", "pipe"}])
        /\ enqueued \in Seq(Packet)
        /\ inflight \in Seq([at : Nat, pkt : Packet, light : 1 .. MaxLight])
        /\ arrived \in Seq(1 .. MaxPackets)
    BY <1>1 DEF Init
  <2>2. now \in Nat /\ queuesize \in Nat /\ sent \in 0 .. MaxPackets
    BY IslLinkAssumption DEF Init
  <2>3. active \in BOOLEAN /\ aborted \in BOOLEAN
    BY DEF Init
  <2> QED BY <2>1, <2>2, <2>3 DEF Init, TypeOK
<1>3. Ordered /\ Booked /\ InTurn /\ Timely
  BY <1>1 DEF Init, Ordered, Booked, QueueBooked, PipeBooked, InTurn, InTime, None,
     Timely, ServedInTime, Stamped
<1>4. Summed(enqueued, queuesize)
  BY SummedEmpty DEF Init
<1> QED BY <1>2, <1>3, <1>4 DEF Init, IInv, Running

(* drop_link() and drop_all(). *)
LEMMA GoingDownKeeps ==
  ASSUME IInv, GoingDown PROVE IInv'
<1>1. /\ TypeOK /\ Ordered /\ Booked /\ ~ aborted
      /\ ~ reuse => InTurn /\ Timely
  BY DEF IInv, GoingDown, Running
<1>2. /\ enqueued' = <<>> /\ Len(<<>>) = 0 /\ queuesize' = 0 /\ active' = FALSE
      /\ pending' = Cancel(pending, "queue")
      /\ UNCHANGED <<reuse, now, maxsize, psperbyte, inflight, light, sent, arrived,
                     aborted>>
  BY DEF GoingDown, DropAll, NothingIsPending
<1>3. /\ pending \in Seq(Event) /\ now \in Nat /\ InTime(pending, now)
      /\ None(pending, "queue") \/ \E w : OneAt(pending, "queue", w)
  BY <1>1 DEF TypeOK, Event, Booked, QueueBooked
<1>4. /\ pending' \in Seq(Event)
      /\ InTime(pending', now)
      /\ None(pending', "queue")
      /\ None(pending, "pipe") => None(pending', "pipe")
      /\ \A w : OneAt(pending, "pipe", w) => OneAt(pending', "pipe", w)
  BY <1>2, <1>3, CancelKeeps
<1>5. TypeOK'
  <2>1. enqueued' \in Seq(Packet) /\ queuesize' \in Nat /\ active' \in BOOLEAN
    <3>1. <<>> \in Seq(Packet)
      OBVIOUS
    <3> QED BY <1>2, <3>1
  <2>2. pending' \in Seq([when : Nat, src : {"queue", "pipe"}])
    BY <1>4 DEF Event
  <2> QED BY <1>1, <1>2, <2>1, <2>2 DEF TypeOK
<1>6. Ordered'
  BY <1>1, <1>2 DEF Ordered
<1>7. Booked'
  BY <1>1, <1>2, <1>4 DEF Booked, QueueBooked, PipeBooked
<1>8. ~ reuse => InTurn'
  BY <1>1, <1>2 DEF InTurn
<1>9. Summed(enqueued', queuesize')
  BY <1>2, SummedEmpty
<1>10. ~ reuse => Timely'
  BY <1>1, <1>2 DEF Timely, ServedInTime, Stamped
<1> QED BY <1>1, <1>2, <1>5, <1>6, <1>7, <1>8, <1>9, <1>10 DEF IInv, Running

(* activate_link() of a link that was dropped. *)
LEMMA ReassignKeeps ==
  ASSUME IInv, NEW b \in BufSizes, NEW r \in Rates, NEW l \in 1 .. MaxLight,
         Reassign(b, r, l)
  PROVE  IInv'
<1>1. TypeOK /\ Summed(enqueued, queuesize) /\ Ordered /\ Booked /\ ~ aborted
  BY DEF IInv, Reassign, Running
<1>2. /\ reuse /\ active' = TRUE /\ maxsize' = b /\ psperbyte' = r /\ light' = l
      /\ UNCHANGED <<reuse, now, pending, enqueued, queuesize, inflight, sent, arrived,
                     aborted>>
  BY DEF Reassign
<1>3. TypeOK'
  BY <1>1, <1>2 DEF TypeOK
<1>4. Ordered' /\ Booked'
  BY <1>1, <1>2 DEF Ordered, Booked, QueueBooked, PipeBooked
<1> QED BY <1>1, <1>2, <1>3, <1>4 DEF IInv, Running

(* Time passes up to the link's next event. *)
LEMMA OtherEventKeeps ==
  ASSUME IInv, NEW t \in now + 1 .. MaxTime, NEW l \in 1 .. MaxLight, OtherEvent(t, l)
  PROVE  IInv'
<1>1. /\ TypeOK /\ Summed(enqueued, queuesize) /\ Ordered /\ Booked /\ ~ aborted
      /\ ~ reuse => InTurn /\ Timely
  BY DEF IInv, OtherEvent, Running
<1>2. /\ pending # <<>> => t <= NextEventTime(pending)
      /\ t - now > light - l
      /\ now' = t /\ light' = l
      /\ UNCHANGED <<reuse, pending, enqueued, queuesize, maxsize, psperbyte, inflight,
                     active, sent, arrived, aborted>>
  BY DEF OtherEvent, queueVars
<1>3. /\ now \in Nat /\ light \in Nat /\ l \in Nat /\ t \in Nat /\ t > now
      /\ pending \in Seq(Event) /\ inflight \in Seq(Flight)
  BY <1>1, IslLinkAssumption DEF TypeOK, Event, Flight
<1>4. TypeOK'
  BY <1>1, <1>2, <1>3 DEF TypeOK
<1>5. Ordered'
  BY <1>1, <1>2 DEF Ordered
<1>6. InTime(pending, t)
  <2>1. CASE pending = <<>>
    BY <1>1, <2>1 DEF Booked, InTime
  <2>2. CASE pending # <<>>
    <3>1. /\ 1 \in 1 .. Len(pending) /\ Head(pending) = pending[1]
          /\ \A i \in 1 .. Len(pending) : pending[i] \in Event
      BY <1>3, <2>2, EmptySeq, LenProperties, ElementOfSeq
    <3>2. t <= pending[1].when
      BY <1>2, <2>2, <3>1 DEF NextEventTime
    <3>3. \A i \in 1 .. Len(pending) : pending[i].when \in Nat
      BY <3>1 DEF Event
    <3>4. InTime(pending, now)
      BY <1>1 DEF Booked
    <3>5. \A i \in 1 .. Len(pending) : i = 1 \/ 1 < i
      BY <1>3, LenProperties
    <3>6. \A i \in 1 .. Len(pending) : pending[1].when <= pending[i].when
      BY <3>1, <3>3, <3>4, <3>5 DEF InTime
    <3>7. \A i \in 1 .. Len(pending) : pending[i].when >= t
      BY <1>3, <3>1, <3>2, <3>3, <3>6
    <3> QED BY <3>4, <3>7 DEF InTime
  <2> QED BY <2>1, <2>2
<1>7. Booked'
  BY <1>1, <1>2, <1>6 DEF Booked, QueueBooked, PipeBooked
<1>8. ~ reuse => InTurn'
  <2> SUFFICES ASSUME ~ reuse PROVE InTurn'
    OBVIOUS
  <2>0. \A i \in 1 .. Len(inflight) : inflight[i] \in Flight
    BY <1>3, ElementOfSeq
  <2>1. \A i \in 1 .. Len(inflight) : inflight[i].at \in Nat
    BY <2>0 DEF Flight
  <2>2. now + light <= t + l
    BY <1>2, <1>3
  <2>3. \A i \in 1 .. Len(inflight) : inflight[i].at <= t + l
    BY <1>1, <1>3, <2>1, <2>2 DEF InTurn
  <2> QED BY <1>1, <1>2, <2>3 DEF InTurn
<1>9. ~ reuse => Timely'
  <2> SUFFICES ASSUME ~ reuse PROVE Timely'
    OBVIOUS
  <2>1. ServedInTime'
    BY <1>1, <1>2 DEF Timely, ServedInTime
  <2>2. \A i \in 1 .. Len(enqueued) : enqueued[i].in \in Nat /\ enqueued[i].in <= now
    BY <1>1, Elements DEF Timely, Stamped
  <2>3. \A i \in 1 .. Len(enqueued) : enqueued[i].in <= t
    BY <1>3, <2>2
  <2> QED BY <1>1, <1>2, <2>1, <2>3 DEF Timely, Stamped
<1> QED BY <1>1, <1>2, <1>4, <1>5, <1>7, <1>8, <1>9 DEF IInv, Running

(* A packet comes in, is dropped or is queued behind the others. *)
LEMMA ReceiveKeeps ==
  ASSUME IInv, NEW size \in Sizes, ReceivePacket(size) PROVE IInv'
<1> DEFINE pkt == [id |-> sent + 1, size |-> size, in |-> now, service |-> size * psperbyte]
<1>1. /\ TypeOK /\ Summed(enqueued, queuesize) /\ Ordered /\ Booked /\ ~ aborted
      /\ ~ reuse => InTurn /\ Timely
  BY DEF IInv, ReceivePacket, Running
<1>2. /\ sent < MaxPackets /\ sent' = sent + 1
      /\ UNCHANGED <<now, reuse, maxsize, psperbyte, inflight, light, active, arrived>>
  BY DEF ReceivePacket
<1>3. size \in Nat /\ psperbyte \in Nat /\ size * psperbyte \in Nat
  BY <1>1, IslLinkAssumption, Elements
<1>4. /\ pkt \in Packet /\ pkt.id = sent + 1 /\ pkt.size = size
      /\ pkt.in = now /\ pkt.service = size * psperbyte
  BY <1>1, <1>2, <1>3, IslLinkAssumption DEF Packet, TypeOK
<1>5. sent' \in 0 .. MaxPackets /\ sent \in Nat
  BY <1>1, <1>2, IslLinkAssumption DEF TypeOK
<1>6. \/ /\ enqueued' = Append(enqueued, pkt)
         /\ queuesize' = queuesize + size
         /\ \/ enqueued = <<>> /\ BeginService(pending, enqueued')
            \/ enqueued # <<>> /\ pending' = pending /\ aborted' = aborted
      \/ enqueued' = enqueued /\ queuesize' = queuesize /\ pending' = pending
         /\ aborted' = aborted
  BY DEF ReceivePacket, Enqueue, Count, IdleQueue, NothingIsPending
<1> HIDE DEF pkt
<1>7. CASE enqueued' = enqueued /\ queuesize' = queuesize /\ pending' = pending
           /\ aborted' = aborted
  <2>1. TypeOK'
    BY <1>1, <1>2, <1>5, <1>7 DEF TypeOK
  <2>2. Ordered'
    <3>1. \A n \in Nat : n <= sent => n <= sent'
      BY <1>2, <1>5
    <3>2. /\ \A i \in 1 .. Len(arrived) : arrived[i] <= sent'
          /\ \A i \in 1 .. Len(inflight) : inflight[i].pkt.id <= sent'
          /\ \A i \in 1 .. Len(enqueued) : enqueued[i].id <= sent'
      BY <1>1, <3>1, Elements DEF Ordered
    <3> QED BY <1>1, <1>2, <1>7, <3>2 DEF Ordered
  <2>3. Booked' /\ (~ reuse => InTurn' /\ Timely')
    BY <1>1, <1>2, <1>7 DEF Booked, QueueBooked, PipeBooked, InTurn,
       Timely, ServedInTime, Stamped
  <2> QED BY <1>1, <1>2, <1>7, <2>1, <2>2, <2>3 DEF IInv, Running
<1>8. CASE /\ enqueued' = Append(enqueued, pkt)
           /\ queuesize' = queuesize + size
           /\ \/ enqueued = <<>> /\ BeginService(pending, enqueued')
              \/ enqueued # <<>> /\ pending' = pending /\ aborted' = aborted
  <2>1. /\ enqueued' \in Seq(Packet) /\ enqueued' # <<>>
        /\ Len(enqueued') = Len(enqueued) + 1
        /\ \A i \in 1 .. Len(enqueued) : enqueued'[i] = enqueued[i]
        /\ enqueued'[Len(enqueued) + 1] = pkt
    BY <1>1, <1>4, <1>8, Elements, AppendProperties
  <2>2. /\ pending' \in Seq(Event) /\ aborted' \in BOOLEAN
        /\ ~ aborted' => Booked'
        /\ ~ reuse => ~ aborted' /\ ServedInTime'
    <3>1. CASE enqueued = <<>> /\ BeginService(pending, enqueued')
      <4>1. enqueued'[1] = pkt
        BY <2>1, <3>1
      <4>2. PICK w \in Nat : /\ w >= now' /\ SourceIsPending(pending, "queue", w)
                            /\ w >= pkt.in + pkt.service
        <5>1. SourceIsPending(pending, "queue", now' + size * psperbyte)
          BY <1>4, <3>1, <4>1 DEF BeginService
        <5>2. now' + size * psperbyte \in Nat /\ now' + size * psperbyte >= now'
          BY <1>1, <1>2, <1>3, Elements
        <5>3. now' + size * psperbyte >= pkt.in + pkt.service
          BY <1>2, <1>4, <5>2
        <5> QED BY <5>1, <5>2, <5>3
      <4>3. /\ pending \in Seq(Event) /\ now' \in Nat /\ InTime(pending, now')
            /\ None(pending, "queue")
        BY <1>1, <1>2, <3>1, Elements DEF Booked, QueueBooked
      <4>4. /\ pending' \in Seq(Event) /\ aborted' \in BOOLEAN /\ ~ aborted'
            /\ InTime(pending', now') /\ OneAt(pending', "queue", w)
            /\ None(pending, "pipe") => None(pending', "pipe")
            /\ \A v : OneAt(pending, "pipe", v) => OneAt(pending', "pipe", v)
        BY <4>2, <4>3, BookingKeeps
      <4>5. ServedInTime'
        BY <4>1, <4>2, <4>4 DEF ServedInTime
      <4> QED BY <1>1, <1>2, <2>1, <4>4, <4>5 DEF Booked, QueueBooked, PipeBooked
    <3>2. CASE enqueued # <<>> /\ pending' = pending /\ aborted' = aborted
      <4>1. Booked'
        BY <1>1, <1>2, <2>1, <3>2 DEF Booked, QueueBooked, PipeBooked
      <4>2. aborted \in BOOLEAN
        BY <1>1 DEF TypeOK
      <4>3. ~ reuse => ServedInTime'
        <5>1. enqueued'[1] = enqueued[1]
          <6>1. Len(enqueued) \in Nat /\ Len(enqueued) # 0
            BY <1>1, <3>2, Elements, EmptySeq
          <6> QED BY <2>1, <6>1
        <5> QED BY <1>1, <3>2, <5>1 DEF Timely, ServedInTime
      <4>4. pending \in Seq(Event)
        BY <1>1, Elements
      <4> QED BY <1>1, <3>2, <4>1, <4>2, <4>3, <4>4
    <3> QED BY <1>8, <3>1, <3>2
  <2>3. TypeOK'
    <3>1. queuesize' \in Nat
      BY <1>1, <1>3, <1>8 DEF TypeOK
    <3> QED BY <1>1, <1>2, <1>5, <2>1, <2>2, <3>1 DEF TypeOK, Event
  <2>4. Ordered'
    <3>1. \A i \in 1 .. Len(enqueued') :
            \/ /\ i \in 1 .. Len(enqueued) /\ enqueued'[i] = enqueued[i]
               /\ enqueued[i].id \in Nat /\ enqueued[i].id <= sent
            \/ i = Len(enqueued) + 1 /\ enqueued'[i].id = sent + 1
      <4>1. \A i \in 1 .. Len(enqueued') :
              i \in 1 .. Len(enqueued) \/ i = Len(enqueued) + 1
        BY <1>1, <2>1, Elements
      <4>2. \A i \in 1 .. Len(enqueued) :
              enqueued[i].id \in Nat /\ enqueued[i].id <= sent
        BY <1>1, Elements DEF Ordered
      <4> QED BY <1>4, <2>1, <4>1, <4>2
    <3>2. ASSUME NEW i \in 1 .. Len(enqueued'), NEW j \in 1 .. Len(enqueued'), i < j
          PROVE  enqueued'[i].id < enqueued'[j].id
      <4>1. Len(enqueued) \in Nat /\ Len(enqueued') = Len(enqueued) + 1
        BY <1>1, <2>1, Elements
      <4>2. i \in 1 .. Len(enqueued)
        BY <3>2, <4>1
      <4>3. CASE j \in 1 .. Len(enqueued) /\ enqueued'[j] = enqueued[j]
        BY <1>1, <2>1, <3>2, <4>2, <4>3 DEF Ordered
      <4>4. CASE enqueued'[j].id = sent + 1
        <5>1. enqueued'[i].id \in Nat /\ enqueued'[i].id <= sent
          BY <3>1, <4>1, <4>2
        <5> QED BY <1>5, <4>4, <5>1
      <4> QED BY <3>1, <4>3, <4>4
    <3>3. ASSUME NEW i \in 1 .. Len(arrived), NEW j \in 1 .. Len(enqueued')
          PROVE  arrived[i] < enqueued'[j].id
      <4>1. arrived[i] \in Nat /\ arrived[i] <= sent
        BY <1>1, Elements DEF Ordered
      <4>2. CASE j \in 1 .. Len(enqueued) /\ enqueued'[j] = enqueued[j]
        BY <1>1, <4>2 DEF Ordered
      <4>3. CASE enqueued'[j].id = sent + 1
        BY <1>5, <4>1, <4>3
      <4> QED BY <3>1, <4>2, <4>3
    <3>4. ASSUME NEW i \in 1 .. Len(inflight), NEW j \in 1 .. Len(enqueued')
          PROVE  inflight[i].pkt.id < enqueued'[j].id
      <4>1. inflight[i].pkt.id \in Nat /\ inflight[i].pkt.id <= sent
        BY <1>1, Elements DEF Ordered
      <4>2. CASE j \in 1 .. Len(enqueued) /\ enqueued'[j] = enqueued[j]
        BY <1>1, <4>2 DEF Ordered
      <4>3. CASE enqueued'[j].id = sent + 1
        BY <1>5, <4>1, <4>3
      <4> QED BY <3>1, <4>2, <4>3
    <3>5. \A i \in 1 .. Len(enqueued') : enqueued'[i].id <= sent'
      BY <1>2, <1>5, <3>1
    <3>6. /\ \A i \in 1 .. Len(arrived) : arrived[i] <= sent'
          /\ \A i \in 1 .. Len(inflight) : inflight[i].pkt.id <= sent'
      <4>1. \A n \in Nat : n <= sent => n <= sent'
        BY <1>2, <1>5
      <4> QED BY <1>1, <4>1, Elements DEF Ordered
    <3> QED BY <1>1, <1>2, <3>2, <3>3, <3>4, <3>5, <3>6 DEF Ordered
  <2>5. ~ reuse => InTurn'
    BY <1>1, <1>2 DEF InTurn
  <2>6. Summed(enqueued', queuesize')
    <3>1. enqueued \in Seq(Packet) /\ enqueued'[Len(enqueued) + 1].size = size
      BY <1>1, <1>4, <2>1, Elements
    <3>2. Summed(enqueued', queuesize + enqueued'[Len(enqueued) + 1].size)
      BY <1>1, <1>3, <2>1, <3>1, SummedAppend
    <3> QED BY <1>8, <3>1, <3>2
  <2>7. ~ reuse => Timely'
    <3>1. \A i \in 1 .. Len(enqueued') :
            i \in 1 .. Len(enqueued) \/ i = Len(enqueued) + 1
      BY <1>1, <2>1, Elements
    <3>2. ~ reuse => Stamped'
      <4> SUFFICES ASSUME ~ reuse PROVE Stamped'
        OBVIOUS
      <4>1. Stamped /\ now \in Nat
        BY <1>1, Elements DEF Timely
      <4>2. \A i \in 1 .. Len(enqueued) :
              /\ enqueued'[i].in <= now
              /\ enqueued'[i].service = enqueued'[i].size * psperbyte
        BY <2>1, <4>1 DEF Stamped
      <4>3. /\ enqueued'[Len(enqueued) + 1].in <= now
            /\ enqueued'[Len(enqueued) + 1].service
                 = enqueued'[Len(enqueued) + 1].size * psperbyte
        BY <1>4, <2>1, <4>1
      <4>4. \A i \in 1 .. Len(enqueued') :
              /\ enqueued'[i].in <= now
              /\ enqueued'[i].service = enqueued'[i].size * psperbyte
        BY <3>1, <4>2, <4>3
      <4> QED BY <1>2, <4>1, <4>4 DEF Stamped
    <3> QED BY <2>2, <3>2 DEF Timely
  <2> QED BY <1>2, <2>2, <2>3, <2>4, <2>5, <2>6, <2>7 DEF IInv, Running
<1> QED BY <1>6, <1>7, <1>8

(* The packet in service goes into flight behind the others, and the one   *)
(* behind it into service.                                                 *)
LEMMA CompleteKeeps ==
  ASSUME IInv, CompleteService PROVE IInv'
<1> DEFINE f == [at |-> now' + light, pkt |-> Head(enqueued), light |-> light]
           e == [when |-> now' + light, src |-> "pipe"]
           p == IF IdlePipe THEN Insert(Tail(pending), e) ELSE Tail(pending)
<1> HIDE DEF f, e, p
<1>1. /\ TypeOK /\ Summed(enqueued, queuesize) /\ Ordered /\ Booked /\ ~ aborted
      /\ ~ reuse => InTurn /\ Timely
  BY DEF IInv, CompleteService, Running
<1>2. /\ pending # <<>> /\ Head(pending).src = "queue" /\ now' = NextEventTime(pending)
      /\ UNCHANGED <<reuse, maxsize, psperbyte, light, active, sent, arrived>>
  BY DEF CompleteService
<1>3. /\ pending \in Seq(Event) /\ now \in Nat /\ InTime(pending, now) /\ light \in Nat
      /\ enqueued \in Seq(Packet) /\ inflight \in Seq(Flight)
      /\ Len(inflight) \in Nat /\ Len(enqueued) \in Nat
  BY <1>1, Elements DEF Booked
<1>4. /\ now' \in Nat /\ now' >= now
      /\ Tail(pending) \in Seq(Event) /\ InTime(Tail(pending), now')
      /\ ~ None(pending, "queue")
      /\ \A w : OneAt(pending, "queue", w) => w = now' /\ None(Tail(pending), "queue")
      /\ None(pending, "pipe") => None(Tail(pending), "pipe")
      /\ \A w : OneAt(pending, "pipe", w) => OneAt(Tail(pending), "pipe", w)
  <2>1. /\ NextEventTime(pending) \in Nat /\ NextEventTime(pending) >= now
        /\ Tail(pending) \in Seq(Event) /\ InTime(Tail(pending), NextEventTime(pending))
        /\ ~ None(pending, Head(pending).src)
        /\ \A w : OneAt(pending, Head(pending).src, w) =>
             w = NextEventTime(pending) /\ None(Tail(pending), Head(pending).src)
        /\ \A s : None(pending, s) => None(Tail(pending), s)
        /\ \A s, w : s # Head(pending).src /\ OneAt(pending, s, w) => OneAt(Tail(pending), s, w)
    BY <1>2, <1>3, DispatchKeeps
  <2> QED BY <1>2, <2>1
<1>5. enqueued # <<>> /\ None(Tail(pending), "queue")
  BY <1>1, <1>4 DEF Booked, QueueBooked
<1>6. /\ enqueued' = Tail(enqueued)
      /\ queuesize' = queuesize - Head(enqueued).size
      /\ inflight' = Append(inflight, f)
      /\ IF Len(enqueued) > 1 THEN BeginService(p, Tail(enqueued))
                              ELSE pending' = p /\ aborted' = aborted
  BY <1>5 DEF CompleteService, NothingIsPending, f, e, p
<1>7. /\ Head(enqueued) = enqueued[1] /\ 1 \in 1 .. Len(enqueued)
      /\ enqueued' \in Seq(Packet) /\ Len(enqueued') = Len(enqueued) - 1
      /\ \A i \in 1 .. Len(enqueued') :
           i + 1 \in 1 .. Len(enqueued) /\ enqueued'[i] = enqueued[i + 1]
  <2>1. /\ Tail(enqueued) \in Seq(Packet) /\ Len(Tail(enqueued)) = Len(enqueued) - 1
        /\ \A i \in 1 .. Len(Tail(enqueued)) : Tail(enqueued)[i] = enqueued[i + 1]
    BY <1>3, <1>5, HeadTailProperties
  <2>2. Len(enqueued) # 0 /\ Head(enqueued) = enqueued[1]
    BY <1>3, <1>5, EmptySeq
  <2> QED BY <1>3, <1>6, <2>1, <2>2
<1>8. /\ f \in Flight /\ f.at = now' + light /\ f.pkt = enqueued[1]
      /\ e \in Event /\ e.when = now' + light /\ e.src = "pipe" /\ e.when >= now'
  <2>1. enqueued[1] \in Packet /\ light \in 1 .. MaxLight
    BY <1>1, <1>7, Elements DEF TypeOK
  <2>2. now' + light \in Nat /\ now' + light >= now'
    <3>1. now' \in Nat /\ light \in Nat
      BY <1>3, <1>4
    <3>2. \A a, b \in Nat : a + b \in Nat /\ a + b >= a
      OBVIOUS
    <3> QED BY <3>1, <3>2
  <2>3. f \in Flight
    BY <1>7, <2>1, <2>2 DEF Flight, f
  <2>4. e \in Event
    BY <2>2 DEF Event, e
  <2> QED BY <1>7, <2>2, <2>3, <2>4 DEF f, e
<1>9. p \in {Insert(Tail(pending), e), Tail(pending)} /\ (inflight = <<>> => p = Insert(Tail(pending), e))
      /\ (inflight # <<>> => p = Tail(pending))
  BY DEF IdlePipe, p
<1>10. /\ inflight' \in Seq(Flight) /\ inflight' # <<>>
       /\ Len(inflight') = Len(inflight) + 1
       /\ \A i \in 1 .. Len(inflight) : inflight'[i] = inflight[i]
       /\ inflight'[Len(inflight) + 1] = f
  BY <1>3, <1>6, <1>8, AppendProperties
<1>11. /\ p \in Seq(Event) /\ InTime(p, now') /\ None(p, "queue")
       /\ OneAt(p, "pipe", inflight'[1].at)
  <2>1. CASE inflight = <<>>
    <3>1. None(Tail(pending), "pipe")
      BY <1>1, <1>4, <2>1 DEF Booked, PipeBooked
    <3>2. /\ Insert(Tail(pending), e) \in Seq(Event)
          /\ InTime(Insert(Tail(pending), e), now')
          /\ None(Insert(Tail(pending), e), "queue")
          /\ OneAt(Insert(Tail(pending), e), "pipe", now' + light)
      BY <1>4, <1>5, <1>8, <3>1, InsertKeeps
    <3>3. inflight'[1].at = now' + light
      BY <1>8, <1>10, <2>1
    <3> QED BY <1>9, <2>1, <3>2, <3>3
  <2>2. CASE inflight # <<>>
    <3>1. inflight'[1] = inflight[1]
      <4>1. Len(inflight) # 0
        BY <1>3, <2>2, EmptySeq
      <4> QED BY <1>3, <1>10, <4>1
    <3> QED BY <1>1, <1>4, <1>5, <1>9, <2>2, <3>1 DEF Booked, PipeBooked
  <2> QED BY <2>1, <2>2
<1>12. /\ pending' \in Seq(Event) /\ aborted' \in BOOLEAN /\ ~ aborted'
       /\ Booked'
       /\ ~ reuse => ServedInTime'
  <2>1. CASE Len(enqueued) > 1
    <3>1. 1 \in 1 .. Len(enqueued') /\ enqueued' # <<>> /\ enqueued'[1] = enqueued[2]
          /\ 2 \in 1 .. Len(enqueued)
      BY <1>3, <1>7, <2>1
    <3>2. enqueued[2].size * psperbyte \in Nat
      BY <1>1, <3>1, Elements
    <3>3. PICK w \in Nat : /\ w >= now' /\ SourceIsPending(p, "queue", w)
                          /\ w = now' + enqueued[2].size * psperbyte
      <4>1. SourceIsPending(p, "queue", now' + enqueued[2].size * psperbyte)
        BY <1>2, <1>6, <2>1, <3>1 DEF BeginService
      <4>2. /\ now' + enqueued[2].size * psperbyte \in Nat
            /\ now' + enqueued[2].size * psperbyte >= now'
        BY <1>4, <3>2
      <4> QED BY <4>1, <4>2
    <3>4. /\ pending' \in Seq(Event) /\ aborted' \in BOOLEAN /\ ~ aborted'
          /\ InTime(pending', now') /\ OneAt(pending', "queue", w)
          /\ OneAt(pending', "pipe", inflight'[1].at)
      BY <1>4, <1>11, <3>3, BookingKeeps
    <3>5. ~ reuse => w >= enqueued[2].in + enqueued[2].service
      <4> SUFFICES ASSUME ~ reuse PROVE w >= enqueued[2].in + enqueued[2].service
        OBVIOUS
      <4>1. /\ enqueued[2].in <= now /\ enqueued[2].in \in Nat
            /\ enqueued[2].service = enqueued[2].size * psperbyte
        BY <1>1, <3>1, Elements DEF Timely, Stamped
      <4>2. enqueued[2].in <= now'
        BY <1>3, <1>4, <4>1
      <4>3. \A a, b, c \in Nat : a <= b => b + c >= a + c
        OBVIOUS
      <4> QED BY <1>4, <3>2, <3>3, <4>1, <4>2, <4>3
    <3> QED BY <1>10, <3>1, <3>4, <3>5 DEF Booked, QueueBooked, PipeBooked, ServedInTime
  <2>2. CASE ~ (Len(enqueued) > 1)
    <3>1. enqueued' = <<>>
      BY <1>3, <1>7, <2>2, EmptySeq
    <3>2. pending' = p /\ aborted' = aborted /\ aborted \in BOOLEAN
      BY <1>1, <1>6, <2>2 DEF TypeOK
    <3> QED BY <1>1, <1>10, <1>11, <3>1, <3>2 DEF Booked, QueueBooked, PipeBooked,
               ServedInTime
  <2> QED BY <2>1, <2>2
<1>13. ~ reuse => InTurn'
  <2> SUFFICES ASSUME ~ reuse PROVE InTurn'
    OBVIOUS
  <2>1. \A i \in 1 .. Len(inflight) :
          /\ inflight[i].at \in Nat /\ inflight[i].at <= now' + light
          /\ inflight'[i] = inflight[i]
    <3>1. \A i \in 1 .. Len(inflight) :
            inflight[i].at \in Nat /\ inflight[i].at <= now + light
      BY <1>1, Elements DEF InTurn
    <3>2. \A a, b, c, d \in Nat : b <= c /\ a <= b + d => a <= c + d
      OBVIOUS
    <3>3. \A i \in 1 .. Len(inflight) : inflight[i].at <= now' + light
      BY <1>3, <1>4, <3>1, <3>2
    <3> QED BY <1>10, <3>1, <3>3
  <2>2. \A i \in 1 .. Len(inflight') : i \in 1 .. Len(inflight) \/ i = Len(inflight) + 1
    BY <1>3, <1>10
  <2>3. \A i \in 1 .. Len(inflight') : inflight'[i].at <= now' + light
    <3>1. now' + light \in Nat
      <4>1. now' \in Nat /\ light \in Nat
        BY <1>3, <1>4
      <4>2. \A a, b \in Nat : a + b \in Nat
        OBVIOUS
      <4> QED BY <4>1, <4>2
    <3> QED BY <1>8, <1>10, <2>1, <2>2, <3>1
  <2>4. ASSUME NEW i \in 1 .. Len(inflight'), NEW j \in 1 .. Len(inflight'), i < j
        PROVE  inflight'[i].at <= inflight'[j].at
    <3>1. i \in 1 .. Len(inflight)
      BY <1>3, <1>10, <2>4
    <3>2. CASE j \in 1 .. Len(inflight)
      BY <1>1, <2>1, <2>4, <3>1, <3>2 DEF InTurn
    <3>3. CASE j = Len(inflight) + 1
      BY <1>8, <1>10, <2>1, <3>1, <3>3
    <3> QED BY <2>2, <3>2, <3>3
  <2> QED BY <1>2, <2>3, <2>4 DEF InTurn
<1>14. Summed(enqueued', queuesize')
  <2>1. \A i \in 1 .. Len(enqueued) : enqueued[i].size \in Nat
    BY <1>1, Elements
  <2>2. Len(enqueued) >= 1
    BY <1>3, <1>7
  <2>3. Summed(enqueued', queuesize - enqueued[1].size)
    BY <1>1, <1>3, <1>7, <2>1, <2>2, SummedTail
  <2> QED BY <1>6, <1>7, <2>3
<1>15. TypeOK'
  <2>1. queuesize' \in Nat
    BY <1>7, <1>14, BytesIsSum
  <2>2. /\ pending' \in Seq([when : Nat, src : {"queue", "pipe"}])
        /\ inflight' \in Seq([at : Nat, pkt : Packet, light : 1 .. MaxLight])
    BY <1>10, <1>12 DEF Event, Flight
  <2> QED BY <1>1, <1>2, <1>4, <1>7, <1>12, <2>1, <2>2 DEF TypeOK
<1>16. Ordered'
  <2>0. \A i, j \in 1 .. Len(enqueued') : 1 < j + 1 /\ (i < j => i + 1 < j + 1)
    BY <1>3, <1>7
  <2>1. /\ \A i, j \in 1 .. Len(enqueued') : i < j => enqueued'[i].id < enqueued'[j].id
        /\ \A j \in 1 .. Len(enqueued') : enqueued[1].id < enqueued'[j].id
        /\ \A i \in 1 .. Len(arrived), j \in 1 .. Len(enqueued') : arrived[i] < enqueued'[j].id
        /\ \A i \in 1 .. Len(inflight), j \in 1 .. Len(enqueued') :
             inflight[i].pkt.id < enqueued'[j].id
        /\ \A j \in 1 .. Len(enqueued') : enqueued'[j].id <= sent
    BY <1>1, <1>7, <2>0 DEF Ordered
  <2>2. \A i \in 1 .. Len(inflight') :
          \/ i \in 1 .. Len(inflight) /\ inflight'[i] = inflight[i]
          \/ i = Len(inflight) + 1 /\ inflight'[i].pkt = enqueued[1]
    BY <1>3, <1>8, <1>10
  <2>3. ASSUME NEW i \in 1 .. Len(inflight'), NEW j \in 1 .. Len(inflight'), i < j
        PROVE  inflight'[i].pkt.id < inflight'[j].pkt.id
    <3>1. i \in 1 .. Len(inflight) /\ inflight'[i] = inflight[i]
      BY <1>3, <1>10, <2>3
    <3>2. CASE j \in 1 .. Len(inflight) /\ inflight'[j] = inflight[j]
      BY <1>1, <2>3, <3>1, <3>2 DEF Ordered
    <3>3. CASE inflight'[j].pkt = enqueued[1]
      BY <1>1, <1>7, <3>1, <3>3 DEF Ordered
    <3> QED BY <2>2, <3>2, <3>3
  <2>4. /\ \A i \in 1 .. Len(arrived), j \in 1 .. Len(inflight') :
             arrived[i] < inflight'[j].pkt.id
        /\ \A i \in 1 .. Len(inflight') : inflight'[i].pkt.id <= sent
    BY <1>1, <1>7, <2>2 DEF Ordered
  <2>5. \A i \in 1 .. Len(inflight'), j \in 1 .. Len(enqueued') :
          inflight'[i].pkt.id < enqueued'[j].id
    BY <2>1, <2>2
  <2>6. \A i, j \in 1 .. Len(arrived) : i < j => arrived[i] < arrived[j]
    BY <1>1 DEF Ordered
  <2>7. \A i \in 1 .. Len(arrived) : arrived[i] <= sent
    BY <1>1 DEF Ordered
  <2> QED BY <1>2, <2>1, <2>3, <2>4, <2>5, <2>6, <2>7 DEF Ordered
<1>17. ~ reuse => Stamped'
  <2> SUFFICES ASSUME ~ reuse PROVE Stamped'
    OBVIOUS
  <2>1. Timely
    BY <1>1
  <2>2. \A j \in 1 .. Len(enqueued') :
          /\ enqueued'[j].in <= now'
          /\ enqueued'[j].service = enqueued'[j].size * psperbyte
    <3>1. \A j \in 1 .. Len(enqueued) :
            /\ enqueued[j].in \in Nat /\ enqueued[j].in <= now
            /\ enqueued[j].service = enqueued[j].size * psperbyte
      BY <1>1, <2>1, Elements DEF Timely, Stamped
    <3>2. \A j \in 1 .. Len(enqueued) : enqueued[j].in <= now'
      BY <1>3, <1>4, <3>1
    <3> QED BY <1>7, <3>1, <3>2
  <2>3. f.at >= f.pkt.in + f.pkt.service + f.light
    <3>1. now' >= enqueued[1].in + enqueued[1].service
      BY <1>4, <1>5, <2>1 DEF Timely, ServedInTime
    <3>2. enqueued[1].in \in Nat /\ enqueued[1].service \in Nat
      BY <1>1, <1>7, Elements
    <3>3. f.light = light
      BY DEF f
    <3>4. \A a, b, c, d \in Nat : d >= a + b => d + c >= a + b + c
      OBVIOUS
    <3> QED BY <1>3, <1>4, <1>8, <3>1, <3>2, <3>3, <3>4
  <2>4. \A i \in 1 .. Len(inflight') : i \in 1 .. Len(inflight) \/ i = Len(inflight) + 1
    BY <1>3, <1>10
  <2>5. \A i \in 1 .. Len(inflight') :
          inflight'[i].at >= inflight'[i].pkt.in + inflight'[i].pkt.service + inflight'[i].light
    BY <1>10, <2>1, <2>3, <2>4 DEF Timely, Stamped
  <2> QED BY <1>2, <2>2, <2>5 DEF Stamped
<1> QED BY <1>2, <1>12, <1>13, <1>14, <1>15, <1>16, <1>17 DEF IInv, Running, Timely

(* The packet that has been in flight longest arrives. *)
LEMMA ArriveKeeps ==
  ASSUME IInv, Arrive PROVE IInv'
<1>1. /\ TypeOK /\ Summed(enqueued, queuesize) /\ Ordered /\ Booked /\ ~ aborted
      /\ ~ reuse => InTurn /\ Timely
  BY DEF IInv, Arrive, Running
<1>2. /\ pending # <<>> /\ Head(pending).src = "pipe" /\ now' = NextEventTime(pending)
      /\ UNCHANGED <<reuse, enqueued, queuesize, maxsize, psperbyte, light, active, sent>>
  BY DEF Arrive, queueVars
<1>3. /\ pending \in Seq(Event) /\ now \in Nat /\ InTime(pending, now) /\ light \in Nat
      /\ inflight \in Seq(Flight) /\ arrived \in Seq(1 .. MaxPackets)
      /\ Len(inflight) \in Nat /\ Len(arrived) \in Nat
  BY <1>1, Elements DEF Booked
<1>4. /\ now' \in Nat /\ now' >= now
      /\ Tail(pending) \in Seq(Event) /\ InTime(Tail(pending), now')
      /\ ~ None(pending, "pipe")
      /\ \A w : OneAt(pending, "pipe", w) => w = now' /\ None(Tail(pending), "pipe")
      /\ None(pending, "queue") => None(Tail(pending), "queue")
      /\ \A w : OneAt(pending, "queue", w) => OneAt(Tail(pending), "queue", w)
  <2>1. /\ NextEventTime(pending) \in Nat /\ NextEventTime(pending) >= now
        /\ Tail(pending) \in Seq(Event) /\ InTime(Tail(pending), NextEventTime(pending))
        /\ ~ None(pending, Head(pending).src)
        /\ \A w : OneAt(pending, Head(pending).src, w) =>
             w = NextEventTime(pending) /\ None(Tail(pending), Head(pending).src)
        /\ \A s : None(pending, s) => None(Tail(pending), s)
        /\ \A s, w : s # Head(pending).src /\ OneAt(pending, s, w) => OneAt(Tail(pending), s, w)
    BY <1>2, <1>3, DispatchKeeps
  <2> QED BY <1>2, <2>1
<1>5. inflight # <<>> /\ now' = inflight[1].at /\ None(Tail(pending), "pipe")
  BY <1>1, <1>4 DEF Booked, PipeBooked
<1>6. /\ inflight' = Tail(inflight)
      /\ arrived' = Append(arrived, Head(inflight).pkt.id)
      /\ IF Len(inflight) > 1
           THEN SourceIsPending(Tail(pending), "pipe", inflight[2].at)
           ELSE pending' = Tail(pending) /\ aborted' = aborted
  BY <1>5 DEF Arrive, HandOn, NothingIsPending
<1>7. /\ Head(inflight) = inflight[1] /\ 1 \in 1 .. Len(inflight)
      /\ inflight' \in Seq(Flight) /\ Len(inflight') = Len(inflight) - 1
      /\ \A i \in 1 .. Len(inflight') :
           i + 1 \in 1 .. Len(inflight) /\ inflight'[i] = inflight[i + 1]
  <2>1. /\ Tail(inflight) \in Seq(Flight) /\ Len(Tail(inflight)) = Len(inflight) - 1
        /\ \A i \in 1 .. Len(Tail(inflight)) : Tail(inflight)[i] = inflight[i + 1]
    BY <1>3, <1>5, HeadTailProperties
  <2>2. Len(inflight) # 0 /\ Head(inflight) = inflight[1]
    BY <1>3, <1>5, EmptySeq
  <2> QED BY <1>3, <1>6, <2>1, <2>2
<1>8. /\ inflight[1].pkt.id \in 1 .. MaxPackets
      /\ \A i \in 1 .. Len(inflight) : inflight[i].at \in Nat
  <2>1. inflight[1] \in Flight
    BY <1>1, <1>7, Elements
  <2>2. inflight[1].pkt \in Packet
    BY <2>1 DEF Flight
  <2>3. inflight[1].pkt.id \in 1 .. MaxPackets
    BY <2>2 DEF Packet
  <2> QED BY <1>1, <2>3, Elements
<1>9. /\ arrived' \in Seq(1 .. MaxPackets) /\ Len(arrived') = Len(arrived) + 1
      /\ \A i \in 1 .. Len(arrived) : arrived'[i] = arrived[i]
      /\ arrived'[Len(arrived) + 1] = inflight[1].pkt.id
  BY <1>3, <1>6, <1>7, <1>8, AppendProperties
<1>10. /\ pending' \in Seq(Event) /\ aborted' \in BOOLEAN
       /\ ~ aborted' => Booked'
       /\ ~ reuse => ~ aborted' /\ ServedInTime'
  <2>1. CASE Len(inflight) > 1
    <3>1. /\ 2 \in 1 .. Len(inflight) /\ 1 \in 1 .. Len(inflight') /\ inflight' # <<>>
          /\ inflight'[1] = inflight[2]
      BY <1>3, <1>7, <2>1
    <3>2. SourceIsPending(Tail(pending), "pipe", inflight[2].at) /\ inflight[2].at \in Nat
      BY <1>6, <1>8, <2>1, <3>1
    <3>3. /\ pending' \in Seq(Event) /\ aborted' \in BOOLEAN
          /\ inflight[2].at >= now' => ~ aborted'
          /\ ~ aborted' =>
               /\ InTime(pending', now') /\ OneAt(pending', "pipe", inflight[2].at)
               /\ None(Tail(pending), "queue") => None(pending', "queue")
               /\ \A w : OneAt(Tail(pending), "queue", w) => OneAt(pending', "queue", w)
      BY <1>4, <1>5, <3>2, BookingKeeps
    <3>4. ~ aborted' => Booked'
      BY <1>1, <1>2, <1>4, <3>1, <3>3 DEF Booked, QueueBooked, PipeBooked
    <3>5. ~ reuse => inflight[2].at >= now'
      <4>1. ~ reuse => inflight[1].at <= inflight[2].at
        BY <1>1, <1>7, <3>1 DEF InTurn
      <4> QED BY <1>5, <1>7, <1>8, <3>1, <4>1
    <3>6. ~ reuse => ServedInTime'
      BY <1>1, <1>2, <1>4, <3>3, <3>5 DEF Timely, ServedInTime
    <3> QED BY <3>3, <3>4, <3>5, <3>6
  <2>2. CASE ~ (Len(inflight) > 1)
    <3>1. inflight' = <<>>
      BY <1>3, <1>7, <2>2, EmptySeq
    <3>2. pending' = Tail(pending) /\ aborted' = aborted /\ aborted \in BOOLEAN
      BY <1>1, <1>6, <2>2 DEF TypeOK
    <3>3. Booked'
      BY <1>1, <1>2, <1>4, <1>5, <3>1, <3>2 DEF Booked, QueueBooked, PipeBooked
    <3>4. ~ reuse => ServedInTime'
      BY <1>1, <1>2, <1>4, <3>2 DEF Timely, ServedInTime
    <3> QED BY <1>1, <1>4, <3>2, <3>3, <3>4
  <2> QED BY <2>1, <2>2
<1>11. TypeOK'
  <2>1. /\ pending' \in Seq([when : Nat, src : {"queue", "pipe"}])
        /\ inflight' \in Seq([at : Nat, pkt : Packet, light : 1 .. MaxLight])
    BY <1>7, <1>10 DEF Event, Flight
  <2> QED BY <1>1, <1>2, <1>4, <1>9, <1>10, <2>1 DEF TypeOK
<1>12. Ordered'
  <2>0. \A i, j \in 1 .. Len(inflight') : 1 < j + 1 /\ (i < j => i + 1 < j + 1)
    BY <1>3, <1>7
  <2>1. /\ \A i, j \in 1 .. Len(inflight') : i < j => inflight'[i].pkt.id < inflight'[j].pkt.id
        /\ \A j \in 1 .. Len(inflight') : inflight[1].pkt.id < inflight'[j].pkt.id
        /\ \A i \in 1 .. Len(arrived), j \in 1 .. Len(inflight') :
             arrived[i] < inflight'[j].pkt.id
        /\ \A i \in 1 .. Len(inflight'), j \in 1 .. Len(enqueued) :
             inflight'[i].pkt.id < enqueued[j].id
        /\ \A j \in 1 .. Len(inflight') : inflight'[j].pkt.id <= sent
    BY <1>1, <1>7, <2>0 DEF Ordered
  <2>2. \A i \in 1 .. Len(arrived') :
          \/ i \in 1 .. Len(arrived) /\ arrived'[i] = arrived[i]
          \/ i = Len(arrived) + 1 /\ arrived'[i] = inflight[1].pkt.id
    BY <1>3, <1>9
  <2>3. ASSUME NEW i \in 1 .. Len(arrived'), NEW j \in 1 .. Len(arrived'), i < j
        PROVE  arrived'[i] < arrived'[j]
    <3>1. i \in 1 .. Len(arrived) /\ arrived'[i] = arrived[i]
      <4>1. i \in 1 .. Len(arrived)
        BY <1>3, <1>9, <2>3
      <4> QED BY <1>9, <4>1
    <3>2. CASE j \in 1 .. Len(arrived) /\ arrived'[j] = arrived[j]
      BY <1>1, <2>3, <3>1, <3>2 DEF Ordered
    <3>3. CASE arrived'[j] = inflight[1].pkt.id
      BY <1>1, <1>7, <3>1, <3>3 DEF Ordered
    <3> QED BY <2>2, <3>2, <3>3
  <2>4. /\ \A i \in 1 .. Len(arrived'), j \in 1 .. Len(inflight') :
             arrived'[i] < inflight'[j].pkt.id
        /\ \A i \in 1 .. Len(arrived'), j \in 1 .. Len(enqueued) :
             arrived'[i] < enqueued[j].id
        /\ \A i \in 1 .. Len(arrived') : arrived'[i] <= sent
    BY <1>1, <1>7, <2>1, <2>2 DEF Ordered
  <2>5. /\ \A i, j \in 1 .. Len(enqueued) : i < j => enqueued[i].id < enqueued[j].id
        /\ \A i \in 1 .. Len(enqueued) : enqueued[i].id <= sent
    BY <1>1 DEF Ordered
  <2> QED BY <1>2, <2>1, <2>3, <2>4, <2>5 DEF Ordered
<1>13. ~ reuse => InTurn'
  <2> SUFFICES ASSUME ~ reuse PROVE InTurn'
    OBVIOUS
  <2>0. \A i, j \in 1 .. Len(inflight') : i < j => i + 1 < j + 1
    BY <1>3, <1>7
  <2>1. \A i, j \in 1 .. Len(inflight') : i < j => inflight'[i].at <= inflight'[j].at
    BY <1>1, <1>7, <2>0 DEF InTurn
  <2>2. now + light <= now' + light
    <3>1. \A a, b, c \in Nat : b >= a => a + c <= b + c
      OBVIOUS
    <3> QED BY <1>3, <1>4, <3>1
  <2>3. \A i \in 1 .. Len(inflight) : inflight[i].at <= now' + light
    BY <1>1, <1>3, <1>4, <1>8, <2>2 DEF InTurn
  <2>4. \A i \in 1 .. Len(inflight') : inflight'[i].at <= now' + light
    BY <1>7, <2>3
  <2> QED BY <1>2, <2>1, <2>4 DEF InTurn
<1>14. ~ reuse => Stamped'
  <2> SUFFICES ASSUME ~ reuse PROVE Stamped'
    OBVIOUS
  <2>1. \A i \in 1 .. Len(enqueued) : enqueued[i].in \in Nat /\ enqueued[i].in <= now
    BY <1>1, Elements DEF Timely, Stamped
  <2>2. \A i \in 1 .. Len(enqueued) : enqueued[i].in <= now'
    BY <1>3, <1>4, <2>1
  <2> QED BY <1>1, <1>2, <1>7, <2>2 DEF Timely, Stamped
<1> QED BY <1>1, <1>2, <1>10, <1>11, <1>12, <1>13, <1>14 DEF IInv, Running, Timely

-----------------------------------------------------------------------------
(* The types, the byte count, the order of the packets and the bookings    *)
(* are kept by every step.                                                 *)
THEOREM Invariant == Spec => []IInv
<1>1. ASSUME IInv, [Next]_vars PROVE IInv'
  <2>1. CASE UNCHANGED vars
    BY <1>1, <2>1 DEF vars, IInv, TypeOK, Ordered, Running, Booked, QueueBooked,
       PipeBooked, InTurn, Timely, ServedInTime, Stamped
  <2>2. ASSUME NEW size \in Sizes, ReceivePacket(size) PROVE IInv'
    BY <1>1, <2>2, ReceiveKeeps
  <2>3. CASE CompleteService
    BY <1>1, <2>3, CompleteKeeps
  <2>4. CASE Arrive
    BY <1>1, <2>4, ArriveKeeps
  <2>5. CASE GoingDown
    BY <1>1, <2>5, GoingDownKeeps
  <2>6. ASSUME NEW b \in BufSizes, NEW r \in Rates, NEW l \in 1 .. MaxLight,
               Reassign(b, r, l)
        PROVE  IInv'
    BY <1>1, <2>6, ReassignKeeps
  <2>7. ASSUME NEW t \in now + 1 .. MaxTime, NEW l \in 1 .. MaxLight, OtherEvent(t, l)
        PROVE  IInv'
    BY <1>1, <2>7, OtherEventKeeps
  <2> QED BY <1>1, <2>1, <2>2, <2>3, <2>4, <2>5, <2>6, <2>7 DEF Next
<1> QED BY <1>1, InitGood, PTL DEF Spec

(* The link's books agree, whatever is dropped and handed out again: the   *)
(* event list holds one event of a queue with packets and one of a pipe    *)
(* with packets, at the time the first of them arrives, and none else; the *)
(* byte count is that of the packets queued (queue.cpp:29-77,              *)
(* pipe.cpp:20-58).  The assert of sourceIsPending() holds for as long as  *)
(* no link is handed out again.                                            *)
THEOREM BooksAgree == Spec => []BooksKept
<1>1. ASSUME IInv PROVE BooksKept
  <2>1. TypeOK /\ Summed(enqueued, queuesize) /\ (Running => Booked)
        /\ (~ reuse => Running)
    BY <1>1 DEF IInv
  <2>2. /\ pending \in Seq(Event) /\ enqueued \in Seq(Packet) /\ inflight \in Seq(Flight)
        /\ DOMAIN pending = 1 .. Len(pending)
    BY <2>1, Elements, LenProperties
  <2>3. BytesCounted
    BY <2>1, <2>2, BytesIsSum DEF BytesCounted
  <2>4. ASSUME NEW s, None(pending, s) PROVE EntriesOf(pending, s) = {}
    BY <2>2, <2>4 DEF EntriesOf, None
  <2>5. ASSUME NEW s, NEW w, OneAt(pending, s, w)
        PROVE  \E k \in 1 .. Len(pending) :
                 EntriesOf(pending, s) = {k} /\ pending[k].when = w
    BY <2>2, <2>5 DEF EntriesOf, OneAt
  <2>6. Cardinality({}) = 0 /\ \A k : Cardinality({k}) = 1
    BY FS_EmptySet, FS_Singleton
  <2>7. QueueEvent
    <3> SUFFICES ASSUME Running
                 PROVE  Cardinality(EntriesOf(pending, "queue"))
                          = IF enqueued = <<>> THEN 0 ELSE 1
      BY DEF QueueEvent
    <3>1. CASE enqueued = <<>>
      BY <2>1, <2>4, <2>6, <3>1 DEF Booked, QueueBooked
    <3>2. CASE enqueued # <<>>
      <4>1. PICK w : OneAt(pending, "queue", w)
        BY <2>1, <3>2 DEF Booked, QueueBooked
      <4>2. PICK k : EntriesOf(pending, "queue") = {k}
        BY <2>5, <4>1
      <4> QED BY <2>6, <3>2, <4>2
    <3> QED BY <3>1, <3>2
  <2>8. PipeEvent
    <3> SUFFICES ASSUME Running
                 PROVE  /\ Cardinality(EntriesOf(pending, "pipe")) <= 1
                        /\ {pending[i].when : i \in EntriesOf(pending, "pipe")}
                             = IF inflight = <<>> THEN {} ELSE {Head(inflight).at}
      BY DEF PipeEvent
    <3>1. CASE inflight = <<>>
      BY <2>1, <2>4, <2>6, <3>1 DEF Booked, PipeBooked
    <3>2. CASE inflight # <<>>
      <4>1. Head(inflight) = inflight[1]
        BY <2>2, <3>2
      <4>2. OneAt(pending, "pipe", inflight[1].at)
        BY <2>1, <3>2 DEF Booked, PipeBooked
      <4>3. PICK k \in 1 .. Len(pending) :
              EntriesOf(pending, "pipe") = {k} /\ pending[k].when = inflight[1].at
        BY <2>5, <4>2
      <4>4. Cardinality(EntriesOf(pending, "pipe")) = 1
        BY <2>6, <4>3
      <4>5. {pending[i].when : i \in EntriesOf(pending, "pipe")} = {inflight[1].at}
        BY <4>3
      <4> QED BY <3>2, <4>1, <4>4, <4>5
    <3> QED BY <3>1, <3>2
  <2> QED BY <2>1, <2>3, <2>7, <2>8 DEF BooksKept, NoAssertFails, Running
<1> QED BY <1>1, Invariant, PTL

(* Packets leave the link in the order they were sent in, whatever is      *)
(* dropped, and whoever the link is handed to (pipe.cpp:20-58,             *)
(* queue.cpp:43-77).                                                       *)
THEOREM LeavesInOrder == Spec => []InOrder
<1>1. ASSUME IInv PROVE InOrder
  <2> DEFINE F == Ids([i \in DOMAIN inflight |-> inflight[i].pkt])
             E == Ids(enqueued)
             AF == arrived \o F
  <2>1. TypeOK /\ Ordered
    BY <1>1 DEF IInv
  <2>2. /\ arrived \in Seq(Nat) /\ Len(arrived) \in Nat
        /\ DOMAIN inflight = 1 .. Len(inflight) /\ Len(inflight) \in Nat
        /\ DOMAIN enqueued = 1 .. Len(enqueued) /\ Len(enqueued) \in Nat
    <3>1. 1 .. MaxPackets \subseteq Nat
      OBVIOUS
    <3> QED BY <2>1, <3>1, Elements, LenProperties, SeqMonotonic
  <2>3. /\ F \in Seq(Nat) /\ Len(F) = Len(inflight)
        /\ \A i \in 1 .. Len(inflight) : F[i] = inflight[i].pkt.id
    <3>1. F = [i \in 1 .. Len(inflight) |-> inflight[i].pkt.id]
      BY <2>2 DEF Ids
    <3>2. \A i \in 1 .. Len(inflight) : inflight[i].pkt.id \in Nat
      BY <2>1, Elements
    <3> HIDE DEF F
    <3>3. F \in [1 .. Len(inflight) -> Nat]
      BY <3>1, <3>2
    <3> QED BY <2>2, <3>1, <3>3
  <2>4. /\ E \in Seq(Nat) /\ Len(E) = Len(enqueued)
        /\ \A i \in 1 .. Len(enqueued) : E[i] = enqueued[i].id
    <3>1. E = [i \in 1 .. Len(enqueued) |-> enqueued[i].id]
      BY <2>2 DEF Ids
    <3>2. \A i \in 1 .. Len(enqueued) : enqueued[i].id \in Nat
      BY <2>1, Elements
    <3> HIDE DEF E
    <3>3. E \in [1 .. Len(enqueued) -> Nat]
      BY <3>1, <3>2
    <3> QED BY <2>2, <3>1, <3>3
  <2> HIDE DEF F, E
  <2>5. /\ AF \in Seq(Nat) /\ Len(AF) = Len(arrived) + Len(F)
        /\ \A i \in 1 .. Len(arrived) + Len(F) :
             AF[i] = IF i <= Len(arrived) THEN arrived[i] ELSE F[i - Len(arrived)]
    BY <2>2, <2>3, ConcatProperties
  <2> HIDE DEF AF
  <2>6. /\ AF \o E \in Seq(Nat) /\ Len(AF \o E) = Len(AF) + Len(E)
        /\ \A i \in 1 .. Len(AF) + Len(E) :
             (AF \o E)[i] = IF i <= Len(AF) THEN AF[i] ELSE E[i - Len(AF)]
    <3>1. AF \in Seq(Nat) /\ E \in Seq(Nat)
      BY <2>4, <2>5
    <3> QED BY <3>1, ConcatProperties
  <2>7. \A i \in 1 .. Len(AF) :
          \/ i \in 1 .. Len(arrived) /\ AF[i] = arrived[i]
          \/ /\ i - Len(arrived) \in 1 .. Len(inflight)
             /\ AF[i] = inflight[i - Len(arrived)].pkt.id
    <3> SUFFICES ASSUME NEW i \in 1 .. Len(AF)
                 PROVE  \/ i \in 1 .. Len(arrived) /\ AF[i] = arrived[i]
                        \/ /\ i - Len(arrived) \in 1 .. Len(inflight)
                           /\ AF[i] = inflight[i - Len(arrived)].pkt.id
      OBVIOUS
    <3>1. CASE i <= Len(arrived)
      BY <2>2, <2>5, <3>1
    <3>2. CASE ~ (i <= Len(arrived))
      <4>1. i - Len(arrived) \in 1 .. Len(inflight)
        BY <2>2, <2>3, <2>5, <3>2
      <4> QED BY <2>3, <2>5, <3>2, <4>1
    <3> QED BY <3>1, <3>2
  <2>8. ASSUME NEW i \in 1 .. Len(AF), NEW j \in 1 .. Len(AF), i < j
        PROVE  AF[i] < AF[j]
    <3>1. CASE j \in 1 .. Len(arrived) /\ AF[j] = arrived[j]
      <4>1. i \in 1 .. Len(arrived) /\ AF[i] = arrived[i]
        <5>1. i \in 1 .. Len(arrived) + Len(F)
          BY <2>5
        <5>2. i \in 1 .. Len(arrived) /\ i <= Len(arrived)
          BY <2>2, <2>8, <3>1
        <5>3. AF[i] = IF i <= Len(arrived) THEN arrived[i] ELSE F[i - Len(arrived)]
          BY <2>5, <5>1
        <5> QED BY <5>2, <5>3
      <4> QED BY <2>1, <2>8, <3>1, <4>1 DEF Ordered
    <3>2. CASE /\ j - Len(arrived) \in 1 .. Len(inflight)
               /\ AF[j] = inflight[j - Len(arrived)].pkt.id
      <4>1. CASE i \in 1 .. Len(arrived) /\ AF[i] = arrived[i]
        BY <2>1, <3>2, <4>1 DEF Ordered
      <4>2. CASE /\ i - Len(arrived) \in 1 .. Len(inflight)
                 /\ AF[i] = inflight[i - Len(arrived)].pkt.id
        <5>1. i - Len(arrived) < j - Len(arrived)
          BY <2>2, <2>8
        <5> QED BY <2>1, <3>2, <4>2, <5>1 DEF Ordered
      <4> QED BY <2>7, <4>1, <4>2
    <3> QED BY <2>7, <3>1, <3>2
  <2>9. \A i \in 1 .. Len(AF), k \in 1 .. Len(enqueued) : AF[i] < enqueued[k].id
    BY <2>1, <2>7 DEF Ordered
  <2>10. \A i \in 1 .. Len(AF \o E) :
           \/ i \in 1 .. Len(AF) /\ (AF \o E)[i] = AF[i]
           \/ /\ i > Len(AF) /\ i - Len(AF) \in 1 .. Len(enqueued)
              /\ (AF \o E)[i] = enqueued[i - Len(AF)].id
    <3> SUFFICES ASSUME NEW i \in 1 .. Len(AF \o E)
                 PROVE  \/ i \in 1 .. Len(AF) /\ (AF \o E)[i] = AF[i]
                        \/ /\ i > Len(AF) /\ i - Len(AF) \in 1 .. Len(enqueued)
                           /\ (AF \o E)[i] = enqueued[i - Len(AF)].id
      OBVIOUS
    <3>1. Len(AF) \in Nat
      BY <2>2, <2>3, <2>5
    <3>2. CASE i <= Len(AF)
      BY <2>6, <3>1, <3>2
    <3>3. CASE ~ (i <= Len(AF))
      <4>1. i > Len(AF) /\ i - Len(AF) \in 1 .. Len(enqueued)
        BY <2>2, <2>4, <2>6, <3>1, <3>3
      <4> QED BY <2>4, <2>6, <3>3, <4>1
    <3> QED BY <3>2, <3>3
  <2>11. ASSUME NEW i \in 1 .. Len(AF \o E), NEW j \in 1 .. Len(AF \o E), i < j
         PROVE  (AF \o E)[i] < (AF \o E)[j]
    <3>0. Len(AF) \in Nat
      BY <2>2, <2>3, <2>5
    <3>1. CASE j \in 1 .. Len(AF) /\ (AF \o E)[j] = AF[j]
      <4>1. i \in 1 .. Len(AF) /\ (AF \o E)[i] = AF[i]
        BY <2>10, <2>11, <3>0, <3>1
      <4> QED BY <2>8, <2>11, <3>1, <4>1
    <3>2. CASE /\ j - Len(AF) \in 1 .. Len(enqueued)
               /\ (AF \o E)[j] = enqueued[j - Len(AF)].id
      <4>1. CASE i \in 1 .. Len(AF) /\ (AF \o E)[i] = AF[i]
        BY <2>9, <3>2, <4>1
      <4>2. CASE /\ i - Len(AF) \in 1 .. Len(enqueued)
                 /\ (AF \o E)[i] = enqueued[i - Len(AF)].id
        <5>1. i - Len(AF) < j - Len(AF)
          BY <2>11, <3>0
        <5> QED BY <2>1, <3>2, <4>2, <5>1 DEF Ordered
      <4> QED BY <2>10, <4>1, <4>2
    <3> QED BY <2>10, <3>1, <3>2
  <2>12. DOMAIN (AF \o E) = 1 .. Len(AF \o E)
    BY <2>6, LenProperties
  <2> QED BY <2>11, <2>12 DEF InOrder, Increasing, AF, F, E
<1> QED BY <1>1, Invariant, PTL

(* No packet arrives before it has been served and has flown the distance  *)
(* that it was put into flight with, unless links are handed out again     *)
(* (isl.cpp:12-30, pipe.cpp:33-58).                                        *)
THEOREM ArrivesInTime == Spec => NeverEarly
<1>1. ASSUME IInv, [Next]_vars, ~ reuse, arrived' # arrived
      PROVE  LET r == Head(inflight)
             IN  now' >= r.pkt.in + r.pkt.service + r.light
  <2>1. Arrive
    BY <1>1 DEF Next, vars, ReceivePacket, CompleteService, GoingDown, Reassign, OtherEvent
  <2>2. TypeOK /\ Booked /\ Timely
    BY <1>1 DEF IInv
  <2>3. /\ pending # <<>> /\ Head(pending).src = "pipe" /\ now' = NextEventTime(pending)
        /\ inflight # <<>>
    BY <1>1, <2>1 DEF Arrive
  <2>4. /\ pending \in Seq(Event) /\ now \in Nat /\ InTime(pending, now)
        /\ inflight \in Seq(Flight)
    BY <2>2, Elements DEF Booked
  <2>5. now' = inflight[1].at
    <3>1. OneAt(pending, "pipe", inflight[1].at)
      BY <2>2, <2>3 DEF Booked, PipeBooked
    <3>2. \A w : OneAt(pending, Head(pending).src, w) => w = NextEventTime(pending)
      BY <2>3, <2>4, DispatchKeeps
    <3> QED BY <2>3, <3>1, <3>2
  <2>6. 1 \in 1 .. Len(inflight) /\ Head(inflight) = inflight[1]
    BY <2>3, <2>4, EmptySeq
  <2> QED BY <2>2, <2>5, <2>6 DEF Timely, Stamped
<1> QED BY <1>1, Invariant, PTL DEF Spec, NeverEarly

-----------------------------------------------------------------------------
(* The lists of the city. *)

(* r is a list like q, as long and of the same satellites.                 *)
SameSats(r, q) == r \in Seq(Entry) /\ Len(r) = Len(q) /\ Sats(r) = Sats(q)

LEMMA SatsMembers ==
  ASSUME NEW q \in Seq(Entry)
  PROVE  \A s : s \in Sats(q) <=> \E i \in 1 .. Len(q) : q[i].sat = s
<1>1. DOMAIN q = 1 .. Len(q)
  BY LenProperties
<1> QED BY <1>1, Zenon DEF Sats

LEMMA SatsElements ==
  ASSUME NEW q \in Seq(Entry), NEW r \in Seq(Entry), Len(r) = Len(q),
         \A i \in 1 .. Len(q) : \E j \in 1 .. Len(q) : r[i].sat = q[j].sat,
         \A j \in 1 .. Len(q) : \E i \in 1 .. Len(q) : r[i].sat = q[j].sat
  PROVE  SameSats(r, q)
<1>1. \A s : s \in Sats(q) <=> \E i \in 1 .. Len(q) : q[i].sat = s
  BY SatsMembers
<1>2. \A s : s \in Sats(r) <=> \E i \in 1 .. Len(q) : r[i].sat = s
  BY SatsMembers
<1>3. \A s : s \in Sats(r) <=> s \in Sats(q)
  BY <1>1, <1>2
<1> QED BY <1>3 DEF SameSats

(* Sorting leaves the satellites on the list. *)
LEMMA SortedKeeps ==
  ASSUME NEW q \in Seq(Entry), NEW before, NEW r \in Sorted(q, before)
  PROVE  SameSats(r, q)
<1> DEFINE D == 1 .. Len(q)
<1>1. DOMAIN q = D /\ Len(q) \in Nat /\ \A i \in D : q[i] \in Entry
  BY LenProperties, ElementOfSeq
<1>2. PICK f \in [D -> D] : IsInjective(f) /\ r = [i \in D |-> q[f[i]]]
  BY <1>1, Zenon DEF Sorted
<1>3. f \in Injection(D, D) /\ IsFiniteSet(D)
  <2>1. f \in Injection(D, D)
    BY <1>2, Zenon DEF Injection
  <2>2. 1 \in Int /\ Len(q) \in Int
    BY <1>1
  <2> QED BY <2>1, <2>2, FS_Interval
<1>4. f \in Surjection(D, D)
  BY <1>3, FS_Injection
<1>5. \A j \in D : \E i \in D : f[i] = j
  BY <1>4 DEF Surjection
<1>6. r \in Seq(Entry) /\ Len(r) = Len(q) /\ \A i \in D : r[i] = q[f[i]] /\ f[i] \in D
  BY <1>1, <1>2
<1>7. /\ \A i \in D : \E j \in D : r[i].sat = q[j].sat
      /\ \A j \in D : \E i \in D : r[i].sat = q[j].sat
  <2>1. \A i \in D : f[i] \in D /\ r[i].sat = q[f[i]].sat
    BY <1>6
  <2>2. \A i \in D : \E j \in D : r[i].sat = q[j].sat
    BY <2>1
  <2>3. ASSUME NEW j \in D PROVE \E i \in D : r[i].sat = q[j].sat
    <3>1. PICK i \in D : f[i] = j
      BY <1>5
    <3> QED BY <2>1, <3>1
  <2> QED BY <2>2, <2>3
<1> QED BY <1>6, <1>7, SatsElements

-----------------------------------------------------------------------------
(* Of which of two entries has to come behind the other one o says the     *)
(* same as a comparison of numbers would.                                  *)
Ranks(o) ==
  /\ \A a, b \in Entry : <<a, b>> \in o => <<b, a>> \notin o
  /\ \A a, b, c \in Entry : <<a, b>> \notin o /\ <<b, c>> \notin o => <<a, c>> \notin o

LEMMA OrdersRank == Ranks(Shorter) /\ Ranks(Longer)
<1>1. \A e \in Entry : e.dist \in Nat
  BY CityUplinksAssumption DEF Entry
<1>2. \A a, b \in Entry : /\ <<a, b>> \in Shorter <=> a.dist < b.dist
                          /\ <<a, b>> \in Longer <=> a.dist > b.dist
  BY DEF Shorter, Longer
<1> QED BY <1>1, <1>2 DEF Ranks

Hands(q, i, o) == {j \in 1 .. i : \A k \in 1 .. i : <<q[k], q[j]>> \notin o}

(* The entry in hand changes where the next one is not out of order behind *)
(* it, and there is always one.                                            *)
LEMMA HandMoves ==
  ASSUME NEW q \in Seq(Entry), NEW o, Ranks(o), NEW i \in 1 .. Len(q) - 1,
         Hands(q, i, o) # {}
  PROVE  LET h == InHand(q, i, o)
         IN  /\ h \in 1 .. i
             /\ Hands(q, i + 1, o) # {}
             /\ InHand(q, i + 1, o) = IF <<q[h], q[i + 1]>> \in o THEN h ELSE i + 1
<1> DEFINE h == InHand(q, i, o)
           T == Hands(q, i, o)
           U == Hands(q, i + 1, o)
<1>1. /\ Len(q) \in Nat /\ i \in Nat /\ i + 1 \in 1 .. Len(q)
      /\ \A k \in 1 .. i + 1 : q[k] \in Entry /\ (k \in 1 .. i \/ k = i + 1)
      /\ \A k \in 1 .. i : k \in 1 .. i + 1 /\ k <= i
  <2>1. Len(q) \in Nat /\ \A k \in 1 .. Len(q) : q[k] \in Entry
    BY LenProperties, ElementOfSeq
  <2> QED BY <2>1
<1>2. h \in T /\ \A j \in T : h >= j
  <2>1. T \in SUBSET Nat /\ \A j \in T : j <= i
    BY <1>1 DEF Hands
  <2> QED BY <1>1, <2>1, MaxProperties DEF InHand, Hands
<1>3. h \in 1 .. i /\ \A k \in 1 .. i : <<q[k], q[h]>> \notin o
  BY <1>2 DEF Hands
<1>4. U \in SUBSET Nat /\ \A j \in U : j <= i + 1
  BY <1>1 DEF Hands
<1>5. \A m \in U : (\A j \in U : m >= j) => InHand(q, i + 1, o) = m
  <2> SUFFICES ASSUME NEW m \in U, \A j \in U : m >= j PROVE InHand(q, i + 1, o) = m
    OBVIOUS
  <2>1. Max(U) \in U /\ \A j \in U : Max(U) >= j
    BY <1>1, <1>4, MaxProperties
  <2>2. Max(U) = m
    BY <1>4, <2>1
  <2> QED BY <2>2 DEF InHand, Hands
<1> HIDE DEF h
<1>6. \A j \in U : j \in T \/ j = i + 1
  BY <1>1 DEF Hands
<1>7. CASE <<q[h], q[i + 1]>> \in o
  <2>1. h \in U
    <3>1. <<q[i + 1], q[h]>> \notin o
      BY <1>1, <1>3, <1>7 DEF Ranks
    <3>2. \A k \in 1 .. i + 1 : <<q[k], q[h]>> \notin o
      BY <1>1, <1>3, <3>1
    <3> QED BY <1>1, <1>3, <3>2 DEF Hands
  <2>2. i + 1 \notin U
    BY <1>1, <1>3, <1>7 DEF Hands
  <2>3. \A j \in U : h >= j
    BY <1>2, <1>6, <2>2
  <2>4. InHand(q, i + 1, o) = h
    BY <1>5, <2>1, <2>3
  <2> QED BY <1>3, <1>7, <2>1, <2>4 DEF h
<1>8. CASE <<q[h], q[i + 1]>> \notin o
  <2>1. i + 1 \in U
    <3>1. \A k \in 1 .. i : <<q[k], q[i + 1]>> \notin o
      <4> SUFFICES ASSUME NEW k \in 1 .. i PROVE <<q[k], q[i + 1]>> \notin o
        OBVIOUS
      <4>1. q[k] \in Entry /\ q[h] \in Entry /\ q[i + 1] \in Entry
        BY <1>1, <1>3
      <4>2. <<q[k], q[h]>> \notin o
        BY <1>3
      <4> QED BY <1>8, <4>1, <4>2 DEF Ranks
    <3>2. <<q[i + 1], q[i + 1]>> \notin o
      BY <1>1 DEF Ranks
    <3>3. \A k \in 1 .. i + 1 : <<q[k], q[i + 1]>> \notin o
      BY <1>1, <3>1, <3>2
    <3> QED BY <1>1, <3>3 DEF Hands
  <2>2. InHand(q, i + 1, o) = i + 1
    BY <1>4, <1>5, <2>1
  <2> QED BY <1>3, <1>8, <2>1, <2>2 DEF h
<1> QED BY <1>7, <1>8

(* There is always an entry in hand. *)
LEMMA HandHeld ==
  ASSUME NEW q \in Seq(Entry), NEW o, Ranks(o), NEW i \in 1 .. Len(q)
  PROVE  InHand(q, i, o) \in Hands(q, i, o)
<1> DEFINE n == Len(q)
<1>1. n \in Nat /\ DOMAIN q = 1 .. n /\ \A k \in 1 .. n : q[k] \in Entry
  BY LenProperties, ElementOfSeq
<1>2. \A k \in 1 .. n : Hands(q, k, o) # {}
  <2> DEFINE W == {k \in 1 .. n : Hands(q, k, o) = {}}
  <2> SUFFICES ASSUME W # {} PROVE FALSE
    OBVIOUS
  <2>1. W \in SUBSET Nat
    OBVIOUS
  <2>2. PICK m \in W : \A k \in W : m <= k
    BY <2>1, MinProperties
  <2>3. CASE m = 1
    <3>1. q[1] \in Entry
      BY <1>1, <2>2, <2>3
    <3>2. <<q[1], q[1]>> \notin o
      BY <3>1 DEF Ranks
    <3>3. 1 \in Hands(q, 1, o)
      BY <3>2 DEF Hands
    <3> QED BY <2>2, <2>3, <3>3
  <2>4. CASE m # 1
    <3>1. m - 1 \in 1 .. n - 1 /\ m - 1 \in 1 .. n /\ (m - 1) + 1 = m /\ ~ (m <= m - 1)
      BY <1>1, <2>2, <2>4
    <3>2. Hands(q, m - 1, o) # {}
      BY <2>2, <3>1
    <3>3. Hands(q, m, o) # {}
      <4>1. Hands(q, (m - 1) + 1, o) # {}
        BY <3>1, <3>2, HandMoves
      <4> QED BY <3>1, <4>1
    <3> QED BY <2>2, <3>3
  <2> QED BY <2>3, <2>4
<1>3. Hands(q, i, o) \in SUBSET Nat /\ \A j \in Hands(q, i, o) : j <= i
  BY DEF Hands
<1>4. Max(Hands(q, i, o)) \in Hands(q, i, o)
  <2>1. i \in Nat /\ Hands(q, i, o) # {}
    BY <1>2
  <2> QED BY <1>3, <2>1, MaxProperties
<1> QED BY <1>4 DEF InHand, Hands

(* A pass of bubble sort leaves the satellites on the list. *)
LEMMA BubbleKeeps ==
  ASSUME NEW q \in Seq(Entry), NEW o, Ranks(o)
  PROVE  SameSats(BubblePass(q, o), q)
<1> DEFINE n == Len(q)
           h(i) == InHand(q, i, o)
           r == BubblePass(q, o)
<1>1. n \in Nat /\ DOMAIN q = 1 .. n /\ \A i \in 1 .. n : q[i] \in Entry
  BY LenProperties, ElementOfSeq
<1>2. \A i \in 1 .. n : h(i) \in Hands(q, i, o)
  BY HandHeld
<1>3. \A i \in 1 .. n - 1 : h(i + 1) = IF <<q[h(i)], q[i + 1]>> \in o THEN h(i) ELSE i + 1
  <2>1. \A i \in 1 .. n - 1 : i \in 1 .. n
    BY <1>1
  <2> QED BY <1>2, <2>1, HandMoves
<1>4. \A i \in 1 .. n : h(i) \in 1 .. i
  BY <1>2 DEF Hands
<1> HIDE DEF h
<1>5. /\ r = [i \in 1 .. n |-> IF i < n /\ <<q[h(i)], q[i + 1]>> \in o THEN q[i + 1] ELSE q[h(i)]]
      /\ \A i \in 1 .. n : h(i) \in 1 .. n
  <2>1. r = [i \in 1 .. n |-> IF i < n /\ <<q[h(i)], q[i + 1]>> \in o THEN q[i + 1] ELSE q[h(i)]]
    BY <1>1 DEF BubblePass, h
  <2> QED BY <1>1, <1>4, <2>1
<1>6. /\ r \in Seq(Entry) /\ Len(r) = n
      /\ \A i \in 1 .. n :
           r[i] = IF i < n /\ <<q[h(i)], q[i + 1]>> \in o THEN q[i + 1] ELSE q[h(i)]
  <2> HIDE DEF r
  <2>1. \A i \in 1 .. n : i < n => i + 1 \in 1 .. n
    BY <1>1
  <2> QED BY <1>1, <1>5, <2>1
<1> HIDE DEF r
<1>7. ASSUME NEW i \in 1 .. n PROVE \E j \in 1 .. n : r[i].sat = q[j].sat
  <2>1. i < n => i + 1 \in 1 .. n
    BY <1>1
  <2> QED BY <1>5, <1>6, <2>1
<1>8. ASSUME NEW j \in 1 .. n PROVE \E i \in 1 .. n : r[i] = q[j]
  <2>1. CASE h(j) # j
    <3>1. j # 1
      BY <1>4, <2>1
    <3>2. j - 1 \in 1 .. n - 1 /\ j - 1 \in 1 .. n /\ (j - 1) + 1 = j /\ j - 1 < n
      BY <1>1, <3>1
    <3>3. <<q[h(j - 1)], q[j]>> \in o
      BY <1>3, <2>1, <3>2
    <3>4. r[j - 1] = q[j]
      BY <1>6, <3>2, <3>3
    <3> QED BY <3>2, <3>4
  <2>2. CASE h(j) = j
    <3> DEFINE S == {i \in 1 .. n : i >= j /\ h(i) = j}
    <3>1. S \in SUBSET Nat /\ S # {} /\ \A x \in S : x <= n
      BY <1>1, <2>2
    <3>2. PICK m \in S : \A x \in S : m >= x
      BY <1>1, <3>1, MaxProperties
    <3>3. m \in 1 .. n /\ m >= j /\ h(m) = j /\ j \in Nat
      BY <3>2
    <3> HIDE DEF S
    <3>4. CASE m = n
      <4>1. ~ (m < n)
        BY <1>1, <3>3, <3>4
      <4>2. r[m] = q[h(m)]
        BY <1>6, <3>3, <4>1
      <4> QED BY <3>3, <4>2
    <3>5. CASE m # n
      <4>1. m \in 1 .. n - 1 /\ m + 1 \in 1 .. n /\ m + 1 >= j /\ ~ (m >= m + 1)
        <5> HIDE DEF n
        <5> QED BY <1>1, <3>3, <3>5
      <4>2. h(m + 1) # j
        BY <3>2, <4>1 DEF S
      <4>3. <<q[h(m)], q[m + 1]>> \notin o
        BY <1>3, <3>3, <4>1, <4>2
      <4> QED BY <1>6, <3>3, <4>3
    <3> QED BY <3>4, <3>5
  <2> QED BY <2>1, <2>2
<1>9. \A j \in 1 .. n : \E i \in 1 .. n : r[i].sat = q[j].sat
  BY <1>8
<1> QED BY <1>6, <1>7, <1>9, SatsElements DEF r

LEMMA SameSatsChain ==
  ASSUME NEW p, NEW q, NEW r, SameSats(p, q), SameSats(q, r)
  PROVE  SameSats(p, r)
  BY DEF SameSats

LEMMA RefreshedKeeps ==
  ASSUME NEW q \in Seq(Entry), NEW d \in [Sat -> Dist]
  PROVE  SameSats(Refreshed(q, d), q)
<1> DEFINE r == Refreshed(q, d)
           fresh(i) == [q[i] EXCEPT !.dist = d[q[i].sat]]
<1>1. Len(q) \in Nat /\ DOMAIN q = 1 .. Len(q) /\ \A i \in 1 .. Len(q) : q[i] \in Entry
  BY LenProperties, ElementOfSeq
<1>2. r = [i \in 1 .. Len(q) |-> fresh(i)]
  BY <1>1 DEF Refreshed
<1>3. \A i \in 1 .. Len(q) : fresh(i) \in Entry /\ fresh(i).sat = q[i].sat
  BY <1>1 DEF Entry
<1> HIDE DEF fresh
<1>4. r \in Seq(Entry) /\ Len(r) = Len(q) /\ \A i \in 1 .. Len(q) : r[i].sat = q[i].sat
  <2> HIDE DEF r
  <2>1. r \in [1 .. Len(q) -> Entry]
    BY <1>2, <1>3
  <2> QED BY <1>1, <1>2, <1>3, <2>1
<1> HIDE DEF r
<1> QED BY <1>4, SatsElements DEF r

LEMMA CatSats ==
  ASSUME NEW a \in Seq(Entry), NEW b \in Seq(Entry)
  PROVE  /\ a \o b \in Seq(Entry) /\ Len(a \o b) = Len(a) + Len(b)
         /\ Sats(a \o b) = Sats(a) \cup Sats(b)
<1> DEFINE c == a \o b
<1>1. Len(a) \in Nat /\ Len(b) \in Nat
  BY LenProperties
<1>2. /\ c \in Seq(Entry) /\ Len(c) = Len(a) + Len(b)
      /\ \A i \in 1 .. Len(a) + Len(b) : c[i] = IF i <= Len(a) THEN a[i] ELSE b[i - Len(a)]
  BY ConcatProperties
<1> HIDE DEF c
<1>3. ASSUME NEW i \in 1 .. Len(a) PROVE i \in 1 .. Len(c) /\ c[i] = a[i]
  BY <1>1, <1>2
<1>4. ASSUME NEW i \in 1 .. Len(b) PROVE i + Len(a) \in 1 .. Len(c) /\ c[i + Len(a)] = b[i]
  <2>1. i + Len(a) \in 1 .. Len(a) + Len(b) /\ ~ (i + Len(a) <= Len(a)) /\ (i + Len(a)) - Len(a) = i
    BY <1>1
  <2> QED BY <1>2, <2>1
<1>5. ASSUME NEW i \in 1 .. Len(c)
      PROVE  \/ i \in 1 .. Len(a) /\ c[i] = a[i]
             \/ i - Len(a) \in 1 .. Len(b) /\ c[i] = b[i - Len(a)]
  BY <1>1, <1>2
<1>6. \A s : s \in Sats(c) <=> s \in Sats(a) \cup Sats(b)
  <2>1. \A s : s \in Sats(c) <=> \E i \in 1 .. Len(c) : c[i].sat = s
    BY <1>2, SatsMembers
  <2>2. \A s : s \in Sats(a) <=> \E i \in 1 .. Len(a) : a[i].sat = s
    BY SatsMembers
  <2>3. \A s : s \in Sats(b) <=> \E i \in 1 .. Len(b) : b[i].sat = s
    BY SatsMembers
  <2>4. ASSUME NEW s \in Sats(c) PROVE s \in Sats(a) \cup Sats(b)
    BY <1>5, <2>1, <2>2, <2>3
  <2>5. ASSUME NEW s \in Sats(a) PROVE s \in Sats(c)
    BY <1>3, <2>1, <2>2
  <2>6. ASSUME NEW s \in Sats(b) PROVE s \in Sats(c)
    BY <1>4, <2>1, <2>3
  <2> QED BY <2>4, <2>5, <2>6
<1>7. Sats(c) = Sats(a) \cup Sats(b)
  BY <1>6
<1> QED BY <1>2, <1>7 DEF c

(* A list cut in two. *)
LEMMA CutSats ==
  ASSUME NEW q \in Seq(Entry), NEW k \in 0 .. Len(q)
  PROVE  LET a == SubSeq(q, 1, k)
             b == SubSeq(q, k + 1, Len(q))
         IN  /\ a \in Seq(Entry) /\ Len(a) = k
             /\ b \in Seq(Entry) /\ Len(b) = Len(q) - k
             /\ a \o b = q
             /\ Sats(q) = Sats(a) \cup Sats(b)
<1> DEFINE a == SubSeq(q, 1, k)
           b == SubSeq(q, k + 1, Len(q))
<1>1. Len(q) \in Nat /\ k \in Nat /\ \A i \in 1 .. Len(q) : q[i] \in Entry
  BY LenProperties, ElementOfSeq
<1>2. /\ a \in Seq(Entry) /\ Len(a) = k /\ \A i \in 1 .. k : a[i] = q[i]
  <2>1. /\ 1 \in Int /\ k \in Int
        /\ \A i \in 1 .. k : q[i] \in Entry
    BY <1>1
  <2>2. a = [i \in 1 .. k |-> q[i]]
    BY <1>1
  <2> HIDE DEF a
  <2>3. a \in [1 .. k -> Entry]
    BY <2>1, <2>2
  <2> QED BY <1>1, <2>2, <2>3
<1>3. /\ b \in Seq(Entry) /\ Len(b) = Len(q) - k
      /\ \A i \in 1 .. Len(q) - k : b[i] = q[i + k]
  <2>1. \A i \in 1 .. Len(q) - k : i + k \in 1 .. Len(q) /\ (k + 1) + i - 1 = i + k
    BY <1>1
  <2>2. /\ b \in Seq(Entry) /\ Len(b) = Len(q) - k
        /\ \A i \in 1 .. Len(q) - k : b[i] = q[(k + 1) + i - 1]
    BY <1>1, SubSeqProperties
  <2> QED BY <2>1, <2>2
<1> HIDE DEF a, b
<1>4. a \o b = q
  <2>1. /\ a \o b \in Seq(Entry) /\ Len(a \o b) = Len(q)
        /\ \A i \in 1 .. Len(a) + Len(b) : (a \o b)[i] = IF i <= Len(a) THEN a[i] ELSE b[i - Len(a)]
    <3>1. Len(a) + Len(b) = Len(q)
      BY <1>1, <1>2, <1>3
    <3> QED BY <1>2, <1>3, <3>1, ConcatProperties
  <2>2. \A i \in 1 .. Len(q) : (a \o b)[i] = q[i]
    <3> SUFFICES ASSUME NEW i \in 1 .. Len(q) PROVE (a \o b)[i] = q[i]
      OBVIOUS
    <3>1. CASE i <= k
      BY <1>1, <1>2, <1>3, <2>1, <3>1
    <3>2. CASE ~ (i <= k)
      <4>1. i - k \in 1 .. Len(q) - k /\ (i - k) + k = i /\ i \in 1 .. Len(a) + Len(b)
        BY <1>1, <1>2, <1>3, <3>2
      <4> QED BY <1>2, <1>3, <2>1, <3>2, <4>1
    <3> QED BY <3>1, <3>2
  <2> QED BY <2>1, <2>2, SeqEqual
<1>5. Sats(q) = Sats(a) \cup Sats(b)
  BY <1>2, <1>3, <1>4, CatSats
<1> QED BY <1>2, <1>3, <1>4, <1>5 DEF a, b

LEMMA ReverseKeeps ==
  ASSUME NEW q \in Seq(Entry)
  PROVE  SameSats(Reverse(q), q)
<1> DEFINE n == Len(q)
           r == Reverse(q)
<1>1. n \in Nat /\ \A i \in 1 .. n : q[i] \in Entry /\ (n - i) + 1 \in 1 .. n
  BY LenProperties, ElementOfSeq
<1>2. r = [i \in 1 .. n |-> q[(n - i) + 1]]
  BY DEF Reverse
<1> HIDE DEF r
<1>3. r \in Seq(Entry) /\ Len(r) = n /\ \A i \in 1 .. n : r[i] = q[(n - i) + 1]
  <2>1. r \in [1 .. n -> Entry]
    BY <1>1, <1>2
  <2> QED BY <1>1, <1>2, <2>1
<1>4. \A i \in 1 .. n : \E j \in 1 .. n : r[i].sat = q[j].sat
  BY <1>1, <1>3
<1>5. ASSUME NEW j \in 1 .. n PROVE \E i \in 1 .. n : r[i].sat = q[j].sat
  <2>1. (n - j) + 1 \in 1 .. n /\ (n - ((n - j) + 1)) + 1 = j
    BY <1>1
  <2>2. r[(n - j) + 1] = q[j]
    BY <1>3, <2>1
  <2> QED BY <2>1, <2>2
<1> QED BY <1>3, <1>4, <1>5, SatsElements DEF r

-----------------------------------------------------------------------------
(* The satellites on the list q are there once. *)
Once(q) == \A i, j \in 1 .. Len(q) : q[i].sat = q[j].sat => i = j

(* The lists a and b are as many entries as there are satellites, and all  *)
(* of the satellites.                                                      *)
Listing(a, b) ==
  /\ a \in Seq(Entry) /\ b \in Seq(Entry)
  /\ Len(a) + Len(b) = Cardinality(Sat)
  /\ Sats(a) \cup Sats(b) = Sat

LEMMA OnceEach ==
  ASSUME NEW q \in Seq(Entry), Len(q) = Cardinality(Sat), Sats(q) = Sat
  PROVE  Once(q)
<1> DEFINE D == 1 .. Len(q)
           f == [i \in D |-> q[i].sat]
<1>1. Len(q) \in Nat /\ \A i \in D : q[i] \in Entry
  BY LenProperties, ElementOfSeq
<1>2. IsFiniteSet(D) /\ Cardinality(D) = Len(q)
  BY <1>1, FS_Interval
<1>3. f \in [D -> Sat]
  BY <1>1 DEF Entry
<1>4. \A s \in Sat : \E i \in D : f[i] = s
  <2>1. \A s : s \in Sats(q) <=> \E i \in 1 .. Len(q) : q[i].sat = s
    BY SatsMembers
  <2> QED BY <2>1
<1>5. f \in Surjection(D, Sat)
  <2> HIDE DEF f
  <2> QED BY <1>3, <1>4 DEF Surjection
<1>6. f \in Injection(D, Sat)
  <2> HIDE DEF f, D
  <2>1. IsFiniteSet(Sat) /\ Cardinality(D) = Cardinality(Sat)
    BY <1>2, CityUplinksAssumption
  <2> QED BY <1>2, <1>5, <2>1, FS_SurjSameCardinalityImpliesInj
<1>7. \A i, j \in D : f[i] = f[j] => i = j
  <2> HIDE DEF f, D
  <2> QED BY <1>6 DEF Injection, IsInjective
<1> QED BY <1>7 DEF Once

LEMMA ListedOnce ==
  ASSUME NEW a, NEW b, Listing(a, b)
  PROVE  Once(a) /\ Once(b) /\ Sats(a) \cap Sats(b) = {}
<1> DEFINE c == a \o b
<1>0. a \in Seq(Entry) /\ b \in Seq(Entry) /\ Len(a) \in Nat /\ Len(b) \in Nat
  BY LenProperties DEF Listing
<1>1. Once(c) /\ Len(c) = Len(a) + Len(b)
  <2>1. c \in Seq(Entry) /\ Len(c) = Len(a) + Len(b) /\ Sats(c) = Sats(a) \cup Sats(b)
    BY <1>0, CatSats
  <2> HIDE DEF c
  <2>2. Len(c) = Cardinality(Sat) /\ Sats(c) = Sat
    BY <2>1 DEF Listing
  <2> QED BY <2>1, <2>2, OnceEach
<1>2. \A i \in 1 .. Len(a) + Len(b) : c[i] = IF i <= Len(a) THEN a[i] ELSE b[i - Len(a)]
  BY <1>0, ConcatProperties
<1> HIDE DEF c
<1>3. ASSUME NEW i \in 1 .. Len(a) PROVE i \in 1 .. Len(c) /\ c[i] = a[i]
  BY <1>0, <1>1, <1>2
<1>4. ASSUME NEW i \in 1 .. Len(b)
      PROVE  i + Len(a) \in 1 .. Len(c) /\ c[i + Len(a)] = b[i]
  <2>1. i + Len(a) \in 1 .. Len(a) + Len(b) /\ ~ (i + Len(a) <= Len(a)) /\ (i + Len(a)) - Len(a) = i
    BY <1>0
  <2> QED BY <1>1, <1>2, <2>1
<1>5. Once(a)
  <2> SUFFICES ASSUME NEW i \in 1 .. Len(a), NEW j \in 1 .. Len(a), a[i].sat = a[j].sat
               PROVE  i = j
    BY DEF Once
  <2> QED BY <1>1, <1>3 DEF Once
<1>6. Once(b)
  <2> SUFFICES ASSUME NEW i \in 1 .. Len(b), NEW j \in 1 .. Len(b), b[i].sat = b[j].sat
               PROVE  i = j
    BY DEF Once
  <2>1. i + Len(a) = j + Len(a)
    <3>1. i + Len(a) \in 1 .. Len(c) /\ j + Len(a) \in 1 .. Len(c)
      BY <1>4
    <3>2. c[i + Len(a)].sat = c[j + Len(a)].sat
      BY <1>4
    <3> QED BY <1>1, <3>1, <3>2 DEF Once
  <2> QED BY <1>0, <2>1
<1>7. Sats(a) \cap Sats(b) = {}
  <2> SUFFICES ASSUME NEW s \in Sats(a), s \in Sats(b) PROVE FALSE
    OBVIOUS
  <2>1. PICK i \in 1 .. Len(a) : a[i].sat = s
    BY <1>0, SatsMembers
  <2>2. PICK j \in 1 .. Len(b) : b[j].sat = s
    BY <1>0, SatsMembers
  <2>3. i = j + Len(a)
    BY <1>1, <1>3, <1>4, <2>1, <2>2 DEF Once
  <2> QED BY <1>0, <2>3
<1> QED BY <1>5, <1>6, <1>7

LEMMA SameListing ==
  ASSUME NEW a, NEW b, NEW c, NEW d, Listing(a, b), SameSats(c, a), SameSats(d, b)
  PROVE  Listing(c, d)
  BY DEF Listing, SameSats

LEMMA ActiveKeeps ==
  ASSUME activeUplinks \in Seq(Entry), NEW d \in [Sat -> Dist]
  PROVE  SameSats(ActiveNow(d), activeUplinks)
<1> DEFINE q == Refreshed(activeUplinks, d)
<1>1. SameSats(q, activeUplinks)
  BY RefreshedKeeps
<1> HIDE DEF q
<1>2. SameSats(BubblePass(q, Longer), q)
  BY <1>1, OrdersRank, BubbleKeeps DEF SameSats
<1> QED BY <1>1, <1>2, SameSatsChain DEF ActiveNow, q

LEMMA NearestKeeps ==
  ASSUME NEW q \in Seq(Entry), NEW d \in [Sat -> Dist]
  PROVE  SameSats(Nearest(q, d), q)
<1> DEFINE n == Len(q) - Min({CheckCount, Len(q)})
           a == SubSeq(q, 1, n)
           b == SubSeq(q, n + 1, Len(q))
           r == BubblePass(Refreshed(b, d), Shorter)
<1>1. Len(q) \in Nat /\ n \in 0 .. Len(q)
  <2>1. Len(q) \in Nat /\ CheckCount \in Nat
    BY LenProperties, CityUplinksAssumption
  <2>2. Min({CheckCount, Len(q)}) = IF CheckCount <= Len(q) THEN CheckCount ELSE Len(q)
    BY <2>1, MinOfTwo
  <2> QED BY <2>1, <2>2
<1> HIDE DEF n
<1>2. /\ a \in Seq(Entry) /\ Len(a) = n /\ b \in Seq(Entry) /\ Len(b) = Len(q) - n
      /\ Sats(q) = Sats(a) \cup Sats(b)
  BY <1>1, CutSats
<1> HIDE DEF a, b
<1>3. SameSats(r, b)
  <2>1. SameSats(Refreshed(b, d), b)
    BY <1>2, RefreshedKeeps
  <2>2. SameSats(r, Refreshed(b, d))
    BY <2>1, OrdersRank, BubbleKeeps DEF SameSats
  <2> QED BY <2>1, <2>2, SameSatsChain
<1> HIDE DEF r
<1>4. r \in Seq(Entry) /\ Len(r) = Len(b) /\ Sats(r) = Sats(b)
  BY <1>3 DEF SameSats
<1>5. a \o r \in Seq(Entry) /\ Len(a \o r) = Len(a) + Len(r) /\ Sats(a \o r) = Sats(a) \cup Sats(r)
  BY <1>2, <1>4, CatSats
<1>6. Len(a \o r) = Len(q)
  BY <1>1, <1>2, <1>4, <1>5
<1>7. SameSats(a \o r, q)
  BY <1>2, <1>4, <1>5, <1>6 DEF SameSats
<1> QED BY <1>7 DEF Nearest, a, b, r, n

LEMMA InactiveKeeps ==
  ASSUME inactiveSats \in Seq(Entry), NEW d \in [Sat -> Dist], NEW full \in BOOLEAN,
         NEW ina \in InactiveNow(d, full)
  PROVE  SameSats(ina, inactiveSats)
<1> DEFINE q == Refreshed(inactiveSats, d)
<1>1. SameSats(q, inactiveSats)
  BY RefreshedKeeps
<1>2. CASE full
  <2> HIDE DEF q
  <2>1. ina \in Sorted(q, Longer)
    BY <1>2 DEF InactiveNow, q
  <2>2. SameSats(ina, q)
    BY <1>1, <2>1, SortedKeeps DEF SameSats
  <2> QED BY <1>1, <2>2, SameSatsChain
<1>3. CASE ~ full
  <2>1. ina = Nearest(inactiveSats, d)
    BY <1>3 DEF InactiveNow
  <2> QED BY <2>1, NearestKeeps
<1> QED BY <1>2, <1>3

LEMMA KeptWithin ==
  ASSUME NEW q \in Seq(Entry), NEW leaves
  PROVE  Kept(q, leaves) \in 0 .. Len(q)
<1> DEFINE T == {0} \cup {i \in DOMAIN q : q[i] \notin leaves}
<1>1. Len(q) \in Nat /\ DOMAIN q = 1 .. Len(q)
  BY LenProperties
<1>2. T \in SUBSET Nat /\ T # {} /\ \A x \in T : x <= Len(q)
  BY <1>1
<1>3. T \subseteq 0 .. Len(q)
  BY <1>1
<1>4. Max(T) \in T
  <2> HIDE DEF T
  <2> QED BY <1>1, <1>2, MaxProperties
<1> HIDE DEF T
<1> QED BY <1>3, <1>4 DEF Kept, T

(* An exchange moves satellites between the lists act and ina. *)
Exchanged(ex, act, ina) ==
  /\ ex.active \in Seq(Entry) /\ ex.inactive \in Seq(Entry)
  /\ ex.out \in Seq(Entry) /\ ex.come \in Seq(Entry)
  /\ Listing(ex.active \o ex.come, ex.inactive \o ex.out)
  /\ Sats(act) = Sats(ex.active) \cup Sats(ex.out)
  /\ Sats(ina) = Sats(ex.inactive) \cup Sats(ex.come)

LEMMA ExchangeKeeps ==
  ASSUME NEW act, NEW ina, Listing(act, ina), NEW d \in [Sat -> Dist]
  PROVE  Exchanged(Exchange(d, act, ina), act, ina)
<1> DEFINE k == Kept(act, OutOfRange)
           m == Kept(ina, {e \in Entry : d[e.sat] < MAXDIST})
           ex == Exchange(d, act, ina)
           a == SubSeq(act, 1, k)
           b == SubSeq(act, k + 1, Len(act))
           i == SubSeq(ina, 1, m)
           j == SubSeq(ina, m + 1, Len(ina))
           out == Reverse(b)
           come == Reverse(Refreshed(j, d))
<1>1. /\ act \in Seq(Entry) /\ ina \in Seq(Entry)
      /\ Len(act) \in Nat /\ Len(ina) \in Nat
      /\ Len(act) + Len(ina) = Cardinality(Sat)
      /\ Sats(act) \cup Sats(ina) = Sat
  BY LenProperties DEF Listing
<1>2. k \in 0 .. Len(act) /\ m \in 0 .. Len(ina)
  BY <1>1, KeptWithin
<1>3. ex = [active |-> a, inactive |-> i, out |-> out, come |-> come]
  BY Zenon DEF Exchange
<1> HIDE DEF k, m, ex
<1>4. /\ a \in Seq(Entry) /\ Len(a) = k /\ b \in Seq(Entry) /\ Len(b) = Len(act) - k
      /\ Sats(act) = Sats(a) \cup Sats(b)
  BY <1>1, <1>2, CutSats
<1>5. /\ i \in Seq(Entry) /\ Len(i) = m /\ j \in Seq(Entry) /\ Len(j) = Len(ina) - m
      /\ Sats(ina) = Sats(i) \cup Sats(j)
  BY <1>1, <1>2, CutSats
<1> HIDE DEF a, b, i, j
<1>6. SameSats(out, b)
  BY <1>4, ReverseKeeps
<1>7. SameSats(come, j)
  <2>1. SameSats(Refreshed(j, d), j)
    BY <1>5, RefreshedKeeps
  <2>2. SameSats(come, Refreshed(j, d))
    BY <2>1, ReverseKeeps DEF SameSats
  <2> QED BY <2>1, <2>2, SameSatsChain
<1> HIDE DEF out, come
<1>8. /\ out \in Seq(Entry) /\ Len(out) = Len(b) /\ Sats(out) = Sats(b)
      /\ come \in Seq(Entry) /\ Len(come) = Len(j) /\ Sats(come) = Sats(j)
  BY <1>6, <1>7 DEF SameSats
<1>9. Listing(a \o come, i \o out)
  <2>1. /\ a \o come \in Seq(Entry) /\ Len(a \o come) = Len(a) + Len(come)
        /\ Sats(a \o come) = Sats(a) \cup Sats(come)
    BY <1>4, <1>8, CatSats
  <2>2. /\ i \o out \in Seq(Entry) /\ Len(i \o out) = Len(i) + Len(out)
        /\ Sats(i \o out) = Sats(i) \cup Sats(out)
    BY <1>5, <1>8, CatSats
  <2>3. Len(a \o come) + Len(i \o out) = Cardinality(Sat)
    <3>1. (k + (Len(ina) - m)) + (m + (Len(act) - k)) = Len(act) + Len(ina)
      BY <1>1, <1>2
    <3> QED BY <1>1, <1>4, <1>5, <1>8, <2>1, <2>2, <3>1
  <2>4. Sats(a \o come) \cup Sats(i \o out) = Sat
    BY <1>1, <1>4, <1>5, <1>8, <2>1, <2>2
  <2> QED BY <2>1, <2>2, <2>3, <2>4 DEF Listing
<1>10. /\ ex.active = a /\ ex.inactive = i /\ ex.out = out /\ ex.come = come
  BY <1>3
<1>11. Exchanged(ex, act, ina)
  BY <1>4, <1>5, <1>8, <1>9, <1>10 DEF Exchanged
<1> QED BY <1>11 DEF ex

LEMMA OnceParts ==
  ASSUME NEW a \in Seq(Entry), NEW b \in Seq(Entry), Once(a \o b)
  PROVE  Once(a) /\ Once(b)
<1> DEFINE c == a \o b
<1>0. Len(a) \in Nat /\ Len(b) \in Nat
  BY LenProperties
<1>1. /\ Once(c) /\ Len(c) = Len(a) + Len(b)
      /\ \A i \in 1 .. Len(a) + Len(b) : c[i] = IF i <= Len(a) THEN a[i] ELSE b[i - Len(a)]
  BY ConcatProperties
<1> HIDE DEF c
<1>3. ASSUME NEW i \in 1 .. Len(a) PROVE i \in 1 .. Len(c) /\ c[i] = a[i]
  BY <1>0, <1>1
<1>4. ASSUME NEW i \in 1 .. Len(b)
      PROVE  i + Len(a) \in 1 .. Len(c) /\ c[i + Len(a)] = b[i]
  <2>1. i + Len(a) \in 1 .. Len(a) + Len(b) /\ ~ (i + Len(a) <= Len(a)) /\ (i + Len(a)) - Len(a) = i
    BY <1>0
  <2> QED BY <1>1, <2>1
<1>5. Once(a)
  <2> SUFFICES ASSUME NEW i \in 1 .. Len(a), NEW j \in 1 .. Len(a), a[i].sat = a[j].sat
               PROVE  i = j
    BY DEF Once
  <2> QED BY <1>1, <1>3 DEF Once
<1>6. Once(b)
  <2> SUFFICES ASSUME NEW i \in 1 .. Len(b), NEW j \in 1 .. Len(b), b[i].sat = b[j].sat
               PROVE  i = j
    BY DEF Once
  <2>1. i + Len(a) = j + Len(a)
    <3>1. i + Len(a) \in 1 .. Len(c) /\ j + Len(a) \in 1 .. Len(c)
      BY <1>4
    <3>2. c[i + Len(a)].sat = c[j + Len(a)].sat
      BY <1>4
    <3> QED BY <1>1, <3>1, <3>2 DEF Once
  <2> QED BY <1>0, <2>1
<1> QED BY <1>5, <1>6

(* What update_uplinks() drops was linked, once, what it makes was not, and *)
(* afterwards every satellite is on one list again.                        *)
LEMMA UpdateKeeps ==
  ASSUME OnOneList, NEW d \in [Sat -> Dist], NEW full \in BOOLEAN,
         NEW ex \in Exchanges(d, full), UpdateUplinks(d, ex)
  PROVE  /\ OnOneList'
         /\ ex.out \in Seq(Entry) /\ ex.come \in Seq(Entry)
         /\ Once(ex.out) /\ Once(ex.come)
         /\ Sats(ex.out) \subseteq links /\ Sats(ex.come) \cap links = {}
         /\ links' = (links \ Sats(ex.out)) \cup Sats(ex.come)
<1> DEFINE act == ex.active \o ex.come
           ina == ex.inactive \o ex.out
<1>1. Listing(activeUplinks, inactiveSats) /\ links = Sats(activeUplinks)
  BY DEF OnOneList, CityTypeOK, Listing
<1>2. PICK jna \in InactiveNow(d, full) : ex = Exchange(d, ActiveNow(d), jna)
  BY DEF Exchanges
<1>3. SameSats(ActiveNow(d), activeUplinks) /\ SameSats(jna, inactiveSats)
  BY <1>1, ActiveKeeps, InactiveKeeps DEF Listing
<1>4. Exchanged(ex, ActiveNow(d), jna)
  BY <1>1, <1>2, <1>3, SameListing, ExchangeKeeps
<1>5. /\ ex.active \in Seq(Entry) /\ ex.inactive \in Seq(Entry)
      /\ ex.out \in Seq(Entry) /\ ex.come \in Seq(Entry)
      /\ Listing(act, ina)
      /\ links = Sats(ex.active) \cup Sats(ex.out)
  BY <1>1, <1>3, <1>4 DEF Exchanged, SameSats
<1>6. /\ Sats(act) = Sats(ex.active) \cup Sats(ex.come)
      /\ Sats(ina) = Sats(ex.inactive) \cup Sats(ex.out)
  BY <1>5, CatSats
<1>7. Once(act) /\ Once(ina) /\ Sats(act) \cap Sats(ina) = {}
  BY <1>5, ListedOnce
<1>8. Once(ex.out) /\ Once(ex.come)
  BY <1>5, <1>7, OnceParts
<1>9. Sats(ex.come) \cap links = {}
  <2>1. Sats(activeUplinks) \cap Sats(inactiveSats) = {}
    BY <1>1, ListedOnce
  <2>2. Sats(ex.come) \subseteq Sats(inactiveSats)
    BY <1>3, <1>4 DEF Exchanged, SameSats
  <2> QED BY <1>1, <2>1, <2>2
<1> HIDE DEF act, ina
<1>10. links' = Sats(act)
  <2>1. links' = (links \ Sats(ex.out)) \cup Sats(ex.come)
    BY DEF UpdateUplinks, LinksAfter
  <2> QED BY <1>5, <1>6, <1>7, <2>1
<1>11. SameSats(activeUplinks', act) /\ SameSats(inactiveSats', ina)
  <2>1. act \in Seq(Entry) /\ ina \in Seq(Entry)
    BY <1>5 DEF Listing
  <2>2. CASE ex.out # <<>> \/ ex.come # <<>>
    <3>1. activeUplinks' \in Sorted(act, Shorter) /\ inactiveSats' \in Sorted(ina, Longer)
      BY <2>2 DEF UpdateUplinks, InactiveAfter, act, ina
    <3> QED BY <2>1, <3>1, SortedKeeps
  <2>3. CASE ~ (ex.out # <<>> \/ ex.come # <<>>)
    <3>1. activeUplinks' = act /\ inactiveSats' = ina
      BY <2>3 DEF UpdateUplinks, InactiveAfter, act, ina
    <3> QED BY <2>1, <3>1 DEF SameSats
  <2> QED BY <2>2, <2>3
<1>12. Listing(activeUplinks', inactiveSats') /\ links' = Sats(activeUplinks')
  BY <1>5, <1>10, <1>11, SameListing DEF SameSats
<1>13. dist' = d /\ links' \subseteq Sat
  <2>1. dist' = d
    BY DEF UpdateUplinks
  <2> QED BY <1>12, <2>1 DEF Listing
<1>14. OnOneList'
  BY <1>12, <1>13 DEF OnOneList, CityTypeOK, Listing
<1>15. links' = (links \ Sats(ex.out)) \cup Sats(ex.come)
  BY DEF UpdateUplinks, LinksAfter
<1> QED BY <1>5, <1>8, <1>9, <1>14, <1>15

-----------------------------------------------------------------------------
LEMMA EntriesListed ==
  ASSUME NEW S \in SUBSET Sat, NEW d \in [Sat -> Dist]
  PROVE  /\ Entries(S, d) \in Seq(Entry)
         /\ Len(Entries(S, d)) = Cardinality(S)
         /\ Sats(Entries(S, d)) = S
<1> DEFINE e(s) == [sat |-> s, dist |-> d[s]]
           E == {e(s) : s \in S}
           f == [s \in S |-> e(s)]
           q == SetToSeq(E)
<1>1. IsFiniteSet(S)
  BY CityUplinksAssumption, FS_Subset
<1>2. E \in SUBSET Entry /\ \A s \in S : e(s).sat = s
  BY DEF Entry
<1> HIDE DEF e
<1>3. f \in Surjection(S, E)
  BY DEF Surjection
<1>4. f \in Injection(S, E)
  <2>1. \A s, r \in S : f[s] = f[r] => s = r
    BY <1>2
  <2>2. f \in [S -> E]
    OBVIOUS
  <2>3. IsInjective(f)
    BY <2>1, <2>2 DEF IsInjective
  <2> QED BY <2>2, <2>3 DEF Injection
<1> HIDE DEF f
<1>5. IsFiniteSet(E) /\ Cardinality(E) = Cardinality(S)
  <2> HIDE DEF E
  <2> QED BY <1>1, <1>3, <1>4, FS_Surjection
<1>6. /\ q \in Seq(E) /\ Len(q) = Cardinality(E)
      /\ \A x \in E : \E i \in 1 .. Cardinality(E) : q[i] = x
  <2> HIDE DEF E
  <2> QED BY <1>5, SetToSeqProperties
<1> HIDE DEF q
<1>7. q \in Seq(Entry)
  BY <1>2, <1>6
<1>8. \A r : r \in Sats(q) <=> r \in S
  <2>1. \A r : r \in Sats(q) <=> \E i \in 1 .. Len(q) : q[i].sat = r
    BY <1>7, SatsMembers
  <2>2. ASSUME NEW i \in 1 .. Len(q) PROVE q[i].sat \in S
    <3>1. q[i] \in E
      BY <1>6, ElementOfSeq
    <3> QED BY <1>2, <3>1
  <2>3. ASSUME NEW r \in S PROVE \E i \in 1 .. Len(q) : q[i].sat = r
    <3>1. PICK i \in 1 .. Len(q) : q[i] = e(r)
      BY <1>6
    <3> QED BY <1>2, <3>1
  <2> QED BY <2>1, <2>2, <2>3
<1>9. Sats(q) = S
  BY <1>8
<1>10. q = Entries(S, d)
  BY DEF Entries, q, E, e
<1> QED BY <1>5, <1>6, <1>7, <1>9, <1>10

LEMMA AddUplinksLists ==
  ASSUME AddUplinks
  PROVE  OnOneList
<1> DEFINE a == Entries(links, dist)
           b == Entries(Sat \ links, dist)
<1>1. dist \in [Sat -> Dist] /\ links \in SUBSET Sat /\ Sat \ links \in SUBSET Sat
  BY DEF AddUplinks
<1>2. /\ a \in Seq(Entry) /\ Len(a) = Cardinality(links) /\ Sats(a) = links
      /\ b \in Seq(Entry) /\ Len(b) = Cardinality(Sat \ links) /\ Sats(b) = Sat \ links
  BY <1>1, EntriesListed
<1>3. Cardinality(links) + Cardinality(Sat \ links) = Cardinality(Sat)
  <2>1. IsFiniteSet(Sat) /\ IsFiniteSet(links)
    BY <1>1, CityUplinksAssumption, FS_Subset
  <2>2. /\ Cardinality(Sat \ links) = Cardinality(Sat) - Cardinality(Sat \cap links)
        /\ Sat \cap links = links
    BY <1>1, <2>1, FS_Difference
  <2>3. Cardinality(Sat) \in Nat /\ Cardinality(links) \in Nat
    BY <2>1, FS_CardinalityType
  <2> QED BY <2>2, <2>3
<1>4. activeUplinks \in Sorted(a, Shorter) /\ inactiveSats \in Sorted(b, Longer)
  BY DEF AddUplinks
<1> HIDE DEF a, b
<1>5. SameSats(activeUplinks, a) /\ SameSats(inactiveSats, b)
  BY <1>2, <1>4, SortedKeeps
<1> QED BY <1>1, <1>2, <1>3, <1>5 DEF OnOneList, CityTypeOK, SameSats

(* Every satellite is on exactly one of the lists, and there once, and the *)
(* city has an uplink exactly to those on the active list, for all sets of *)
(* satellites and distances, whatever order the lists are left in.         *)
THEOREM EachOnOneList == ConstellationSpec => []OnOneList
<1>1. ConstellationInit => OnOneList
  BY AddUplinksLists DEF ConstellationInit
<1>2. OnOneList /\ [ConstellationNext]_constellationVars => OnOneList'
  <2> SUFFICES ASSUME OnOneList, [ConstellationNext]_constellationVars PROVE OnOneList'
    OBVIOUS
  <2>1. CASE ConstellationNext
    <3>1. PICK d \in [Sat -> Dist], full \in BOOLEAN :
            \E ex \in Exchanges(d, full) : UpdateUplinks(d, ex)
      BY <2>1 DEF ConstellationNext
    <3> QED BY <3>1, UpdateKeeps
  <2>2. CASE UNCHANGED constellationVars
    BY <2>2 DEF constellationVars, cityVars, OnOneList, CityTypeOK
  <2> QED BY <2>1, <2>2
<1> QED BY <1>1, <1>2, PTL DEF ConstellationSpec

-----------------------------------------------------------------------------
(* A pass of bubble sort moves entries as they are, and brings to the end  *)
(* one that none is out of order before.                                   *)
LEMMA BubbleLast ==
  ASSUME NEW q \in Seq(Entry), NEW o, Ranks(o)
  PROVE  LET r == BubblePass(q, o)
             n == Len(q)
         IN  /\ \A i \in 1 .. n : \E j \in 1 .. n : r[i] = q[j]
             /\ n # 0 => \A k \in 1 .. n : <<q[k], r[n]>> \notin o
<1> DEFINE n == Len(q)
           h(i) == InHand(q, i, o)
           r == BubblePass(q, o)
<1>1. n \in Nat /\ DOMAIN q = 1 .. n
  BY LenProperties
<1>2. \A i \in 1 .. n : h(i) \in Hands(q, i, o)
  BY HandHeld
<1>3. \A i \in 1 .. n : h(i) \in 1 .. i /\ \A k \in 1 .. i : <<q[k], q[h(i)]>> \notin o
  BY <1>2 DEF Hands
<1> HIDE DEF h
<1>4. \A i \in 1 .. n :
        r[i] = IF i < n /\ <<q[h(i)], q[i + 1]>> \in o THEN q[i + 1] ELSE q[h(i)]
  BY <1>1 DEF BubblePass, h
<1> HIDE DEF r
<1>5. ASSUME NEW i \in 1 .. n PROVE \E j \in 1 .. n : r[i] = q[j]
  <2>1. (i < n => i + 1 \in 1 .. n) /\ h(i) \in 1 .. n
    BY <1>1, <1>3
  <2> QED BY <1>4, <2>1
<1>6. ASSUME n # 0 PROVE \A k \in 1 .. n : <<q[k], r[n]>> \notin o
  <2>1. n \in 1 .. n /\ ~ (n < n)
    BY <1>1, <1>6
  <2>2. r[n] = q[h(n)]
    BY <1>4, <2>1
  <2> QED BY <1>3, <2>1, <2>2
<1> QED BY <1>5, <1>6 DEF r

(* A sorted list has the entries of the list it comes from, and the later  *)
(* one is the nearer one.                                                  *)
LEMMA SortedNearest ==
  ASSUME NEW q \in Seq(Entry), NEW r \in Sorted(q, Longer)
  PROVE  /\ \A i \in 1 .. Len(q) : \E j \in 1 .. Len(q) : r[i] = q[j]
         /\ \A i, j \in 1 .. Len(q) : i <= j => r[j].dist <= r[i].dist
<1> DEFINE n == Len(q)
           D == 1 .. n
<1>1. DOMAIN q = D /\ n \in Nat
  BY LenProperties
<1>2. r \in Seq(Entry) /\ Len(r) = n
  BY SortedKeeps DEF SameSats
<1>3. PICK f \in [D -> D] : r = [i \in D |-> q[f[i]]]
  BY <1>1, Zenon DEF Sorted
<1>4. \A i \in D : r[i] = q[f[i]] /\ f[i] \in D
  BY <1>3
<1>5. \A i \in D : r[i] \in Entry /\ r[i].dist \in Nat
  <2>1. \A i \in D : r[i] \in Entry
    BY <1>2, ElementOfSeq
  <2> QED BY <2>1, CityUplinksAssumption DEF Entry
<1>6. \A i \in 1 .. n - 1 : <<r[i + 1], r[i]>> \notin Longer
  BY <1>2, Zenon DEF Sorted
<1>7. \A i \in 1 .. n - 1 : r[i + 1].dist <= r[i].dist
  <2> SUFFICES ASSUME NEW i \in 1 .. n - 1 PROVE r[i + 1].dist <= r[i].dist
    OBVIOUS
  <2>1. i \in D /\ i + 1 \in D
    BY <1>1
  <2>2. ~ (r[i + 1].dist > r[i].dist)
    BY <1>5, <1>6, <2>1 DEF Longer
  <2> QED BY <1>5, <2>1, <2>2
<1>8. ASSUME NEW i \in D PROVE \A j \in D : i <= j => r[j].dist <= r[i].dist
  <2> DEFINE W == {j \in D : i <= j /\ ~ (r[j].dist <= r[i].dist)}
  <2> SUFFICES ASSUME W # {} PROVE FALSE
    OBVIOUS
  <2>1. W \in SUBSET Nat
    OBVIOUS
  <2>2. PICK m \in W : \A j \in W : m <= j
    BY <2>1, MinProperties
  <2>3. m # i
    BY <1>5, <2>2
  <2>4. m - 1 \in D /\ m - 1 \in 1 .. n - 1 /\ i <= m - 1 /\ (m - 1) + 1 = m /\ ~ (m <= m - 1)
    BY <1>1, <2>2, <2>3
  <2>5. r[m - 1].dist <= r[i].dist
    BY <2>2, <2>4
  <2>6. r[m].dist <= r[m - 1].dist
    BY <1>7, <2>4
  <2>7. m \in D
    BY <2>2
  <2>8. r[m].dist \in Nat /\ r[m - 1].dist \in Nat /\ r[i].dist \in Nat
    BY <1>5, <2>4, <2>7
  <2>9. r[m].dist <= r[i].dist
    BY <2>5, <2>6, <2>8
  <2> QED BY <2>2, <2>9
<1> QED BY <1>4, <1>8

(* The distances noted in the list q are those of d. *)
UpToDate(q, d) == \A i \in 1 .. Len(q) : q[i].dist = d[q[i].sat]

LEMMA RefreshedIsFresh ==
  ASSUME NEW q \in Seq(Entry), NEW d \in [Sat -> Dist]
  PROVE  LET r == Refreshed(q, d)
         IN  /\ r \in Seq(Entry) /\ Len(r) = Len(q)
             /\ \A i \in 1 .. Len(q) : r[i].sat = q[i].sat
             /\ UpToDate(r, d)
<1> DEFINE r == Refreshed(q, d)
<1>1. Len(q) \in Nat /\ DOMAIN q = 1 .. Len(q) /\ \A i \in 1 .. Len(q) : q[i] \in Entry
  BY LenProperties, ElementOfSeq
<1>2. r \in Seq(Entry) /\ Len(r) = Len(q)
  BY RefreshedKeeps DEF SameSats
<1>3. \A i \in 1 .. Len(q) : r[i] = [q[i] EXCEPT !.dist = d[q[i].sat]]
  BY <1>1 DEF Refreshed
<1> HIDE DEF r
<1>4. \A i \in 1 .. Len(q) : r[i].sat = q[i].sat /\ r[i].dist = d[q[i].sat]
  BY <1>1, <1>3 DEF Entry
<1>5. UpToDate(r, d)
  BY <1>2, <1>4 DEF UpToDate
<1> QED BY <1>2, <1>4, <1>5 DEF r

(* What is taken from the end of a list. *)
LEMMA KeptIs ==
  ASSUME NEW q \in Seq(Entry), NEW leaves
  PROVE  LET k == Kept(q, leaves)
         IN  /\ k \in 0 .. Len(q)
             /\ \A i \in 1 .. Len(q) : i > k => q[i] \in leaves
             /\ \A p \in 1 .. Len(q) :
                  (\A i \in 1 .. Len(q) : i >= p => q[i] \in leaves) => p > k
<1> DEFINE T == {0} \cup {i \in DOMAIN q : q[i] \notin leaves}
           k == Kept(q, leaves)
<1>1. Len(q) \in Nat /\ DOMAIN q = 1 .. Len(q)
  BY LenProperties
<1>2. T \in SUBSET Nat /\ T # {} /\ \A x \in T : x <= Len(q)
  BY <1>1
<1>3. \A x : x \in T <=> x = 0 \/ (x \in 1 .. Len(q) /\ q[x] \notin leaves)
  BY <1>1
<1>4. k \in T /\ \A x \in T : k >= x
  <2>1. Max(T) \in T /\ \A x \in T : Max(T) >= x
    <3> HIDE DEF T
    <3> QED BY <1>1, <1>2, MaxProperties
  <2> QED BY <2>1 DEF Kept
<1>5. k \in 0 .. Len(q)
  BY KeptWithin
<1> HIDE DEF T, k
<1>6. ASSUME NEW i \in 1 .. Len(q), i > k PROVE q[i] \in leaves
  <2>1. ~ (k >= i)
    BY <1>5, <1>6
  <2> QED BY <1>3, <1>4, <2>1
<1>7. ASSUME NEW p \in 1 .. Len(q), \A i \in 1 .. Len(q) : i >= p => q[i] \in leaves
      PROVE  p > k
  <2>1. ~ (k >= p)
    BY <1>3, <1>4, <1>5, <1>7
  <2> QED BY <1>5, <2>1
<1> QED BY <1>5, <1>6, <1>7 DEF k

LEMMA TailSats ==
  ASSUME NEW q \in Seq(Entry), NEW k \in 0 .. Len(q)
  PROVE  LET b == SubSeq(q, k + 1, Len(q))
         IN  /\ b \in Seq(Entry) /\ Len(b) = Len(q) - k
             /\ \A i \in 1 .. Len(q) - k : b[i] = q[i + k]
             /\ \A s : s \in Sats(b) <=> \E i \in 1 .. Len(q) : i > k /\ q[i].sat = s
<1> DEFINE b == SubSeq(q, k + 1, Len(q))
<1>1. Len(q) \in Nat /\ k \in Nat
  BY LenProperties
<1>2. b \in Seq(Entry) /\ Len(b) = Len(q) - k
  BY CutSats
<1>3. \A i \in 1 .. Len(q) - k : b[i] = q[i + k]
  <2>1. \A i \in 1 .. Len(q) - k : (k + 1) + i - 1 = i + k
    BY <1>1
  <2>2. \A i \in 1 .. Len(q) - k : b[i] = q[(k + 1) + i - 1]
    BY <1>1, SubSeqProperties
  <2> QED BY <2>1, <2>2
<1> HIDE DEF b
<1>4. \A s : s \in Sats(b) <=> \E i \in 1 .. Len(q) - k : b[i].sat = s
  BY <1>2, SatsMembers
<1>5. ASSUME NEW s, NEW i \in 1 .. Len(q) - k, b[i].sat = s
      PROVE  \E j \in 1 .. Len(q) : j > k /\ q[j].sat = s
  <2>1. i + k \in 1 .. Len(q) /\ i + k > k
    BY <1>1
  <2> QED BY <1>3, <1>5, <2>1
<1>6. ASSUME NEW s, NEW j \in 1 .. Len(q), j > k, q[j].sat = s
      PROVE  \E i \in 1 .. Len(q) - k : b[i].sat = s
  <2>1. j - k \in 1 .. Len(q) - k /\ (j - k) + k = j
    BY <1>1, <1>6
  <2>2. b[j - k] = q[j]
    BY <1>3, <2>1
  <2> QED BY <1>6, <2>1, <2>2
<1>7. \A s : s \in Sats(b) <=> \E i \in 1 .. Len(q) : i > k /\ q[i].sat = s
  BY <1>4, <1>5, <1>6
<1> QED BY <1>2, <1>3, <1>7 DEF b

InReach(d) == {e \in Entry : d[e.sat] < MAXDIST}

(* An exchange moves what it takes from the ends of the lists.             *)
LEMMA ExchangeMoves ==
  ASSUME NEW act \in Seq(Entry), NEW ina \in Seq(Entry), NEW d \in [Sat -> Dist]
  PROVE  LET ex == Exchange(d, act, ina)
         IN  /\ \A s : s \in Sats(ex.out) <=>
                  \E i \in 1 .. Len(act) : i > Kept(act, OutOfRange) /\ act[i].sat = s
             /\ \A s : s \in Sats(ex.come) <=>
                  \E i \in 1 .. Len(ina) : i > Kept(ina, InReach(d)) /\ ina[i].sat = s
<1> DEFINE k == Kept(act, OutOfRange)
           m == Kept(ina, InReach(d))
           ex == Exchange(d, act, ina)
           a == SubSeq(act, 1, k)
           b == SubSeq(act, k + 1, Len(act))
           i == SubSeq(ina, 1, m)
           j == SubSeq(ina, m + 1, Len(ina))
           out == Reverse(b)
           come == Reverse(Refreshed(j, d))
<1>1. k \in 0 .. Len(act) /\ m \in 0 .. Len(ina)
  BY KeptWithin
<1>2. ex = [active |-> a, inactive |-> i, out |-> out, come |-> come]
  BY Zenon DEF Exchange, InReach
<1> HIDE DEF k, m, ex
<1>3. /\ b \in Seq(Entry)
      /\ \A s : s \in Sats(b) <=> \E x \in 1 .. Len(act) : x > k /\ act[x].sat = s
  BY <1>1, TailSats
<1>4. /\ j \in Seq(Entry)
      /\ \A s : s \in Sats(j) <=> \E x \in 1 .. Len(ina) : x > m /\ ina[x].sat = s
  BY <1>1, TailSats
<1> HIDE DEF a, b, i, j
<1>5. Sats(out) = Sats(b)
  BY <1>3, ReverseKeeps DEF SameSats
<1>6. Sats(come) = Sats(j)
  <2>1. SameSats(Refreshed(j, d), j)
    BY <1>4, RefreshedKeeps
  <2>2. SameSats(come, Refreshed(j, d))
    BY <2>1, ReverseKeeps DEF SameSats
  <2> QED BY <2>1, <2>2 DEF SameSats
<1> HIDE DEF out, come
<1>7. ex.out = out /\ ex.come = come
  BY <1>2
<1>8. /\ \A s : s \in Sats(ex.out) <=> \E x \in 1 .. Len(act) : x > k /\ act[x].sat = s
      /\ \A s : s \in Sats(ex.come) <=> \E x \in 1 .. Len(ina) : x > m /\ ina[x].sat = s
  BY <1>3, <1>4, <1>5, <1>6, <1>7
<1> QED BY <1>8 DEF ex, k, m

(* The satellites that a partial update looks at. *)
Looked(q) == {q[i].sat : i \in Len(q) + 1 - Min({CheckCount, Len(q)}) .. Len(q)}

(* A partial update brings the nearest of those it looks at to the end.    *)
LEMMA NearestLast ==
  ASSUME NEW q \in Seq(Entry), Len(q) # 0, NEW d \in [Sat -> Dist]
  PROVE  LET s == Nearest(q, d)[Len(q)].sat
         IN  s \in Looked(q) /\ \A t \in Looked(q) : d[s] <= d[t]
<1> DEFINE n == Len(q)
           c == Min({CheckCount, n})
           m == n - c
           a == SubSeq(q, 1, m)
           b == SubSeq(q, m + 1, n)
           f == Refreshed(b, d)
           r == BubblePass(f, Shorter)
<1>1. n \in Nat /\ c \in 1 .. n /\ m \in 0 .. n /\ n - m = c /\ m + c = n
  <2>1. n \in Nat /\ n # 0 /\ CheckCount \in Nat \ {0}
    BY LenProperties, CityUplinksAssumption
  <2>2. c = IF CheckCount <= n THEN CheckCount ELSE n
    BY <2>1, MinOfTwo
  <2> HIDE DEF c
  <2> QED BY <2>1, <2>2
<1> HIDE DEF c, m
<1>2. a \in Seq(Entry) /\ Len(a) = m
  BY <1>1, CutSats
<1>3. b \in Seq(Entry) /\ Len(b) = c /\ \A i \in 1 .. c : b[i] = q[i + m]
  BY <1>1, TailSats
<1> HIDE DEF a, b
<1>4. f \in Seq(Entry) /\ Len(f) = c /\ \A i \in 1 .. c : f[i].sat = b[i].sat /\ f[i].dist = d[f[i].sat]
  BY <1>3, RefreshedIsFresh DEF UpToDate
<1> HIDE DEF f
<1>5. /\ r \in Seq(Entry) /\ Len(r) = c
      /\ \E j \in 1 .. c : r[c] = f[j]
      /\ \A k \in 1 .. c : <<f[k], r[c]>> \notin Shorter
  <2>1. c \in 1 .. c /\ c # 0
    BY <1>1
  <2>2. /\ \A i \in 1 .. c : \E j \in 1 .. c : r[i] = f[j]
        /\ \A k \in 1 .. c : <<f[k], r[c]>> \notin Shorter
    <3>1. /\ \A i \in 1 .. Len(f) : \E j \in 1 .. Len(f) : r[i] = f[j]
          /\ Len(f) # 0 => \A k \in 1 .. Len(f) : <<f[k], r[Len(f)]>> \notin Shorter
      BY <1>4, OrdersRank, BubbleLast
    <3> HIDE DEF r
    <3> QED BY <1>4, <2>1, <3>1
  <2>3. SameSats(r, f)
    BY <1>4, OrdersRank, BubbleKeeps
  <2> QED BY <1>4, <2>1, <2>2, <2>3 DEF SameSats
<1>6. Nearest(q, d) = a \o r
  BY DEF Nearest, a, b, r, f, m, c
<1> HIDE DEF r
<1>7. Nearest(q, d)[n] = r[c]
  <2>1. \A i \in 1 .. m + c : (a \o r)[i] = IF i <= m THEN a[i] ELSE r[i - m]
    <3> DEFINE E == Entry
    <3>1. a \in Seq(E) /\ Len(a) = m /\ r \in Seq(E) /\ Len(r) = c
      BY <1>2, <1>5
    <3> HIDE DEF E
    <3> QED BY <3>1, ConcatProperties
  <2>2. n \in 1 .. m + c /\ ~ (n <= m) /\ n - m = c
    BY <1>1
  <2>3. (a \o r)[n] = r[n - m]
    BY <2>1, <2>2
  <2> QED BY <1>6, <2>2, <2>3
<1>8. PICK j \in 1 .. c : r[c] = f[j]
  BY <1>5
<1>9. \A k \in 1 .. c : f[j].dist <= f[k].dist
  <2> SUFFICES ASSUME NEW k \in 1 .. c PROVE f[j].dist <= f[k].dist
    OBVIOUS
  <2>1. f[j] \in Entry /\ f[k] \in Entry /\ f[j].dist \in Nat /\ f[k].dist \in Nat
    <3>1. f[j] \in Entry /\ f[k] \in Entry
      BY <1>4, ElementOfSeq
    <3> QED BY <3>1, CityUplinksAssumption DEF Entry
  <2>2. ~ (f[k].dist < f[j].dist)
    BY <1>5, <1>8, <2>1 DEF Shorter
  <2> QED BY <2>1, <2>2
<1>10. \A t : t \in Looked(q) <=> \E k \in 1 .. c : f[k].sat = t
  <2>1. \A t : t \in Looked(q) <=> \E i \in m + 1 .. n : q[i].sat = t
    <3>1. n + 1 - c = m + 1
      BY <1>1
    <3>2. Looked(q) = {q[i].sat : i \in m + 1 .. n}
      BY <3>1, Zenon DEF Looked, c
    <3> QED BY <3>2
  <2>2. \A k \in 1 .. c : k + m \in m + 1 .. n /\ f[k].sat = q[k + m].sat
    BY <1>1, <1>3, <1>4
  <2>3. \A i \in m + 1 .. n : i - m \in 1 .. c /\ (i - m) + m = i
    BY <1>1
  <2> QED BY <2>1, <2>2, <2>3
<1>11. f[j].sat \in Looked(q)
  BY <1>10
<1>12. ASSUME NEW t \in Looked(q) PROVE d[f[j].sat] <= d[t]
  <2>1. PICK k \in 1 .. c : f[k].sat = t
    BY <1>10
  <2> QED BY <1>4, <1>9, <2>1
<1> QED BY <1>7, <1>8, <1>11, <1>12

LEMMA NearestStep ==
  ASSUME OnOneList, NEW d \in [Sat -> Dist], NEW full \in BOOLEAN,
         NEW ex \in Exchanges(d, full), UpdateUplinks(d, ex)
  PROVE  TakesNearest
<1> DEFINE q == inactiveSats
           n == Len(q)
           closest == {s \in Looked(q) : \A r \in Looked(q) : d[s] <= d[r]}
<1>1. /\ activeUplinks \in Seq(Entry) /\ q \in Seq(Entry) /\ n \in Nat /\ DOMAIN q = 1 .. n
      /\ Dist \subseteq Nat
  BY LenProperties, CityUplinksAssumption DEF OnOneList, CityTypeOK
<1>2. dist' = d /\ Sats(ex.come) \subseteq links'
  BY DEF UpdateUplinks, LinksAfter
<1>3. SUFFICES ASSUME \A s \in closest : d[s] < MAXDIST, closest # {}
               PROVE  closest \cap Sats(ex.come) # {}
  BY <1>2, Zenon DEF TakesNearest, Looked
<1>4. PICK ina \in InactiveNow(d, full) : ex = Exchange(d, ActiveNow(d), ina)
  BY DEF Exchanges
<1>5. ina \in Seq(Entry) /\ Len(ina) = n /\ Sats(ina) = Sats(q) /\ ActiveNow(d) \in Seq(Entry)
  BY <1>1, ActiveKeeps, InactiveKeeps DEF SameSats
<1> DEFINE k == Kept(ina, InReach(d))
<1>6. \A p \in 1 .. n :
        (\A i \in 1 .. n : i >= p => d[ina[i].sat] < MAXDIST) => ina[p].sat \in Sats(ex.come)
  <2> SUFFICES ASSUME NEW p \in 1 .. n,
                      \A i \in 1 .. n : i >= p => d[ina[i].sat] < MAXDIST
               PROVE  ina[p].sat \in Sats(ex.come)
    OBVIOUS
  <2>1. \A i \in 1 .. n : ina[i] \in Entry
    BY <1>5, ElementOfSeq
  <2>2. \A i \in 1 .. n : i >= p => ina[i] \in InReach(d)
    BY <2>1 DEF InReach
  <2>3. p > k
    BY <1>5, <2>2, KeptIs
  <2> QED BY <1>4, <1>5, <2>3, ExchangeMoves
<1>7. PICK x \in closest : TRUE
  BY <1>3
<1>8. x \in Looked(q) /\ d[x] < MAXDIST
  BY <1>3, <1>7
<1>9. PICK p0 \in 1 .. n : q[p0].sat = x
  <2>1. PICK i \in n + 1 - Min({CheckCount, n}) .. n : q[i].sat = x
    BY <1>8 DEF Looked
  <2>2. CheckCount \in Nat
    BY CityUplinksAssumption
  <2>3. Min({CheckCount, n}) = IF CheckCount <= n THEN CheckCount ELSE n
    BY <1>1, <2>2, MinOfTwo
  <2>4. i \in 1 .. n
    BY <1>1, <2>1, <2>2, <2>3
  <2> QED BY <2>1, <2>4
<1>10. CASE full
  <2> DEFINE f == Refreshed(q, d)
  <2>1. f \in Seq(Entry) /\ Len(f) = n /\ \A i \in 1 .. n : f[i].dist = d[f[i].sat]
    BY <1>1, RefreshedIsFresh DEF UpToDate
  <2>2. ina \in Sorted(f, Longer)
    BY <1>10 DEF InactiveNow
  <2> HIDE DEF f
  <2>3. /\ \A i \in 1 .. n : \E j \in 1 .. n : ina[i] = f[j]
        /\ \A i, j \in 1 .. n : i <= j => ina[j].dist <= ina[i].dist
    BY <2>1, <2>2, SortedNearest
  <2>4. \A i \in 1 .. n : ina[i].dist = d[ina[i].sat] /\ ina[i].dist \in Nat
    <3>1. ASSUME NEW i \in 1 .. n PROVE ina[i].dist = d[ina[i].sat]
      <4>1. PICK j \in 1 .. n : ina[i] = f[j]
        BY <2>3
      <4>2. f[j].dist = d[f[j].sat]
        BY <2>1
      <4> QED BY <4>1, <4>2
    <3>2. \A i \in 1 .. n : ina[i] \in Entry
      BY <1>5, ElementOfSeq
    <3> QED BY <1>1, <3>1, <3>2 DEF Entry
  <2>5. PICK p \in 1 .. n : ina[p].sat = x
    <3>1. x \in Sats(q)
      BY <1>1, <1>9, SatsMembers
    <3>2. \A s : s \in Sats(ina) <=> \E i \in 1 .. Len(ina) : ina[i].sat = s
      BY <1>5, SatsMembers
    <3> QED BY <1>5, <3>1, <3>2
  <2>6. \A i \in 1 .. n : i >= p => d[ina[i].sat] < MAXDIST
    <3> SUFFICES ASSUME NEW i \in 1 .. n, i >= p PROVE d[ina[i].sat] < MAXDIST
      OBVIOUS
    <3>1. ina[i].dist <= ina[p].dist
      BY <2>3
    <3>2. d[ina[i].sat] <= d[x] /\ d[ina[i].sat] \in Nat /\ d[x] \in Nat
      BY <2>4, <2>5, <3>1
    <3> QED BY <1>8, <3>2, CityUplinksAssumption
  <2> QED BY <1>6, <1>7, <2>5, <2>6
<1>11. CASE ~ full
  <2> DEFINE s == ina[n].sat
  <2>1. ina = Nearest(q, d) /\ n # 0
    BY <1>1, <1>9, <1>11 DEF InactiveNow
  <2>2. s \in Looked(q) /\ \A t \in Looked(q) : d[s] <= d[t]
    BY <1>1, <2>1, NearestLast
  <2> HIDE DEF s
  <2>3. s \in closest /\ d[s] < MAXDIST
    BY <1>3, <2>2
  <2>4. n \in 1 .. n /\ \A i \in 1 .. n : i >= n => i = n
    <3> HIDE DEF n
    <3>1. n \in Nat /\ n # 0
      BY <1>1, <2>1
    <3> QED BY <3>1
  <2>5. \A i \in 1 .. n : i >= n => d[ina[i].sat] < MAXDIST
    BY <2>3, <2>4 DEF s
  <2> QED BY <1>6, <2>3, <2>4, <2>5 DEF s
<1> QED BY <1>10, <1>11

(* Whatever distances the satellites move by, the nearest of the inactive  *)
(* satellites that an update looks at is taken if it is in range: one pass *)
(* of bubble sort over the last entries is enough for that.                *)
THEOREM TakesTheNearest == ConstellationSpec => NearestTaken
<1>1. OnOneList /\ [ConstellationNext]_constellationVars => [TakesNearest]_cityVars
  <2> SUFFICES ASSUME OnOneList, [ConstellationNext]_constellationVars
               PROVE  [TakesNearest]_cityVars
    OBVIOUS
  <2>1. CASE ConstellationNext
    <3>1. PICK d \in [Sat -> Dist], full \in BOOLEAN :
            \E ex \in Exchanges(d, full) : UpdateUplinks(d, ex)
      BY <2>1 DEF ConstellationNext
    <3> QED BY <3>1, NearestStep
  <2>2. CASE UNCHANGED constellationVars
    BY <2>2 DEF constellationVars
  <2> QED BY <2>1, <2>2
<1> QED BY <1>1, EachOnOneList, PTL DEF ConstellationSpec, NearestTaken

-----------------------------------------------------------------------------
(* What an update exchanges that finds the satellites at the distances d.  *)
LEMMA SettlesStep ==
  ASSUME OnOneList, NEW d \in [Sat -> Dist], NEW full \in BOOLEAN,
         NEW ex \in Exchanges(d, full)
  PROVE  LET far == TooFar(links, d)
             farAfter == TooFar(LinksAfter(ex), d)
         IN  /\ farAfter \subseteq far
             /\ far # {} => farAfter # far
             /\ links \ far \subseteq LinksAfter(ex)
<1> DEFINE q == activeUplinks
           n == Len(q)
           f == Refreshed(q, d)
           act == ActiveNow(d)
           k == Kept(act, OutOfRange)
           after == LinksAfter(ex)
<1>1. /\ Listing(q, inactiveSats) /\ q \in Seq(Entry) /\ inactiveSats \in Seq(Entry)
      /\ n \in Nat /\ links = Sats(q) /\ d \in [Sat -> Dist]
      /\ Dist \subseteq Nat /\ MAXDIST \in Nat
  BY LenProperties, CityUplinksAssumption DEF OnOneList, CityTypeOK, Listing
<1>2. PICK ina \in InactiveNow(d, full) : ex = Exchange(d, act, ina)
  BY DEF Exchanges
<1>3. /\ act \in Seq(Entry) /\ Len(act) = n /\ Sats(act) = links
      /\ ina \in Seq(Entry) /\ Sats(ina) = Sats(inactiveSats)
  BY <1>1, ActiveKeeps, InactiveKeeps DEF SameSats
<1>4. f \in Seq(Entry) /\ Len(f) = n /\ \A i \in 1 .. n : f[i].dist = d[f[i].sat]
  BY <1>1, RefreshedIsFresh DEF UpToDate
<1>5. /\ \A i \in 1 .. n : \E j \in 1 .. n : act[i] = f[j]
      /\ n # 0 => \A i \in 1 .. n : <<f[i], act[n]>> \notin Longer
  <2>1. /\ \A i \in 1 .. Len(f) : \E j \in 1 .. Len(f) : act[i] = f[j]
        /\ Len(f) # 0 => \A i \in 1 .. Len(f) : <<f[i], act[Len(f)]>> \notin Longer
    BY <1>4, OrdersRank, BubbleLast DEF ActiveNow
  <2> HIDE DEF f, act
  <2> QED BY <1>4, <2>1
<1>6. Sats(f) = links
  BY <1>1, RefreshedKeeps DEF SameSats
<1> HIDE DEF f, act
<1>7. /\ \A i \in 1 .. n : act[i] \in Entry /\ f[i] \in Entry
      /\ \A i \in 1 .. n : act[i].dist = d[act[i].sat] /\ act[i].dist \in Nat
  <2>1. \A i \in 1 .. n : act[i] \in Entry /\ f[i] \in Entry
    BY <1>3, <1>4, ElementOfSeq
  <2>2. \A i \in 1 .. n : act[i].dist \in Nat
    BY <1>1, <2>1 DEF Entry
  <2>3. ASSUME NEW i \in 1 .. n PROVE act[i].dist = d[act[i].sat]
    <3>1. PICK j \in 1 .. n : act[i] = f[j]
      BY <1>5
    <3>2. f[j].dist = d[f[j].sat]
      BY <1>4
    <3> QED BY <3>1, <3>2
  <2> QED BY <2>1, <2>2, <2>3
<1>8. /\ \A s : s \in Sats(ex.out) <=> \E i \in 1 .. n : i > k /\ act[i].sat = s
      /\ \A s : s \in Sats(ex.come) <=>
           \E i \in 1 .. Len(ina) : i > Kept(ina, InReach(d)) /\ ina[i].sat = s
  <2>1. /\ \A s : s \in Sats(ex.out) <=> \E i \in 1 .. Len(act) : i > k /\ act[i].sat = s
        /\ \A s : s \in Sats(ex.come) <=>
             \E i \in 1 .. Len(ina) : i > Kept(ina, InReach(d)) /\ ina[i].sat = s
    <3>1. ex = Exchange(d, act, ina)
      BY <1>2
    <3>2. d \in [Sat -> Dist] /\ act \in Seq(Entry) /\ ina \in Seq(Entry)
      BY <1>1, <1>3
    <3>3. /\ \A s : s \in Sats(Exchange(d, act, ina).out) <=>
               \E i \in 1 .. Len(act) : i > Kept(act, OutOfRange) /\ act[i].sat = s
          /\ \A s : s \in Sats(Exchange(d, act, ina).come) <=>
               \E i \in 1 .. Len(ina) : i > Kept(ina, InReach(d)) /\ ina[i].sat = s
      BY <3>2, ExchangeMoves, Zenon
    <3> QED BY <3>1, <3>3, Zenon
  <2>2. Len(act) = n
    BY <1>3
  <2> HIDE DEF n, k
  <2> QED BY <2>1, <2>2
<1>9. /\ \A i \in 1 .. n : i > k => act[i] \in OutOfRange
      /\ \A p \in 1 .. n : (\A i \in 1 .. n : i >= p => act[i] \in OutOfRange) => p > k
  BY <1>3, KeptIs
<1>10. \A s \in Sats(ex.out) : d[s] > MAXDIST
  <2>1. \A i \in 1 .. n : i > k => d[act[i].sat] > MAXDIST
    BY <1>7, <1>9 DEF OutOfRange
  <2> QED BY <1>8, <2>1
<1>11. \A s \in Sats(ex.come) : s \in Sat /\ d[s] < MAXDIST
  <2> SUFFICES ASSUME NEW s \in Sats(ex.come) PROVE s \in Sat /\ d[s] < MAXDIST
    OBVIOUS
  <2>1. PICK i \in 1 .. Len(ina) : i > Kept(ina, InReach(d)) /\ ina[i].sat = s
    BY <1>8
  <2>2. ina[i] \in InReach(d)
    BY <1>3, <2>1, KeptIs
  <2> QED BY <2>1, <2>2 DEF InReach, Entry
<1>12. after = (links \ Sats(ex.out)) \cup Sats(ex.come)
  BY DEF LinksAfter
<1> HIDE DEF after
<1>13. links \ TooFar(links, d) \subseteq after
  BY <1>10, <1>12 DEF TooFar
<1>15. TooFar(after, d) \subseteq TooFar(links, d)
  <2> SUFFICES ASSUME NEW s \in TooFar(after, d) PROVE s \in TooFar(links, d)
    OBVIOUS
  <2>1. s \in after /\ d[s] > MAXDIST
    BY DEF TooFar
  <2>2. s \notin Sats(ex.come)
    <3> SUFFICES ASSUME s \in Sats(ex.come) PROVE FALSE
      OBVIOUS
    <3>1. s \in Sat /\ d[s] < MAXDIST
      BY <1>11
    <3>2. d[s] \in Nat
      BY <1>1, <3>1
    <3> QED BY <1>1, <2>1, <3>1, <3>2
  <2> QED BY <1>12, <2>1, <2>2 DEF TooFar
<1>16. ASSUME TooFar(links, d) # {} PROVE TooFar(after, d) # TooFar(links, d)
  <2>1. PICK s \in links : d[s] > MAXDIST
    BY <1>16 DEF TooFar
  <2>2. PICK j \in 1 .. n : f[j].sat = s
    <3>1. \A t : t \in Sats(f) <=> \E i \in 1 .. Len(f) : f[i].sat = t
      BY <1>4, SatsMembers
    <3> QED BY <1>4, <1>6, <3>1
  <2>3. n # 0 /\ n \in 1 .. n /\ \A i \in 1 .. n : i >= n => i = n
    <3> HIDE DEF n
    <3>1. n \in Nat
      BY <1>1
    <3> QED BY <2>2, <3>1
  <2> DEFINE t == act[n].sat
  <2>4. act[n].dist > MAXDIST
    <3>1. ~ (f[j].dist > act[n].dist)
      BY <1>5, <1>7, <2>3 DEF Longer
    <3>2. f[j].dist \in Nat /\ f[j].dist > MAXDIST
      BY <1>1, <1>4, <1>7, <2>1, <2>2 DEF Entry
    <3>3. act[n].dist \in Nat
      BY <1>7, <2>3
    <3> QED BY <1>1, <3>1, <3>2, <3>3
  <2>5. t \in links /\ d[t] > MAXDIST
    <3>1. \A r : r \in Sats(act) <=> \E i \in 1 .. Len(act) : act[i].sat = r
      BY <1>3, SatsMembers
    <3>2. t \in links
      BY <1>3, <2>3, <3>1
    <3> QED BY <1>7, <2>3, <2>4, <3>2
  <2>6. t \in Sats(ex.out)
    <3>1. act[n] \in OutOfRange
      BY <1>7, <2>3, <2>4 DEF OutOfRange
    <3>2. n > k
      BY <1>9, <2>3, <3>1
    <3> QED BY <1>8, <2>3, <3>2
  <2> HIDE DEF t
  <2>7. t \notin Sats(ex.come)
    <3> SUFFICES ASSUME t \in Sats(ex.come) PROVE FALSE
      OBVIOUS
    <3>1. t \in Sat /\ d[t] < MAXDIST
      BY <1>11
    <3>2. d[t] \in Nat
      BY <1>1, <3>1
    <3> QED BY <1>1, <2>5, <3>1, <3>2
  <2>8. t \notin after
    BY <1>12, <2>6, <2>7
  <2> QED BY <2>5, <2>8 DEF TooFar
<1> QED BY <1>13, <1>15, <1>16 DEF after

(* Wherever the satellites are when the next update comes, and whatever    *)
(* order the list of uplinks was left in: it drops one of those out of     *)
(* range if there is one, none of those in range, and makes no link to     *)
(* another one out of range.                                               *)
THEOREM SettlesDown == ConstellationSpec => []Settles
<1>1. OnOneList => Settles
  BY SettlesStep DEF Settles
<1> QED BY <1>1, EachOnOneList, PTL

-----------------------------------------------------------------------------
(* The records that a pool that has not grown can be. *)
Cells == 0 .. PoolSize - 1
Counts == 0 .. PoolSize
Made == 0 .. MaxLinks
Contents == [Cells -> Link \cup {NoLink}]
Pools ==
  [size : {PoolSize}, active : Contents, free : Contents, activeCount : Counts,
   freeCount : Counts, index : [Link -> Cells], made : Made, shared : {FALSE}]

LEMMA PoolFields ==
  ASSUME NEW p \in Pools
  PROVE  /\ PoolSize \in Nat \ {0} /\ MaxLinks \in Nat
         /\ p.size = PoolSize /\ p.shared = FALSE
         /\ p.active \in Contents /\ p.free \in Contents
         /\ p.activeCount \in Counts /\ p.freeCount \in Counts
         /\ p.index \in [Link -> Cells] /\ p.made \in Made
  BY ConstellationAssumption, LinkPoolAssumption DEF Pools

LEMMA ActivateFields ==
  ASSUME NEW p \in Pools, p.activeCount < PoolSize, NEW l \in Link, l = HandedOut(p)
  PROVE  LET q == Activate(p)
         IN  /\ l = IF p.freeCount = 0 THEN p.made + 1 ELSE p.free[p.freeCount - 1]
             /\ q \in Pools
             /\ q.active = [p.active EXCEPT ![p.activeCount] = l]
             /\ q.free = IF p.freeCount = 0 THEN p.free
                         ELSE [p.free EXCEPT ![p.freeCount - 1] = NoLink]
             /\ q.activeCount = p.activeCount + 1
             /\ q.freeCount = IF p.freeCount = 0 THEN 0 ELSE p.freeCount - 1
             /\ q.index = [p.index EXCEPT ![l] = p.activeCount]
             /\ q.made = IF p.freeCount = 0 THEN l ELSE p.made
<1> DEFINE w == WriteActive(p, p.activeCount, l)
           q == Activate(p)
<1>0. /\ p.size = PoolSize /\ p.shared = FALSE
      /\ p.active \in Contents /\ p.free \in Contents
      /\ p.activeCount \in Counts /\ p.freeCount \in Counts
      /\ p.index \in [Link -> Cells] /\ p.made \in Made
      /\ PoolSize \in Nat /\ MaxLinks \in Nat
  BY PoolFields
<1>1. /\ p.activeCount \in Cells /\ p.activeCount + 1 \in Counts
      /\ p.freeCount # 0 => p.freeCount - 1 \in Counts /\ p.freeCount - 1 \in Cells
      /\ 0 \in Counts /\ l \in Made
  <2> DEFINE n == p.activeCount
             m == p.freeCount
  <2>1. PoolSize \in Nat /\ n \in 0 .. PoolSize /\ m \in 0 .. PoolSize /\ l \in Made
    BY <1>0 DEF Counts, Made, Link
  <2>2. n < PoolSize
    BY <1>0
  <2> HIDE DEF n, m
  <2>3. /\ n \in 0 .. PoolSize - 1 /\ n + 1 \in 0 .. PoolSize
        /\ m # 0 => m - 1 \in 0 .. PoolSize /\ m - 1 \in 0 .. PoolSize - 1
        /\ 0 \in 0 .. PoolSize
    BY <2>1, <2>2
  <2> QED BY <2>1, <2>3 DEF Cells, Counts, n, m
<1>2. Grown(p) = p
  BY <1>0 DEF Grown
<1>3. l = IF p.freeCount = 0 THEN p.made + 1 ELSE p.free[p.freeCount - 1]
  BY <1>2 DEF HandedOut
<1>4. /\ w \in Pools /\ w.active = [p.active EXCEPT ![p.activeCount] = l]
      /\ w.free = p.free /\ w.activeCount = p.activeCount /\ w.freeCount = p.freeCount
      /\ w.index = p.index /\ w.made = p.made
  BY <1>0, <1>1 DEF WriteActive, Pools, Contents
<1>5. q = [w EXCEPT
             !.index[l] = p.activeCount, !.activeCount = @ + 1,
             !.freeCount = IF @ = 0 THEN 0 ELSE @ - 1,
             !.free = IF p.shared \/ p.freeCount = 0 THEN @
                      ELSE [@ EXCEPT ![p.freeCount - 1] = NoLink],
             !.made = IF p.freeCount = 0 THEN l ELSE @]
  BY <1>2 DEF Activate
<1> HIDE DEF w, q
<1>6. CASE p.freeCount = 0
  <2>1. q = [w EXCEPT !.index[l] = p.activeCount, !.activeCount = p.activeCount + 1,
                      !.freeCount = 0, !.free = @, !.made = l]
    BY <1>0, <1>4, <1>5, <1>6
  <2>2. /\ q \in Pools /\ q.active = w.active /\ q.free = w.free
        /\ q.activeCount = p.activeCount + 1 /\ q.freeCount = 0
        /\ q.index = [w.index EXCEPT ![l] = p.activeCount] /\ q.made = l
    <3>1. p.activeCount \in Cells /\ p.activeCount + 1 \in Counts /\ 0 \in Counts /\ l \in Made
      BY <1>1
    <3> QED BY <1>4, <2>1, <3>1 DEF Pools
  <2> QED BY <1>3, <1>4, <1>6, <2>2 DEF q
<1>7. CASE p.freeCount # 0
  <2>1. q = [w EXCEPT !.index[l] = p.activeCount, !.activeCount = p.activeCount + 1,
                      !.freeCount = p.freeCount - 1,
                      !.free = [@ EXCEPT ![p.freeCount - 1] = NoLink],
                      !.made = @]
    BY <1>0, <1>4, <1>5, <1>7
  <2>2. /\ q \in Pools /\ q.active = w.active
        /\ q.free = [w.free EXCEPT ![p.freeCount - 1] = NoLink]
        /\ q.activeCount = p.activeCount + 1 /\ q.freeCount = p.freeCount - 1
        /\ q.index = [w.index EXCEPT ![l] = p.activeCount] /\ q.made = w.made
    <3>1. p.activeCount \in Cells /\ p.activeCount + 1 \in Counts /\ p.freeCount - 1 \in Counts
      BY <1>1, <1>7
    <3> QED BY <1>4, <2>1, <3>1 DEF Pools, Contents
  <2> QED BY <1>3, <1>4, <1>7, <2>2 DEF q
<1> QED BY <1>6, <1>7

LEMMA DropFields ==
  ASSUME NEW p \in Pools, NEW l \in Link, p.activeCount # 0, p.freeCount < PoolSize,
         p.active[p.activeCount - 1] \in Link
  PROVE  LET q == Drop(p, l)
             ix == p.index[l]
             last == p.active[p.activeCount - 1]
             hole == ix < p.activeCount - 1
             a == IF hole THEN [p.active EXCEPT ![ix] = last] ELSE p.active
             x == [p.index EXCEPT ![l] = p.freeCount]
         IN  /\ DropAsserts(p, l) <=> (hole => p.active[ix] = l)
             /\ q \in Pools
             /\ q.active = [a EXCEPT ![p.activeCount - 1] = NoLink]
             /\ q.free = [p.free EXCEPT ![p.freeCount] = l]
             /\ q.activeCount = p.activeCount - 1
             /\ q.freeCount = p.freeCount + 1
             /\ q.index = IF hole THEN [x EXCEPT ![last] = ix] ELSE x
             /\ q.made = p.made
<1> DEFINE w == WriteFree(p, p.freeCount, l)
           f == Freed(p, l)
           ix == p.index[l]
           last == p.active[p.activeCount - 1]
           hole == ix < p.activeCount - 1
           x == [p.index EXCEPT ![l] = p.freeCount]
           v == WriteActive(f, ix, last)
           u == IF hole THEN [v EXCEPT !.index[last] = ix] ELSE f
           q == Drop(p, l)
<1>0. /\ p.size = PoolSize /\ p.shared = FALSE
      /\ p.active \in Contents /\ p.free \in Contents
      /\ p.activeCount \in Counts /\ p.freeCount \in Counts
      /\ p.index \in [Link -> Cells] /\ p.made \in Made
      /\ PoolSize \in Nat /\ MaxLinks \in Nat
  BY PoolFields
<1>1. /\ p.freeCount \in Cells /\ p.freeCount + 1 \in Counts
      /\ p.activeCount - 1 \in Counts /\ p.activeCount - 1 \in Cells
      /\ l \in Link \cup {NoLink} /\ NoLink \in Link \cup {NoLink}
  <2> DEFINE n == p.activeCount
             m == p.freeCount
  <2>1. /\ PoolSize \in Nat /\ n \in 0 .. PoolSize /\ m \in 0 .. PoolSize
        /\ n # 0 /\ m < PoolSize
    BY <1>0 DEF Counts
  <2> HIDE DEF n, m
  <2>2. /\ m \in 0 .. PoolSize - 1 /\ m + 1 \in 0 .. PoolSize
        /\ n - 1 \in 0 .. PoolSize /\ n - 1 \in 0 .. PoolSize - 1
    BY <2>1
  <2> QED BY <2>2 DEF Cells, Counts, n, m
<1>2. ix \in Cells /\ last \in Link
  BY <1>0
<1> HIDE DEF hole, last, ix
<1>3. /\ w \in Pools /\ w.active = p.active /\ w.free = [p.free EXCEPT ![p.freeCount] = l]
      /\ w.activeCount = p.activeCount /\ w.freeCount = p.freeCount
      /\ w.index = p.index /\ w.made = p.made
  BY <1>0, <1>1 DEF WriteFree, Pools, Contents
<1>4. f = [w EXCEPT !.index[l] = p.freeCount, !.freeCount = @ + 1]
  BY DEF Freed
<1> HIDE DEF w, f
<1>5. f = [w EXCEPT !.index[l] = p.freeCount, !.freeCount = p.freeCount + 1]
  BY <1>3, <1>4
<1>6. /\ f \in Pools /\ f.active = p.active /\ f.free = w.free
      /\ f.activeCount = p.activeCount /\ f.freeCount = p.freeCount + 1
      /\ f.index = x /\ f.made = p.made
  BY <1>1, <1>3, <1>5 DEF Pools
<1>7. f.shared = FALSE
  BY <1>6, PoolFields
<1>8. /\ v \in Pools /\ v.active = [p.active EXCEPT ![ix] = last]
      /\ v.free = f.free /\ v.activeCount = f.activeCount /\ v.freeCount = f.freeCount
      /\ v.index = f.index /\ v.made = f.made
  <2>1. last \in Link \cup {NoLink}
    BY <1>2
  <2> QED BY <1>2, <1>6, <1>7, <2>1 DEF WriteActive, Pools, Contents
<1> HIDE DEF v, x
<1>9. /\ u \in Pools
      /\ u.active = IF hole THEN [p.active EXCEPT ![ix] = last] ELSE p.active
      /\ u.free = f.free /\ u.activeCount = f.activeCount /\ u.freeCount = f.freeCount
      /\ u.index = (IF hole THEN [x EXCEPT ![last] = ix] ELSE x) /\ u.made = f.made
  <2>1. CASE hole
    <3>1. u = [v EXCEPT !.index[last] = ix]
      BY <2>1
    <3> HIDE DEF u
    <3>2. /\ u \in Pools /\ u.active = v.active /\ u.free = v.free
          /\ u.activeCount = v.activeCount /\ u.freeCount = v.freeCount
          /\ u.index = [v.index EXCEPT ![last] = ix] /\ u.made = v.made
      BY <1>2, <1>8, <3>1 DEF Pools
    <3> QED BY <1>6, <1>8, <2>1, <3>2
  <2>2. CASE ~ hole
    <3>1. u = f
      BY <2>2
    <3> HIDE DEF u
    <3> QED BY <1>6, <2>2, <3>1
  <2> QED BY <2>1, <2>2
<1>10. q = [u EXCEPT !.activeCount = @ - 1,
              !.active = IF p.shared THEN @ ELSE [@ EXCEPT ![p.activeCount - 1] = NoLink]]
  <2>1. f.active[p.activeCount - 1] = last
    BY <1>6 DEF last
  <2> QED BY <2>1 DEF Drop, u, v, f, hole, ix
<1> HIDE DEF u, q
<1>11. q = [u EXCEPT !.activeCount = p.activeCount - 1,
                     !.active = [@ EXCEPT ![p.activeCount - 1] = NoLink]]
  BY <1>0, <1>6, <1>9, <1>10
<1>12. /\ q \in Pools /\ q.active = [u.active EXCEPT ![p.activeCount - 1] = NoLink]
       /\ q.free = u.free /\ q.activeCount = p.activeCount - 1 /\ q.freeCount = u.freeCount
       /\ q.index = u.index /\ q.made = u.made
  BY <1>1, <1>9, <1>11 DEF Pools, Contents
<1>13. DropAsserts(p, l) <=> (hole => p.active[ix] = l)
  BY <1>6 DEF DropAsserts, f, hole, ix
<1> QED BY <1>3, <1>6, <1>9, <1>12, <1>13 DEF q, hole, ix, last, x

-----------------------------------------------------------------------------
(* The books of a pool that keeps n active links in a and m free ones in f *)
(* and has made a number of links: the links A are active and the others   *)
(* that were made are free, and the index x of a link leads to it.         *)
Books(a, f, n, m, x, made, A) ==
  /\ a \in [0 .. PoolSize - 1 -> Link \cup {NoLink}]
  /\ f \in [0 .. PoolSize - 1 -> Link \cup {NoLink}]
  /\ x \in [Link -> 0 .. PoolSize - 1]
  /\ n \in Nat /\ m \in Nat /\ made \in Nat
  /\ m + n = made /\ made <= PoolSize
  /\ A \subseteq 1 .. made
  /\ \A l \in A : x[l] < n /\ a[x[l]] = l
  /\ \A i \in 0 .. n - 1 : a[i] \in A /\ x[a[i]] = i
  /\ \A l \in (1 .. made) \ A : x[l] < m /\ f[x[l]] = l
  /\ \A i \in 0 .. m - 1 : f[i] \in (1 .. made) \ A /\ x[f[i]] = i

(* What becomes of them as link l is handed out: a new one, or the last of  *)
(* the free ones.                                                          *)
HandedOn(a, f, n, m, x, made, l, b, g, k, y, total) ==
  /\ n < PoolSize
  /\ l = IF m = 0 THEN made + 1 ELSE f[m - 1]
  /\ b = [a EXCEPT ![n] = l]
  /\ g = IF m = 0 THEN f ELSE [f EXCEPT ![m - 1] = NoLink]
  /\ k = IF m = 0 THEN 0 ELSE m - 1
  /\ y = [x EXCEPT ![l] = n]
  /\ total = IF m = 0 THEN l ELSE made

LEMMA BooksActivate ==
  ASSUME NEW a, NEW f, NEW n, NEW m, NEW x, NEW made, NEW A,
         Books(a, f, n, m, x, made, A), NEW l, NEW b, NEW g, NEW k, NEW y, NEW total,
         HandedOn(a, f, n, m, x, made, l, b, g, k, y, total)
  PROVE  /\ l \in Link /\ l \notin A
         /\ Books(b, g, n + 1, k, y, total, A \cup {l})
<1> DEFINE B == A \cup {l}
<1>0. /\ n < PoolSize
      /\ l = IF m = 0 THEN made + 1 ELSE f[m - 1]
      /\ b = [a EXCEPT ![n] = l]
      /\ g = IF m = 0 THEN f ELSE [f EXCEPT ![m - 1] = NoLink]
      /\ k = IF m = 0 THEN 0 ELSE m - 1
      /\ y = [x EXCEPT ![l] = n]
      /\ total = IF m = 0 THEN l ELSE made
  BY DEF HandedOn
<1>1. /\ PoolSize \in Nat /\ MaxLinks \in Nat /\ PoolSize <= MaxLinks /\ Link = 1 .. MaxLinks
      /\ n \in Nat /\ m \in Nat /\ made \in Nat /\ m + n = made /\ made <= PoolSize
      /\ n < PoolSize
  BY <1>0, ConstellationAssumption, LinkPoolAssumption DEF Books, Link
<1>2. /\ a \in [0 .. PoolSize - 1 -> Link \cup {NoLink}]
      /\ f \in [0 .. PoolSize - 1 -> Link \cup {NoLink}]
      /\ x \in [Link -> 0 .. PoolSize - 1]
  BY DEF Books
<1>3. /\ A \subseteq 1 .. made
      /\ \A j \in A : x[j] < n /\ a[x[j]] = j
      /\ \A i \in 0 .. n - 1 : a[i] \in A /\ x[a[i]] = i
      /\ \A j \in (1 .. made) \ A : x[j] < m /\ f[x[j]] = j
      /\ \A i \in 0 .. m - 1 : f[i] \in (1 .. made) \ A /\ x[f[i]] = i
  BY DEF Books
<1>4. m # 0 => l \in (1 .. made) \ A /\ x[l] = m - 1 /\ l = f[m - 1]
  BY <1>0, <1>1, <1>3
<1>5. m = 0 => l = made + 1
  BY <1>0
<1>6. l \in Link /\ l \notin A
  BY <1>1, <1>3, <1>4, <1>5
<1>7. total \in Nat /\ k \in Nat /\ k + (n + 1) = total /\ total <= PoolSize
  BY <1>0, <1>1, <1>5
<1>8. /\ 1 .. made \subseteq Link /\ 1 .. total \subseteq Link
      /\ \A j \in 1 .. made : j \in 1 .. total
      /\ \A j \in 1 .. total : j \in 1 .. made \/ j = l
      /\ l \in 1 .. total
  BY <1>0, <1>1, <1>4, <1>5
<1>9. /\ b \in [0 .. PoolSize - 1 -> Link \cup {NoLink}]
      /\ b[n] = l
      /\ \A i \in 0 .. n - 1 : b[i] = a[i]
  <2>1. n \in 0 .. PoolSize - 1 /\ \A i \in 0 .. n - 1 : i \in 0 .. PoolSize - 1 /\ i # n
    BY <1>1
  <2> QED BY <1>0, <1>2, <1>6, <2>1
<1>10. /\ y \in [Link -> 0 .. PoolSize - 1] /\ y[l] = n
       /\ \A j \in Link : j # l => y[j] = x[j]
  BY <1>0, <1>1, <1>2, <1>6
<1>11. /\ g \in [0 .. PoolSize - 1 -> Link \cup {NoLink}]
       /\ \A i \in 0 .. m - 2 : g[i] = f[i]
  <2>1. \A i \in 0 .. m - 2 : i \in 0 .. PoolSize - 1 /\ i # m - 1
    BY <1>1
  <2>2. CASE m = 0
    BY <1>0, <1>1, <1>2, <2>2
  <2>3. CASE m # 0
    BY <1>0, <1>1, <1>2, <2>1, <2>3
  <2> QED BY <2>2, <2>3
<1>12. B \subseteq 1 .. total
  BY <1>3, <1>8
<1>13. ASSUME NEW j \in B PROVE y[j] < n + 1 /\ b[y[j]] = j
  <2>1. CASE j = l
    BY <1>1, <1>9, <1>10, <2>1
  <2>2. CASE j # l
    <3>1. j \in A /\ j \in Link /\ x[j] \in 0 .. PoolSize - 1
      BY <1>2, <1>8, <1>12, <2>2
    <3>2. x[j] \in 0 .. n - 1 /\ a[x[j]] = j
      BY <1>1, <1>3, <3>1
    <3>3. y[j] = x[j] /\ b[x[j]] = a[x[j]]
      BY <1>9, <1>10, <2>2, <3>1, <3>2
    <3>4. x[j] < n + 1
      BY <1>1, <3>2
    <3> QED BY <3>2, <3>3, <3>4
  <2> QED BY <2>1, <2>2
<1>14. ASSUME NEW i \in 0 .. (n + 1) - 1 PROVE b[i] \in B /\ y[b[i]] = i
  <2>1. CASE i = n
    BY <1>9, <1>10, <2>1
  <2>2. CASE i # n
    <3>1. i \in 0 .. n - 1
      BY <1>1, <2>2
    <3>2. b[i] = a[i] /\ a[i] \in A /\ x[a[i]] = i
      BY <1>3, <1>9, <3>1
    <3>3. a[i] \in Link /\ a[i] # l
      BY <1>3, <1>6, <1>8, <3>2
    <3> QED BY <1>10, <3>2, <3>3
  <2> QED BY <2>1, <2>2
<1>15. ASSUME NEW j \in (1 .. total) \ B PROVE y[j] < k /\ g[y[j]] = j
  <2>1. j \in (1 .. made) \ A /\ j # l /\ j \in Link
    BY <1>8
  <2>2. y[j] = x[j] /\ x[j] < m /\ f[x[j]] = j /\ x[j] \in 0 .. PoolSize - 1
    BY <1>2, <1>3, <1>10, <2>1
  <2>3. m # 0
    BY <1>1, <2>2
  <2>4. x[j] # m - 1
    BY <1>4, <2>1, <2>2, <2>3
  <2>5. x[j] \in 0 .. m - 2 /\ x[j] < m - 1
    BY <1>1, <2>2, <2>4
  <2> QED BY <1>0, <1>11, <2>2, <2>3, <2>5
<1>16. ASSUME NEW i \in 0 .. k - 1 PROVE g[i] \in (1 .. total) \ B /\ y[g[i]] = i
  <2>1. m # 0 /\ i \in 0 .. m - 2 /\ i \in 0 .. m - 1 /\ i # m - 1
    BY <1>0, <1>1
  <2>2. g[i] = f[i] /\ f[i] \in (1 .. made) \ A /\ x[f[i]] = i
    BY <1>3, <1>11, <2>1
  <2>3. f[i] # l /\ f[i] \in Link /\ f[i] \in 1 .. total
    BY <1>4, <1>8, <2>1, <2>2
  <2> QED BY <1>10, <2>2, <2>3
<1> HIDE DEF B
<1>17. Books(b, g, n + 1, k, y, total, B)
  <2>1. n + 1 \in Nat
    BY <1>1
  <2> QED BY <1>7, <1>9, <1>10, <1>11, <1>12, <1>13, <1>14, <1>15, <1>16, <2>1, Zenon DEF Books
<1> QED BY <1>6, <1>11, <1>17 DEF B

(* What becomes of the arrays a and f and the index x as link l is dropped: *)
(* the last active link fills the hole, and l goes to the end of f.        *)
Dropped(a, f, n, m, x, l, b, g, y) ==
  /\ b = [(IF x[l] < n - 1 THEN [a EXCEPT ![x[l]] = a[n - 1]] ELSE a)
            EXCEPT ![n - 1] = NoLink]
  /\ g = [f EXCEPT ![m] = l]
  /\ y = IF x[l] < n - 1 THEN [[x EXCEPT ![l] = m] EXCEPT ![a[n - 1]] = x[l]]
         ELSE [x EXCEPT ![l] = m]

LEMMA BooksActive ==
  ASSUME NEW a, NEW f, NEW n, NEW m, NEW x, NEW made, NEW A,
         Books(a, f, n, m, x, made, A), NEW l \in A
  PROVE  /\ n # 0 /\ m < PoolSize /\ l \in Link /\ a[n - 1] \in Link
         /\ n - 1 \in Nat /\ n - 1 \in 0 .. PoolSize - 1 /\ m \in 0 .. PoolSize - 1
         /\ a[n - 1] \in A /\ x[a[n - 1]] = n - 1
         /\ x[l] \in 0 .. n - 1 /\ x[l] \in 0 .. PoolSize - 1 /\ x[l] < n
         /\ a[x[l]] = l
<1>1. /\ PoolSize \in Nat /\ MaxLinks \in Nat /\ PoolSize <= MaxLinks /\ Link = 1 .. MaxLinks
      /\ n \in Nat /\ m \in Nat /\ made \in Nat /\ m + n = made /\ made <= PoolSize
  BY ConstellationAssumption, LinkPoolAssumption DEF Books, Link
<1>2. /\ A \subseteq 1 .. made /\ x \in [Link -> 0 .. PoolSize - 1]
      /\ \A j \in A : x[j] < n /\ a[x[j]] = j
      /\ \A i \in 0 .. n - 1 : a[i] \in A /\ x[a[i]] = i
  BY DEF Books
<1>3. 1 .. made \subseteq Link
  BY <1>1
<1>4. /\ l \in Link /\ x[l] \in 0 .. PoolSize - 1 /\ x[l] < n /\ a[x[l]] = l
  BY <1>2, <1>3
<1>5. /\ n # 0 /\ n - 1 \in 0 .. n - 1 /\ x[l] \in 0 .. n - 1 /\ m < PoolSize
      /\ n - 1 \in 0 .. PoolSize - 1 /\ m \in 0 .. PoolSize - 1 /\ n - 1 \in Nat
  BY <1>1, <1>4
<1>6. a[n - 1] \in A /\ a[n - 1] \in Link /\ x[a[n - 1]] = n - 1
  BY <1>2, <1>3, <1>5
<1> QED BY <1>4, <1>5, <1>6

LEMMA BooksDrop ==
  ASSUME NEW a, NEW f, NEW n, NEW m, NEW x, NEW made, NEW A,
         Books(a, f, n, m, x, made, A), NEW l \in A,
         NEW b, NEW g, NEW y, Dropped(a, f, n, m, x, l, b, g, y)
  PROVE  Books(b, g, n - 1, m + 1, y, made, A \ {l})
<1> DEFINE B == A \ {l}
           ix == x[l]
           last == a[n - 1]
<1>1. /\ PoolSize \in Nat /\ MaxLinks \in Nat /\ PoolSize <= MaxLinks /\ Link = 1 .. MaxLinks
      /\ n \in Nat /\ m \in Nat /\ made \in Nat /\ m + n = made /\ made <= PoolSize
  BY ConstellationAssumption, LinkPoolAssumption DEF Books, Link
<1>2. /\ a \in [0 .. PoolSize - 1 -> Link \cup {NoLink}]
      /\ f \in [0 .. PoolSize - 1 -> Link \cup {NoLink}]
      /\ x \in [Link -> 0 .. PoolSize - 1]
  BY DEF Books
<1>3. /\ A \subseteq 1 .. made
      /\ \A j \in A : x[j] < n /\ a[x[j]] = j
      /\ \A i \in 0 .. n - 1 : a[i] \in A /\ x[a[i]] = i
      /\ \A j \in (1 .. made) \ A : x[j] < m /\ f[x[j]] = j
      /\ \A i \in 0 .. m - 1 : f[i] \in (1 .. made) \ A /\ x[f[i]] = i
  BY DEF Books
<1>4. 1 .. made \subseteq Link
  BY <1>1
<1>5. /\ l \in Link /\ l \in 1 .. made /\ ix \in 0 .. PoolSize - 1 /\ ix < n /\ a[ix] = l
  BY <1>3, BooksActive
<1>6. /\ n # 0 /\ n - 1 \in 0 .. n - 1 /\ ix \in 0 .. n - 1 /\ m < PoolSize
      /\ n - 1 \in 0 .. PoolSize - 1 /\ m \in 0 .. PoolSize - 1 /\ n - 1 \in Nat
  BY BooksActive
<1>7. last \in A /\ last \in Link /\ x[last] = n - 1
  BY BooksActive
<1>8. (ix < n - 1 <=> last # l) /\ (last = l => ix = n - 1)
  BY <1>1, <1>5, <1>6, <1>7
<1> HIDE DEF ix, last
<1>9. /\ b \in [0 .. PoolSize - 1 -> Link \cup {NoLink}]
      /\ ix < n - 1 => b[ix] = last
      /\ \A i \in 0 .. n - 2 : i # ix => b[i] = a[i]
  <2>1. \A i \in 0 .. n - 2 : i \in 0 .. PoolSize - 1 /\ i # n - 1
    BY <1>1
  <2>2. last \in Link \cup {NoLink} /\ ix \in 0 .. PoolSize - 1 /\ (ix < n - 1 => ix # n - 1)
    BY <1>5, <1>6, <1>7
  <2>3. CASE ix < n - 1
    <3>1. b = [[a EXCEPT ![ix] = last] EXCEPT ![n - 1] = NoLink]
      BY <2>3 DEF Dropped, ix, last
    <3> QED BY <1>2, <1>6, <2>1, <2>2, <2>3, <3>1
  <2>4. CASE ~ (ix < n - 1)
    <3>1. b = [a EXCEPT ![n - 1] = NoLink]
      BY <2>4 DEF Dropped, ix, last
    <3> QED BY <1>2, <1>6, <2>1, <2>2, <2>4, <3>1
  <2> QED BY <2>3, <2>4
<1>10. /\ y \in [Link -> 0 .. PoolSize - 1]
       /\ y[l] = m
       /\ last # l => y[last] = ix
       /\ \A j \in Link : j # l /\ j # last => y[j] = x[j]
  <2>1. CASE last # l
    <3>1. y = [[x EXCEPT ![l] = m] EXCEPT ![last] = ix]
      BY <1>8, <2>1 DEF Dropped, ix, last
    <3> QED BY <1>2, <1>5, <1>6, <1>7, <2>1, <3>1
  <2>2. CASE last = l
    <3>1. y = [x EXCEPT ![l] = m]
      BY <1>8, <2>2 DEF Dropped, ix, last
    <3> QED BY <1>2, <1>5, <1>6, <1>7, <2>2, <3>1
  <2> QED BY <2>1, <2>2
<1>11. /\ g \in [0 .. PoolSize - 1 -> Link \cup {NoLink}]
       /\ g[m] = l /\ \A i \in 0 .. m - 1 : g[i] = f[i]
  <2>1. \A i \in 0 .. m - 1 : i \in 0 .. PoolSize - 1 /\ i # m
    BY <1>1
  <2>2. g = [f EXCEPT ![m] = l]
    BY DEF Dropped
  <2> QED BY <1>2, <1>5, <1>6, <2>1, <2>2
<1>12. B \subseteq 1 .. made
  BY <1>3
<1>13. ASSUME NEW j \in B PROVE y[j] < n - 1 /\ b[y[j]] = j
  <2>1. j \in A /\ j # l /\ j \in Link
    BY <1>3, <1>4
  <2>2. CASE j = last
    <3>1. y[j] = ix /\ ix < n - 1
      BY <1>8, <1>10, <2>1, <2>2
    <3> QED BY <1>9, <2>2, <3>1
  <2>3. CASE j # last
    <3>1. y[j] = x[j] /\ a[x[j]] = j /\ x[j] \in 0 .. PoolSize - 1 /\ x[j] < n
      BY <1>2, <1>3, <1>10, <2>1, <2>3
    <3>2. x[j] # n - 1 /\ x[j] # ix
      BY <1>5, <2>1, <2>3, <3>1 DEF last
    <3>3. x[j] \in 0 .. n - 2 /\ x[j] < n - 1
      BY <1>1, <3>1, <3>2
    <3> QED BY <1>9, <3>1, <3>2, <3>3
  <2> QED BY <2>2, <2>3
<1>14. ASSUME NEW i \in 0 .. (n - 1) - 1 PROVE b[i] \in B /\ y[b[i]] = i
  <2>1. i \in 0 .. n - 2 /\ i \in 0 .. n - 1 /\ i < n - 1 /\ i # n - 1
    BY <1>1
  <2>2. CASE i = ix
    BY <1>7, <1>8, <1>9, <1>10, <2>1, <2>2
  <2>3. CASE i # ix
    <3>1. b[i] = a[i] /\ a[i] \in A /\ x[a[i]] = i
      BY <1>3, <1>9, <2>1, <2>3
    <3>2. a[i] # l /\ a[i] # last /\ a[i] \in Link
      BY <1>3, <1>4, <1>7, <2>1, <2>3, <3>1 DEF ix
    <3> QED BY <1>10, <3>1, <3>2
  <2> QED BY <2>2, <2>3
<1>15. ASSUME NEW j \in (1 .. made) \ B PROVE y[j] < m + 1 /\ g[y[j]] = j
  <2>1. CASE j = l
    BY <1>1, <1>10, <1>11, <2>1
  <2>2. CASE j # l
    <3>1. j \in (1 .. made) \ A /\ j \in Link /\ j # last
      BY <1>4, <1>7, <2>2
    <3>2. y[j] = x[j] /\ x[j] < m /\ f[x[j]] = j /\ x[j] \in 0 .. PoolSize - 1
      BY <1>2, <1>3, <1>10, <2>2, <3>1
    <3>3. x[j] \in 0 .. m - 1 /\ x[j] < m + 1
      BY <1>1, <3>2
    <3> QED BY <1>11, <3>2, <3>3
  <2> QED BY <2>1, <2>2
<1>16. ASSUME NEW i \in 0 .. (m + 1) - 1 PROVE g[i] \in (1 .. made) \ B /\ y[g[i]] = i
  <2>1. CASE i = m
    BY <1>5, <1>10, <1>11, <2>1
  <2>2. CASE i # m
    <3>1. i \in 0 .. m - 1
      BY <1>1, <2>2
    <3>2. g[i] = f[i] /\ f[i] \in (1 .. made) \ A /\ x[f[i]] = i
      BY <1>3, <1>11, <3>1
    <3>3. f[i] \in Link /\ f[i] # l /\ f[i] # last
      BY <1>4, <1>7, <3>2
    <3> QED BY <1>10, <3>2, <3>3
  <2> QED BY <2>1, <2>2
<1> HIDE DEF B
<1>17. Books(b, g, n - 1, m + 1, y, made, B)
  <2>1. n - 1 \in Nat /\ m + 1 \in Nat /\ (m + 1) + (n - 1) = made /\ made \in Nat /\ made <= PoolSize
    BY <1>1, <1>6
  <2> QED BY <1>9, <1>10, <1>11, <1>12, <1>13, <1>14, <1>15, <1>16, <2>1, Zenon DEF Books
<1> QED BY <1>17 DEF B

(* The pool p has not grown, and its books are those of active links A. *)
PoolHolds(p, A) ==
  /\ p \in Pools
  /\ Books(p.active, p.free, p.activeCount, p.freeCount, p.index, p.made, A)

LEMMA PoolNumbers ==
  ASSUME NEW p, NEW A, PoolHolds(p, A)
  PROVE  /\ p.activeCount \in Nat /\ p.freeCount \in Nat /\ p.made \in Nat
         /\ p.freeCount + p.activeCount = p.made /\ p.made <= PoolSize
         /\ A \subseteq 1 .. p.made /\ 1 .. p.made \subseteq Link
<1>1. /\ p.activeCount \in Nat /\ p.freeCount \in Nat /\ p.made \in Nat
      /\ p.freeCount + p.activeCount = p.made /\ p.made <= PoolSize
      /\ A \subseteq 1 .. p.made
  BY DEF PoolHolds, Books
<1>2. PoolSize \in Nat /\ MaxLinks \in Nat /\ PoolSize <= MaxLinks
  BY ConstellationAssumption, LinkPoolAssumption
<1>3. 1 .. p.made \subseteq Link
  BY <1>1, <1>2 DEF Link
<1> QED BY <1>1, <1>3

(* activate_link() makes a link active that was not: the one freed last, or *)
(* a new one.                                                              *)
LEMMA ActivateHolds ==
  ASSUME NEW p, NEW A, PoolHolds(p, A), p.activeCount < PoolSize
  PROVE  LET l == HandedOut(p)
             q == Activate(p)
         IN  /\ l = IF p.freeCount = 0 THEN p.made + 1 ELSE p.free[p.freeCount - 1]
             /\ l \in Link /\ l \notin A
             /\ PoolHolds(q, A \cup {l})
             /\ q.activeCount = p.activeCount + 1
             /\ q.made = IF p.freeCount = 0 THEN p.made + 1 ELSE p.made
             /\ q.freeCount = IF p.freeCount = 0 THEN 0 ELSE p.freeCount - 1
             /\ \A i \in 0 .. p.freeCount - 2 : q.free[i] = p.free[i]
<1> DEFINE l == HandedOut(p)
           q == Activate(p)
<1>1. p \in Pools /\ Books(p.active, p.free, p.activeCount, p.freeCount, p.index, p.made, A)
  BY DEF PoolHolds
<1>2. l = IF p.freeCount = 0 THEN p.made + 1 ELSE p.free[p.freeCount - 1]
  <2>1. p.size = PoolSize
    BY <1>1, PoolFields
  <2>2. Grown(p) = p
    BY <2>1 DEF Grown
  <2> QED BY <2>2 DEF HandedOut
<1> HIDE DEF l, q
<1>3. l \in Link
  <2>1. CASE p.freeCount = 0
    <3>1. p.made = p.activeCount
      BY <1>1, <2>1 DEF Books
    <3>2. p.made + 1 \in Link
      BY <3>1, PoolNumbers, ConstellationAssumption, LinkPoolAssumption DEF Link
    <3> QED BY <1>2, <2>1, <3>2
  <2>2. CASE p.freeCount # 0
    <3>1. p.freeCount - 1 \in 0 .. p.freeCount - 1 /\ 1 .. p.made \subseteq Link
      BY <2>2, PoolNumbers
    <3> QED BY <1>1, <1>2, <2>2, <3>1 DEF Books
  <2> QED BY <2>1, <2>2
<1>4. /\ q \in Pools
      /\ q.active = [p.active EXCEPT ![p.activeCount] = l]
      /\ q.free = IF p.freeCount = 0 THEN p.free
                  ELSE [p.free EXCEPT ![p.freeCount - 1] = NoLink]
      /\ q.activeCount = p.activeCount + 1
      /\ q.freeCount = IF p.freeCount = 0 THEN 0 ELSE p.freeCount - 1
      /\ q.index = [p.index EXCEPT ![l] = p.activeCount]
      /\ q.made = IF p.freeCount = 0 THEN l ELSE p.made
  BY <1>1, <1>3, ActivateFields DEF l, q
<1>5. HandedOn(p.active, p.free, p.activeCount, p.freeCount, p.index, p.made,
               l, q.active, q.free, q.freeCount, q.index, q.made)
  BY <1>2, <1>4 DEF HandedOn
<1>6. /\ l \notin A
      /\ Books(q.active, q.free, p.activeCount + 1, q.freeCount, q.index, q.made, A \cup {l})
      /\ \A i \in 0 .. p.freeCount - 2 : q.free[i] = p.free[i]
  <2>0. Books(p.active, p.free, p.activeCount, p.freeCount, p.index, p.made, A)
    BY <1>1
  <2>1. l \notin A
    BY <1>5, <2>0, BooksActivate
  <2>2. Books(q.active, q.free, p.activeCount + 1, q.freeCount, q.index, q.made, A \cup {l})
    BY <1>5, <2>0, BooksActivate
  <2>3. ASSUME NEW i \in 0 .. p.freeCount - 2 PROVE q.free[i] = p.free[i]
    <3>1. p.freeCount # 0 /\ i \in 0 .. PoolSize - 1 /\ i # p.freeCount - 1
      BY <1>1, PoolNumbers, ConstellationAssumption
    <3>2. p.free \in [0 .. PoolSize - 1 -> Link \cup {NoLink}]
      BY <2>0 DEF Books
    <3>3. q.free = [p.free EXCEPT ![p.freeCount - 1] = NoLink]
      BY <1>4, <3>1
    <3> HIDE DEF q
    <3> QED BY <3>1, <3>2, <3>3
  <2> QED BY <2>1, <2>2, <2>3
<1>7. PoolHolds(q, A \cup {l})
  BY <1>4, <1>6, Zenon DEF PoolHolds
<1> QED BY <1>2, <1>3, <1>4, <1>6, <1>7 DEF l, q

(* The pool q is p with l added to the free links. *)
FreedLast(p, q, l) ==
  /\ q.activeCount = p.activeCount - 1
  /\ q.made = p.made
  /\ q.freeCount = p.freeCount + 1
  /\ q.free[p.freeCount] = l
  /\ \A i \in 0 .. p.freeCount - 1 : q.free[i] = p.free[i]

(* drop_link() frees a link that was active, and its assert holds. *)
LEMMA DropHolds ==
  ASSUME NEW p, NEW A, PoolHolds(p, A), NEW l \in A
  PROVE  /\ DropAsserts(p, l)
         /\ PoolHolds(Drop(p, l), A \ {l})
         /\ FreedLast(p, Drop(p, l), l)
<1> DEFINE q == Drop(p, l)
           ix == p.index[l]
           last == p.active[p.activeCount - 1]
           b == [(IF ix < p.activeCount - 1 THEN [p.active EXCEPT ![ix] = last] ELSE p.active)
                   EXCEPT ![p.activeCount - 1] = NoLink]
           y == IF ix < p.activeCount - 1
                  THEN [[p.index EXCEPT ![l] = p.freeCount] EXCEPT ![last] = ix]
                  ELSE [p.index EXCEPT ![l] = p.freeCount]
           g == [p.free EXCEPT ![p.freeCount] = l]
<1>1. p \in Pools /\ Books(p.active, p.free, p.activeCount, p.freeCount, p.index, p.made, A)
  BY DEF PoolHolds
<1>2. Dropped(p.active, p.free, p.activeCount, p.freeCount, p.index, l, b, g, y)
  BY DEF Dropped
<1> HIDE DEF b, y, q, g, ix, last
<1>3. Books(b, g, p.activeCount - 1, p.freeCount + 1, y, p.made, A \ {l})
  BY <1>1, <1>2, BooksDrop
<1>4. /\ p.activeCount # 0 /\ p.freeCount < PoolSize /\ l \in Link
      /\ p.active[p.activeCount - 1] \in Link
      /\ p.active[p.index[l]] = l
      /\ p.freeCount \in 0 .. PoolSize - 1
  BY <1>1, BooksActive
<1>5. /\ DropAsserts(p, l)
      /\ q \in Pools /\ q.active = b /\ q.free = g
      /\ q.activeCount = p.activeCount - 1 /\ q.freeCount = p.freeCount + 1
      /\ q.index = y /\ q.made = p.made
  BY <1>1, <1>4, DropFields DEF b, y, q, g, ix, last
<1>6. PoolHolds(q, A \ {l})
  BY <1>3, <1>5, Zenon DEF PoolHolds
<1>7. g[p.freeCount] = l /\ \A i \in 0 .. p.freeCount - 1 : g[i] = p.free[i]
  <2>1. p.free \in [0 .. PoolSize - 1 -> Link \cup {NoLink}] /\ PoolSize \in Nat
    BY <1>1, ConstellationAssumption DEF Books
  <2>2. \A i \in 0 .. p.freeCount - 1 : i \in 0 .. PoolSize - 1 /\ i # p.freeCount
    BY <1>4, <2>1
  <2> QED BY <1>4, <2>1, <2>2 DEF g
<1>8. FreedLast(p, q, l)
  BY <1>5, <1>7 DEF FreedLast
<1> QED BY <1>5, <1>6, <1>8 DEF q

-----------------------------------------------------------------------------
(* The records that a pool of N cells can be, grown or not. *)
PoolsOf(N) ==
  [size : {N}, active : [0 .. N - 1 -> Link \cup {NoLink}],
   free : [0 .. N - 1 -> Link \cup {NoLink}], activeCount : 0 .. N, freeCount : 0 .. N,
   index : [Link -> 0 .. N - 1], made : 0 .. MaxLinks, shared : BOOLEAN]

(* The counts of the pool are right, and the cells that they reach hold    *)
(* links: what is left of its order when it has grown.                     *)
Sound(p) ==
  /\ p.size \in Nat \ {0}
  /\ p \in PoolsOf(p.size)
  /\ p.freeCount + p.activeCount = p.made /\ p.made <= p.size
  /\ \A i \in 0 .. p.activeCount - 1 : p.active[i] \in Link
  /\ \A i \in 0 .. p.freeCount - 1 : p.free[i] \in Link

LEMMA PoolsOfFields ==
  ASSUME NEW N, NEW p \in PoolsOf(N)
  PROVE  /\ p.size = N /\ p.shared \in BOOLEAN
         /\ p.active \in [0 .. N - 1 -> Link \cup {NoLink}]
         /\ p.free \in [0 .. N - 1 -> Link \cup {NoLink}]
         /\ p.activeCount \in 0 .. N /\ p.freeCount \in 0 .. N
         /\ p.index \in [Link -> 0 .. N - 1] /\ p.made \in 0 .. MaxLinks
  BY DEF PoolsOf

LEMMA SoundFields ==
  ASSUME NEW p, Sound(p)
  PROVE  /\ p.size \in Nat \ {0} /\ p.shared \in BOOLEAN
         /\ p.active \in [0 .. p.size - 1 -> Link \cup {NoLink}]
         /\ p.free \in [0 .. p.size - 1 -> Link \cup {NoLink}]
         /\ p.activeCount \in Nat /\ p.freeCount \in Nat /\ p.made \in Nat
         /\ p.activeCount <= p.size /\ p.freeCount <= p.size /\ p.made <= MaxLinks
         /\ p.index \in [Link -> 0 .. p.size - 1] /\ p.made \in 0 .. MaxLinks
         /\ MaxLinks \in Nat
  BY PoolsOfFields, LinkPoolAssumption DEF Sound

(* After the pool has grown there is a cell for one more active link. *)
LEMMA GrownSound ==
  ASSUME NEW p, Sound(p)
  PROVE  LET g == Grown(p)
         IN  /\ Sound(g)
             /\ g.activeCount = p.activeCount /\ g.freeCount = p.freeCount
             /\ g.made = p.made /\ g.activeCount < g.size
             /\ ~ g.shared => ~ p.shared /\ p.activeCount < p.size
<1> DEFINE N == p.size
           g == Grown(p)
           block == [i \in 0 .. 2 * N - 1 |-> IF i < N THEN p.active[i] ELSE NoLink]
<1>1. /\ N \in Nat \ {0} /\ p \in PoolsOf(N)
      /\ p.freeCount + p.activeCount = p.made /\ p.made <= N
      /\ \A i \in 0 .. p.activeCount - 1 : p.active[i] \in Link
      /\ \A i \in 0 .. p.freeCount - 1 : p.free[i] \in Link
  BY DEF Sound
<1>2. /\ p.active \in [0 .. N - 1 -> Link \cup {NoLink}]
      /\ p.activeCount \in 0 .. N /\ p.freeCount \in 0 .. N
      /\ p.index \in [Link -> 0 .. N - 1] /\ p.made \in 0 .. MaxLinks /\ MaxLinks \in Nat
  BY <1>1, PoolsOfFields, LinkPoolAssumption
<1>3. CASE p.activeCount < N
  <2>1. g = p
    BY <1>3 DEF Grown
  <2> QED BY <1>3, <2>1
<1>4. CASE ~ (p.activeCount < N)
  <2>1. g = [p EXCEPT !.size = 2 * N, !.active = block, !.free = block, !.shared = TRUE]
    BY <1>4 DEF Grown
  <2>2. block \in [0 .. 2 * N - 1 -> Link \cup {NoLink}]
    <3>1. \A i \in 0 .. 2 * N - 1 : i < N => i \in 0 .. N - 1
      BY <1>1
    <3> QED BY <1>2, <3>1
  <2>3. p.activeCount = N /\ p.freeCount = 0 /\ p.made = N /\ 2 * N \in Nat \ {0} /\ N < 2 * N
    BY <1>1, <1>2, <1>4
  <2>4. \A i \in 0 .. N - 1 : block[i] = p.active[i] /\ block[i] \in Link
    <3>1. \A i \in 0 .. N - 1 : i \in 0 .. 2 * N - 1 /\ i < N
      BY <1>1
    <3> QED BY <1>1, <2>3, <3>1
  <2>5. p.index \in [Link -> 0 .. 2 * N - 1]
    <3>1. 0 .. N - 1 \subseteq 0 .. 2 * N - 1
      BY <1>1
    <3> QED BY <1>2, <3>1
  <2> HIDE DEF g, block, N
  <2>6. /\ g.size = 2 * N /\ g.active = block /\ g.free = block /\ g.shared = TRUE
        /\ g.activeCount = N /\ g.freeCount = 0 /\ g.made = N /\ g.index = p.index
        /\ g = [size |-> g.size, active |-> g.active, free |-> g.free,
                activeCount |-> g.activeCount, freeCount |-> g.freeCount,
                index |-> g.index, made |-> g.made, shared |-> g.shared]
    BY <1>1, <2>1, <2>3 DEF PoolsOf
  <2>7. N \in 0 .. 2 * N /\ 0 \in 0 .. 2 * N /\ N \in 0 .. MaxLinks
    BY <1>1, <1>2, <2>3
  <2>8. g \in PoolsOf(2 * N)
    BY <2>2, <2>5, <2>6, <2>7 DEF PoolsOf
  <2>9. /\ \A i \in 0 .. g.activeCount - 1 : g.active[i] \in Link
        /\ \A i \in 0 .. g.freeCount - 1 : g.free[i] \in Link
    BY <2>4, <2>6
  <2>10. 0 + N = N /\ N <= 2 * N
    BY <1>1
  <2>11. Sound(g)
    BY <2>3, <2>6, <2>8, <2>9, <2>10 DEF Sound
  <2> QED BY <2>3, <2>6, <2>11 DEF g
<1> QED BY <1>3, <1>4

(* activate_link() hands out a link, whatever became of the pool: a new    *)
(* one only when every link that was made is active.                       *)
LEMMA ActivateSound ==
  ASSUME NEW p, Sound(p), p.activeCount < MaxLinks
  PROVE  LET q == Activate(p)
         IN  /\ HandedOut(p) \in Link
             /\ Sound(q)
             /\ q.activeCount = p.activeCount + 1
             /\ ~ q.shared => ~ p.shared /\ p.activeCount < p.size
<1> DEFINE g == Grown(p)
           N == g.size
           n == p.activeCount
           m == p.freeCount
           l == HandedOut(p)
           w == WriteActive(g, n, l)
           q == Activate(p)
<1>1. /\ Sound(g) /\ g.activeCount = n /\ g.freeCount = m /\ g.made = p.made /\ n < N
      /\ ~ g.shared => ~ p.shared /\ p.activeCount < p.size
  BY GrownSound
<1>2. l = IF m = 0 THEN p.made + 1 ELSE g.free[m - 1]
  BY DEF HandedOut
<1>3. q = [w EXCEPT
             !.index[l] = n, !.activeCount = @ + 1,
             !.freeCount = IF @ = 0 THEN 0 ELSE @ - 1,
             !.free = IF g.shared \/ m = 0 THEN @ ELSE [@ EXCEPT ![m - 1] = NoLink],
             !.made = IF m = 0 THEN l ELSE @]
  BY DEF Activate
<1>4. w = [g EXCEPT !.active[n] = l, !.free = IF g.shared THEN [@ EXCEPT ![n] = l] ELSE @]
  BY DEF WriteActive
<1> HIDE DEF g, l, w, q
<1>5. /\ N \in Nat \ {0} /\ g \in PoolsOf(N)
      /\ m + n = p.made /\ p.made <= N
      /\ \A i \in 0 .. n - 1 : g.active[i] \in Link
      /\ \A i \in 0 .. m - 1 : g.free[i] \in Link
  BY <1>1 DEF Sound
<1>6. /\ g.active \in [0 .. N - 1 -> Link \cup {NoLink}]
      /\ g.free \in [0 .. N - 1 -> Link \cup {NoLink}]
      /\ n \in Nat /\ m \in Nat /\ p.made \in Nat /\ g.shared \in BOOLEAN
      /\ g.index \in [Link -> 0 .. N - 1] /\ p.made <= MaxLinks /\ MaxLinks \in Nat
  BY <1>1, SoundFields
<1> HIDE DEF N, n, m
<1>7. l \in Link
  <2>1. CASE m = 0
    <3>1. p.made < MaxLinks
      BY <1>5, <1>6, <2>1 DEF n
    <3> QED BY <1>2, <1>6, <2>1, <3>1 DEF Link
  <2>2. CASE m # 0
    <3>1. m - 1 \in 0 .. m - 1
      BY <1>6, <2>2
    <3> QED BY <1>2, <1>5, <2>2, <3>1
  <2> QED BY <2>1, <2>2
<1> DEFINE a == [g.active EXCEPT ![n] = l]
           f == IF g.shared THEN [g.free EXCEPT ![n] = l] ELSE g.free
           h == IF g.shared \/ m = 0 THEN f ELSE [f EXCEPT ![m - 1] = NoLink]
           k == IF m = 0 THEN 0 ELSE m - 1
           x == [g.index EXCEPT ![l] = n]
           made == IF m = 0 THEN l ELSE p.made
<1>8. n \in 0 .. N - 1
  BY <1>1, <1>5, <1>6 DEF N, n
<1>9. /\ a \in [0 .. N - 1 -> Link \cup {NoLink}]
      /\ \A i \in 0 .. (n + 1) - 1 : a[i] \in Link
  <2>1. a \in [0 .. N - 1 -> Link \cup {NoLink}]
    BY <1>6, <1>7
  <2>2. ASSUME NEW i \in 0 .. (n + 1) - 1 PROVE a[i] \in Link
    <3>1. i \in 0 .. N - 1
      BY <1>5, <1>6, <1>8
    <3>2. i # n => i \in 0 .. n - 1
      BY <1>6
    <3> QED BY <1>5, <1>6, <1>7, <3>1, <3>2
  <2> QED BY <2>1, <2>2
<1>10. /\ f \in [0 .. N - 1 -> Link \cup {NoLink}]
       /\ \A i \in 0 .. m - 1 : f[i] \in Link
  <2>1. \A i \in 0 .. m - 1 : i \in 0 .. N - 1
    BY <1>5, <1>6
  <2> QED BY <1>5, <1>6, <1>7, <2>1
<1> HIDE DEF a, f
<1>11. /\ h \in [0 .. N - 1 -> Link \cup {NoLink}]
       /\ \A i \in 0 .. k - 1 : h[i] \in Link
  <2>1. \A i \in 0 .. k - 1 : i \in 0 .. m - 1 /\ i # m - 1 /\ i \in 0 .. N - 1
    BY <1>5, <1>6
  <2>2. CASE g.shared \/ m = 0
    BY <1>10, <2>1, <2>2
  <2>3. CASE ~ (g.shared \/ m = 0)
    <3>1. h = [f EXCEPT ![m - 1] = NoLink]
      BY <2>3
    <3> HIDE DEF h
    <3> QED BY <1>10, <2>1, <3>1
  <2> QED BY <2>2, <2>3
<1>12. x \in [Link -> 0 .. N - 1]
  BY <1>6, <1>7, <1>8
<1>13. /\ made \in 0 .. MaxLinks /\ k + (n + 1) = made /\ made <= N
       /\ n + 1 \in 0 .. N /\ k \in 0 .. N
  <2>1. n + 1 <= N
    BY <1>5, <1>6, <1>8
  <2>2. CASE m = 0
    <3>1. l = p.made + 1 /\ l <= MaxLinks
      BY <1>2, <1>6, <1>7, <2>2 DEF Link
    <3> QED BY <1>5, <1>6, <2>1, <2>2, <3>1
  <2>3. CASE m # 0
    BY <1>5, <1>6, <2>1, <2>3
  <2> QED BY <2>2, <2>3
<1>14. /\ w.active = a /\ w.free = f /\ w.activeCount = n /\ w.freeCount = m
       /\ w.index = g.index /\ w.made = p.made /\ w.shared = g.shared /\ w \in PoolsOf(N)
  BY <1>1, <1>4, <1>5, <1>9, <1>10 DEF PoolsOf, a, f, n, m
<1> HIDE DEF h, k, made
<1>15. q = [w EXCEPT !.index[l] = n, !.activeCount = n + 1, !.freeCount = k,
                     !.free = h, !.made = made]
  BY <1>3, <1>14 DEF h, k, made
<1>16. /\ q \in PoolsOf(N) /\ q.active = a /\ q.free = h /\ q.activeCount = n + 1
       /\ q.freeCount = k /\ q.made = made /\ q.shared = g.shared
  BY <1>11, <1>12, <1>13, <1>14, <1>15 DEF PoolsOf
<1>17. q.size = N
  BY <1>16, PoolsOfFields
<1>18. Sound(q)
  BY <1>5, <1>9, <1>11, <1>13, <1>16, <1>17 DEF Sound
<1> QED BY <1>1, <1>7, <1>16, <1>18 DEF q, l, n

(* drop_link() of any link, right or not, keeps the counts right: there is *)
(* a free cell for it as long as a link is active.                         *)
LEMMA DropSound ==
  ASSUME NEW p, Sound(p), NEW l \in Link, p.activeCount # 0
  PROVE  LET q == Drop(p, l)
         IN  /\ Sound(q)
             /\ q.activeCount = p.activeCount - 1
             /\ q.shared = p.shared
<1> DEFINE N == p.size
           n == p.activeCount
           m == p.freeCount
           w == WriteFree(p, m, l)
           f == Freed(p, l)
           ix == p.index[l]
           last == f.active[n - 1]
           v == WriteActive(f, ix, last)
           u == IF ix < n - 1 THEN [v EXCEPT !.index[last] = ix] ELSE f
           q == Drop(p, l)
<1>1. q = [u EXCEPT !.activeCount = @ - 1,
             !.active = IF p.shared THEN @ ELSE [@ EXCEPT ![n - 1] = NoLink]]
  BY DEF Drop
<1>2. f = [w EXCEPT !.index[l] = m, !.freeCount = @ + 1]
  BY DEF Freed
<1>3. w = [p EXCEPT !.free[m] = l, !.active = IF p.shared THEN [@ EXCEPT ![m] = l] ELSE @]
  BY DEF WriteFree
<1>4. v = [f EXCEPT !.active[ix] = last,
                    !.free = IF f.shared THEN [@ EXCEPT ![ix] = last] ELSE @]
  BY DEF WriteActive
<1>5. /\ N \in Nat \ {0} /\ p \in PoolsOf(N) /\ m + n = p.made /\ p.made <= N
      /\ \A i \in 0 .. n - 1 : p.active[i] \in Link
      /\ \A i \in 0 .. m - 1 : p.free[i] \in Link
  BY DEF Sound
<1>6. /\ p.active \in [0 .. N - 1 -> Link \cup {NoLink}]
      /\ p.free \in [0 .. N - 1 -> Link \cup {NoLink}]
      /\ n \in Nat /\ m \in Nat /\ p.made \in Nat /\ p.shared \in BOOLEAN
      /\ p.index \in [Link -> 0 .. N - 1] /\ p.made <= MaxLinks /\ p.made \in 0 .. MaxLinks
  BY SoundFields
<1>7. /\ m \in 0 .. N - 1 /\ m + 1 \in 0 .. N /\ n - 1 \in 0 .. N - 1 /\ n - 1 \in 0 .. n - 1
      /\ n - 1 \in 0 .. N /\ n - 1 \in Nat /\ n # 0 /\ ix \in 0 .. N - 1
  <2>1. ix \in 0 .. N - 1
    BY <1>6
  <2>2. /\ N \in Nat /\ n \in Nat /\ m \in Nat /\ n # 0
        /\ m + n = p.made /\ p.made <= N
    BY <1>5, <1>6
  <2> HIDE DEF ix, N, n, m
  <2>3. m + n <= N
    BY <2>2
  <2> QED BY <2>1, <2>2, <2>3
<1> DEFINE a == IF p.shared THEN [p.active EXCEPT ![m] = l] ELSE p.active
           b == [p.free EXCEPT ![m] = l]
<1>8. /\ a \in [0 .. N - 1 -> Link \cup {NoLink}] /\ b \in [0 .. N - 1 -> Link \cup {NoLink}]
      /\ \A i \in 0 .. n - 1 : a[i] \in Link
      /\ \A i \in 0 .. (m + 1) - 1 : b[i] \in Link
  <2>1. /\ \A i \in 0 .. n - 1 : i \in 0 .. N - 1
        /\ \A i \in 0 .. (m + 1) - 1 : i \in 0 .. N - 1 /\ (i # m => i \in 0 .. m - 1)
    <3>1. N \in Nat /\ n \in Nat /\ m \in Nat /\ n <= N /\ m + 1 <= N
      BY <1>5, <1>6, <1>7
    <3> HIDE DEF N, n, m
    <3> QED BY <3>1
  <2> HIDE DEF N, n, m
  <2>2. a \in [0 .. N - 1 -> Link \cup {NoLink}]
    BY <1>6
  <2>3. b \in [0 .. N - 1 -> Link \cup {NoLink}]
    BY <1>6
  <2>4. \A i \in 0 .. n - 1 : a[i] \in Link
    BY <1>5, <1>6, <2>1
  <2>5. ASSUME NEW i \in 0 .. (m + 1) - 1 PROVE b[i] \in Link
    <3>1. CASE i = m
      BY <1>6, <1>7, <3>1
    <3>2. CASE i # m
      <4>1. i \in 0 .. N - 1 /\ i \in 0 .. m - 1
        BY <2>1, <3>2
      <4>2. b[i] = p.free[i]
        BY <1>6, <3>2, <4>1
      <4> QED BY <1>5, <4>1, <4>2
    <3> QED BY <3>1, <3>2
  <2> QED BY <2>2, <2>3, <2>4, <2>5
<1> HIDE DEF w, f, last, v, u, q, a, b, ix, N, n, m
<1>9. /\ w \in PoolsOf(N) /\ w.active = a /\ w.free = b /\ w.activeCount = n /\ w.freeCount = m
      /\ w.index = p.index /\ w.made = p.made /\ w.shared = p.shared
  BY <1>3, <1>5, <1>8 DEF PoolsOf, a, b, n, m
<1>10. f = [w EXCEPT !.index[l] = m, !.freeCount = m + 1]
  BY <1>2, <1>9
<1>11. /\ f \in PoolsOf(N) /\ f.active = a /\ f.free = b /\ f.activeCount = n
       /\ f.freeCount = m + 1 /\ f.made = p.made /\ f.shared = p.shared
  BY <1>6, <1>7, <1>9, <1>10 DEF PoolsOf
<1>12. last \in Link
  BY <1>7, <1>8, <1>11 DEF last
<1> DEFINE c == [a EXCEPT ![ix] = last]
           d == IF p.shared THEN [b EXCEPT ![ix] = last] ELSE b
<1>13. /\ c \in [0 .. N - 1 -> Link \cup {NoLink}] /\ d \in [0 .. N - 1 -> Link \cup {NoLink}]
       /\ \A i \in 0 .. n - 1 : c[i] \in Link
       /\ \A i \in 0 .. (m + 1) - 1 : d[i] \in Link
  <2>1. /\ \A i \in 0 .. n - 1 : i \in 0 .. N - 1
        /\ \A i \in 0 .. (m + 1) - 1 : i \in 0 .. N - 1
    BY <1>5, <1>6, <1>7
  <2> QED BY <1>7, <1>8, <1>12, <2>1
<1> HIDE DEF c, d
<1>14. /\ v \in PoolsOf(N) /\ v.active = c /\ v.free = d /\ v.activeCount = n
       /\ v.freeCount = m + 1 /\ v.made = p.made /\ v.shared = p.shared
  BY <1>4, <1>11, <1>13 DEF PoolsOf, c, d
<1>15. /\ u \in PoolsOf(N) /\ u.activeCount = n
       /\ u.freeCount = m + 1 /\ u.made = p.made /\ u.shared = p.shared
       /\ u.active \in [0 .. N - 1 -> Link \cup {NoLink}]
       /\ \A i \in 0 .. n - 1 : u.active[i] \in Link
       /\ \A i \in 0 .. (m + 1) - 1 : u.free[i] \in Link
  <2>1. CASE ix < n - 1
    <3>1. u = [v EXCEPT !.index[last] = ix]
      BY <2>1 DEF u
    <3>2. /\ u \in PoolsOf(N) /\ u.active = c /\ u.free = d /\ u.activeCount = n
          /\ u.freeCount = m + 1 /\ u.made = p.made /\ u.shared = p.shared
      BY <1>7, <1>12, <1>14, <3>1 DEF PoolsOf
    <3> QED BY <1>13, <3>2
  <2>2. CASE ~ (ix < n - 1)
    <3>1. u = f
      BY <2>2 DEF u
    <3> QED BY <1>8, <1>11, <3>1
  <2> QED BY <2>1, <2>2
<1> DEFINE e == IF p.shared THEN u.active ELSE [u.active EXCEPT ![n - 1] = NoLink]
<1>16. /\ e \in [0 .. N - 1 -> Link \cup {NoLink}]
       /\ \A i \in 0 .. (n - 1) - 1 : e[i] \in Link
  <2>1. \A i \in 0 .. (n - 1) - 1 : i \in 0 .. n - 1 /\ i \in 0 .. N - 1 /\ i # n - 1
    BY <1>5, <1>6, <1>7
  <2> QED BY <1>15, <2>1
<1> HIDE DEF e
<1>17. q = [u EXCEPT !.activeCount = n - 1, !.active = e]
  BY <1>1, <1>15 DEF e
<1>18. /\ q \in PoolsOf(N) /\ q.active = e /\ q.free = u.free /\ q.activeCount = n - 1
       /\ q.freeCount = m + 1 /\ q.made = p.made /\ q.shared = p.shared
  BY <1>7, <1>15, <1>16, <1>17 DEF PoolsOf
<1>19. q.size = N /\ (m + 1) + (n - 1) = p.made
  BY <1>5, <1>6, <1>18, PoolsOfFields
<1>20. Sound(q)
  BY <1>5, <1>15, <1>16, <1>18, <1>19 DEF Sound
<1> QED BY <1>18, <1>20 DEF q, n

-----------------------------------------------------------------------------
(* The links k and l are one of the first K pairs that the city made. *)
Twins(k, l, K) ==
  \E j \in 1 .. K :
    \/ k = IslCount + 2 * j - 1 /\ l = IslCount + 2 * j
    \/ k = IslCount + 2 * j /\ l = IslCount + 2 * j - 1

LinkOf == [Sat -> Link \cup {NoLink}]
(* The satellite s gets the link l. *)
Put(u, s, l) == [u EXCEPT ![s] = l]

Held(u, d) == ({u[s] : s \in Sat} \cup {d[s] : s \in Sat}) \ {NoLink}

(* The satellites L have a pair of links each, up and down; of the K pairs *)
(* that were made the others are free, pair by pair.                       *)
PairsHold(u, d, L, n, f, m, made) ==
  /\ u \in LinkOf /\ d \in LinkOf /\ L \subseteq Sat
  /\ n = IslCount + 2 * Cardinality(L)
  /\ \A s \in Sat \ L : u[s] = NoLink /\ d[s] = NoLink
  /\ \A s, r \in L : s # r => u[s] # u[r] /\ u[s] # d[r] /\ d[s] # d[r]
  /\ \E K \in 0 .. Cardinality(Sat), F \in Nat :
       /\ made = IslCount + 2 * K
       /\ m = 2 * F
       /\ \A s \in L : Twins(u[s], d[s], K)
       /\ \A j \in 0 .. F - 1 : Twins(f[2 * j], f[2 * j + 1], K)

(* The links of the city in the net n are those of the satellites L. *)
Nets == [pool : Pools, up : LinkOf, down : LinkOf]
Active(n) == 1 .. IslCount \cup InUse(n)
NetHolds(n, L) ==
  /\ n \in Nets
  /\ PoolHolds(n.pool, Active(n))
  /\ PairsHold(n.up, n.down, L, n.pool.activeCount, n.pool.free, n.pool.freeCount, n.pool.made)

LEMMA TwinsFacts ==
  ASSUME NEW K \in Nat, NEW k, NEW l, Twins(k, l, K)
  PROVE  /\ Twins(l, k, K) /\ Twins(k, l, K + 1)
         /\ k \in Nat /\ l \in Nat /\ k > IslCount /\ l > IslCount /\ k # l
<1>1. IslCount \in Nat
  BY ConstellationAssumption
<1>2. PICK j \in 1 .. K :
        \/ k = IslCount + 2 * j - 1 /\ l = IslCount + 2 * j
        \/ k = IslCount + 2 * j /\ l = IslCount + 2 * j - 1
  BY DEF Twins
<1>3. j \in 1 .. K + 1
  OBVIOUS
<1>4. Twins(l, k, K)
  BY <1>2 DEF Twins
<1>5. Twins(k, l, K + 1)
  BY <1>2, <1>3 DEF Twins
<1> QED BY <1>1, <1>2, <1>4, <1>5

LEMMA SatNumbers ==
  ASSUME NEW L \in SUBSET Sat
  PROVE  /\ IsFiniteSet(L) /\ Cardinality(L) \in Nat /\ Cardinality(Sat) \in Nat
         /\ Cardinality(L) <= Cardinality(Sat)
         /\ \A s \in Sat \ L : /\ Cardinality(L \cup {s}) = Cardinality(L) + 1
                             /\ Cardinality(L) + 1 <= Cardinality(Sat)
         /\ \A s \in L : Cardinality(L \ {s}) = Cardinality(L) - 1
<1>1. IsFiniteSet(Sat) /\ IsFiniteSet(L)
  BY CityUplinksAssumption, FS_Subset
<1>2. Cardinality(L) \in Nat /\ Cardinality(Sat) \in Nat /\ Cardinality(L) <= Cardinality(Sat)
  BY <1>1, FS_CardinalityType, FS_Subset
<1>3. ASSUME NEW s \in Sat \ L
      PROVE  /\ Cardinality(L \cup {s}) = Cardinality(L) + 1
             /\ Cardinality(L) + 1 <= Cardinality(Sat)
  <2>1. Cardinality(L \cup {s}) = Cardinality(L) + 1
    BY <1>1, FS_AddElement
  <2>2. L \cup {s} \in SUBSET Sat
    OBVIOUS
  <2>3. Cardinality(L \cup {s}) <= Cardinality(Sat)
    BY <1>1, <2>2, FS_Subset
  <2> QED BY <2>1, <2>3
<1>4. ASSUME NEW s \in L PROVE Cardinality(L \ {s}) = Cardinality(L) - 1
  BY <1>1, FS_RemoveElement
<1> QED BY <1>1, <1>2, <1>3, <1>4

LEMMA PairsNumbers ==
  ASSUME NEW u, NEW d, NEW L, NEW n, NEW f, NEW m, NEW made,
         PairsHold(u, d, L, n, f, m, made)
  PROVE  /\ L \subseteq Sat /\ n = IslCount + 2 * Cardinality(L)
         /\ IslCount \in Nat /\ Cardinality(L) \in Nat /\ n \in Nat /\ m \in Nat
         /\ m # 0 => m > 1
<1>1. L \subseteq Sat /\ n = IslCount + 2 * Cardinality(L) /\ \E F \in Nat : m = 2 * F
  BY DEF PairsHold
<1>2. IslCount \in Nat /\ Cardinality(L) \in Nat
  BY <1>1, SatNumbers, ConstellationAssumption
<1> QED BY <1>1, <1>2

(* The links of a satellite in range are two links of the city. *)
LEMMA HeldPair ==
  ASSUME NEW u, NEW d, NEW L, NEW n, NEW f, NEW m, NEW made,
         PairsHold(u, d, L, n, f, m, made), NEW r \in L
  PROVE  /\ u[r] # d[r] /\ u[r] \in Held(u, d) /\ d[r] \in Held(u, d)
         /\ u[r] \notin 1 .. IslCount /\ d[r] \notin 1 .. IslCount
<1>1. L \subseteq Sat
  BY DEF PairsHold
<1>2. PICK K \in 0 .. Cardinality(Sat) : Twins(u[r], d[r], K)
  BY DEF PairsHold
<1>3. K \in Nat /\ IslCount \in Nat
  BY <1>1, <1>2, SatNumbers, ConstellationAssumption
<1>4. /\ u[r] # d[r] /\ u[r] \in Nat /\ d[r] \in Nat
      /\ u[r] > IslCount /\ d[r] > IslCount
  BY <1>2, <1>3, TwinsFacts
<1>5. u[r] # NoLink /\ d[r] # NoLink /\ u[r] \notin 1 .. IslCount /\ d[r] \notin 1 .. IslCount
  BY <1>3, <1>4 DEF NoLink
<1> QED BY <1>1, <1>4, <1>5 DEF Held

(* The links of the city when it makes or drops the pair of a satellite. *)
LEMMA HeldMade ==
  ASSUME NEW u \in LinkOf, NEW d \in LinkOf, NEW s \in Sat, u[s] = NoLink, d[s] = NoLink,
         NEW k \in Link, NEW l \in Link
  PROVE  Held(Put(u, s, k), Put(d, s, l)) = Held(u, d) \cup {k, l}
<1> DEFINE v == Put(u, s, k)
           e == Put(d, s, l)
<1>1. /\ v[s] = k /\ \A r \in Sat : r # s => v[r] = u[r]
      /\ e[s] = l /\ \A r \in Sat : r # s => e[r] = d[r]
  BY DEF LinkOf, Put
<1> HIDE DEF v, e
<1>2. k # NoLink /\ l # NoLink
  BY LinkPoolAssumption DEF Link, NoLink
<1>3. ASSUME NEW x \in Held(v, e) PROVE x \in Held(u, d) \cup {k, l}
  <2>1. PICK r \in Sat : x = v[r] \/ x = e[r]
    BY DEF Held
  <2> QED BY <1>1, <2>1 DEF Held
<1>4. ASSUME NEW x \in Held(u, d) PROVE x \in Held(v, e)
  <2>1. PICK r \in Sat : x = u[r] \/ x = d[r]
    BY DEF Held
  <2>2. x # NoLink
    BY DEF Held
  <2>3. r # s
    BY <2>1, <2>2
  <2> QED BY <1>1, <2>1, <2>2, <2>3 DEF Held
<1>5. k \in Held(v, e) /\ l \in Held(v, e)
  BY <1>1, <1>2 DEF Held
<1> QED BY <1>3, <1>4, <1>5 DEF v, e

LEMMA HeldDropped ==
  ASSUME NEW u, NEW d, NEW L, NEW n, NEW f, NEW m, NEW made,
         PairsHold(u, d, L, n, f, m, made), NEW s \in L
  PROVE  Held(Put(u, s, NoLink), Put(d, s, NoLink))
           = Held(u, d) \ {u[s], d[s]}
<1> DEFINE v == Put(u, s, NoLink)
           e == Put(d, s, NoLink)
<1>1. /\ u \in LinkOf /\ d \in LinkOf /\ L \subseteq Sat
      /\ \A r \in Sat \ L : u[r] = NoLink /\ d[r] = NoLink
      /\ \A q, r \in L : q # r => u[q] # u[r] /\ u[q] # d[r] /\ d[q] # d[r]
  BY DEF PairsHold
<1>2. /\ v[s] = NoLink /\ \A r \in Sat : r # s => v[r] = u[r]
      /\ e[s] = NoLink /\ \A r \in Sat : r # s => e[r] = d[r]
  BY <1>1 DEF LinkOf, Put
<1> HIDE DEF v, e
<1>3. ASSUME NEW x \in Held(v, e) PROVE x \in Held(u, d) \ {u[s], d[s]}
  <2>1. PICK r \in Sat : x = v[r] \/ x = e[r]
    BY DEF Held
  <2>2. x # NoLink
    BY DEF Held
  <2>3. r # s /\ (x = u[r] \/ x = d[r])
    BY <1>2, <2>1, <2>2
  <2>4. r \in L
    BY <1>1, <2>2, <2>3
  <2>5. x # u[s] /\ x # d[s]
    BY <1>1, <2>3, <2>4
  <2> QED BY <2>2, <2>3, <2>5 DEF Held
<1>4. ASSUME NEW x \in Held(u, d) \ {u[s], d[s]} PROVE x \in Held(v, e)
  <2>1. PICK r \in Sat : x = u[r] \/ x = d[r]
    BY DEF Held
  <2>2. x # NoLink
    BY DEF Held
  <2>3. r # s
    BY <2>1
  <2> QED BY <1>2, <2>1, <2>2, <2>3 DEF Held
<1> QED BY <1>3, <1>4 DEF v, e

(* The links k and l are the ones freed last, or new ones; g are the links *)
(* left free then.                                                         *)
Taken(f, m, made, k, l, g, left, total) ==
  /\ m = 0 => k = made + 1 /\ l = made + 2
  /\ m # 0 => k = f[m - 1] /\ l = f[m - 2]
  /\ \A i \in 0 .. m - 3 : g[i] = f[i]
  /\ left = IF m = 0 THEN 0 ELSE m - 2
  /\ total = IF m = 0 THEN made + 2 ELSE made

(* A pair is made of them. *)
LEMMA PairsMade ==
  ASSUME NEW u, NEW d, NEW L, NEW n, NEW f, NEW m, NEW made,
         PairsHold(u, d, L, n, f, m, made), made = m + n, NEW s \in Sat \ L,
         NEW k \in Link \ Held(u, d), NEW l \in Link \ Held(u, d),
         NEW g, NEW left, NEW total, Taken(f, m, made, k, l, g, left, total),
         NEW more, more = n + 2
  PROVE  PairsHold(Put(u, s, k), Put(d, s, l), L \cup {s}, more, g, left, total)
<1> DEFINE v == Put(u, s, k)
           e == Put(d, s, l)
           M == L \cup {s}
<1>0. /\ m = 0 => k = made + 1 /\ l = made + 2
      /\ m # 0 => k = f[m - 1] /\ l = f[m - 2]
      /\ \A i \in 0 .. m - 3 : g[i] = f[i]
      /\ left = IF m = 0 THEN 0 ELSE m - 2
      /\ total = IF m = 0 THEN made + 2 ELSE made
  BY DEF Taken
<1>1. /\ u \in LinkOf /\ d \in LinkOf /\ L \subseteq Sat
      /\ n = IslCount + 2 * Cardinality(L)
      /\ \A r \in Sat \ L : u[r] = NoLink /\ d[r] = NoLink
      /\ \A q, r \in L : q # r => u[q] # u[r] /\ u[q] # d[r] /\ d[q] # d[r]
  BY DEF PairsHold
<1>2. PICK K \in 0 .. Cardinality(Sat), F \in Nat :
        /\ made = IslCount + 2 * K
        /\ m = 2 * F
        /\ \A r \in L : Twins(u[r], d[r], K)
        /\ \A j \in 0 .. F - 1 : Twins(f[2 * j], f[2 * j + 1], K)
  BY DEF PairsHold
<1>3. /\ Cardinality(L) \in Nat /\ Cardinality(Sat) \in Nat /\ IslCount \in Nat
      /\ Cardinality(M) = Cardinality(L) + 1 /\ Cardinality(L) + 1 <= Cardinality(Sat)
  BY <1>1, SatNumbers, ConstellationAssumption
<1>4. K \in Nat /\ K <= Cardinality(Sat) /\ n \in Nat /\ m \in Nat /\ made \in Nat
  BY <1>1, <1>2, <1>3
<1>5. /\ v \in LinkOf /\ v[s] = k /\ \A r \in Sat : r # s => v[r] = u[r]
      /\ e \in LinkOf /\ e[s] = l /\ \A r \in Sat : r # s => e[r] = d[r]
  BY <1>1 DEF LinkOf, Put
<1> HIDE DEF v, e
<1>8. \A r \in L : u[r] \in Held(u, d) /\ d[r] \in Held(u, d) /\ r \in Sat /\ r # s
  BY <1>1, HeldPair
<1>9. \A r \in Sat \ M : v[r] = NoLink /\ e[r] = NoLink
  BY <1>1, <1>5
<1>10. ASSUME NEW q \in M, NEW r \in M, q # r
       PROVE  v[q] # v[r] /\ v[q] # e[r] /\ e[q] # e[r]
  <2>1. CASE q # s /\ r # s
    BY <1>1, <1>5, <1>10, <2>1
  <2>2. CASE q = s
    <3>1. r \in L /\ v[r] = u[r] /\ e[r] = d[r]
      BY <1>5, <1>8, <1>10, <2>2
    <3> QED BY <1>5, <1>8, <2>2, <3>1
  <2>3. CASE r = s
    <3>1. q \in L /\ v[q] = u[q] /\ e[q] = d[q]
      BY <1>5, <1>8, <1>10, <2>3
    <3> QED BY <1>5, <1>8, <2>3, <3>1
  <2> QED BY <2>1, <2>2, <2>3
<1>11. \E J \in 0 .. Cardinality(Sat), G \in Nat :
         /\ total = IslCount + 2 * J
         /\ left = 2 * G
         /\ \A r \in M : Twins(v[r], e[r], J)
         /\ \A j \in 0 .. G - 1 : Twins(g[2 * j], g[2 * j + 1], J)
  <2>1. CASE m = 0
    <3>1. /\ K + 1 \in 0 .. Cardinality(Sat) /\ total = IslCount + 2 * (K + 1) /\ left = 2 * 0
          /\ k = IslCount + 2 * (K + 1) - 1 /\ l = IslCount + 2 * (K + 1)
          /\ K + 1 \in 1 .. K + 1
      BY <1>0, <1>1, <1>2, <1>3, <1>4, <2>1
    <3>2. Twins(k, l, K + 1)
      BY <3>1 DEF Twins
    <3>3. \A r \in M : Twins(v[r], e[r], K + 1)
      <4> SUFFICES ASSUME NEW r \in M PROVE Twins(v[r], e[r], K + 1)
        OBVIOUS
      <4>1. CASE r = s
        BY <1>5, <3>2, <4>1
      <4>2. CASE r # s
        <5>1. r \in L /\ v[r] = u[r] /\ e[r] = d[r] /\ Twins(u[r], d[r], K)
          BY <1>2, <1>5, <1>8, <4>2
        <5>2. Twins(u[r], d[r], K + 1)
          BY <1>4, <5>1, TwinsFacts
        <5> QED BY <5>1, <5>2
      <4> QED BY <4>1, <4>2
    <3>4. \A j \in 0 .. 0 - 1 : Twins(g[2 * j], g[2 * j + 1], K + 1)
      OBVIOUS
    <3> HIDE DEF M
    <3> QED BY <2>1, <3>1, <3>3, <3>4
  <2>2. CASE m # 0
    <3>1. /\ F - 1 \in Nat /\ left = 2 * (F - 1) /\ total = IslCount + 2 * K /\ m > 1
          /\ F - 1 \in 0 .. F - 1 /\ 2 * (F - 1) = m - 2 /\ 2 * (F - 1) + 1 = m - 1
      BY <1>0, <1>2, <1>4, <2>2
    <3>2. Twins(k, l, K)
      <4>1. Twins(f[2 * (F - 1)], f[2 * (F - 1) + 1], K)
        BY <1>2, <3>1
      <4>2. Twins(l, k, K)
        BY <1>0, <2>2, <3>1, <4>1
      <4> QED BY <1>4, <4>2, TwinsFacts
    <3>3. \A r \in M : Twins(v[r], e[r], K)
      <4> SUFFICES ASSUME NEW r \in M PROVE Twins(v[r], e[r], K)
        OBVIOUS
      <4>1. CASE r = s
        BY <1>5, <3>2, <4>1
      <4>2. CASE r # s
        BY <1>2, <1>5, <1>8, <4>2
      <4> QED BY <4>1, <4>2
    <3>4. ASSUME NEW j \in 0 .. (F - 1) - 1 PROVE Twins(g[2 * j], g[2 * j + 1], K)
      <4>1. j \in 0 .. F - 1 /\ 2 * j \in 0 .. m - 3 /\ 2 * j + 1 \in 0 .. m - 3
        BY <1>2, <1>4, <3>1
      <4>2. g[2 * j] = f[2 * j] /\ g[2 * j + 1] = f[2 * j + 1]
        BY <1>0, <4>1
      <4> QED BY <1>2, <4>1, <4>2
    <3> HIDE DEF M
    <3> QED BY <2>2, <3>1, <3>3, <3>4
  <2> QED BY <2>1, <2>2
<1>12. more = IslCount + 2 * Cardinality(M) /\ M \subseteq Sat
  BY <1>1, <1>3
<1> HIDE DEF M
<1>13. PairsHold(v, e, M, more, g, left, total)
  BY <1>5, <1>9, <1>10, <1>11, <1>12 DEF PairsHold
<1> QED BY <1>13 DEF v, e, M

(* The pair of a satellite is dropped, the uplink first. *)
LEMMA PairsDropped ==
  ASSUME NEW u, NEW d, NEW L, NEW n, NEW f, NEW m, NEW made,
         PairsHold(u, d, L, n, f, m, made), NEW s \in L, NEW g,
         g[m] = u[s], g[m + 1] = d[s], \A i \in 0 .. m - 1 : g[i] = f[i]
  PROVE  PairsHold(Put(u, s, NoLink), Put(d, s, NoLink), L \ {s},
                   n - 2, g, m + 2, made)
<1> DEFINE v == Put(u, s, NoLink)
           e == Put(d, s, NoLink)
           M == L \ {s}
<1>1. /\ u \in LinkOf /\ d \in LinkOf /\ L \subseteq Sat
      /\ n = IslCount + 2 * Cardinality(L)
      /\ \A r \in Sat \ L : u[r] = NoLink /\ d[r] = NoLink
      /\ \A q, r \in L : q # r => u[q] # u[r] /\ u[q] # d[r] /\ d[q] # d[r]
  BY DEF PairsHold
<1>2. PICK K \in 0 .. Cardinality(Sat), F \in Nat :
        /\ made = IslCount + 2 * K
        /\ m = 2 * F
        /\ \A r \in L : Twins(u[r], d[r], K)
        /\ \A j \in 0 .. F - 1 : Twins(f[2 * j], f[2 * j + 1], K)
  BY DEF PairsHold
<1>3. /\ Cardinality(L) \in Nat /\ Cardinality(Sat) \in Nat /\ IslCount \in Nat
      /\ Cardinality(M) = Cardinality(L) - 1
  BY <1>1, SatNumbers, ConstellationAssumption
<1>4. K \in Nat
  BY <1>2, <1>3
<1>5. /\ v \in LinkOf /\ v[s] = NoLink /\ \A r \in Sat : r # s => v[r] = u[r]
      /\ e \in LinkOf /\ e[s] = NoLink /\ \A r \in Sat : r # s => e[r] = d[r]
  BY <1>1 DEF LinkOf, Put
<1> HIDE DEF v, e
<1>8. \A r \in Sat \ M : v[r] = NoLink /\ e[r] = NoLink
  BY <1>1, <1>5
<1>9. \A r \in M : r \in L /\ v[r] = u[r] /\ e[r] = d[r]
  BY <1>1, <1>5
<1>10. \A q, r \in M : q # r => v[q] # v[r] /\ v[q] # e[r] /\ e[q] # e[r]
  BY <1>1, <1>9
<1>11. ASSUME NEW j \in 0 .. (F + 1) - 1 PROVE Twins(g[2 * j], g[2 * j + 1], K)
  <2>1. CASE j = F
    <3>1. g[2 * j] = u[s] /\ g[2 * j + 1] = d[s]
      BY <1>2, <2>1
    <3> QED BY <1>2, <3>1
  <2>2. CASE j # F
    <3>1. j \in 0 .. F - 1 /\ 2 * j \in 0 .. m - 1 /\ 2 * j + 1 \in 0 .. m - 1
      BY <1>2, <2>2
    <3>2. g[2 * j] = f[2 * j] /\ g[2 * j + 1] = f[2 * j + 1]
      BY <3>1
    <3> QED BY <1>2, <3>1, <3>2
  <2> QED BY <2>1, <2>2
<1>12. \E J \in 0 .. Cardinality(Sat), G \in Nat :
         /\ made = IslCount + 2 * J
         /\ m + 2 = 2 * G
         /\ \A r \in M : Twins(v[r], e[r], J)
         /\ \A j \in 0 .. G - 1 : Twins(g[2 * j], g[2 * j + 1], J)
  <2>1. \A r \in M : Twins(v[r], e[r], K)
    BY <1>2, <1>9
  <2>2. F + 1 \in Nat /\ m + 2 = 2 * (F + 1)
    BY <1>2
  <2> HIDE DEF M
  <2> QED BY <1>2, <1>11, <2>1, <2>2
<1>13. n - 2 = IslCount + 2 * Cardinality(M) /\ M \subseteq Sat
  BY <1>1, <1>3
<1> HIDE DEF M
<1>14. PairsHold(v, e, M, n - 2, g, m + 2, made)
  BY <1>5, <1>8, <1>10, <1>12, <1>13 DEF PairsHold
<1> QED BY <1>14 DEF v, e, M

(* While there is room for two links more in the pool that has not grown.  *)
LEMMA MakePairHolds ==
  ASSUME NEW n, NEW L, NetHolds(n, L), NEW s \in Sat \ L, n.pool.activeCount + 1 < PoolSize
  PROVE  NetHolds(MakePair(n, s), L \cup {s})
<1> DEFINE p == n.pool
           half == Activate(p)
           whole == Activate(half)
           k == HandedOut(p)
           l == HandedOut(half)
           q == MakePair(n, s)
           A == Active(n)
<1>1. /\ n \in Nets /\ PoolHolds(p, A)
      /\ PairsHold(n.up, n.down, L, p.activeCount, p.free, p.freeCount, p.made)
  BY DEF NetHolds
<1>2. /\ p.activeCount \in Nat /\ p.freeCount \in Nat /\ p.made \in Nat
      /\ p.made = p.freeCount + p.activeCount
      /\ p.freeCount # 0 => p.freeCount > 1
      /\ p.activeCount < PoolSize /\ p.activeCount + 1 < PoolSize
  <2>1. /\ L \subseteq Sat /\ p.activeCount = IslCount + 2 * Cardinality(L)
        /\ p.freeCount # 0 => p.freeCount > 1
        /\ IslCount \in Nat /\ Cardinality(L) \in Nat
    BY <1>1, PairsNumbers
  <2>2. p.activeCount + 1 < PoolSize
    OBVIOUS
  <2>3. /\ p.activeCount \in Nat /\ p.freeCount \in Nat /\ p.made \in Nat
        /\ p.freeCount + p.activeCount = p.made
    BY <1>1, PoolNumbers
  <2>4. PoolSize \in Nat
    BY ConstellationAssumption
  <2> QED BY <2>1, <2>2, <2>3, <2>4
<1> HIDE DEF A, p
<1>3. /\ k = IF p.freeCount = 0 THEN p.made + 1 ELSE p.free[p.freeCount - 1]
      /\ k \in Link /\ k \notin A
      /\ PoolHolds(half, A \cup {k})
      /\ half.activeCount = p.activeCount + 1
      /\ half.made = IF p.freeCount = 0 THEN p.made + 1 ELSE p.made
      /\ half.freeCount = IF p.freeCount = 0 THEN 0 ELSE p.freeCount - 1
      /\ \A i \in 0 .. p.freeCount - 2 : half.free[i] = p.free[i]
  BY <1>1, <1>2, ActivateHolds
<1> HIDE DEF half, k
<1>4. /\ l = IF half.freeCount = 0 THEN half.made + 1 ELSE half.free[half.freeCount - 1]
      /\ l \in Link /\ l \notin A \cup {k}
      /\ PoolHolds(whole, (A \cup {k}) \cup {l})
      /\ whole.activeCount = half.activeCount + 1
      /\ whole.made = IF half.freeCount = 0 THEN half.made + 1 ELSE half.made
      /\ whole.freeCount = IF half.freeCount = 0 THEN 0 ELSE half.freeCount - 1
      /\ \A i \in 0 .. half.freeCount - 2 : whole.free[i] = half.free[i]
  BY <1>2, <1>3, ActivateHolds
<1> HIDE DEF whole, l
<1>5. /\ p.freeCount = 0 => k = p.made + 1 /\ l = p.made + 2
      /\ p.freeCount # 0 => k = p.free[p.freeCount - 1] /\ l = p.free[p.freeCount - 2]
      /\ whole.activeCount = p.activeCount + 2
      /\ whole.freeCount = IF p.freeCount = 0 THEN 0 ELSE p.freeCount - 2
      /\ whole.made = IF p.freeCount = 0 THEN p.made + 2 ELSE p.made
      /\ \A i \in 0 .. p.freeCount - 3 : whole.free[i] = p.free[i]
  <2>1. CASE p.freeCount = 0
    BY <1>2, <1>3, <1>4, <2>1
  <2>2. CASE p.freeCount # 0
    <3>1. half.freeCount = p.freeCount - 1 /\ half.freeCount # 0 /\ half.made = p.made
      BY <1>2, <1>3, <2>2
    <3>2. half.free[p.freeCount - 2] = p.free[p.freeCount - 2]
      BY <1>2, <1>3, <2>2
    <3>3. \A i \in 0 .. p.freeCount - 3 : whole.free[i] = p.free[i]
      BY <1>2, <1>3, <1>4, <3>1
    <3> QED BY <1>2, <1>3, <1>4, <2>2, <3>1, <3>2, <3>3
  <2> QED BY <2>1, <2>2
<1>6. A = 1 .. IslCount \cup Held(n.up, n.down)
  BY DEF A, Active, InUse, Held
<1>7. k \in Link \ Held(n.up, n.down) /\ l \in Link \ Held(n.up, n.down)
  BY <1>3, <1>4, <1>6
<1>8. /\ PairsHold(Put(n.up, s, k), Put(n.down, s, l), L \cup {s},
                   whole.activeCount, whole.free, whole.freeCount, whole.made)
      /\ Held(Put(n.up, s, k), Put(n.down, s, l))
           = Held(n.up, n.down) \cup {k, l}
  <2>1. n.up \in LinkOf /\ n.down \in LinkOf /\ n.up[s] = NoLink /\ n.down[s] = NoLink
    BY <1>1 DEF PairsHold
  <2>2. p.activeCount + 2 = whole.activeCount
    BY <1>5
  <2>3. PairsHold(Put(n.up, s, k), Put(n.down, s, l), L \cup {s},
                  whole.activeCount, whole.free, whole.freeCount, whole.made)
    <3>1. Taken(p.free, p.freeCount, p.made, k, l, whole.free, whole.freeCount, whole.made)
      BY <1>5 DEF Taken
    <3> QED BY <1>1, <1>2, <1>7, <2>2, <3>1, PairsMade
  <2> QED BY <1>3, <1>4, <2>1, <2>3, HeldMade
<1>9. q = [n EXCEPT !.pool = whole, !.up[s] = k, !.down[s] = l]
  BY DEF q, MakePair, p, half, whole, k, l
<1> HIDE DEF q
<1>10. /\ q \in Nets /\ q.pool = whole
       /\ q.up = Put(n.up, s, k) /\ q.down = Put(n.down, s, l)
  <2>1. whole \in Pools
    BY <1>4 DEF PoolHolds
  <2> QED BY <1>1, <1>3, <1>4, <1>9, <2>1 DEF Nets, LinkOf, Put
<1>11. Active(q) = (A \cup {k}) \cup {l}
  <2>1. Active(q) = 1 .. IslCount \cup Held(q.up, q.down)
    BY DEF Active, InUse, Held
  <2> QED BY <1>6, <1>8, <1>10, <2>1
<1>12. PoolHolds(q.pool, Active(q))
  BY <1>4, <1>10, <1>11
<1>13. PairsHold(q.up, q.down, L \cup {s}, q.pool.activeCount, q.pool.free,
                 q.pool.freeCount, q.pool.made)
  BY <1>5, <1>8, <1>10
<1> QED BY <1>10, <1>12, <1>13 DEF NetHolds, q

LEMMA DropPairHolds ==
  ASSUME NEW n, NEW L, NetHolds(n, L), NEW s \in L
  PROVE  NetHolds(DropPair(n, s), L \ {s}) /\ DropPairAsserts(n, s)
<1> DEFINE p == n.pool
           k == n.up[s]
           l == n.down[s]
           half == Drop(p, k)
           whole == Drop(half, l)
           q == DropPair(n, s)
           A == Active(n)
           v == Put(n.up, s, NoLink)
           e == Put(n.down, s, NoLink)
<1>1. /\ n \in Nets /\ PoolHolds(p, A)
      /\ PairsHold(n.up, n.down, L, p.activeCount, p.free, p.freeCount, p.made)
  BY DEF NetHolds
<1>2. /\ p.activeCount \in Nat /\ p.freeCount \in Nat
  BY <1>1, PoolNumbers
<1>3. A = 1 .. IslCount \cup Held(n.up, n.down)
  BY DEF Active, InUse, Held
<1>4. s \in Sat
  BY <1>1, PairsNumbers
<1>5. /\ k \in Held(n.up, n.down) /\ l \in Held(n.up, n.down) /\ k # l
      /\ k \notin 1 .. IslCount /\ l \notin 1 .. IslCount
  BY <1>1, HeldPair
<1>6. k \in A /\ l \in A
  BY <1>3, <1>5
<1> HIDE DEF A, p, k, l
<1>7. DropAsserts(p, k) /\ PoolHolds(half, A \ {k}) /\ FreedLast(p, half, k)
  BY <1>1, <1>6, DropHolds
<1> HIDE DEF half
<1>8. l \in A \ {k}
  BY <1>5, <1>6
<1>9. DropAsserts(half, l) /\ PoolHolds(whole, (A \ {k}) \ {l}) /\ FreedLast(half, whole, l)
  BY <1>7, <1>8, DropHolds
<1> HIDE DEF whole
<1>10. /\ whole.activeCount = p.activeCount - 2 /\ whole.made = p.made
       /\ whole.freeCount = p.freeCount + 2
       /\ whole.free[p.freeCount] = k /\ whole.free[p.freeCount + 1] = l
       /\ \A i \in 0 .. p.freeCount - 1 : whole.free[i] = p.free[i]
  <2>1. p.freeCount \in 0 .. half.freeCount - 1
    BY <1>2, <1>7 DEF FreedLast
  <2>2. \A i \in 0 .. p.freeCount - 1 : i \in 0 .. half.freeCount - 1
    BY <1>2, <1>7 DEF FreedLast
  <2> QED BY <1>2, <1>7, <1>9, <2>1, <2>2 DEF FreedLast
<1>11. /\ PairsHold(v, e, L \ {s}, p.activeCount - 2, whole.free, p.freeCount + 2, p.made)
       /\ Held(v, e) = Held(n.up, n.down) \ {k, l}
  BY <1>1, <1>10, PairsDropped, HeldDropped DEF k, l
<1>12. q = [n EXCEPT !.pool = whole, !.up[s] = NoLink, !.down[s] = NoLink]
  BY DEF q, DropPair, whole, half, p, k, l
<1> HIDE DEF q
<1>13. q \in Nets /\ q.pool = whole /\ q.up = v /\ q.down = e
  <2>1. whole \in Pools
    BY <1>9 DEF PoolHolds
  <2> QED BY <1>1, <1>4, <1>12, <2>1 DEF Nets, LinkOf, Put
<1> HIDE DEF v, e
<1>14. Active(q) = (A \ {k}) \ {l}
  <2>1. Active(q) = 1 .. IslCount \cup Held(q.up, q.down)
    BY DEF Active, InUse, Held
  <2> QED BY <1>3, <1>5, <1>11, <1>13, <2>1
<1>15. PoolHolds(q.pool, Active(q))
  BY <1>9, <1>13, <1>14
<1>16. PairsHold(q.up, q.down, L \ {s}, q.pool.activeCount, q.pool.free,
                 q.pool.freeCount, q.pool.made)
  BY <1>10, <1>11, <1>13
<1>17. DropPairAsserts(n, s)
  BY <1>7, <1>9 DEF DropPairAsserts, p, k, l, half
<1> QED BY <1>13, <1>15, <1>16, <1>17 DEF NetHolds, q

-----------------------------------------------------------------------------
(* The links of the city in the net n are those of the satellites L, as    *)
(* far as the counts go, even when the pool has grown; and in order until  *)
(* then.                                                                   *)
NetSound(n, L) ==
  /\ n \in [pool : {n.pool}, up : LinkOf, down : LinkOf]
  /\ Sound(n.pool)
  /\ L \subseteq Sat
  /\ n.pool.activeCount = IslCount + 2 * Cardinality(L)
  /\ \A s \in L : n.up[s] \in Link /\ n.down[s] \in Link
NetKept(n, L) ==
  /\ NetSound(n, L)
  /\ ~ n.pool.shared => NetHolds(n, L)

LEMMA MakePairSound ==
  ASSUME NEW n, NEW L, NetSound(n, L), NEW s \in Sat \ L
  PROVE  LET q == MakePair(n, s)
         IN  /\ NetSound(q, L \cup {s})
             /\ ~ q.pool.shared => ~ n.pool.shared /\ n.pool.activeCount + 1 < n.pool.size
<1> DEFINE p == n.pool
           half == Activate(p)
           whole == Activate(half)
           k == HandedOut(p)
           l == HandedOut(half)
           q == MakePair(n, s)
           M == L \cup {s}
<1>1. /\ n \in [pool : {p}, up : LinkOf, down : LinkOf] /\ Sound(p) /\ L \subseteq Sat
      /\ p.activeCount = IslCount + 2 * Cardinality(L)
      /\ \A r \in L : n.up[r] \in Link /\ n.down[r] \in Link
  BY DEF NetSound
<1>2. /\ Cardinality(L) \in Nat /\ Cardinality(Sat) \in Nat /\ IslCount \in Nat
      /\ Cardinality(M) = Cardinality(L) + 1 /\ Cardinality(L) + 1 <= Cardinality(Sat)
      /\ IslCount + 2 * Cardinality(Sat) <= MaxLinks /\ MaxLinks \in Nat
  BY <1>1, SatNumbers, ConstellationAssumption, LinkPoolAssumption
<1> HIDE DEF p, M
<1>3. p.activeCount < MaxLinks /\ p.activeCount + 1 < MaxLinks
  BY <1>1, <1>2
<1>4. /\ k \in Link /\ Sound(half) /\ half.activeCount = p.activeCount + 1
      /\ ~ half.shared => ~ p.shared /\ p.activeCount < p.size
  BY <1>1, <1>3, ActivateSound
<1>5. ~ half.shared => half.size = p.size
  <2> SUFFICES ASSUME ~ half.shared PROVE half.size = p.size
    OBVIOUS
  <2>1. p.activeCount < p.size
    BY <1>4
  <2>2. Grown(p) = p
    BY <2>1 DEF Grown
  <2> QED BY <2>2, <1>1 DEF Activate, WriteActive, Sound, PoolsOf
<1> HIDE DEF half, k
<1>6. /\ l \in Link /\ Sound(whole) /\ whole.activeCount = half.activeCount + 1
      /\ ~ whole.shared => ~ half.shared /\ half.activeCount < half.size
  BY <1>3, <1>4, ActivateSound
<1> HIDE DEF whole, l
<1>7. q = [n EXCEPT !.pool = whole, !.up[s] = k, !.down[s] = l]
  BY DEF q, MakePair, p, half, whole, k, l
<1> HIDE DEF q
<1>8. /\ q \in [pool : {whole}, up : LinkOf, down : LinkOf] /\ q.pool = whole
      /\ q.up = [n.up EXCEPT ![s] = k] /\ q.down = [n.down EXCEPT ![s] = l]
  BY <1>1, <1>4, <1>6, <1>7 DEF LinkOf
<1>9. whole.activeCount = IslCount + 2 * Cardinality(M)
  BY <1>1, <1>2, <1>4, <1>6
<1>10. M \subseteq Sat /\ \A r \in M : q.up[r] \in Link /\ q.down[r] \in Link
  BY <1>1, <1>4, <1>6, <1>8 DEF M, LinkOf
<1>11. NetSound(q, M)
  BY <1>6, <1>8, <1>9, <1>10 DEF NetSound
<1>12. ASSUME ~ q.pool.shared PROVE ~ p.shared /\ p.activeCount + 1 < p.size
  BY <1>4, <1>5, <1>6, <1>8, <1>12
<1> QED BY <1>11, <1>12 DEF q, p, M

LEMMA DropPairSound ==
  ASSUME NEW n, NEW L, NetSound(n, L), NEW s \in L
  PROVE  LET q == DropPair(n, s)
         IN  /\ NetSound(q, L \ {s})
             /\ q.pool.shared = n.pool.shared
<1> DEFINE p == n.pool
           half == Drop(p, n.up[s])
           whole == Drop(half, n.down[s])
           q == DropPair(n, s)
           M == L \ {s}
<1>1. /\ n \in [pool : {p}, up : LinkOf, down : LinkOf] /\ Sound(p) /\ L \subseteq Sat
      /\ p.activeCount = IslCount + 2 * Cardinality(L)
      /\ \A r \in L : n.up[r] \in Link /\ n.down[r] \in Link
  BY DEF NetSound
<1>2. /\ Cardinality(L) \in Nat /\ IslCount \in Nat /\ Cardinality(M) \in Nat
      /\ Cardinality(M) = Cardinality(L) - 1
  <2>1. M \in SUBSET Sat /\ L \in SUBSET Sat
    BY <1>1
  <2> QED BY <2>1, SatNumbers, ConstellationAssumption
<1> HIDE DEF p, M
<1>3. p.activeCount # 0 /\ p.activeCount - 1 # 0
  BY <1>1, <1>2
<1>4. Sound(half) /\ half.activeCount = p.activeCount - 1 /\ half.shared = p.shared
  BY <1>1, <1>3, DropSound
<1> HIDE DEF half
<1>5. Sound(whole) /\ whole.activeCount = half.activeCount - 1 /\ whole.shared = half.shared
  BY <1>1, <1>3, <1>4, DropSound
<1> HIDE DEF whole
<1>6. q = [n EXCEPT !.pool = whole, !.up[s] = NoLink, !.down[s] = NoLink]
  BY DEF q, DropPair, p, half, whole
<1> HIDE DEF q
<1>7. /\ q \in [pool : {whole}, up : LinkOf, down : LinkOf] /\ q.pool = whole
      /\ q.up = [n.up EXCEPT ![s] = NoLink] /\ q.down = [n.down EXCEPT ![s] = NoLink]
  BY <1>1, <1>6 DEF LinkOf
<1>8. whole.activeCount = IslCount + 2 * Cardinality(M)
  BY <1>1, <1>2, <1>4, <1>5
<1>9. M \subseteq Sat /\ \A r \in M : q.up[r] \in Link /\ q.down[r] \in Link
  BY <1>1, <1>7 DEF M, LinkOf
<1>10. NetSound(q, M)
  BY <1>5, <1>7, <1>8, <1>9 DEF NetSound
<1> QED BY <1>4, <1>5, <1>7, <1>10 DEF q, p, M

LEMMA MakePairKept ==
  ASSUME NEW n, NEW L, NetKept(n, L), NEW s \in Sat \ L
  PROVE  LET q == MakePair(n, s)
         IN  /\ NetKept(q, L \cup {s})
             /\ ~ q.pool.shared => ~ n.pool.shared
<1> DEFINE q == MakePair(n, s)
<1>1. NetSound(n, L) /\ (~ n.pool.shared => NetHolds(n, L))
  BY DEF NetKept
<1>2. /\ NetSound(q, L \cup {s})
      /\ ~ q.pool.shared => ~ n.pool.shared /\ n.pool.activeCount + 1 < n.pool.size
  BY <1>1, MakePairSound
<1> HIDE DEF q
<1>3. ASSUME ~ q.pool.shared PROVE NetHolds(q, L \cup {s})
  <2>1. NetHolds(n, L)
    BY <1>1, <1>2, <1>3
  <2>2. n.pool.size = PoolSize
    BY <2>1, PoolFields DEF NetHolds, PoolHolds
  <2> QED BY <1>2, <1>3, <2>1, <2>2, MakePairHolds DEF q
<1> QED BY <1>2, <1>3 DEF NetKept, q

LEMMA DropPairKept ==
  ASSUME NEW n, NEW L, NetKept(n, L), NEW s \in L
  PROVE  LET q == DropPair(n, s)
         IN  /\ NetKept(q, L \ {s})
             /\ ~ q.pool.shared => ~ n.pool.shared /\ DropPairAsserts(n, s)
<1> DEFINE q == DropPair(n, s)
<1>1. NetSound(n, L) /\ (~ n.pool.shared => NetHolds(n, L))
  BY DEF NetKept
<1>2. NetSound(q, L \ {s}) /\ q.pool.shared = n.pool.shared
  BY <1>1, DropPairSound
<1> HIDE DEF q
<1>3. ASSUME ~ q.pool.shared PROVE NetHolds(q, L \ {s}) /\ DropPairAsserts(n, s)
  BY <1>1, <1>2, <1>3, DropPairHolds DEF q
<1> QED BY <1>2, <1>3 DEF NetKept, q

-----------------------------------------------------------------------------
(* The turns of a loop are the values of a recursive function: there is    *)
(* one function only that satisfies its equation.                          *)
Turns(n, gone, come, after) ==
  /\ after[0] = n
  /\ \A i \in 1 .. Len(gone) : after[i] = DropPair(after[i - 1], gone[i])
  /\ \A i \in 1 .. Len(come) :
       after[Len(gone) + i] = MakePair(after[(Len(gone) + i) - 1], come[i])

LEMMA MovingTurns ==
  ASSUME NEW n, NEW gone \in Seq(Sat), NEW come \in Seq(Sat)
  PROVE  Turns(n, gone, come, Moving(n, gone, come))
<1> DEFINE N == Len(gone) + Len(come)
           Turn(i, x) == IF i <= Len(gone) THEN DropPair(x, gone[i])
                         ELSE MakePair(x, come[i - Len(gone)])
           Rec(k, g) == [i \in 0 .. k |-> IF i = 0 THEN n ELSE Turn(i, g[i - 1])]
           f == CHOOSE g : g = Rec(N, g)
<1>1. Len(gone) \in Nat /\ Len(come) \in Nat /\ N \in Nat
  BY LenProperties
<1>2. f = Moving(n, gone, come)
  BY DEF Moving
<1> HIDE DEF Turn, N
<1>3. \E g : g = Rec(N, g)
  <2> DEFINE W == {k \in Nat : ~ \E g : g = Rec(k, g)}
  <2> SUFFICES ASSUME W # {} PROVE FALSE
    BY <1>1
  <2>1. PICK m \in W : \A k \in W : m <= k
    <3>1. W \in SUBSET Nat
      OBVIOUS
    <3> HIDE DEF W
    <3> QED BY <3>1, MinProperties
  <2>2. m # 0
    <3> DEFINE g == [i \in 0 .. 0 |-> n]
    <3>1. g = Rec(0, g)
      OBVIOUS
    <3> QED BY <3>1
  <2>3. m \in Nat /\ m - 1 \in Nat /\ m - 1 \notin W
    <3>1. m \in Nat
      BY <2>1
    <3> HIDE DEF W
    <3> QED BY <2>1, <2>2, <3>1
  <2>4. PICK g : g = Rec(m - 1, g)
    BY <2>3
  <2> DEFINE h == [i \in 0 .. m |-> IF i = m THEN Turn(m, g[m - 1]) ELSE g[i]]
  <2>5. \A i \in 0 .. m : h[i] = IF i = 0 THEN n ELSE Turn(i, h[i - 1])
    <3> SUFFICES ASSUME NEW i \in 0 .. m
                 PROVE  h[i] = IF i = 0 THEN n ELSE Turn(i, h[i - 1])
      OBVIOUS
    <3>1. CASE i = m
      BY <2>2, <2>3, <3>1
    <3>2. CASE i # m
      <4>1. i \in 0 .. m - 1 /\ h[i] = g[i]
        BY <2>3, <3>2
      <4>2. g[i] = IF i = 0 THEN n ELSE Turn(i, g[i - 1])
        BY <2>4, <4>1
      <4>3. i # 0 => h[i - 1] = g[i - 1]
        BY <2>3, <3>2
      <4> QED BY <4>1, <4>2, <4>3
    <3> QED BY <3>1, <3>2
  <2>6. h = Rec(m, h)
    <3>1. h = [i \in 0 .. m |-> h[i]]
      OBVIOUS
    <3> HIDE DEF h
    <3> QED BY <2>5, <3>1
  <2> QED BY <2>1, <2>6
<1>4. f = Rec(N, f)
  BY <1>3
<1> HIDE DEF f
<1>5. \A i \in 0 .. N : f[i] = IF i = 0 THEN n ELSE Turn(i, f[i - 1])
  BY <1>4
<1>6. f[0] = n
  BY <1>1, <1>5
<1>7. ASSUME NEW i \in 1 .. Len(gone) PROVE f[i] = DropPair(f[i - 1], gone[i])
  <2>1. i \in 0 .. N /\ i # 0 /\ i <= Len(gone)
    BY <1>1 DEF N
  <2> QED BY <1>5, <2>1 DEF Turn
<1>8. ASSUME NEW i \in 1 .. Len(come)
      PROVE  f[Len(gone) + i] = MakePair(f[(Len(gone) + i) - 1], come[i])
  <2>1. /\ Len(gone) + i \in 0 .. N /\ Len(gone) + i # 0 /\ ~ (Len(gone) + i <= Len(gone))
        /\ (Len(gone) + i) - Len(gone) = i
    BY <1>1 DEF N
  <2> QED BY <1>5, <2>1 DEF Turn
<1> QED BY <1>2, <1>6, <1>7, <1>8 DEF Turns

(* Dropping and making one pair after the other keeps the net in order,    *)
(* when only satellites that have a pair lose it and only others get one.  *)
LEMMA MovingKept ==
  ASSUME NEW n, NEW L, NetKept(n, L), NEW gone \in Seq(Sat), NEW come \in Seq(Sat),
         \A i \in 1 .. Len(gone) : gone[i] \in L,
         \A i, j \in 1 .. Len(gone) : gone[i] = gone[j] => i = j,
         \A i \in 1 .. Len(come) : come[i] \notin L,
         \A i, j \in 1 .. Len(come) : come[i] = come[j] => i = j
  PROVE  LET after == Moving(n, gone, come)
             last == after[Len(gone) + Len(come)]
         IN  /\ NetKept(last, (L \ {gone[i] : i \in 1 .. Len(gone)})
                                \cup {come[i] : i \in 1 .. Len(come)})
             /\ ~ last.pool.shared =>
                  \A i \in 1 .. Len(gone) : DropPairAsserts(after[i - 1], gone[i])
<1> DEFINE after == Moving(n, gone, come)
           Left(i) == L \ {gone[j] : j \in 1 .. i}
           With(i) == Left(Len(gone)) \cup {come[j] : j \in 1 .. i}
           Fine(i) == \A j \in 1 .. i : DropPairAsserts(after[j - 1], gone[j])
           DropsKept(i) == NetKept(after[i], Left(i)) /\ (~ after[i].pool.shared => Fine(i))
           MakesKept(i) == /\ NetKept(after[Len(gone) + i], With(i))
                           /\ ~ after[Len(gone) + i].pool.shared => Fine(Len(gone))
<1>1. Len(gone) \in Nat /\ Len(come) \in Nat
  BY LenProperties
<1>2. /\ after[0] = n
      /\ \A i \in 1 .. Len(gone) : after[i] = DropPair(after[i - 1], gone[i])
      /\ \A i \in 1 .. Len(come) :
           after[Len(gone) + i] = MakePair(after[(Len(gone) + i) - 1], come[i])
  <2>1. Turns(n, gone, come, after)
    BY MovingTurns
  <2> HIDE DEF after
  <2> QED BY <2>1 DEF Turns
<1> HIDE DEF after
<1>3. ASSUME NEW i \in 1 .. Len(gone), DropsKept(i - 1)
      PROVE  DropsKept(i)
  <2>1. gone[i] \in Left(i - 1)
    <3>1. \A j \in 1 .. i - 1 : j \in 1 .. Len(gone) /\ j # i
      BY <1>1
    <3> QED BY <3>1
  <2>2. Left(i) = Left(i - 1) \ {gone[i]}
    <3>1. \A j : j \in 1 .. i <=> j \in 1 .. i - 1 \/ j = i
      BY <1>1
    <3> HIDE DEF Fine
    <3> QED BY <3>1
  <2>3. Fine(i - 1) /\ DropPairAsserts(after[i - 1], gone[i]) => Fine(i)
    <3>1. \A j : j \in 1 .. i => j \in 1 .. i - 1 \/ j = i
      BY <1>1
    <3> QED BY <3>1
  <2> HIDE DEF Left, Fine
  <2>4. NetKept(after[i - 1], Left(i - 1)) /\ (~ after[i - 1].pool.shared => Fine(i - 1))
    BY <1>3
  <2>5. /\ NetKept(DropPair(after[i - 1], gone[i]), Left(i - 1) \ {gone[i]})
        /\ ~ DropPair(after[i - 1], gone[i]).pool.shared =>
             ~ after[i - 1].pool.shared /\ DropPairAsserts(after[i - 1], gone[i])
    BY <2>1, <2>4, DropPairKept
  <2>6. after[i] = DropPair(after[i - 1], gone[i])
    BY <1>2
  <2>7. NetKept(after[i], Left(i))
    BY <2>2, <2>5, <2>6
  <2>8. ~ after[i].pool.shared => Fine(i)
    BY <2>3, <2>4, <2>5, <2>6
  <2> QED BY <2>7, <2>8
<1>4. DropsKept(0)
  <2>1. Left(0) = L /\ 1 .. 0 = {}
    BY <1>1
  <2>2. Fine(0)
    BY <2>1
  <2> HIDE DEF Left, Fine
  <2> QED BY <1>2, <2>1, <2>2
<1> HIDE DEF DropsKept
<1>5. \A i \in 0 .. Len(gone) : DropsKept(i)
  <2> DEFINE W == {i \in 0 .. Len(gone) : ~ DropsKept(i)}
  <2> SUFFICES ASSUME W # {} PROVE FALSE
    OBVIOUS
  <2>1. PICK m \in W : \A i \in W : m <= i
    <3>1. W \in SUBSET Nat
      BY <1>1
    <3> HIDE DEF W
    <3> QED BY <3>1, MinProperties
  <2>2. m # 0
    BY <1>4, <2>1
  <2>3. m \in 1 .. Len(gone) /\ m - 1 \in 0 .. Len(gone) /\ m - 1 \notin W
    BY <1>1, <2>1, <2>2
  <2>4. DropsKept(m - 1)
    BY <2>3
  <2> QED BY <1>3, <2>1, <2>3, <2>4
<1>6. ASSUME NEW i \in 1 .. Len(come), MakesKept(i - 1)
      PROVE  MakesKept(i)
  <2>1. come[i] \in Sat \ With(i - 1)
    <3>1. \A j \in 1 .. i - 1 : j \in 1 .. Len(come) /\ j # i
      BY <1>1
    <3>2. come[i] \in Sat
      BY ElementOfSeq
    <3> QED BY <3>1, <3>2
  <2>2. With(i) = With(i - 1) \cup {come[i]}
    <3>1. \A j : j \in 1 .. i <=> j \in 1 .. i - 1 \/ j = i
      BY <1>1
    <3> HIDE DEF Left, Fine
    <3> QED BY <3>1
  <2>3. Len(gone) + (i - 1) = (Len(gone) + i) - 1
    BY <1>1
  <2> HIDE DEF With, Fine
  <2> DEFINE before == after[(Len(gone) + i) - 1]
  <2>4. NetKept(before, With(i - 1)) /\ (~ before.pool.shared => Fine(Len(gone)))
    BY <1>6, <2>3
  <2> HIDE DEF before
  <2>5. /\ NetKept(MakePair(before, come[i]), With(i - 1) \cup {come[i]})
        /\ ~ MakePair(before, come[i]).pool.shared => ~ before.pool.shared
    BY <2>1, <2>4, MakePairKept
  <2>6. after[Len(gone) + i] = MakePair(before, come[i])
    BY <1>2 DEF before
  <2> QED BY <2>2, <2>4, <2>5, <2>6
<1>7. MakesKept(0)
  <2>1. With(0) = Left(Len(gone)) /\ Len(gone) + 0 = Len(gone) /\ Len(gone) \in 0 .. Len(gone)
    <3> HIDE DEF Left
    <3> QED BY <1>1
  <2>2. DropsKept(Len(gone))
    BY <1>5, <2>1
  <2> HIDE DEF With, Left, Fine
  <2> QED BY <2>1, <2>2 DEF DropsKept
<1> HIDE DEF MakesKept
<1>8. \A i \in 0 .. Len(come) : MakesKept(i)
  <2> DEFINE W == {i \in 0 .. Len(come) : ~ MakesKept(i)}
  <2> SUFFICES ASSUME W # {} PROVE FALSE
    OBVIOUS
  <2>1. PICK m \in W : \A i \in W : m <= i
    <3>1. W \in SUBSET Nat
      BY <1>1
    <3> HIDE DEF W
    <3> QED BY <3>1, MinProperties
  <2>2. m # 0
    BY <1>7, <2>1
  <2>3. m \in 1 .. Len(come) /\ m - 1 \in 0 .. Len(come) /\ m - 1 \notin W
    BY <1>1, <2>1, <2>2
  <2>4. MakesKept(m - 1)
    BY <2>3
  <2> QED BY <1>6, <2>1, <2>3, <2>4
<1>9. MakesKept(Len(come))
  BY <1>1, <1>8
<1> HIDE DEF With, Fine
<1>10. /\ NetKept(after[Len(gone) + Len(come)], With(Len(come)))
       /\ ~ after[Len(gone) + Len(come)].pool.shared => Fine(Len(gone))
  BY <1>9 DEF MakesKept
<1> QED BY <1>10 DEF after, With, Left, Fine

(* The links between satellites, for which the pool may have to grow. *)
LEMMA IslsKept == NetKept(Isls, {})
<1> DEFINE Rec(k, g) == [i \in 0 .. k |-> IF i = 0 THEN EmptyPool(PoolSize)
                                          ELSE Activate(g[i - 1])]
           f == CHOOSE g : g = Rec(IslCount, g)
           none == [s \in Sat |-> NoLink]
           Filled(p, i) == /\ PoolHolds(p, 1 .. i)
                           /\ p.activeCount = i /\ p.freeCount = 0 /\ p.made = i
           Fresh(p, i) == /\ Sound(p) /\ p.activeCount = i
                          /\ ~ p.shared => Filled(p, i)
<1>1. /\ IslCount \in Nat /\ PoolSize \in Nat /\ IslCount <= MaxLinks
      /\ PoolSize # 0 /\ MaxLinks \in Nat /\ PoolSize <= MaxLinks
  <2>1. Cardinality(Sat) \in Nat
    BY CityUplinksAssumption, FS_CardinalityType
  <2> QED BY <2>1, ConstellationAssumption, LinkPoolAssumption
<1>2. Isls = [pool |-> f[IslCount], up |-> none, down |-> none]
  BY DEF Isls
<1>3. \A k \in Nat : \E g : g = Rec(k, g)
  <2> DEFINE W == {k \in Nat : ~ \E g : g = Rec(k, g)}
  <2> SUFFICES ASSUME W # {} PROVE FALSE
    OBVIOUS
  <2>1. PICK m \in W : \A k \in W : m <= k
    <3>1. W \in SUBSET Nat
      OBVIOUS
    <3> HIDE DEF W
    <3> QED BY <3>1, MinProperties
  <2>2. m # 0
    <3> DEFINE g == [i \in 0 .. 0 |-> EmptyPool(PoolSize)]
    <3>1. g = Rec(0, g)
      OBVIOUS
    <3> QED BY <3>1
  <2>3. m \in Nat /\ m - 1 \in Nat /\ m - 1 \notin W
    <3>1. m \in Nat
      BY <2>1
    <3> HIDE DEF W
    <3> QED BY <2>1, <2>2, <3>1
  <2>4. PICK g : g = Rec(m - 1, g)
    BY <2>3
  <2> DEFINE h == [i \in 0 .. m |-> IF i = m THEN Activate(g[m - 1]) ELSE g[i]]
  <2>5. \A i \in 0 .. m : h[i] = IF i = 0 THEN EmptyPool(PoolSize) ELSE Activate(h[i - 1])
    <3> SUFFICES ASSUME NEW i \in 0 .. m
                 PROVE  h[i] = IF i = 0 THEN EmptyPool(PoolSize) ELSE Activate(h[i - 1])
      OBVIOUS
    <3>1. CASE i = m
      BY <2>2, <2>3, <3>1
    <3>2. CASE i # m
      <4>1. i \in 0 .. m - 1 /\ h[i] = g[i]
        BY <2>3, <3>2
      <4>2. g[i] = IF i = 0 THEN EmptyPool(PoolSize) ELSE Activate(g[i - 1])
        BY <2>4, <4>1
      <4>3. i # 0 => h[i - 1] = g[i - 1]
        BY <2>3, <3>2
      <4> QED BY <4>1, <4>2, <4>3
    <3> QED BY <3>1, <3>2
  <2>6. h = Rec(m, h)
    <3>1. h = [i \in 0 .. m |-> h[i]]
      OBVIOUS
    <3> HIDE DEF h
    <3> QED BY <2>5, <3>1
  <2> QED BY <2>1, <2>6
<1>4. f = Rec(IslCount, f)
  BY <1>1, <1>3
<1> HIDE DEF f
<1>5. \A i \in 0 .. IslCount : f[i] = IF i = 0 THEN EmptyPool(PoolSize) ELSE Activate(f[i - 1])
  BY <1>4
<1>6. Fresh(EmptyPool(PoolSize), 0)
  <2> DEFINE p == EmptyPool(PoolSize)
             a == [i \in 0 .. PoolSize - 1 |-> NoLink]
             x == [l \in Link |-> 0]
  <2>1. p = [size |-> PoolSize, active |-> a, free |-> a, activeCount |-> 0,
             freeCount |-> 0, index |-> x, made |-> 0, shared |-> FALSE]
    BY DEF EmptyPool
  <2>2. a \in Contents /\ x \in [Link -> Cells] /\ 0 \in Counts /\ 0 \in Made
    BY <1>1 DEF Contents, Cells, Counts, Made
  <2> HIDE DEF p, a, x
  <2>3. /\ p \in Pools /\ p.active = a /\ p.free = a /\ p.activeCount = 0
        /\ p.freeCount = 0 /\ p.index = x /\ p.made = 0
    BY <2>1, <2>2 DEF Pools
  <2>4. Books(a, a, 0, 0, x, 0, 1 .. 0)
    BY <1>1, <2>2 DEF Books, Contents, Cells
  <2>5. PoolHolds(p, 1 .. 0)
    BY <2>3, <2>4, Zenon DEF PoolHolds
  <2>6. Sound(p)
    <3>1. p \in PoolsOf(PoolSize) /\ p.size = PoolSize
      BY <1>1, <2>2, <2>1 DEF PoolsOf, Contents, Cells, Counts, Made
    <3> QED BY <1>1, <2>3, <3>1 DEF Sound
  <2> QED BY <2>3, <2>5, <2>6 DEF p
<1>7. ASSUME NEW i \in 1 .. IslCount, NEW p, Filled(p, i - 1), i - 1 < PoolSize
      PROVE  Filled(Activate(p), i)
  <2>1. i - 1 \in Nat /\ i - 1 < PoolSize /\ (i - 1) + 1 = i
    BY <1>1, <1>7
  <2>2. LET l == HandedOut(p)
            q == Activate(p)
        IN  /\ l = IF p.freeCount = 0 THEN p.made + 1 ELSE p.free[p.freeCount - 1]
            /\ PoolHolds(q, 1 .. i - 1 \cup {l})
            /\ q.activeCount = p.activeCount + 1
            /\ q.made = IF p.freeCount = 0 THEN p.made + 1 ELSE p.made
            /\ q.freeCount = IF p.freeCount = 0 THEN 0 ELSE p.freeCount - 1
    BY <1>7, <2>1, ActivateHolds
  <2>3. HandedOut(p) = i
    BY <1>7, <2>1, <2>2
  <2>4. 1 .. i - 1 \cup {i} = 1 .. i
    BY <2>1
  <2> QED BY <1>7, <2>1, <2>2, <2>3, <2>4
<1> HIDE DEF Filled
<1>7a. ASSUME NEW i \in 1 .. IslCount, NEW p, Fresh(p, i - 1)
       PROVE  Fresh(Activate(p), i)
  <2> DEFINE q == Activate(p)
  <2>1. /\ i - 1 \in Nat /\ i - 1 < MaxLinks /\ (i - 1) + 1 = i
        /\ Sound(p) /\ p.activeCount = i - 1
    BY <1>1, <1>7a
  <2>2. /\ Sound(q) /\ q.activeCount = i
        /\ ~ q.shared => ~ p.shared /\ p.activeCount < p.size
    BY <2>1, ActivateSound
  <2>3. ASSUME ~ q.shared PROVE Filled(q, i)
    <3>1. Filled(p, i - 1) /\ i - 1 < p.size
      BY <1>7a, <2>1, <2>2, <2>3
    <3>2. p.size = PoolSize
      BY <3>1, PoolFields DEF Filled, PoolHolds
    <3> QED BY <1>7, <3>1, <3>2
  <2> QED BY <2>2, <2>3
<1> HIDE DEF Fresh
<1>8. \A i \in 0 .. IslCount : Fresh(f[i], i)
  <2> DEFINE W == {i \in 0 .. IslCount : ~ Fresh(f[i], i)}
  <2> SUFFICES ASSUME W # {} PROVE FALSE
    OBVIOUS
  <2>1. PICK m \in W : \A i \in W : m <= i
    <3>1. W \in SUBSET Nat
      BY <1>1
    <3> HIDE DEF W
    <3> QED BY <3>1, MinProperties
  <2>2. m # 0
    BY <1>1, <1>5, <1>6, <2>1
  <2>3. m \in 1 .. IslCount /\ m - 1 \in 0 .. IslCount /\ m - 1 \notin W
    BY <1>1, <2>1, <2>2
  <2>4. Fresh(Activate(f[m - 1]), m)
    BY <1>7a, <2>3
  <2> QED BY <1>5, <2>1, <2>3, <2>4
<1>9. Fresh(f[IslCount], IslCount)
  BY <1>1, <1>8
<1>10. Isls.pool = f[IslCount] /\ Isls.up = none /\ Isls.down = none
  BY <1>2
<1>11. none \in LinkOf /\ \A s \in Sat : none[s] = NoLink
  BY DEF LinkOf
<1> HIDE DEF none
<1>12. Held(none, none) = {}
  BY <1>11 DEF Held
<1>13. PairsHold(none, none, {}, IslCount, Isls.pool.free, 0, IslCount)
  <2>1. Cardinality({}) = 0 /\ Cardinality(Sat) \in Nat
    BY CityUplinksAssumption, FS_EmptySet, FS_CardinalityType
  <2>2. IslCount = IslCount + 2 * 0 /\ 0 = 2 * 0 /\ 0 \in 0 .. Cardinality(Sat) /\ 0 \in Nat
    BY <1>1, <2>1
  <2>3. \A j \in 0 .. 0 - 1 : Twins(Isls.pool.free[2 * j], Isls.pool.free[2 * j + 1], 0)
    OBVIOUS
  <2> QED BY <1>11, <2>1, <2>2, <2>3 DEF PairsHold
<1>14. Active(Isls) = 1 .. IslCount
  BY <1>10, <1>12 DEF Active, InUse, Held
<1>15. ASSUME ~ Isls.pool.shared PROVE NetHolds(Isls, {})
  <2>1. /\ PoolHolds(f[IslCount], 1 .. IslCount) /\ f[IslCount].activeCount = IslCount
        /\ f[IslCount].freeCount = 0 /\ f[IslCount].made = IslCount
    BY <1>9, <1>10, <1>15 DEF Fresh, Filled
  <2>2. f[IslCount] \in Pools
    BY <2>1 DEF PoolHolds
  <2>3. Isls \in Nets
    BY <1>2, <1>11, <2>2 DEF Nets
  <2> QED BY <1>10, <1>13, <1>14, <2>1, <2>3 DEF NetHolds
<1>16. NetSound(Isls, {})
  <2>1. /\ Isls \in [pool : {Isls.pool}, up : LinkOf, down : LinkOf]
        /\ Sound(Isls.pool) /\ Isls.pool.activeCount = IslCount
    BY <1>2, <1>9, <1>10, <1>11 DEF Fresh
  <2>2. IslCount + 2 * Cardinality({}) = IslCount
    BY <1>1, FS_EmptySet
  <2> QED BY <2>1, <2>2 DEF NetSound
<1> QED BY <1>15, <1>16 DEF NetKept

-----------------------------------------------------------------------------
(* What Constellation states of the net follows from its books and pairs.  *)
LEMMA NetOrdered ==
  ASSUME NetHolds(net, links)
  PROVE  /\ net.pool.activeCount = IslCount + Cardinality(InUse(net))
         /\ \A l \in 1 .. IslCount \cup InUse(net) :
              /\ net.pool.index[l] < net.pool.activeCount
              /\ net.pool.active[net.pool.index[l]] = l
         /\ {net.pool.free[i] : i \in 0 .. net.pool.freeCount - 1}
              = (IslCount + 1 .. net.pool.made) \ InUse(net)
         /\ PairsStay
<1> DEFINE p == net.pool
           A == Active(net)
           H == InUse(net)
<1>1. /\ net \in Nets /\ p \in Pools
      /\ Books(p.active, p.free, p.activeCount, p.freeCount, p.index, p.made, A)
      /\ PairsHold(net.up, net.down, links, p.activeCount, p.free, p.freeCount, p.made)
  BY DEF NetHolds, PoolHolds
<1>2. A = 1 .. IslCount \cup H /\ H = Held(net.up, net.down)
  BY DEF Active, InUse, Held
<1>3. IslCount \in Nat /\ links \subseteq Sat
  BY <1>1, PairsNumbers
<1> HIDE DEF p, A, H
<1>4. /\ p.activeCount \in Nat /\ p.freeCount \in Nat /\ p.made \in Nat
      /\ p.freeCount + p.activeCount = p.made /\ A \subseteq 1 .. p.made
      /\ \A l \in A : p.index[l] < p.activeCount /\ p.active[p.index[l]] = l
      /\ \A i \in 0 .. p.activeCount - 1 : p.active[i] \in A /\ p.index[p.active[i]] = i
      /\ \A l \in (1 .. p.made) \ A : p.index[l] < p.freeCount /\ p.free[p.index[l]] = l
      /\ \A i \in 0 .. p.freeCount - 1 : p.free[i] \in (1 .. p.made) \ A
  BY <1>1 DEF Books
<1>5. \A l \in 1 .. p.made : l \in Link /\ p.index[l] \in Nat
  <2>1. /\ p.index \in [Link -> 0 .. PoolSize - 1] /\ PoolSize \in Nat
        /\ p.made <= PoolSize /\ PoolSize <= MaxLinks /\ MaxLinks \in Nat
    BY <1>1, ConstellationAssumption, LinkPoolAssumption DEF Books
  <2> QED BY <1>4, <2>1 DEF Link
<1>7. H \cap 1 .. IslCount = {}
  <2> SUFFICES ASSUME NEW l \in H PROVE l \notin 1 .. IslCount
    OBVIOUS
  <2>1. PICK s \in Sat : l \in {net.up[s], net.down[s]} /\ l # NoLink
    BY <1>2 DEF Held
  <2>2. s \in links
    BY <1>1, <2>1 DEF PairsHold
  <2> QED BY <1>1, <2>1, <2>2, HeldPair
<1>8. p.activeCount = IslCount + Cardinality(H)
  <2> DEFINE D == 0 .. p.activeCount - 1
             f == [i \in D |-> p.active[i]]
  <2>1. f \in Bijection(D, A)
    <3>1. f \in [D -> A] /\ \A i, j \in D : f[i] = f[j] => i = j
      BY <1>4
    <3>2. \A l \in A : \E i \in D : f[i] = l
      <4> SUFFICES ASSUME NEW l \in A PROVE \E i \in D : f[i] = l
        OBVIOUS
      <4>1. p.index[l] \in D /\ p.active[p.index[l]] = l
        BY <1>4, <1>5
      <4> QED BY <4>1
    <3> HIDE DEF f, D
    <3>3. f \in Injection(D, A)
      BY <3>1 DEF Injection, IsInjective
    <3>4. f \in Surjection(D, A)
      BY <3>1, <3>2 DEF Surjection
    <3> QED BY <3>3, <3>4 DEF Bijection
  <2>2. IsFiniteSet(D) /\ Cardinality(D) = p.activeCount
    <3>1. 0 \in Int /\ p.activeCount - 1 \in Int
      BY <1>4
    <3>2. IsFiniteSet(D) /\ Cardinality(D) = IF 0 > p.activeCount - 1 THEN 0
                                             ELSE (p.activeCount - 1) - 0 + 1
      BY <3>1, FS_Interval
    <3> QED BY <1>4, <3>2
  <2>3. IsFiniteSet(A) /\ Cardinality(A) = p.activeCount
    <3> HIDE DEF f, D
    <3>1. f \in Surjection(D, A) /\ f \in Injection(D, A)
      BY <2>1 DEF Bijection
    <3> QED BY <2>2, <3>1, FS_Surjection
  <2>4. IsFiniteSet(1 .. IslCount) /\ Cardinality(1 .. IslCount) = IslCount
    <3>1. IslCount \in Int /\ 1 \in Int
      BY <1>3
    <3>2. /\ IsFiniteSet(1 .. IslCount)
          /\ Cardinality(1 .. IslCount) = IF 1 > IslCount THEN 0 ELSE IslCount - 1 + 1
      BY <3>1, FS_Interval
    <3> QED BY <1>3, <3>2
  <2>5. IsFiniteSet(H)
    BY <1>2, <2>3, FS_Subset
  <2>6. Cardinality(H) \in Nat
    BY <2>5, FS_CardinalityType
  <2>7. Cardinality(A) = IslCount + Cardinality(H)
    <3> DEFINE I == 1 .. IslCount
    <3>1. H \cap I = {} /\ IsFiniteSet(I) /\ Cardinality(I) = IslCount /\ A = I \cup H
      BY <1>2, <1>7, <2>4
    <3> HIDE DEF I
    <3>2. I \cap H = {} /\ Cardinality({}) = 0
      BY <3>1, FS_EmptySet
    <3>3. Cardinality(I \cup H) = Cardinality(I) + Cardinality(H) - Cardinality(I \cap H)
      BY <2>5, <3>1, FS_Union
    <3>4. Cardinality(I \cap H) = 0
      BY <3>2, Zenon
    <3>5. Cardinality(A) = Cardinality(I \cup H)
      BY <3>1, Zenon
    <3> QED BY <1>3, <2>6, <3>1, <3>3, <3>4, <3>5
  <2> QED BY <2>3, <2>7
<1>9. {p.free[i] : i \in 0 .. p.freeCount - 1} = (IslCount + 1 .. p.made) \ H
  <2> DEFINE F == {p.free[i] : i \in 0 .. p.freeCount - 1}
  <2>1. \A l : l \in (1 .. p.made) \ A <=> l \in (IslCount + 1 .. p.made) \ H
    BY <1>2, <1>3, <1>4
  <2>2. \A l \in F : l \in (1 .. p.made) \ A
    BY <1>4
  <2>3. ASSUME NEW l \in (1 .. p.made) \ A PROVE l \in F
    <3>1. p.index[l] \in 0 .. p.freeCount - 1 /\ p.free[p.index[l]] = l
      BY <1>4, <1>5
    <3> QED BY <3>1
  <2> QED BY <2>1, <2>2, <2>3
<1>11. ASSUME NEW s \in links
       PROVE  \E k \in 1 .. Cardinality(Sat) :
                {net.up[s], net.down[s]} = {IslCount + 2 * k - 1, IslCount + 2 * k}
  <2>1. PICK K \in 0 .. Cardinality(Sat) : Twins(net.up[s], net.down[s], K)
    BY <1>1 DEF PairsHold
  <2>2. PICK k \in 1 .. K :
          \/ net.up[s] = IslCount + 2 * k - 1 /\ net.down[s] = IslCount + 2 * k
          \/ net.up[s] = IslCount + 2 * k /\ net.down[s] = IslCount + 2 * k - 1
    BY <2>1 DEF Twins
  <2>3. k \in 1 .. Cardinality(Sat)
    BY <2>1, <1>3, SatNumbers
  <2> QED BY <2>2, <2>3
<1> QED BY <1>2, <1>4, <1>8, <1>9, <1>11 DEF PairsStay, p, H

LEMMA NetListed ==
  ASSUME NetKept(net, links), ~ net.pool.shared => ~ dropAborted
  PROVE  Listed
<1> DEFINE p == net.pool
<1>1. Sound(p) /\ p.activeCount = IslCount + 2 * Cardinality(links)
  BY DEF NetKept, NetSound
<1>2. /\ p.freeCount + p.activeCount = p.made /\ p.made <= p.size
  BY <1>1 DEF Sound
<1>3. IsPool(p)
  BY <1>1, SoundFields DEF IsPool
<1>4. ~ p.shared => NetHolds(net, links)
  BY DEF NetKept
<1> QED BY <1>1, <1>2, <1>3, <1>4, NetOrdered DEF Listed

(* The satellites of a list of entries. *)
LEMMA SatsOfList ==
  ASSUME NEW q \in Seq(Entry), Once(q)
  PROVE  /\ SatsOf(q) \in Seq(Sat) /\ Len(SatsOf(q)) = Len(q) /\ DOMAIN q = 1 .. Len(q)
         /\ Sats(q) = {SatsOf(q)[i] : i \in 1 .. Len(SatsOf(q))}
         /\ \A i \in 1 .. Len(q) : SatsOf(q)[i] = q[i].sat
         /\ \A i, j \in 1 .. Len(SatsOf(q)) : SatsOf(q)[i] = SatsOf(q)[j] => i = j
<1> DEFINE r == SatsOf(q)
<1>1. Len(q) \in Nat /\ DOMAIN q = 1 .. Len(q)
  BY LenProperties
<1>2. \A i \in 1 .. Len(q) : q[i].sat \in Sat
  <2>1. \A i \in 1 .. Len(q) : q[i] \in Entry
    BY ElementOfSeq
  <2> QED BY <2>1 DEF Entry
<1>3. r = [i \in 1 .. Len(q) |-> q[i].sat]
  BY <1>1 DEF SatsOf
<1> HIDE DEF r
<1>4. r \in Seq(Sat) /\ Len(r) = Len(q) /\ \A i \in 1 .. Len(q) : r[i] = q[i].sat
  BY <1>1, <1>2, <1>3
<1>5. Sats(q) = {r[i] : i \in 1 .. Len(r)}
  BY <1>1, <1>4 DEF Sats
<1>6. \A i, j \in 1 .. Len(r) : r[i] = r[j] => i = j
  BY <1>4 DEF Once
<1> QED BY <1>1, <1>4, <1>5, <1>6 DEF r

(* The city's lists, and the net of links of the satellites it is linked to. *)
NetInv ==
  /\ OnOneList
  /\ NetKept(net, links)
  /\ ~ net.pool.shared => ~ dropAborted

LEMMA InitNet ==
  ASSUME ConstellationInit
  PROVE  NetInv
<1> DEFINE come == SetToSeq(links)
<1>1. OnOneList /\ ~ dropAborted /\ links \subseteq Sat
  BY AddUplinksLists DEF ConstellationInit, OnOneList, CityTypeOK
<1>2. IsFiniteSet(links)
  BY <1>1, CityUplinksAssumption, FS_Subset
<1>3. /\ come \in Seq(links) /\ Cardinality(links) \in Nat /\ Len(come) = Cardinality(links)
      /\ \A x \in links : \E i \in 1 .. Cardinality(links) : come[i] = x
      /\ \A i, j \in 1 .. Cardinality(links) : come[i] = come[j] => i = j
  BY <1>2, SetToSeqProperties
<1> HIDE DEF come
<1>4. come \in Seq(Sat) /\ \A i \in 1 .. Len(come) : come[i] \in links
  BY <1>1, <1>3, ElementOfSeq
<1>5. links = {come[i] : i \in 1 .. Len(come)}
  BY <1>3, <1>4
<1> DEFINE gone == <<>>
           L == {}
           G == {gone[i] : i \in 1 .. Len(gone)}
           C == {come[i] : i \in 1 .. Len(come)}
<1>6. /\ gone \in Seq(Sat) /\ Len(gone) = 0 /\ 1 .. Len(gone) = {}
      /\ L = {} /\ \A x : x \notin L
  OBVIOUS
<1>7. NetKept(Isls, L)
  BY IslsKept
<1> HIDE DEF gone, L
<1>8. NetKept(Moving(Isls, gone, come)[Len(gone) + Len(come)], (L \ G) \cup C)
  <2>1. /\ \A i \in 1 .. Len(gone) : gone[i] \in L
        /\ \A i, j \in 1 .. Len(gone) : gone[i] = gone[j] => i = j
        /\ \A i \in 1 .. Len(come) : come[i] \notin L
        /\ \A i, j \in 1 .. Len(come) : come[i] = come[j] => i = j
    BY <1>3, <1>6
  <2>2. gone \in Seq(Sat) /\ come \in Seq(Sat)
    BY <1>4, <1>6
  <2>3. LET last == Moving(Isls, gone, come)[Len(gone) + Len(come)]
        IN  /\ NetKept(last, (L \ {gone[i] : i \in 1 .. Len(gone)})
                               \cup {come[i] : i \in 1 .. Len(come)})
            /\ ~ last.pool.shared =>
                 \A i \in 1 .. Len(gone) : DropPairAsserts(Moving(Isls, gone, come)[i - 1], gone[i])
    BY <1>7, <2>1, <2>2, MovingKept
  <2> QED BY <2>3
<1>9. Len(gone) + Len(come) = Cardinality(links) /\ (L \ G) \cup C = links
  <2>1. C = links
    BY <1>5
  <2> HIDE DEF G, C
  <2> QED BY <1>3, <1>6, <2>1
<1> HIDE DEF G, C
<1>10. net = Moving(Isls, gone, come)[Cardinality(links)]
  BY DEF ConstellationInit, come, gone
<1> QED BY <1>1, <1>8, <1>9, <1>10 DEF NetInv

LEMMA NextNet ==
  ASSUME NetInv, ConstellationNext
  PROVE  NetInv'
<1>1. PICK d \in [Sat -> Dist], full \in BOOLEAN : \E ex \in Exchanges(d, full) :
        UpdateUplinks(d, ex) /\ Move(ex.out, ex.come)
  BY DEF ConstellationNext
<1>2. PICK ex \in Exchanges(d, full) : UpdateUplinks(d, ex) /\ Move(ex.out, ex.come)
  BY <1>1
<1> DEFINE gone == SatsOf(ex.out)
           come == SatsOf(ex.come)
           after == Moving(net, gone, come)
<1>3. /\ OnOneList'
      /\ ex.out \in Seq(Entry) /\ ex.come \in Seq(Entry)
      /\ Once(ex.out) /\ Once(ex.come)
      /\ Sats(ex.out) \subseteq links /\ Sats(ex.come) \cap links = {}
      /\ links' = (links \ Sats(ex.out)) \cup Sats(ex.come)
  BY <1>2, UpdateKeeps DEF NetInv
<1>4. /\ gone \in Seq(Sat) /\ Len(gone) = Len(ex.out) /\ DOMAIN ex.out = 1 .. Len(gone)
      /\ Sats(ex.out) = {gone[i] : i \in 1 .. Len(gone)}
      /\ \A i \in 1 .. Len(gone) : gone[i] = ex.out[i].sat
      /\ \A i, j \in 1 .. Len(gone) : gone[i] = gone[j] => i = j
  BY <1>3, SatsOfList
<1>5. /\ come \in Seq(Sat) /\ Len(come) = Len(ex.come)
      /\ Sats(ex.come) = {come[i] : i \in 1 .. Len(come)}
      /\ \A i, j \in 1 .. Len(come) : come[i] = come[j] => i = j
  BY <1>3, SatsOfList
<1>6. /\ net' = after[Len(ex.out) + Len(ex.come)]
      /\ dropAborted' = \E i \in DOMAIN ex.out : ~ DropPairAsserts(after[i - 1], ex.out[i].sat)
  BY <1>2 DEF Move
<1> HIDE DEF gone, come
<1>7. /\ \A i \in 1 .. Len(gone) : gone[i] \in links
      /\ \A i \in 1 .. Len(come) : come[i] \notin links
  BY <1>3, <1>4, <1>5
<1>8. LET last == after[Len(gone) + Len(come)]
      IN  /\ NetKept(last, (links \ {gone[i] : i \in 1 .. Len(gone)})
                             \cup {come[i] : i \in 1 .. Len(come)})
          /\ ~ last.pool.shared =>
               \A i \in 1 .. Len(gone) : DropPairAsserts(after[i - 1], gone[i])
  BY <1>4, <1>5, <1>7, MovingKept DEF NetInv
<1> HIDE DEF after
<1>9. net' = after[Len(gone) + Len(come)]
  BY <1>4, <1>5, <1>6
<1>10. NetKept(net', links')
  BY <1>3, <1>4, <1>5, <1>8, <1>9
<1>11. ~ net'.pool.shared => ~ dropAborted'
  BY <1>4, <1>6, <1>8, <1>9
<1> QED BY <1>3, <1>10, <1>11 DEF NetInv, NetKept, NetSound, NetHolds, PoolHolds, Active, InUse

LEMMA StutterNet ==
  ASSUME NetInv, UNCHANGED constellationVars
  PROVE  NetInv'
<1>1. /\ OnOneList /\ NetKept(net, links) /\ (~ net.pool.shared => ~ dropAborted)
      /\ UNCHANGED <<dist, activeUplinks, inactiveSats, links, net, dropAborted>>
  BY DEF NetInv, constellationVars, cityVars
<1>2. OnOneList'
  BY <1>1 DEF OnOneList, CityTypeOK
<1>3. NetKept(net', links') /\ (~ net'.pool.shared => ~ dropAborted')
  BY <1>1
<1> QED BY <1>2, <1>3 DEF NetInv, NetKept, NetSound, NetHolds, PoolHolds, Active, InUse

(* For all satellites, distances, numbers of links and sizes of the first  *)
(* pool: the counts are right and the arrays long enough, grown or not,    *)
(* and until the pool grows each link handed out is on the active list at  *)
(* its index, so that no assert of drop_link() fails, and the others that  *)
(* were made are free, once.                                               *)
THEOREM PoolListed == ConstellationSpec => []Listed
<1>1. ConstellationInit => NetInv
  BY InitNet
<1>2. NetInv /\ [ConstellationNext]_constellationVars => NetInv'
  BY NextNet, StutterNet
<1>3. NetInv => Listed
  BY NetListed DEF NetInv
<1> QED BY <1>1, <1>2, <1>3, PTL DEF ConstellationSpec

(* Until the pool grows the two links of a satellite are a pair that was   *)
(* made together, for all satellites, distances and orders of reuse.       *)
THEOREM PairsStayTogether == ConstellationSpec => [](~ net.pool.shared => PairsStay)
<1>1. ConstellationInit => NetInv
  BY InitNet
<1>2. NetInv /\ [ConstellationNext]_constellationVars => NetInv'
  BY NextNet, StutterNet
<1>3. NetInv => (~ net.pool.shared => PairsStay)
  BY NetOrdered DEF NetInv, NetKept
<1> QED BY <1>1, <1>2, <1>3, PTL DEF ConstellationSpec
=============================================================================
