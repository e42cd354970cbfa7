------------------------ MODULE EventSwitchProofs ------------------------
(***************************************************************************)
(* Proofs about what the other components rest on.  First the event list:  *)
(* it dispatches in order, for every set of sources, every end time and    *)
(* every bound; the order of the list is an inductive invariant, no entry  *)
(* is ever overdue, and the list implements EventCalendar.  Then the       *)
(* lossless switch, for any number of ports, buffer size and pattern of    *)
(* traffic: the PAUSE protocol of every queue, and that the headroom is    *)
(* enough when a single port is hot.                                       *)
(***************************************************************************)
EXTENDS EventList, LosslessSwitch, SequenceLemmas

-----------------------------------------------------------------------------
(* The event list.                                                         *)


Lex(a, b) == a.when < b.when \/ (a.when = b.when /\ a.no < b.no)

(* The list p is in order and its entries are numbered below n. *)
Sorted(p) == \A i, j \in 1 .. Len(p) : i < j => Lex(p[i], p[j])
Below(p, n) == \A i \in 1 .. Len(p) : p[i].no < n
NotBefore(p, t) == \A i \in 1 .. Len(p) : p[i].when >= t

(* In an ordered list the entries due no later than w are a prefix, and    *)
(* UpperBound is its length.                                               *)
LEMMA UpperBoundProperties ==
  ASSUME NEW p \in Seq(Entry), Sorted(p), NEW w \in Nat
  PROVE  /\ UpperBound(p, w) \in 0 .. Len(p)
         /\ \A i \in 1 .. Len(p) : i <= UpperBound(p, w) <=> p[i].when <= w
<1> DEFINE D == {i \in DOMAIN p : p[i].when <= w}
           C == {n \in 1 .. Len(p) + 1 : n = Len(p) + 1 \/ ~ (p[n].when <= w)}
           m == Min(C)
<1>1. Len(p) \in Nat /\ DOMAIN p = 1 .. Len(p) /\ \A i \in 1 .. Len(p) : p[i] \in Entry
  BY LenProperties, ElementOfSeq
<1>2. m \in C /\ \A n \in C : m <= n
  <2>1. C \in SUBSET Nat /\ Len(p) + 1 \in C
    BY <1>1
  <2> QED BY <2>1, MinProperties
<1> HIDE DEF m
<1>3. m \in 1 .. Len(p) + 1
  BY <1>2
<1>4. ASSUME NEW i \in 1 .. Len(p)
      PROVE  p[i].when <= w <=> i < m
  <2>1. CASE i < m
    <3>1. i \in 1 .. Len(p) + 1 /\ i \notin C
      BY <1>1, <1>2, <1>3, <2>1
    <3> QED BY <3>1, <2>1
  <2>2. CASE ~ (i < m)
    <3>1. m \in 1 .. Len(p) /\ m <= i
      BY <1>1, <1>3, <2>2
    <3>2. ~ (p[m].when <= w)
      BY <1>1, <1>2, <3>1
    <3>3. m = i \/ Lex(p[m], p[i])
      BY <1>1, <3>1 DEF Sorted
    <3>4. p[m].when \in Nat /\ p[i].when \in Nat
      BY <1>1, <3>1 DEF Entry
    <3>5. p[m].when <= p[i].when
      BY <3>3, <3>4 DEF Lex
    <3> QED BY <2>2, <3>2, <3>4, <3>5
  <2> QED BY <2>1, <2>2
<1>5. D = 1 .. m - 1
  BY <1>1, <1>3, <1>4
<1>6. UpperBound(p, w) = m - 1
  <2>1. Cardinality(1 .. m - 1) = m - 1
    BY <1>1, <1>3, FS_Interval
  <2> QED BY <1>5, <2>1 DEF UpperBound
<1> QED BY <1>1, <1>3, <1>4, <1>6

(* Inserting a younger entry keeps the list in order and adds that entry.  *)
LEMMA InsertKeepsOrder ==
  ASSUME NEW p \in Seq(Entry), NEW e \in Entry, Sorted(p), Below(p, e.no)
  PROVE  /\ Insert(p, e) \in Seq(Entry)
         /\ Sorted(Insert(p, e))
         /\ Below(Insert(p, e), e.no + 1)
         /\ \A t \in Nat : NotBefore(p, t) /\ e.when >= t => NotBefore(Insert(p, e), t)
         /\ ToSet(Insert(p, e)) = ToSet(p) \union {e}
<1> DEFINE k == UpperBound(p, e.when) + 1
           q == InsertAt(p, k, e)
<1>0. Len(p) \in Nat /\ \A i \in 1 .. Len(p) : p[i] \in Entry
  BY LenProperties, ElementOfSeq
<1>1. /\ k \in 1 .. Len(p) + 1
      /\ \A i \in 1 .. Len(p) : i < k <=> p[i].when <= e.when
  <2>1. e.when \in Nat
    BY DEF Entry
  <2>2. /\ UpperBound(p, e.when) \in 0 .. Len(p)
        /\ \A i \in 1 .. Len(p) : i <= UpperBound(p, e.when) <=> p[i].when <= e.when
    BY <2>1, UpperBoundProperties
  <2> HIDE DEF q
  <2> QED BY <1>0, <2>2
<1> HIDE DEF k
<1>2. /\ q \in Seq(Entry)
      /\ Len(q) = Len(p) + 1
      /\ \A i \in 1 .. Len(p) + 1 :
           q[i] = IF i < k THEN p[i] ELSE IF i = k THEN e ELSE p[i - 1]
  <2>1. k \in 1 .. Len(p) + 1
    BY <1>1
  <2> QED BY <2>1, InsertAtProperties, SMTT(60)
<1>3. Insert(p, e) = q
  BY DEF Insert, k
<1> HIDE DEF q
<1>4. ASSUME NEW i \in 1 .. Len(q), NEW j \in 1 .. Len(q), i < j
      PROVE  Lex(q[i], q[j])
  <2>1. CASE i < k /\ j < k
    <3>1. i \in 1 .. Len(p) /\ j \in 1 .. Len(p) /\ q[i] = p[i] /\ q[j] = p[j]
      BY <1>0, <1>1, <1>2, <2>1
    <3> QED BY <1>4, <3>1 DEF Sorted
  <2>2. CASE i < k /\ j = k
    <3>1. i \in 1 .. Len(p) /\ q[i] = p[i] /\ q[j] = e
      BY <1>0, <1>1, <1>2, <2>2
    <3>2. p[i].when <= e.when /\ p[i].no < e.no /\ p[i] \in Entry
      BY <1>0, <1>1, <2>2, <3>1 DEF Below
    <3> QED BY <3>1, <3>2 DEF Lex, Entry
  <2>3. CASE i < k /\ j > k
    <3>1. /\ i \in 1 .. Len(p) /\ j - 1 \in 1 .. Len(p) /\ i < j - 1
          /\ q[i] = p[i] /\ q[j] = p[j - 1]
      BY <1>0, <1>1, <1>2, <2>3
    <3> QED BY <3>1 DEF Sorted
  <2>4. CASE i = k
    <3>1. j - 1 \in 1 .. Len(p) /\ q[j] = p[j - 1] /\ q[i] = e /\ ~ (j - 1 < k)
      BY <1>0, <1>1, <1>2, <1>4, <2>4
    <3>2. ~ (p[j - 1].when <= e.when) /\ p[j - 1] \in Entry
      BY <1>0, <1>1, <3>1
    <3> QED BY <3>1, <3>2 DEF Lex, Entry
  <2>5. CASE i > k
    <3>1. /\ i - 1 \in 1 .. Len(p) /\ j - 1 \in 1 .. Len(p) /\ i - 1 < j - 1
          /\ q[i] = p[i - 1] /\ q[j] = p[j - 1]
      BY <1>0, <1>1, <1>2, <1>4, <2>5
    <3> QED BY <3>1 DEF Sorted
  <2> QED BY <1>1, <1>4, <2>1, <2>2, <2>3, <2>4, <2>5
<1>5. \A i \in 1 .. Len(q) : q[i] = e \/ \E j \in 1 .. Len(p) : q[i] = p[j]
  <2> SUFFICES ASSUME NEW i \in 1 .. Len(q)
               PROVE  q[i] = e \/ \E j \in 1 .. Len(p) : q[i] = p[j]
    OBVIOUS
  <2>1. CASE i < k
    BY <1>0, <1>1, <1>2, <2>1
  <2>2. CASE i = k
    BY <1>2, <2>2
  <2>3. CASE i > k
    <3>1. i - 1 \in 1 .. Len(p) /\ q[i] = p[i - 1]
      BY <1>0, <1>1, <1>2, <2>3
    <3> QED BY <3>1
  <2> QED BY <1>1, <2>1, <2>2, <2>3
<1>6. /\ k \in 1 .. Len(q) /\ q[k] = e
      /\ \A j \in 1 .. Len(p) : \E i \in 1 .. Len(q) : q[i] = p[j]
  <2>1. k \in 1 .. Len(q) /\ q[k] = e
    BY <1>1, <1>2
  <2>2. ASSUME NEW j \in 1 .. Len(p)
        PROVE  \E i \in 1 .. Len(q) : q[i] = p[j]
    <3>1. CASE j < k
      BY <1>0, <1>2, <3>1
    <3>2. CASE ~ (j < k)
      <4>1. j + 1 \in 1 .. Len(q) /\ q[j + 1] = p[j]
        BY <1>0, <1>1, <1>2, <3>2
      <4> QED BY <4>1
    <3> QED BY <3>1, <3>2
  <2> QED BY <2>1, <2>2
<1>7. Below(q, e.no + 1)
  <2> SUFFICES ASSUME NEW i \in 1 .. Len(q)
               PROVE  q[i].no < e.no + 1
    BY DEF Below
  <2>1. CASE q[i] = e
    BY <2>1 DEF Entry
  <2>2. CASE \E j \in 1 .. Len(p) : q[i] = p[j]
    <3>1. PICK j \in 1 .. Len(p) : q[i] = p[j]
      BY <2>2
    <3>2. p[j].no \in Nat /\ e.no \in Nat /\ p[j].no < e.no
      BY <1>0 DEF Below, Entry
    <3> QED BY <3>1, <3>2
  <2> QED BY <1>5, <2>1, <2>2
<1>8. \A t \in Nat : NotBefore(p, t) /\ e.when >= t => NotBefore(q, t)
  BY <1>5 DEF NotBefore
<1>9. ToSet(q) = ToSet(p) \union {e}
  <2>1. DOMAIN q = 1 .. Len(q) /\ DOMAIN p = 1 .. Len(p)
    BY <1>2, LenProperties
  <2>2. ASSUME NEW x PROVE x \in ToSet(q) <=> x \in ToSet(p) \union {e}
    <3>1. x \in ToSet(q) <=> \E i \in 1 .. Len(q) : x = q[i]
      BY <2>1 DEF ToSet
    <3>2. x \in ToSet(p) <=> \E i \in 1 .. Len(p) : x = p[i]
      BY <2>1 DEF ToSet
    <3> QED BY <1>5, <1>6, <3>1, <3>2
  <2> QED BY <2>2
<1> QED BY <1>2, <1>3, <1>4, <1>7, <1>8, <1>9 DEF Sorted

(* Removing one entry keeps the order and takes away that entry alone: two *)
(* positions of an ordered list never hold the same entry.                 *)
LEMMA RemoveKeepsOrder ==
  ASSUME NEW p \in Seq(Entry), Sorted(p), NEW k \in 1 .. Len(p)
  PROVE  /\ RemoveAt(p, k) \in Seq(Entry)
         /\ Sorted(RemoveAt(p, k))
         /\ \A n \in Nat : Below(p, n) => Below(RemoveAt(p, k), n)
         /\ \A t \in Nat : NotBefore(p, t) => NotBefore(RemoveAt(p, k), t)
         /\ ToSet(RemoveAt(p, k)) = ToSet(p) \ {p[k]}
<1> DEFINE q == RemoveAt(p, k)
<1>1. Len(p) \in Nat /\ \A i \in 1 .. Len(p) : p[i] \in Entry
  BY LenProperties, ElementOfSeq
<1>2. /\ q \in Seq(Entry)
      /\ Len(q) = Len(p) - 1
      /\ \A i \in 1 .. Len(p) - 1 : q[i] = IF i < k THEN p[i] ELSE p[i + 1]
  BY RemoveAtProperties
<1> HIDE DEF q
<1> DEFINE from(i) == IF i < k THEN i ELSE i + 1
<1>3. ASSUME NEW i \in 1 .. Len(q)
      PROVE  from(i) \in 1 .. Len(p) /\ from(i) # k /\ q[i] = p[from(i)]
  BY <1>1, <1>2
<1>4. ASSUME NEW i \in 1 .. Len(q), NEW j \in 1 .. Len(q), i < j
      PROVE  Lex(q[i], q[j])
  <2>1. from(i) < from(j)
    BY <1>4
  <2> HIDE DEF from
  <2> QED BY <1>3, <2>1 DEF Sorted
<1>5. ASSUME NEW j \in 1 .. Len(p), j # k
      PROVE  \E i \in 1 .. Len(q) : q[i] = p[j]
  <2>1. CASE j < k
    BY <1>1, <1>2, <2>1
  <2>2. CASE ~ (j < k)
    <3>1. j - 1 \in 1 .. Len(q) /\ q[j - 1] = p[j]
      BY <1>1, <1>2, <1>5, <2>2
    <3> QED BY <3>1
  <2> QED BY <2>1, <2>2
<1>6. ASSUME NEW j \in 1 .. Len(p), j # k
      PROVE  p[j] # p[k]
  <2>1. Lex(p[j], p[k]) \/ Lex(p[k], p[j])
    BY <1>1, <1>6 DEF Sorted
  <2>2. p[j] \in Entry /\ p[k] \in Entry
    BY <1>1
  <2> QED BY <2>1, <2>2 DEF Lex, Entry
<1> HIDE DEF from
<1>7. ToSet(q) = ToSet(p) \ {p[k]}
  <2>1. DOMAIN q = 1 .. Len(q) /\ DOMAIN p = 1 .. Len(p)
    BY <1>2, LenProperties
  <2>2. ASSUME NEW x PROVE x \in ToSet(q) <=> x \in ToSet(p) \ {p[k]}
    <3>1. x \in ToSet(q) <=> \E i \in 1 .. Len(q) : x = q[i]
      BY <2>1 DEF ToSet
    <3>2. x \in ToSet(p) <=> \E i \in 1 .. Len(p) : x = p[i]
      BY <2>1 DEF ToSet
    <3> QED BY <1>3, <1>5, <1>6, <3>1, <3>2
  <2> QED BY <2>2
<1>8. Sorted(q)
  BY <1>4 DEF Sorted
<1>9. \A n \in Nat : Below(p, n) => Below(q, n)
  BY <1>3 DEF Below
<1>10. \A t \in Nat : NotBefore(p, t) => NotBefore(q, t)
  BY <1>3 DEF NotBefore
<1> QED BY <1>2, <1>7, <1>8, <1>9, <1>10 DEF q

(* Head and Tail of a nonempty list, as the removal of its first entry.    *)
LEMMA TailRemovesFirst ==
  ASSUME NEW p \in Seq(Entry), p # <<>>
  PROVE  1 \in 1 .. Len(p) /\ Head(p) = p[1] /\ Tail(p) = RemoveAt(p, 1)
<1>1. Len(p) \in Nat \ {0} /\ 1 \in 1 .. Len(p) /\ Head(p) = p[1]
  BY EmptySeq, LenProperties
<1>2. /\ Tail(p) \in Seq(Entry) /\ Len(Tail(p)) = Len(p) - 1
      /\ \A i \in 1 .. Len(Tail(p)) : Tail(p)[i] = p[i + 1]
  BY HeadTailProperties
<1>3. /\ RemoveAt(p, 1) \in Seq(Entry) /\ Len(RemoveAt(p, 1)) = Len(p) - 1
      /\ \A i \in 1 .. Len(p) - 1 :
           RemoveAt(p, 1)[i] = IF i < 1 THEN p[i] ELSE p[i + 1]
  BY <1>1, RemoveAtProperties
<1>4. \A i \in 1 .. Len(Tail(p)) : Tail(p)[i] = RemoveAt(p, 1)[i]
  BY <1>1, <1>2, <1>3
<1>5. Tail(p) = RemoveAt(p, 1)
  BY <1>2, <1>3, <1>4, SeqEqual
<1> QED BY <1>1, <1>5

-----------------------------------------------------------------------------
(* What the list looks like to the calendar: the entry at the least of a   *)
(* set of positions is the first of the bookings at those positions.       *)
LEMMA FirstIsLeast ==
  ASSUME NEW p \in Seq(Entry), Sorted(p),
         NEW I \in SUBSET (1 .. Len(p)), I # {}
  PROVE  /\ Min(I) \in I
         /\ Calendar!First({p[i] : i \in I}) = {p[Min(I)]}
<1> DEFINE m == Min(I)
<1>1. \A i \in 1 .. Len(p) : p[i] \in Entry
  BY ElementOfSeq
<1>2. m \in I /\ \A i \in I : m <= i
  <2>1. I \in SUBSET Nat
    OBVIOUS
  <2> QED BY <2>1, MinProperties
<1> HIDE DEF m
<1>3. \A i \in I : i = m \/ Lex(p[m], p[i])
  BY <1>2 DEF Sorted
<1>4. \A i \in I : p[i].when \in Nat /\ p[i].no \in Nat
  BY <1>1 DEF Entry
<1>5. p[m] \in Calendar!First({p[i] : i \in I})
  BY <1>2, <1>3 DEF Calendar!First, Calendar!Before, Lex
<1>6. ASSUME NEW b \in Calendar!First({p[i] : i \in I})
      PROVE  b = p[m]
  <2>1. PICK j \in I : b = p[j]
    BY DEF Calendar!First
  <2>2. b # p[m] => Calendar!Before(b, p[m])
    BY <1>2 DEF Calendar!First
  <2>3. b # p[m] => Lex(p[m], b)
    BY <1>3, <2>1
  <2> QED BY <1>2, <1>4, <2>1, <2>2, <2>3 DEF Calendar!Before, Lex
<1> QED BY <1>2, <1>5, <1>6 DEF m

(* Cancelling keeps the order and drops the first booking of the source.   *)
LEMMA CancelKeepsOrder ==
  ASSUME NEW p \in Seq(Entry), Sorted(p), NEW s \in Source
  PROVE  /\ Cancel(p, s) \in Seq(Entry)
         /\ Sorted(Cancel(p, s))
         /\ \A n \in Nat : Below(p, n) => Below(Cancel(p, s), n)
         /\ \A t \in Nat : NotBefore(p, t) => NotBefore(Cancel(p, s), t)
         /\ ToSet(Cancel(p, s)) =
              ToSet(p) \ Calendar!First({b \in ToSet(p) : b.src = s})
<1> DEFINE I == EntriesOf(p, s)
           B == {b \in ToSet(p) : b.src = s}
<1>1. DOMAIN p = 1 .. Len(p) /\ I \in SUBSET (1 .. Len(p))
  BY LenProperties DEF EntriesOf
<1>2. B = {p[i] : i \in I}
  BY <1>1 DEF ToSet, EntriesOf
<1> HIDE DEF I, B
<1>3. CASE I = {}
  <2>1. Cancel(p, s) = p
    BY <1>3 DEF Cancel, I
  <2>2. Calendar!First(B) = {}
    BY <1>2, <1>3 DEF Calendar!First
  <2> QED BY <2>1, <2>2 DEF B
<1>4. CASE I # {}
  <2>1. Min(I) \in I /\ Calendar!First(B) = {p[Min(I)]}
    BY <1>1, <1>2, <1>4, FirstIsLeast
  <2>2. Cancel(p, s) = RemoveAt(p, Min(I)) /\ Min(I) \in 1 .. Len(p)
    BY <1>1, <1>4, <2>1 DEF Cancel, I
  <2>3. ToSet(p) \ Calendar!First(B) = ToSet(p) \ {p[Min(I)]}
    BY <2>1
  <2> HIDE DEF Sorted, Below, NotBefore
  <2> QED BY <2>2, <2>3, RemoveKeepsOrder DEF B
<1> QED BY <1>3, <1>4

-----------------------------------------------------------------------------
(* The inductive invariant: the list is in order, by time and then by age, *)
(* its entries are older than the next one, none is overdue, and none is   *)
(* due at or after the end of the simulation.                              *)
InTime(p) == EndTime # 0 => \A b \in ToSet(p) : b.when < EndTime

Good(p) ==
  /\ p \in Seq(Entry)
  /\ Sorted(p)
  /\ Below(p, issued)
  /\ NotBefore(p, lasteventtime)
  /\ InTime(p)

IInv == TypeOK /\ Good(pendingsources) /\ EndsInTime

(* One booking, made on a good list at a time that is not past.            *)
LEMMA BookKeepsOrder ==
  ASSUME TypeOK, NEW p, Good(p), NEW s \in Source, NEW w \in Nat,
         w >= lasteventtime, Book(p, s, w), UNCHANGED lasteventtime, EndsInTime
  PROVE  /\ IInv'
         /\ \/ /\ ~ (EndTime = 0 \/ w < EndTime)
               /\ ToSet(pendingsources)' = ToSet(p)
            \/ /\ EndTime = 0 \/ w < EndTime
               /\ ToSet(pendingsources)' =
                     ToSet(p) \union {[when |-> w, src |-> s, no |-> issued]}
<1> DEFINE e == [when |-> w, src |-> s, no |-> issued]
<1>1. e \in Entry /\ e.no = issued /\ e.when = w
  BY DEF Entry, TypeOK
<1>2. EndsInTime'
  BY DEF EndsInTime
<1>3. CASE EndTime = 0 \/ w < EndTime
  <2>1. pendingsources' = Insert(p, e) /\ issued' = issued + 1
    BY <1>3 DEF Book
  <2> HIDE DEF e
  <2>2. /\ Insert(p, e) \in Seq(Entry)
        /\ Sorted(Insert(p, e))
        /\ Below(Insert(p, e), e.no + 1)
        /\ \A t \in Nat : NotBefore(p, t) /\ e.when >= t => NotBefore(Insert(p, e), t)
        /\ ToSet(Insert(p, e)) = ToSet(p) \union {e}
    BY <1>1, InsertKeepsOrder DEF Good
  <2>3. NotBefore(pendingsources', lasteventtime)
    BY <1>1, <2>1, <2>2 DEF Good, TypeOK
  <2>4. InTime(pendingsources')
    BY <1>1, <1>3, <2>1, <2>2 DEF Good, InTime
  <2>5. TypeOK'
    BY <2>1, <2>2 DEF TypeOK
  <2>6. Good(pendingsources)'
    BY <1>1, <2>1, <2>2, <2>3, <2>4 DEF Good, NotBefore, InTime, Below, Sorted
  <2>7. ToSet(pendingsources)' = ToSet(p) \union {e}
    BY <2>1, <2>2
  <2> QED BY <1>2, <1>3, <2>5, <2>6, <2>7 DEF IInv, e
<1>4. CASE ~ (EndTime = 0 \/ w < EndTime)
  <2>1. pendingsources' = p /\ issued' = issued
    BY <1>4 DEF Book
  <2>2. TypeOK' /\ Good(pendingsources)'
    BY <2>1 DEF TypeOK, Good, NotBefore, InTime, Below, Sorted
  <2>3. ToSet(pendingsources)' = ToSet(p)
    BY <2>1
  <2> QED BY <1>2, <1>4, <2>2, <2>3 DEF IInv
<1> QED BY <1>3, <1>4

(* Cancelling on a good list leaves a good list. *)
LEMMA CancelKeepsGood ==
  ASSUME TypeOK, NEW p, Good(p), NEW s \in Source
  PROVE  /\ Good(Cancel(p, s))
         /\ ToSet(Cancel(p, s)) =
              ToSet(p) \ Calendar!First({b \in ToSet(p) : b.src = s})
<1>1. /\ Cancel(p, s) \in Seq(Entry)
      /\ Sorted(Cancel(p, s))
      /\ \A n \in Nat : Below(p, n) => Below(Cancel(p, s), n)
      /\ \A t \in Nat : NotBefore(p, t) => NotBefore(Cancel(p, s), t)
      /\ ToSet(Cancel(p, s)) =
           ToSet(p) \ Calendar!First({b \in ToSet(p) : b.src = s})
  BY CancelKeepsOrder DEF Good
<1>2. InTime(Cancel(p, s))
  BY <1>1 DEF Good, InTime
<1> QED BY <1>1, <1>2 DEF Good, TypeOK

(* Dispatching takes the first booking of the calendar, and none of the    *)
(* others is earlier than it.                                              *)
LEMMA DispatchServesFirst ==
  ASSUME IInv, DoNextEvent
  PROVE  IInv' /\ Calendar!Serve
<1> DEFINE p == pendingsources
<1>1. p \in Seq(Entry) /\ Good(p)
  BY DEF IInv, Good
<1>2. /\ p # <<>> /\ 1 \in 1 .. Len(p) /\ Head(p) = p[1]
      /\ pendingsources' = RemoveAt(p, 1)
      /\ lasteventtime' = p[1].when /\ issued' = issued
  BY <1>1, TailRemovesFirst DEF DoNextEvent, NextEventTime
<1>3. /\ RemoveAt(p, 1) \in Seq(Entry)
      /\ Len(RemoveAt(p, 1)) = Len(p) - 1
      /\ \A i \in 1 .. Len(p) - 1 :
           RemoveAt(p, 1)[i] = IF i < 1 THEN p[i] ELSE p[i + 1]
  BY <1>1, <1>2, RemoveAtProperties
<1>4. /\ Sorted(RemoveAt(p, 1))
      /\ \A n \in Nat : Below(p, n) => Below(RemoveAt(p, 1), n)
      /\ ToSet(RemoveAt(p, 1)) = ToSet(p) \ {p[1]}
  BY <1>1, <1>2, RemoveKeepsOrder DEF Good
<1>5. Len(p) \in Nat /\ \A i \in 1 .. Len(p) : p[i] \in Entry
  BY <1>1, LenProperties, ElementOfSeq
<1>6. \A i \in 1 .. Len(p) : 1 < i => Lex(p[1], p[i])
  BY <1>1, <1>2 DEF Good, Sorted
<1>7. NotBefore(RemoveAt(p, 1), p[1].when)
  <2> SUFFICES ASSUME NEW i \in 1 .. Len(p) - 1
               PROVE  RemoveAt(p, 1)[i].when >= p[1].when
    BY <1>3 DEF NotBefore
  <2>1. i + 1 \in 1 .. Len(p) /\ RemoveAt(p, 1)[i] = p[i + 1] /\ 1 < i + 1
    BY <1>3, <1>5
  <2>2. p[1].when \in Nat /\ p[i + 1].when \in Nat
    BY <1>2, <1>5, <2>1 DEF Entry
  <2> QED BY <1>6, <2>1, <2>2 DEF Lex
<1>8. p[1] \in ToSet(p) /\ p[1].when \in Nat
  BY <1>1, <1>2, <1>5, LenProperties DEF ToSet, Entry
<1>9. InTime(RemoveAt(p, 1)) /\ (EndTime # 0 => p[1].when < EndTime)
  BY <1>1, <1>4, <1>8 DEF Good, InTime
<1> HIDE DEF p
<1>10. IInv'
  <2>1. TypeOK' /\ EndsInTime'
    BY <1>2, <1>3, <1>8, <1>9 DEF IInv, TypeOK, EndsInTime
  <2>3. Good(pendingsources)'
    BY <1>2, <1>1, <1>3, <1>4, <1>7, <1>9
       DEF IInv, TypeOK, Good, Below, NotBefore, Sorted, InTime
  <2> QED BY <2>1, <2>3 DEF IInv
<1>11. Calendar!First(ToSet(p)) = {p[1]}
  <2>1. ToSet(p) = {p[i] : i \in 1 .. Len(p)}
    BY <1>1, LenProperties DEF ToSet
  <2>2. /\ Min(1 .. Len(p)) \in 1 .. Len(p)
        /\ \A y \in 1 .. Len(p) : Min(1 .. Len(p)) <= y
    <3>1. 1 .. Len(p) \in SUBSET Nat /\ 1 .. Len(p) # {}
      BY <1>2
    <3> QED BY <3>1, MinProperties
  <2>3. Min(1 .. Len(p)) = 1
    BY <1>2, <2>2
  <2>4. Calendar!First({p[i] : i \in 1 .. Len(p)}) = {p[Min(1 .. Len(p))]}
    BY <1>1, <1>2, FirstIsLeast DEF Good
  <2> QED BY <2>1, <2>3, <2>4
<1>12. Calendar!Serve
  BY <1>2, <1>4, <1>11 DEF Calendar!Serve, p
<1> QED BY <1>10, <1>12

-----------------------------------------------------------------------------
LEMMA InitGood == Init => IInv /\ Calendar!Init
<1> SUFFICES ASSUME Init PROVE IInv /\ Calendar!Init
  OBVIOUS
<1>1. pendingsources = <<>> /\ lasteventtime = 0 /\ issued = 0
  BY DEF Init
<1>2. Len(<<>>) = 0 /\ <<>> \in Seq(Entry) /\ ToSet(<<>>) = {}
  BY DEF ToSet
<1> QED BY <1>1, <1>2, EventListAssumption
       DEF IInv, TypeOK, Good, Sorted, Below, NotBefore, InTime, EndsInTime,
           Calendar!Init

(* Every step keeps the list good, and is a step of the calendar or none.  *)
LEMMA NextGood ==
  ASSUME IInv, [Next]_vars
  PROVE  IInv' /\ [Calendar!Next]_(Calendar!vars)
<1> USE DEF Calendar!vars
<1>0. TypeOK /\ Good(pendingsources) /\ EndsInTime
  BY DEF IInv
<1> DEFINE e(s, w) == [when |-> w, src |-> s, no |-> issued]
<1>1. ASSUME NEW s \in Source, NEW w \in 0 .. MaxTime, SourceIsPending(s, w)
      PROVE  IInv' /\ [Calendar!Next]_(Calendar!vars)
  <2>1. /\ w \in Nat /\ w >= lasteventtime /\ issued \in 0 .. MaxIssued
        /\ Book(pendingsources, s, w) /\ UNCHANGED lasteventtime
    BY <1>0, <1>1, EventListAssumption DEF SourceIsPending, Bookable, TypeOK
  <2>2. /\ IInv'
        /\ \/ ToSet(pendingsources)' = ToSet(pendingsources)
           \/ ToSet(pendingsources)' = ToSet(pendingsources) \union {e(s, w)}
    BY <1>0, <2>1, BookKeepsOrder
  <2>3. Calendar!New(w, issued)
    <3>1. \A b \in ToSet(pendingsources) : b.no < issued
      BY <1>0, LenProperties DEF Good, Below, ToSet
    <3> QED BY <2>1, <3>1 DEF Calendar!New
  <2>4. CASE ToSet(pendingsources)' = ToSet(pendingsources) \union {e(s, w)}
    <3>1. Calendar!Book(s, w, issued)
      BY <2>1, <2>3, <2>4 DEF Calendar!Book
    <3>2. Calendar!Next
      BY <2>1, <3>1, Zenon DEF Calendar!Next
    <3> QED BY <2>2, <3>2
  <2> QED BY <2>1, <2>2, <2>4
<1>2. ASSUME NEW s \in Source, NEW w \in 0 .. MaxTime, ReschedulePendingSource(s, w)
      PROVE  IInv' /\ [Calendar!Next]_(Calendar!vars)
  <2> DEFINE c == Cancel(pendingsources, s)
             T == ToSet(pendingsources)
                    \ Calendar!First({b \in ToSet(pendingsources) : b.src = s})
  <2>1. /\ w \in Nat /\ w >= lasteventtime /\ issued \in 0 .. MaxIssued
        /\ Book(c, s, w) /\ UNCHANGED lasteventtime
    BY <1>0, <1>2, EventListAssumption DEF ReschedulePendingSource, Bookable, TypeOK
  <2>2. Good(c) /\ ToSet(c) = T
    BY <1>0, CancelKeepsGood
  <2> HIDE DEF c
  <2>3. /\ IInv'
        /\ \/ ToSet(pendingsources)' = T
           \/ ToSet(pendingsources)' = T \union {e(s, w)}
    BY <1>0, <2>1, <2>2, BookKeepsOrder
  <2>4. Calendar!New(w, issued)
    <3>1. \A b \in ToSet(pendingsources) : b.no < issued
      BY <1>0, LenProperties DEF Good, Below, ToSet
    <3> QED BY <2>1, <3>1 DEF Calendar!New
  <2>5. CASE ToSet(pendingsources)' = T
    <3>1. Calendar!Drop(s)
      BY <2>1, <2>5 DEF Calendar!Drop, Calendar!Of
    <3>2. Calendar!Next
      BY <3>1, Zenon DEF Calendar!Next
    <3> QED BY <2>3, <3>2
  <2>6. CASE ToSet(pendingsources)' = T \union {e(s, w)}
    <3>1. Calendar!Move(s, w, issued)
      BY <2>1, <2>4, <2>6 DEF Calendar!Move, Calendar!Of
    <3>2. Calendar!Next
      BY <2>1, <3>1, Zenon DEF Calendar!Next
    <3> QED BY <2>3, <3>2
  <2> QED BY <2>3, <2>5, <2>6
<1>3. ASSUME NEW s \in Source, CancelPendingSource(s)
      PROVE  IInv' /\ [Calendar!Next]_(Calendar!vars)
  <2>1. /\ pendingsources' = Cancel(pendingsources, s)
        /\ lasteventtime' = lasteventtime /\ issued' = issued
    BY <1>3 DEF CancelPendingSource
  <2>2. /\ Good(Cancel(pendingsources, s))
        /\ ToSet(Cancel(pendingsources, s)) =
             ToSet(pendingsources)
               \ Calendar!First({b \in ToSet(pendingsources) : b.src = s})
    BY <1>0, CancelKeepsGood
  <2>3. Good(pendingsources)'
    BY <2>1, <2>2 DEF Good, Sorted, Below, NotBefore, InTime
  <2>4. IInv'
    BY <1>0, <2>1, <2>2, <2>3 DEF IInv, TypeOK, Good, EndsInTime
  <2>5. Calendar!Drop(s)
    BY <2>1, <2>2 DEF Calendar!Drop, Calendar!Of
  <2> QED BY <2>4, <2>5 DEF Calendar!Next
<1>4. CASE DoNextEvent
  BY <1>4, DispatchServesFirst DEF Calendar!Next
<1>5. CASE UNCHANGED vars
  BY <1>5 DEF vars, IInv, TypeOK, Good, Sorted, Below, NotBefore, InTime, EndsInTime
<1> QED BY <1>1, <1>2, <1>3, <1>4, <1>5 DEF Next

(* The invariant holds in every reachable state. *)
THEOREM Invariant == Spec => []IInv
<1>1. Init => IInv
  BY InitGood
<1>2. IInv /\ [Next]_vars => IInv'
  BY NextGood
<1> QED BY <1>1, <1>2, PTL DEF Spec

(* The state is of its type: in particular the list holds only sources.    *)
THEOREM TypeCorrect == Spec => []TypeOK
<1>1. IInv => TypeOK
  BY DEF IInv
<1> QED BY <1>1, Invariant, PTL

(* The assert of doNextEvent() (eventlist.cpp:26) never fails: whatever is *)
(* dispatched next is not in the past.                                     *)
THEOREM NeverOverdue == Spec => []NothingOverdue
<1>1. IInv => NothingOverdue
  BY LenProperties DEF IInv, Good, NotBefore, NothingOverdue
<1> QED BY <1>1, Invariant, PTL

(* The clock never reaches the end time. *)
THEOREM StopsBeforeEnd == Spec => []EndsInTime
<1>1. IInv => EndsInTime
  BY DEF IInv
<1> QED BY <1>1, Invariant, PTL

(* The event list implements the calendar: events run in the order of      *)
(* their times, those of one time in the order they were booked in, and a  *)
(* cancellation takes away the earliest booking of its source.             *)
THEOREM ImplementsCalendar == Spec => ServesInOrder
<1>1. Init => Calendar!Init
  BY InitGood
<1>2. IInv /\ [Next]_vars => [Calendar!Next]_(Calendar!vars)
  BY NextGood
<1> QED BY <1>1, <1>2, Invariant, PTL DEF Spec, ServesInOrder, Calendar!Spec

-----------------------------------------------------------------------------
(* The lossless switch.                                                    *)

(* A queue keeps the protocol: READY, it sends as long as it holds a       *)
(* packet; paused in service, it has sent nothing since; paused, it sends  *)
(* nothing and has sent one packet at most since.                          *)
Sound(q) ==
  /\ q \in Queue
  /\ q.stateSend = "READY" => ~ q.told /\ (q.sending <=> q.size > 0)
  /\ q.stateSend = "PAUSE_RECEIVED" => q.sending /\ q.size > 0 /\ q.after = 0
  /\ q.stateSend = "PAUSED" => ~ q.sending /\ q.after <= 1

LEMMA NewQueueSound == Sound(NewQueue)
  BY DEF Sound, NewQueue, Queue

(* What the operations do to a sound queue. *)
LEMMA PausedSound ==
  ASSUME NEW q, Sound(q)
  PROVE  /\ Sound(Paused(q)) /\ Paused(q).size = q.size
         /\ Paused(q).stateRecv = q.stateRecv
         /\ Paused(q).stateSend # "READY"
         /\ q.stateSend = "PAUSED" => Paused(q).stateSend = "PAUSED"
<1> DEFINE r == Paused(q)
<1>1. q \in Queue
  BY DEF Sound
<1>2. /\ r.size = q.size /\ r.stateRecv = q.stateRecv /\ r.sending = q.sending
      /\ r.stateSend = IF q.sending THEN "PAUSE_RECEIVED" ELSE "PAUSED"
      /\ r.told = TRUE /\ r.after = 0
  BY <1>1 DEF Paused, Queue
<1>3. r \in Queue
  BY <1>1 DEF Paused, Queue
<1>4. q.sending => q.size > 0
  BY DEF Sound, Queue
<1> HIDE DEF r
<1>5. Sound(r)
  BY <1>2, <1>3, <1>4 DEF Sound
<1> QED BY <1>2, <1>5 DEF r, Sound

LEMMA InServiceFields ==
  ASSUME NEW q \in Queue
  PROVE  LET r == InService(q)
         IN  /\ r \in Queue
             /\ r.size = q.size /\ r.stateRecv = q.stateRecv
             /\ r.stateSend = q.stateSend /\ r.told = q.told /\ r.after = q.after
             /\ r.sending <=> q.sending \/ q.size > 0
<1>1. CASE q.size > 0
  BY <1>1 DEF InService, Queue
<1>2. CASE ~ (q.size > 0)
  BY <1>2 DEF InService, Queue
<1> QED BY <1>1, <1>2

LEMMA ResumedSound ==
  ASSUME NEW q, Sound(q)
  PROVE  /\ Sound(Resumed(q)) /\ Resumed(q).size = q.size
         /\ Resumed(q).stateRecv = q.stateRecv
         /\ Resumed(q).stateSend = "READY"
<1> DEFINE r == [q EXCEPT !.stateSend = "READY", !.told = FALSE, !.after = 0]
<1>1. q \in Queue
  BY DEF Sound
<1>2. /\ r \in Queue /\ r.size = q.size /\ r.stateRecv = q.stateRecv
      /\ r.sending = q.sending /\ r.stateSend = "READY" /\ r.told = FALSE
  BY <1>1 DEF Queue
<1>3. q.sending => q.size > 0
  BY DEF Sound, Queue
<1>4. Resumed(q) = IF Restarts(q) THEN InService(r) ELSE r
  BY DEF Resumed
<1> HIDE DEF r
<1>5. CASE Restarts(q)
  BY <1>2, <1>4, <1>5, InServiceFields DEF Sound, Restarts
<1>6. CASE ~ Restarts(q)
  BY <1>2, <1>3, <1>4, <1>6 DEF Sound, Restarts
<1> QED BY <1>5, <1>6

LEMMA ReceivedSound ==
  ASSUME NEW q, Sound(q)
  PROVE  /\ Sound(Received(q)) /\ Received(q).size = q.size + 1
         /\ Received(q).stateRecv = q.stateRecv
         /\ Received(q).stateSend = q.stateSend
         /\ ~ ReceiveFails(q)
<1> DEFINE r == [q EXCEPT !.size = @ + 1]
<1>1. q \in Queue
  BY DEF Sound
<1>2. /\ r \in Queue /\ r.size = q.size + 1 /\ r.stateRecv = q.stateRecv
      /\ r.sending = q.sending /\ r.stateSend = q.stateSend /\ r.told = q.told
      /\ r.after = q.after /\ q.size \in Nat
  BY <1>1 DEF Queue
<1>3. ~ ReceiveFails(q)
  BY <1>2 DEF ReceiveFails, Sound
<1>4. Received(q) = IF q.size = 0 /\ q.stateSend = "READY" THEN InService(r) ELSE r
  BY DEF Received
<1> HIDE DEF r
<1>5. CASE q.size = 0 /\ q.stateSend = "READY"
  BY <1>2, <1>3, <1>4, <1>5, InServiceFields DEF Sound
<1>6. CASE ~ (q.size = 0 /\ q.stateSend = "READY")
  <2>1. r.sending <=> q.sending
    BY <1>2
  <2>2. Sound(r)
    BY <1>2, <1>6, <2>1 DEF Sound
  <2> QED BY <1>2, <1>3, <1>4, <1>6, <2>2
<1> QED BY <1>5, <1>6

LEMMA ServedSound ==
  ASSUME NEW q, Sound(q), q.sending
  PROVE  /\ q.size > 0
         /\ Sound(Served(q)) /\ Served(q).size = q.size - 1
         /\ Served(q).stateRecv = q.stateRecv
         /\ q.stateSend # "PAUSED"
         /\ Served(q).stateSend = IF q.stateSend = "READY" THEN "READY" ELSE "PAUSED"
<1> DEFINE r == [q EXCEPT !.size = @ - 1, !.sending = FALSE, !.after = SentAfter(q),
                          !.stateSend = IF @ = "PAUSE_RECEIVED" THEN "PAUSED" ELSE @]
<1>1. q \in Queue /\ q.size \in Nat /\ q.stateSend \in {"READY", "PAUSED", "PAUSE_RECEIVED"}
  BY DEF Sound, Queue
<1>2. q.size > 0 /\ q.stateSend # "PAUSED"
  BY <1>1 DEF Sound
<1>3. SentAfter(q) \in Nat /\ (q.stateSend = "PAUSE_RECEIVED" => SentAfter(q) <= 1)
  BY <1>1 DEF SentAfter, Sound, Queue
<1>4. /\ r \in Queue /\ r.size = q.size - 1 /\ r.stateRecv = q.stateRecv
      /\ r.sending = FALSE /\ r.told = q.told /\ r.after = SentAfter(q)
      /\ r.stateSend = IF q.stateSend = "PAUSE_RECEIVED" THEN "PAUSED" ELSE q.stateSend
  <2> DEFINE v == IF q.stateSend = "PAUSE_RECEIVED" THEN "PAUSED" ELSE q.stateSend
  <2>1. v \in {"READY", "PAUSED", "PAUSE_RECEIVED"} /\ q.size - 1 \in Nat
    BY <1>1, <1>2
  <2>2. r = [q EXCEPT !.size = q.size - 1, !.sending = FALSE, !.after = SentAfter(q),
                      !.stateSend = v]
    OBVIOUS
  <2> HIDE DEF r, v
  <2>3. r \in Queue
    BY <1>1, <1>3, <2>1, <2>2 DEF Queue
  <2>4. /\ r.size = q.size - 1 /\ r.stateRecv = q.stateRecv /\ r.told = q.told
        /\ r.after = SentAfter(q) /\ r.stateSend = v
    BY <1>1, <2>2 DEF Queue
  <2>5. r.sending = FALSE
    BY <1>1, <2>2 DEF Queue
  <2> QED BY <2>3, <2>4, <2>5 DEF v
<1>5. Served(q) = IF r.stateSend = "READY" THEN InService(r) ELSE r
  BY DEF Served
<1> HIDE DEF r
<1>6. CASE q.stateSend = "READY"
  <2>1. ~ q.told
    BY <1>6 DEF Sound
  <2> QED BY <1>1, <1>2, <1>4, <1>5, <1>6, <2>1, InServiceFields DEF Sound
<1>7. CASE q.stateSend = "PAUSE_RECEIVED"
  BY <1>1, <1>2, <1>3, <1>4, <1>5, <1>7 DEF Sound
<1> QED BY <1>1, <1>2, <1>6, <1>7

-----------------------------------------------------------------------------
(* Every queue keeps the protocol, and no assert has failed. *)
Protocol ==
  /\ traffic \in Traffics
  /\ port \in [Port -> Queue] /\ remote \in [Port -> Queue]
  /\ pipe \in [Port -> 0 .. 1]
  /\ aborted = FALSE
  /\ \A p \in Port : Sound(port[p]) /\ Sound(remote[p])

LEMMA HotPorts ==
  ASSUME Protocol
  PROVE  traffic.hot \subseteq Port /\ traffic.slow \subseteq Port
  BY LosslessSwitchAssumption DEF Protocol, Traffic

LEMMA ProtocolInit == SwitchInit => Protocol
  BY NewQueueSound DEF SwitchInit, Protocol, Sound

LEMMA PauseKeepsProtocol ==
  ASSUME Protocol, NEW d \in Port
  PROVE  /\ SendPause(d) \in [Port -> Queue]
         /\ \A p \in Port : Sound(SendPause(d)[p])
  BY PausedSound DEF Protocol, SendPause, Sound

LEMMA ResumeKeepsProtocol ==
  ASSUME Protocol, NEW d \in Port
  PROVE  /\ SendResume(d, remote) \in [Port -> Queue]
         /\ \A p \in Port : Sound(SendResume(d, remote)[p])
         /\ ~ ResumeFails(d, remote)
  BY ResumedSound DEF Protocol, SendResume, ResumeFails, Restarts, Sound

LEMMA ProtocolStep ==
  ASSUME Protocol, [SwitchNext]_switchVars
  PROVE  Protocol'
<1>1. ASSUME NEW p \in Port, Offer(p) PROVE Protocol'
  BY <1>1, ReceivedSound DEF Offer, Protocol, Sound
<1>2. ASSUME NEW p \in Port, RemoteCompletesService(p) PROVE Protocol'
  <2>1. port[p] \in Queue /\ remote[p].size > 0 /\ Sound(Served(remote[p]))
    BY <1>2, ServedSound DEF RemoteCompletesService, Protocol
  <2>2. /\ remote' = [remote EXCEPT ![p] = Served(remote[p])]
        /\ pipe' = [pipe EXCEPT ![p] = 1]
        /\ UNCHANGED <<traffic, port>> /\ aborted' = FALSE
    <3>1. (remote[p].size = 0) = FALSE
      BY <2>1 DEF Protocol, Queue
    <3> QED BY <1>2, <3>1 DEF RemoteCompletesService
  <2> QED BY <2>1, <2>2 DEF Protocol, Sound
<1>3. ASSUME NEW p \in Port, NEW d \in traffic.hot, ReceivePacket(p, d) PROVE Protocol'
  <2>1. d \in Port
    BY HotPorts
  <2>2. Sound(Received(port[d])) /\ ~ ReceiveFails(port[d])
    BY <2>1, ReceivedSound DEF Protocol
  <2>3. Sound([Received(port[d]) EXCEPT !.stateRecv = "PAUSED"])
    BY <2>2 DEF Sound, Queue
  <2>4. UNCHANGED traffic /\ aborted' = FALSE /\ pipe' \in [Port -> 0 .. 1]
    BY <1>3, <2>2 DEF ReceivePacket, Protocol
  <2>5. port' \in [Port -> Queue] /\ \A q \in Port : Sound(port'[q])
    <3>1. PICK r : Sound(r) /\ port' = [port EXCEPT ![d] = r]
      BY <1>3, <2>2, <2>3 DEF ReceivePacket
    <3> QED BY <2>1, <3>1 DEF Protocol, Sound
  <2>6. remote' \in [Port -> Queue] /\ \A q \in Port : Sound(remote'[q])
    BY <1>3, <2>1, PauseKeepsProtocol DEF ReceivePacket, Protocol
  <2> QED BY <2>4, <2>5, <2>6 DEF Protocol
<1>4. ASSUME NEW d \in traffic.hot, CompleteService(d) PROVE Protocol'
  <2>1. d \in Port
    BY HotPorts
  <2>2. port[d].size > 0 /\ Sound(Served(port[d]))
    BY <1>4, <2>1, ServedSound DEF Protocol, CompleteService
  <2>3. Sound([Served(port[d]) EXCEPT !.stateRecv = "READY"])
    BY <2>2 DEF Sound, Queue
  <2>4. UNCHANGED <<traffic, pipe>> /\ port[d].size # 0
    BY <1>4, <2>2 DEF CompleteService
  <2>5. port' \in [Port -> Queue] /\ \A q \in Port : Sound(port'[q])
    <3>1. PICK r : Sound(r) /\ port' = [port EXCEPT ![d] = r]
      BY <1>4, <2>2, <2>3, <2>4 DEF CompleteService
    <3> QED BY <2>1, <3>1 DEF Protocol, Sound
  <2>6. /\ remote' \in [Port -> Queue] /\ \A q \in Port : Sound(remote'[q])
        /\ aborted' = FALSE
    <3>1. CASE Drained(d)
      <4>1. remote' = SendResume(d, remote) /\ aborted' = ResumeFails(d, remote)
        BY <1>4, <2>4, <3>1 DEF CompleteService
      <4>2. ~ ResumeFails(d, remote)
        BY <2>1, ResumeKeepsProtocol
      <4> QED BY <2>1, <4>1, <4>2, ResumeKeepsProtocol
    <3>2. CASE ~ Drained(d)
      BY <1>4, <2>4, <3>2 DEF CompleteService, Protocol
    <3> QED BY <3>1, <3>2
  <2> QED BY <2>4, <2>5, <2>6 DEF Protocol
<1>5. ASSUME NEW d \in traffic.slow, ReceivePause(d) PROVE Protocol'
  BY <1>5, HotPorts, PausedSound DEF ReceivePause, Protocol, Sound
<1>6. ASSUME NEW d \in traffic.slow, ReceiveResume(d) PROVE Protocol'
  <2>1. d \in Port /\ Sound(Resumed(port[d])) /\ ~ (Restarts(port[d]) /\ port[d].sending)
    BY HotPorts, ResumedSound DEF Protocol, Restarts
  <2> QED BY <1>6, <2>1 DEF ReceiveResume, Protocol, Sound
<1>7. CASE UNCHANGED switchVars
  BY <1>7 DEF switchVars, Protocol
<1> QED BY <1>1, <1>2, <1>3, <1>4, <1>5, <1>6, <1>7 DEF SwitchNext

THEOREM ProtocolKept == SwitchSpec => []Protocol
  BY ProtocolInit, ProtocolStep, PTL DEF SwitchSpec

(* For any number of ports and pattern of traffic, no wake-up is lost and  *)
(* no assert fails, however PAUSEs and their ends interleave.              *)
THEOREM NoWakeupLost == SwitchSpec => []NoLostWakeup
<1>1. Protocol => NoLostWakeup
  BY DEF Protocol, Sound, NoLostWakeup, SwitchTypeOK
<1> QED BY <1>1, ProtocolKept, PTL

(* At most one packet leaves a queue after a PAUSE. *)
THEOREM OneMoreAtMost == SwitchSpec => []OneMore
<1>1. Protocol => OneMore
  BY DEF Protocol, Sound, Queue, OneMore
<1> QED BY <1>1, ProtocolKept, PTL

-----------------------------------------------------------------------------
(* The packets that can still come to port d after its PAUSE: those in the *)
(* pipes, and those that were in service when it came.                     *)
InPipe(d) == {p \in Port \ {d} : pipe[p] = 1}
Finishing(d) == {p \in Port \ {d} : remote[p].stateSend = "PAUSE_RECEIVED"}

Room(d) ==
  /\ port[d].stateRecv # "PAUSED" => port[d].size <= HighThreshold
  /\ port[d].stateRecv = "PAUSED" =>
       /\ \A p \in Port \ {d} : remote[p].stateSend # "READY"
       /\ port[d].size + Cardinality(InPipe(d)) + Cardinality(Finishing(d)) <= MaxSize

(* Ports that no packet is routed to stay empty. *)
Headroom ==
  /\ \A p \in Port \ traffic.hot : port[p].size = 0
  /\ \A d \in Port : traffic.hot = {d} => Room(d)

LEMMA Thresholds ==
  /\ IsFiniteSet(Port) /\ Cardinality(Port) \in Nat
  /\ MaxSize \in Nat /\ HighThreshold \in Nat /\ HighThreshold > 2
  /\ HighThreshold = MaxSize - 2 * Cardinality(Port)
<1>1. IsFiniteSet(Port) /\ MaxSize \in Nat
  BY LosslessSwitchAssumption
<1>2. Cardinality(Port) \in Nat
  BY <1>1, FS_CardinalityType
<1> QED BY <1>1, <1>2, ThresholdAssumption DEF HighThreshold, LowThreshold

LEMMA OtherPorts ==
  ASSUME NEW d \in Port, NEW S \in SUBSET (Port \ {d})
  PROVE  /\ IsFiniteSet(S) /\ Cardinality(S) \in Nat
         /\ Cardinality(S) <= Cardinality(Port) - 1
         /\ \A p \in Port \ {d} :
              /\ p \notin S => Cardinality(S \cup {p}) = Cardinality(S) + 1
              /\ p \in S => Cardinality(S \ {p}) = Cardinality(S) - 1
<1>1. IsFiniteSet(Port)
  BY Thresholds
<1>2. IsFiniteSet(Port \ {d}) /\ Cardinality(Port \ {d}) = Cardinality(Port) - 1
  BY <1>1, FS_RemoveElement
<1>3. IsFiniteSet(S) /\ Cardinality(S) <= Cardinality(Port \ {d})
  BY <1>2, FS_Subset
<1> QED BY <1>2, <1>3, FS_CardinalityType, FS_AddElement, FS_RemoveElement

LEMMA HeadroomInit == SwitchInit => Headroom
  BY Thresholds DEF SwitchInit, Headroom, Room, NewQueue

(* What changes at the other ports while port d and its state stay.        *)
LEMMA OfferKeepsRoom ==
  ASSUME Protocol, NEW d \in Port, Room(d), NEW p \in Port, Offer(p)
  PROVE  Room(d)'
<1>1. /\ remote' = [remote EXCEPT ![p] = Received(remote[p])]
      /\ UNCHANGED <<port, pipe>>
  BY DEF Offer
<1>2. \A q \in Port : remote'[q].stateSend = remote[q].stateSend
  BY <1>1, ReceivedSound DEF Protocol
<1>3. InPipe(d)' = InPipe(d) /\ Finishing(d)' = Finishing(d)
  BY <1>1, <1>2 DEF InPipe, Finishing
<1> QED BY <1>1, <1>2, <1>3 DEF Room

(* A packet that was in service when the PAUSE came is in the pipe.        *)
LEMMA RemoteKeepsRoom ==
  ASSUME Protocol, NEW d \in Port, Room(d), NEW p \in Port, RemoteCompletesService(p)
  PROVE  Room(d)'
<1>1. /\ Sound(remote[p]) /\ remote[p].sending /\ pipe[p] = 0 /\ remote[p].size > 0
      /\ remote' = [remote EXCEPT ![p] = Served(remote[p])]
      /\ pipe' = [pipe EXCEPT ![p] = 1]
      /\ UNCHANGED port
  BY ServedSound DEF RemoteCompletesService, Protocol
<1>2. /\ remote \in [Port -> Queue] /\ pipe \in [Port -> 0 .. 1]
      /\ remote[p].stateSend # "PAUSED" /\ remote[p] \in Queue
      /\ remote'[p].stateSend = IF remote[p].stateSend = "READY" THEN "READY" ELSE "PAUSED"
      /\ pipe'[p] = 1
      /\ \A q \in Port \ {p} : remote'[q] = remote[q] /\ pipe'[q] = pipe[q]
  BY <1>1, ServedSound DEF Protocol
<1>3. CASE p = d
  <2>1. InPipe(d)' = InPipe(d) /\ Finishing(d)' = Finishing(d)
    BY <1>2, <1>3 DEF InPipe, Finishing
  <2> QED BY <1>1, <1>2, <1>3, <2>1 DEF Room
<1>4. CASE p # d /\ port[d].stateRecv = "PAUSED"
  <2>1. remote[p].stateSend = "PAUSE_RECEIVED" /\ remote'[p].stateSend = "PAUSED"
    BY <1>2, <1>4 DEF Room, Queue
  <2>2. p \in Finishing(d) /\ Finishing(d)' = Finishing(d) \ {p}
    BY <1>2, <1>4, <2>1 DEF Finishing
  <2>3. p \notin InPipe(d) /\ InPipe(d)' = InPipe(d) \cup {p}
    BY <1>1, <1>2, <1>4 DEF InPipe
  <2>4. InPipe(d) \in SUBSET (Port \ {d}) /\ Finishing(d) \in SUBSET (Port \ {d})
    BY DEF InPipe, Finishing
  <2>5. /\ Cardinality(InPipe(d)) \in Nat /\ Cardinality(Finishing(d)) \in Nat
        /\ Cardinality(Finishing(d)') = Cardinality(Finishing(d)) - 1
        /\ Cardinality(InPipe(d)') = Cardinality(InPipe(d)) + 1
    BY <1>4, <2>2, <2>3, <2>4, OtherPorts
  <2>6. port[d].size \in Nat
    BY DEF Protocol, Queue
  <2>7. \A q \in Port \ {d} : remote'[q].stateSend # "READY"
    BY <1>2, <1>4, <2>1 DEF Room
  <2> QED BY <1>1, <1>4, <2>5, <2>6, <2>7, Thresholds DEF Room
<1>5. CASE port[d].stateRecv # "PAUSED"
  BY <1>1, <1>5 DEF Room
<1> QED BY <1>3, <1>4, <1>5

(* A packet that arrives was in a pipe; when it takes the queue over the   *)
(* threshold, all that can follow is two packets of each other neighbour.  *)
LEMMA ArrivalKeepsRoom ==
  ASSUME Protocol, NEW d \in Port, traffic.hot = {d}, Room(d),
         NEW p \in Port, ReceivePacket(p, d)
  PROVE  Room(d)'
<1>1. /\ p # d /\ pipe[p] = 1
      /\ pipe' = [pipe EXCEPT ![p] = 0]
  <2>1. pipe[p] \in 0 .. 1 /\ pipe[p] > 0 /\ p # d /\ pipe' = [pipe EXCEPT ![p] = pipe[p] - 1]
    BY DEF ReceivePacket, Protocol
  <2>2. pipe[p] = 1 /\ pipe[p] - 1 = 0
    BY <2>1
  <2> QED BY <2>1, <2>2
<1>2. /\ port[d].size \in Nat /\ port[d].stateRecv \in {"READY", "PAUSED"}
      /\ Received(port[d]).size = port[d].size + 1
      /\ Received(port[d]).stateRecv = port[d].stateRecv
      /\ Received(port[d]) \in Queue
      /\ Sound(Received(port[d]))
  <2>1. port[d] \in Queue /\ Sound(port[d])
    BY DEF Protocol
  <2> QED BY <2>1, ReceivedSound DEF Queue, Sound
<1>3. InPipe(d)' = InPipe(d) \ {p} /\ p \in InPipe(d)
  BY <1>1 DEF InPipe, Protocol
<1>4. /\ InPipe(d) \in SUBSET (Port \ {d}) /\ InPipe(d)' \in SUBSET (Port \ {d})
      /\ Finishing(d) \in SUBSET (Port \ {d}) /\ Finishing(d)' \in SUBSET (Port \ {d})
  BY DEF InPipe, Finishing
<1>5. /\ Cardinality(InPipe(d)) \in Nat /\ Cardinality(InPipe(d)') \in Nat
      /\ Cardinality(Finishing(d)) \in Nat /\ Cardinality(Finishing(d)') \in Nat
      /\ Cardinality(InPipe(d)') = Cardinality(InPipe(d)) - 1
      /\ Cardinality(InPipe(d)') <= Cardinality(Port) - 1
      /\ Cardinality(Finishing(d)') <= Cardinality(Port) - 1
  BY <1>1, <1>3, <1>4, OtherPorts
<1>6. CASE Crosses(d, port[d].size + 1)
  <2>1. /\ port' = [port EXCEPT ![d] = [Received(port[d]) EXCEPT !.stateRecv = "PAUSED"]]
        /\ remote' = SendPause(d)
    BY <1>6 DEF ReceivePacket
  <2>2. port'[d].size = port[d].size + 1 /\ port'[d].stateRecv = "PAUSED"
    BY <1>2, <2>1 DEF Protocol, Queue
  <2>3. \A q \in Port \ {d} : remote'[q].stateSend # "READY"
    BY <2>1, PausedSound DEF Protocol, SendPause
  <2>4. port[d].size <= HighThreshold
    BY <1>6 DEF Crosses, Room
  <2> QED BY <1>2, <1>5, <2>2, <2>3, <2>4, Thresholds DEF Room
<1>7. CASE ~ Crosses(d, port[d].size + 1)
  <2>1. port' = [port EXCEPT ![d] = Received(port[d])] /\ remote' = remote
    BY <1>7 DEF ReceivePacket
  <2>2. port'[d].size = port[d].size + 1 /\ port'[d].stateRecv = port[d].stateRecv
    BY <1>2, <2>1 DEF Protocol
  <2>3. Finishing(d)' = Finishing(d)
    BY <2>1 DEF Finishing
  <2>4. port[d].stateRecv # "PAUSED" => port[d].size + 1 <= HighThreshold
    BY <1>2, <1>7, Thresholds DEF Crosses
  <2> QED BY <1>2, <1>5, <2>1, <2>2, <2>3, <2>4, Thresholds DEF Room
<1> QED BY <1>6, <1>7

LEMMA DepartureKeepsRoom ==
  ASSUME Protocol, NEW d \in Port, Room(d), CompleteService(d)
  PROVE  Room(d)'
<1>1. /\ port[d] \in Queue /\ port[d].size \in Nat /\ port[d].size > 0
      /\ port[d].stateRecv \in {"READY", "PAUSED"}
      /\ Served(port[d]).size = port[d].size - 1
      /\ Served(port[d]).stateRecv = port[d].stateRecv
      /\ Served(port[d]) \in Queue
  <2>1. port[d] \in Queue /\ Sound(port[d]) /\ port[d].sending
    BY DEF Protocol, CompleteService
  <2> QED BY <2>1, ServedSound DEF Queue, Sound
<1>2. CASE Drained(d)
  <2>1. port' = [port EXCEPT ![d] = [Served(port[d]) EXCEPT !.stateRecv = "READY"]]
    BY <1>1, <1>2 DEF CompleteService
  <2>2. port'[d].size = port[d].size - 1 /\ port'[d].stateRecv = "READY"
    BY <1>1, <2>1 DEF Protocol, Queue
  <2>3. port[d].size - 1 < 2
    BY <1>2 DEF Drained, LowThreshold
  <2> QED BY <1>1, <2>2, <2>3, Thresholds DEF Room
<1>3. CASE ~ Drained(d)
  <2>1. /\ port' = [port EXCEPT ![d] = Served(port[d])] /\ remote' = remote
        /\ pipe' = pipe
    BY <1>1, <1>3 DEF CompleteService
  <2>2. port'[d].size = port[d].size - 1 /\ port'[d].stateRecv = port[d].stateRecv
    BY <1>1, <2>1 DEF Protocol
  <2>3. InPipe(d)' = InPipe(d) /\ Finishing(d)' = Finishing(d)
    BY <2>1 DEF InPipe, Finishing
  <2>4. Cardinality(InPipe(d)) \in Nat /\ Cardinality(Finishing(d)) \in Nat
    <3>1. InPipe(d) \in SUBSET (Port \ {d}) /\ Finishing(d) \in SUBSET (Port \ {d})
      BY DEF InPipe, Finishing
    <3> QED BY <3>1, OtherPorts
  <2> QED BY <1>1, <2>1, <2>2, <2>3, <2>4, Thresholds DEF Room
<1> QED BY <1>2, <1>3

LEMMA HeadroomStep ==
  ASSUME Protocol, Headroom, [SwitchNext]_switchVars
  PROVE  Headroom'
<1>1. traffic' = traffic
  BY DEF SwitchNext, switchVars, Offer, RemoteCompletesService, ReceivePacket, CompleteService,
         ReceivePause, ReceiveResume
<1>2. \A p \in Port \ traffic.hot : port'[p].size = 0
  <2>1. ASSUME NEW p \in Port, NEW d \in traffic.hot, ReceivePacket(p, d) \/ CompleteService(d)
        PROVE  \A q \in Port \ traffic.hot : port'[q] = port[q]
    BY <2>1, HotPorts DEF ReceivePacket, CompleteService, Protocol
  <2>2. ASSUME NEW d \in traffic.slow, ReceivePause(d) \/ ReceiveResume(d)
        PROVE  \A q \in Port : port'[q].size = port[q].size
    BY <2>2, HotPorts, PausedSound, ResumedSound DEF ReceivePause, ReceiveResume, Protocol
  <2>3. ASSUME NEW p \in Port, Offer(p) \/ RemoteCompletesService(p)
        PROVE  port' = port
    BY <2>3 DEF Offer, RemoteCompletesService
  <2> QED BY <2>1, <2>2, <2>3, HotPorts DEF SwitchNext, switchVars, Headroom
<1>3. ASSUME NEW d \in Port, traffic.hot = {d}
      PROVE  Room(d)'
  <2>1. Room(d)
    BY <1>3 DEF Headroom
  <2>2. ASSUME NEW p \in Port, Offer(p) \/ RemoteCompletesService(p)
        PROVE  Room(d)'
    BY <2>1, <2>2, OfferKeepsRoom, RemoteKeepsRoom
  <2>3. ASSUME NEW p \in Port, NEW e \in traffic.hot, ReceivePacket(p, e)
        PROVE  Room(d)'
    BY <1>3, <2>1, <2>3, ArrivalKeepsRoom
  <2>4. ASSUME NEW e \in traffic.hot, CompleteService(e)
        PROVE  Room(d)'
    BY <1>3, <2>1, <2>4, DepartureKeepsRoom
  <2>5. ASSUME NEW e \in traffic.slow, ReceivePause(e) \/ ReceiveResume(e)
        PROVE  Room(d)'
    <3>1. /\ port'[d].size = port[d].size /\ port'[d].stateRecv = port[d].stateRecv
          /\ remote' = remote /\ pipe' = pipe
      BY <2>5, HotPorts, PausedSound, ResumedSound
         DEF ReceivePause, ReceiveResume, Protocol
    <3>2. InPipe(d)' = InPipe(d) /\ Finishing(d)' = Finishing(d)
      BY <3>1 DEF InPipe, Finishing
    <3> QED BY <2>1, <3>1, <3>2 DEF Room
  <2>6. CASE UNCHANGED switchVars
    BY <2>1, <2>6 DEF switchVars, Room, InPipe, Finishing
  <2> QED BY <2>2, <2>3, <2>4, <2>5, <2>6 DEF SwitchNext
<1> QED BY <1>1, <1>2, <1>3 DEF Headroom

(* With a single hot port no queue of the switch outgrows its buffer, for  *)
(* any number of ports, buffer size and interleaving of PAUSEs.            *)
THEOREM LosslessWithOneHotPort == SwitchSpec => []LosslessOneHot
<1>1. Protocol /\ Headroom => LosslessOneHot
  <2> SUFFICES ASSUME Protocol, Headroom, OneHot, NEW d \in Port
               PROVE  port[d].size <= MaxSize
    BY DEF LosslessOneHot, Lossless
  <2>1. CASE d \notin traffic.hot
    BY <2>1, Thresholds DEF Headroom
  <2>2. CASE d \in traffic.hot
    <3>1. traffic.hot = {d}
      <4>1. IsFiniteSet(traffic.hot)
        BY HotPorts, Thresholds, FS_Subset
      <4>2. \E x : traffic.hot = {x}
        BY <4>1, FS_Singleton DEF OneHot
      <4> QED BY <2>2, <4>2
    <3>2. Room(d) /\ port[d].size \in Nat
      BY <3>1 DEF Headroom, Protocol, Queue
    <3>3. Cardinality(InPipe(d)) \in Nat /\ Cardinality(Finishing(d)) \in Nat
      <4>1. InPipe(d) \in SUBSET (Port \ {d}) /\ Finishing(d) \in SUBSET (Port \ {d})
        BY DEF InPipe, Finishing
      <4> QED BY <4>1, OtherPorts
    <3> QED BY <3>2, <3>3, Thresholds DEF Room
  <2> QED BY <2>1, <2>2
<1>2. SwitchInit => Headroom
  BY HeadroomInit
<1>3. Protocol /\ Headroom /\ [SwitchNext]_switchVars => Headroom'
  BY HeadroomStep
<1> QED BY <1>1, <1>2, <1>3, ProtocolKept, PTL DEF SwitchSpec
=============================================================================
