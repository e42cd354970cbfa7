--------------------------- MODULE SequenceLemmas ---------------------------
(***************************************************************************)
(* Lemmas on the operators of the community modules that the models use,   *)
(* for the proof modules: Min and Max, InsertAt and RemoveAt, on ascending  *)
(* sequences, and how many elements of a sequence are of a kind.           *)
(***************************************************************************)
EXTENDS SequencesExt, SequenceTheorems, FiniteSetTheorems,
        WellFoundedInduction, TLAPS

(* A nonempty set of naturals has a least element, and Min chooses it. *)
LEMMA MinProperties ==
  ASSUME NEW T \in SUBSET Nat, T # {}
  PROVE  Min(T) \in T /\ \A y \in T : Min(T) <= y
<1> DEFINE R == OpToRel(<, Nat)
<1>1. \E x \in T : \A y \in T : ~ (<<y, x>> \in R)
  <2> HIDE DEF R
  <2>1. IsWellFoundedOn(R, Nat)
    BY NatLessThanWellFounded DEF R
  <2> QED BY <2>1, WFMin
<1>2. \A x, y \in Nat : <<y, x>> \in R <=> y < x
  BY Zenon DEF OpToRel
<1> HIDE DEF R
<1>3. PICK x \in T : \A y \in T : ~ (<<y, x>> \in R)
  BY <1>1
<1>4. \A y \in T : x <= y
  <2> SUFFICES ASSUME NEW y \in T PROVE x <= y
    OBVIOUS
  <2>1. x \in Nat /\ y \in Nat /\ ~ (y < x)
    BY <1>2, <1>3
  <2> QED BY <2>1
<1> QED BY <1>4 DEF Min

(* What holds of 0, and of each number up to n if it holds of the one      *)
(* before, holds of all of them.                                           *)
LEMMA UpTo ==
  ASSUME NEW n \in Nat, NEW P, 0 \in P,
         \A k \in 1 .. n : k - 1 \in P => k \in P
  PROVE  \A k \in 0 .. n : k \in P
<1> DEFINE W == {k \in 0 .. n : k \notin P}
<1> SUFFICES ASSUME W # {} PROVE FALSE
  OBVIOUS
<1>1. W \in SUBSET Nat
  OBVIOUS
<1>2. PICK m \in W : \A k \in W : m <= k
  <2> HIDE DEF W
  <2> QED BY <1>1, MinProperties
<1>3. m \in 1 .. n /\ m - 1 \in 0 .. n
  BY <1>2
<1>4. m - 1 \notin W
  <2> HIDE DEF W
  <2> QED BY <1>2, <1>3
<1> QED BY <1>2, <1>3, <1>4

(* f holds what n steps make of a: step[k] is the k-th one. *)
Iterated(f, n, S, a, step) ==
  f \in [0 .. n -> S] /\ f[0] = a /\ \A k \in 1 .. n : f[k] = step[k][f[k - 1]]

(* Steps from a set to itself can be taken one after the other. *)
LEMMA Iterates ==
  ASSUME NEW n \in Nat, NEW S, NEW a \in S, NEW step,
         \A k \in 1 .. n : \A p \in S : step[k][p] \in S
  PROVE  \E f : Iterated(f, n, S, a, step)
<1> DEFINE P == {m \in 0 .. n : \E f : Iterated(f, m, S, a, step)}
<1>1. 0 \in P
  <2>1. Iterated([k \in 0 .. 0 |-> a], 0, S, a, step)
    BY DEF Iterated
  <2> QED BY <2>1
<1>2. ASSUME NEW m \in 1 .. n, m - 1 \in P PROVE m \in P
  <2>1. PICK f : Iterated(f, m - 1, S, a, step)
    BY <1>2
  <2> DEFINE g == [k \in 0 .. m |-> IF k = m THEN step[m][f[m - 1]] ELSE f[k]]
  <2>2. /\ f \in [0 .. m - 1 -> S] /\ f[0] = a
        /\ \A k \in 1 .. m - 1 : f[k] = step[k][f[k - 1]]
    BY <2>1 DEF Iterated
  <2>3. g \in [0 .. m -> S]
    <3>1. f[m - 1] \in S /\ step[m][f[m - 1]] \in S
      BY <2>2
    <3>2. \A k \in 0 .. m : k # m => k \in 0 .. m - 1
      OBVIOUS
    <3> QED BY <2>2, <3>1, <3>2
  <2>4. ASSUME NEW k \in 1 .. m PROVE g[k] = step[k][g[k - 1]]
    <3>1. k - 1 \in 0 .. m - 1 /\ g[k - 1] = f[k - 1]
      OBVIOUS
    <3>2. CASE k = m
      BY <3>1, <3>2
    <3>3. CASE k # m
      <4>1. k \in 1 .. m - 1 /\ g[k] = f[k]
        BY <3>3
      <4> QED BY <2>2, <3>1, <4>1
    <3> QED BY <3>2, <3>3
  <2>5. g[0] = a
    BY <2>2
  <2>6. Iterated(g, m, S, a, step)
    <3> HIDE DEF g
    <3> QED BY <2>3, <2>4, <2>5 DEF Iterated
  <2> QED BY <2>6
<1> HIDE DEF P
<1>3. \A k \in 0 .. n : k \in P
  BY <1>1, <1>2, UpTo
<1> QED BY <1>3 DEF P

(* InsertAt moves the elements from position k on up by one. *)
LEMMA InsertAtProperties ==
  ASSUME NEW S, NEW p \in Seq(S), NEW e \in S, NEW k \in 1 .. Len(p) + 1
  PROVE  /\ InsertAt(p, k, e) \in Seq(S)
         /\ Len(InsertAt(p, k, e)) = Len(p) + 1
         /\ \A i \in 1 .. Len(p) + 1 :
              InsertAt(p, k, e)[i] = IF i < k THEN p[i]
                                     ELSE IF i = k THEN e ELSE p[i - 1]
<1> DEFINE a == SubSeq(p, 1, k - 1)
           b == SubSeq(p, k, Len(p))
           c == a \o <<e>>
<1>1. /\ a \in Seq(S) /\ Len(a) = k - 1
      /\ \A i \in 1 .. k - 1 : a[i] = p[i]
  BY SubSeqProperties
<1>2. /\ b \in Seq(S) /\ Len(b) = Len(p) + 1 - k
      /\ \A i \in 1 .. Len(p) + 1 - k : b[i] = p[k + i - 1]
  BY SubSeqProperties
<1>3. <<e>> \in Seq(S) /\ Len(<<e>>) = 1 /\ <<e>>[1] = e
  OBVIOUS
<1>4. /\ c \in Seq(S) /\ Len(c) = k
      /\ \A i \in 1 .. k : c[i] = IF i < k THEN p[i] ELSE e
  BY <1>1, <1>3, ConcatProperties
<1>5. InsertAt(p, k, e) = c \o b
  BY DEF InsertAt
<1> HIDE DEF a, b, c
<1>6. /\ c \o b \in Seq(S)
      /\ Len(c \o b) = Len(c) + Len(b)
      /\ \A i \in 1 .. Len(c) + Len(b) :
           (c \o b)[i] = IF i <= Len(c) THEN c[i] ELSE b[i - Len(c)]
  BY <1>2, <1>4, ConcatProperties
<1>7. Len(c) + Len(b) = Len(p) + 1
  BY <1>2, <1>4
<1>8. ASSUME NEW i \in 1 .. Len(p) + 1
      PROVE  (c \o b)[i] = IF i < k THEN p[i] ELSE IF i = k THEN e ELSE p[i - 1]
  <2>1. (c \o b)[i] = IF i <= k THEN c[i] ELSE b[i - k]
    BY <1>4, <1>6, <1>7
  <2>2. CASE i <= k
    BY <1>4, <2>1, <2>2
  <2>3. CASE ~ (i <= k)
    <3>1. i - k \in 1 .. Len(p) + 1 - k /\ k + (i - k) - 1 = i - 1
      BY <2>3
    <3> QED BY <1>2, <2>1, <2>3, <3>1
  <2> QED BY <2>2, <2>3
<1> QED BY <1>5, <1>6, <1>7, <1>8

(* RemoveAt moves the elements behind position k down by one. *)
LEMMA RemoveAtProperties ==
  ASSUME NEW S, NEW p \in Seq(S), NEW k \in 1 .. Len(p)
  PROVE  /\ RemoveAt(p, k) \in Seq(S)
         /\ Len(RemoveAt(p, k)) = Len(p) - 1
         /\ \A i \in 1 .. Len(p) - 1 :
              RemoveAt(p, k)[i] = IF i < k THEN p[i] ELSE p[i + 1]
<1> DEFINE a == SubSeq(p, 1, k - 1)
           b == SubSeq(p, k + 1, Len(p))
<1>1. /\ a \in Seq(S) /\ Len(a) = k - 1
      /\ \A i \in 1 .. k - 1 : a[i] = p[i]
  BY SubSeqProperties
<1>2. /\ b \in Seq(S) /\ Len(b) = Len(p) - k
      /\ \A i \in 1 .. Len(p) - k : b[i] = p[k + i]
  BY SubSeqProperties
<1>3. RemoveAt(p, k) = a \o b
  BY DEF RemoveAt
<1> HIDE DEF a, b
<1>4. /\ a \o b \in Seq(S)
      /\ Len(a \o b) = Len(a) + Len(b)
      /\ \A i \in 1 .. Len(a) + Len(b) :
           (a \o b)[i] = IF i <= Len(a) THEN a[i] ELSE b[i - Len(a)]
  BY <1>1, <1>2, ConcatProperties
<1>5. Len(a) + Len(b) = Len(p) - 1
  BY <1>1, <1>2
<1>6. ASSUME NEW i \in 1 .. Len(p) - 1
      PROVE  (a \o b)[i] = IF i < k THEN p[i] ELSE p[i + 1]
  <2>1. (a \o b)[i] = IF i <= k - 1 THEN a[i] ELSE b[i - (k - 1)]
    BY <1>1, <1>4, <1>5
  <2>2. CASE i < k
    BY <1>1, <2>1, <2>2
  <2>3. CASE ~ (i < k)
    <3>1. i - (k - 1) \in 1 .. Len(p) - k /\ k + (i - (k - 1)) = i + 1
      BY <2>3
    <3> QED BY <1>2, <2>1, <2>3, <3>1
  <2> QED BY <2>2, <2>3
<1> QED BY <1>3, <1>4, <1>5, <1>6

-----------------------------------------------------------------------------
(* The larger and the smaller one of two numbers. *)
LEMMA MaxOfTwo ==
  ASSUME NEW a \in Int, NEW b \in Int
  PROVE  Max({a, b}) = IF a >= b THEN a ELSE b
<1> DEFINE m == IF a >= b THEN a ELSE b
<1>1. \A x \in {a, b} : (\A y \in {a, b} : x >= y) <=> x = m
  OBVIOUS
<1>2. m \in {a, b}
  OBVIOUS
<1> HIDE DEF m
<1>3. (CHOOSE x \in {a, b} : \A y \in {a, b} : x >= y) = m
  BY <1>1, <1>2
<1> QED BY <1>3 DEF Max, m

LEMMA MinOfTwo ==
  ASSUME NEW a \in Int, NEW b \in Int
  PROVE  Min({a, b}) = IF a <= b THEN a ELSE b
<1> DEFINE m == IF a <= b THEN a ELSE b
<1>1. \A x \in {a, b} : (\A y \in {a, b} : x <= y) <=> x = m
  OBVIOUS
<1>2. m \in {a, b}
  OBVIOUS
<1> HIDE DEF m
<1>3. (CHOOSE x \in {a, b} : \A y \in {a, b} : x <= y) = m
  BY <1>1, <1>2
<1> QED BY <1>3 DEF Min, m

(* The largest of 0 and the numbers up to b for which something holds: it  *)
(* is one of them, and the next one is not.                                *)
LEMMA MaxProperties ==
  ASSUME NEW T \in SUBSET Nat, T # {}, NEW b \in Nat, \A x \in T : x <= b
  PROVE  Max(T) \in T /\ \A y \in T : Max(T) >= y
<1> DEFINE R == {b - x : x \in T}
<1>1. R \in SUBSET Nat /\ R # {}
  <2>1. \A x \in T : x \in Nat /\ b - x \in Nat
    OBVIOUS
  <2> QED BY <2>1
<1>2. Min(R) \in R /\ \A y \in R : Min(R) <= y
  BY <1>1, MinProperties
<1>3. PICK x \in T : Min(R) = b - x
  BY <1>2
<1>4. \A y \in T : x >= y
  <2> SUFFICES ASSUME NEW y \in T PROVE x >= y
    OBVIOUS
  <2>1. b - x <= b - y
    BY <1>2, <1>3
  <2>2. x \in Nat /\ y \in Nat
    OBVIOUS
  <2> QED BY <2>1, <2>2
<1> QED BY <1>4 DEF Max

-----------------------------------------------------------------------------
Ascending(q) == \A i \in 1 .. Len(q) - 1 : q[i] < q[i + 1]

(* What holds of neighbours holds of any two elements. *)
LEMMA AscendingThroughout ==
  ASSUME NEW q \in Seq(Nat), Ascending(q)
  PROVE  \A i, j \in 1 .. Len(q) : i < j => q[i] < q[j]
<1> SUFFICES ASSUME NEW i \in 1 .. Len(q), NEW k \in 1 .. Len(q), i < k, ~ (q[i] < q[k])
             PROVE  FALSE
  OBVIOUS
<1> DEFINE T == {j \in 1 .. Len(q) : i < j /\ ~ (q[i] < q[j])}
<1>1. T \in SUBSET Nat /\ T # {}
  OBVIOUS
<1>2. Min(T) \in T /\ \A y \in T : Min(T) <= y
  BY <1>1, MinProperties
<1>3. PICK j \in T : \A y \in T : j <= y
  BY <1>2
<1>4. j \in 1 .. Len(q) /\ i < j /\ ~ (q[i] < q[j]) /\ Len(q) \in Nat
  OBVIOUS
<1>5. j - 1 \in 1 .. Len(q) - 1 /\ (j - 1) + 1 = j
  BY <1>4
<1>6. q[j - 1] < q[j]
  BY <1>5 DEF Ascending
<1>7. j - 1 \notin T
  BY <1>3, <1>4
<1>8. q[j - 1] \in Nat /\ q[i] \in Nat /\ q[j] \in Nat
  BY <1>4, <1>5
<1>9. i = j - 1 \/ q[i] < q[j - 1]
  BY <1>4, <1>5, <1>7
<1> QED BY <1>4, <1>6, <1>8, <1>9

(* The tail of an ascending sequence behind position k. *)
LEMMA AscendingRest ==
  ASSUME NEW q \in Seq(Nat), Ascending(q), NEW k \in 0 .. Len(q)
  PROVE  LET r == SubSeq(q, k + 1, Len(q))
         IN  /\ r \in Seq(Nat) /\ Len(r) = Len(q) - k
             /\ Ascending(r)
             /\ \A i \in 1 .. Len(q) - k : r[i] = q[i + k]
             /\ ToSet(r) = {q[i] : i \in k + 1 .. Len(q)}
<1> DEFINE r == SubSeq(q, k + 1, Len(q))
<1>1. /\ r \in Seq(Nat) /\ Len(r) = Len(q) - k /\ Len(q) \in Nat
      /\ \A i \in 1 .. Len(q) - k : r[i] = q[k + 1 + i - 1]
  BY SubSeqProperties
<1>2. \A i \in 1 .. Len(q) - k : r[i] = q[i + k]
  <2> SUFFICES ASSUME NEW i \in 1 .. Len(q) - k PROVE r[i] = q[i + k]
    OBVIOUS
  <2>1. k + 1 + i - 1 = i + k
    BY <1>1
  <2> QED BY <1>1, <2>1
<1> HIDE DEF r
<1>3. Ascending(r)
  <2> SUFFICES ASSUME NEW i \in 1 .. Len(r) - 1 PROVE r[i] < r[i + 1]
    BY DEF Ascending
  <2>1. /\ i \in 1 .. Len(q) - k /\ i + 1 \in 1 .. Len(q) - k
        /\ i + k \in 1 .. Len(q) - 1 /\ (i + 1) + k = (i + k) + 1
    BY <1>1
  <2> QED BY <1>2, <2>1 DEF Ascending
<1>4. DOMAIN r = 1 .. Len(q) - k
  BY <1>1, LenProperties
<1>5. ToSet(r) = {q[i] : i \in k + 1 .. Len(q)}
  <2>1. \A i \in 1 .. Len(q) - k : i + k \in k + 1 .. Len(q)
    BY <1>1
  <2>2. \A i \in k + 1 .. Len(q) : i - k \in 1 .. Len(q) - k /\ (i - k) + k = i
    BY <1>1
  <2>3. \A i \in DOMAIN r : \E j \in k + 1 .. Len(q) : r[i] = q[j]
    BY <1>2, <1>4, <2>1
  <2>4. \A j \in k + 1 .. Len(q) : \E i \in DOMAIN r : r[i] = q[j]
    BY <1>2, <1>4, <2>2
  <2>5. \A x : x \in ToSet(r) <=> \E i \in DOMAIN r : r[i] = x
    BY Zenon DEF ToSet
  <2>6. \A x : x \in ToSet(r) <=> \E j \in k + 1 .. Len(q) : q[j] = x
    <3>1. ASSUME NEW x, x \in ToSet(r) PROVE \E j \in k + 1 .. Len(q) : q[j] = x
      <4>1. PICK i \in DOMAIN r : r[i] = x
        BY <2>5, <3>1
      <4>2. PICK j \in k + 1 .. Len(q) : r[i] = q[j]
        BY <2>3, <4>1
      <4> QED BY <4>1, <4>2
    <3>2. ASSUME NEW j \in k + 1 .. Len(q) PROVE q[j] \in ToSet(r)
      <4>1. PICK i \in DOMAIN r : r[i] = q[j]
        BY <2>4
      <4> QED BY <2>5, <4>1
    <3> QED BY <3>1, <3>2
  <2> QED BY <2>6, Zenon
<1> QED BY <1>1, <1>2, <1>3, <1>5 DEF r


(* Below position c are the elements below x, if c is how many there are.  *)
LEMMA BelowIsPrefix ==
  ASSUME NEW q \in Seq(Nat), Ascending(q), NEW x \in Nat
  PROVE  LET c == Cardinality({i \in DOMAIN q : q[i] < x})
         IN  c \in 0 .. Len(q) /\ \A i \in 1 .. Len(q) : q[i] < x <=> i <= c
<1> DEFINE D == {i \in DOMAIN q : q[i] < x}
           U == (1 .. Len(q) + 1) \ D
           c == Min(U) - 1
<1>1. Len(q) \in Nat /\ DOMAIN q = 1 .. Len(q)
  BY LenProperties
<1>2. U \in SUBSET Nat /\ Len(q) + 1 \in U
  BY <1>1
<1>3. Min(U) \in U /\ \A y \in U : Min(U) <= y
  BY <1>2, MinProperties
<1>4. Min(U) \in 1 .. Len(q) + 1
  BY <1>3
<1>5. c \in 0 .. Len(q)
  BY <1>1, <1>4
<1>6. ASSUME NEW i \in 1 .. Len(q)
      PROVE  i \in D <=> i <= c
  <2>1. CASE i <= c
    <3>1. ~ (Min(U) <= i)
      BY <1>1, <1>4, <2>1
    <3>2. i \notin U
      BY <1>3, <3>1
    <3> QED BY <1>1, <2>1, <3>2
  <2>2. CASE ~ (i <= c)
    <3>1. Min(U) <= i /\ Min(U) \in 1 .. Len(q) /\ Min(U) \notin D
      BY <1>1, <1>3, <1>4, <2>2
    <3>2. ~ (q[Min(U)] < x)
      BY <1>1, <3>1
    <3>3. Min(U) = i \/ q[Min(U)] < q[i]
      BY <1>1, <3>1, AscendingThroughout
    <3>4. q[Min(U)] \in Nat /\ q[i] \in Nat
      BY <3>1
    <3>5. ~ (q[i] < x)
      BY <3>2, <3>3, <3>4
    <3> QED BY <2>2, <3>5
  <2> QED BY <2>1, <2>2
<1> HIDE DEF c
<1>7. D = 1 .. c
  BY <1>1, <1>5, <1>6
<1>8. Cardinality(D) = c
  <2>1. c \in Int /\ c >= 0
    BY <1>1, <1>5
  <2>2. Cardinality(1 .. c) = IF 1 > c THEN 0 ELSE c - 1 + 1
    BY <2>1, FS_Interval
  <2> HIDE DEF D
  <2> QED BY <1>7, <2>1, <2>2
<1>9. \A i \in 1 .. Len(q) : q[i] < x <=> i <= c
  BY <1>1, <1>6
<1>10. /\ Cardinality(D) \in 0 .. Len(q)
       /\ \A i \in 1 .. Len(q) : q[i] < x <=> i <= Cardinality(D)
  BY <1>5, <1>8, <1>9
<1> QED BY <1>10

(* An element that is new goes where it belongs. *)
LEMMA InsertKeepsAscending ==
  ASSUME NEW q \in Seq(Nat), Ascending(q), NEW x \in Nat, x \notin ToSet(q)
  PROVE  LET r == InsertAt(q, Cardinality({i \in DOMAIN q : q[i] < x}) + 1, x)
         IN  r \in Seq(Nat) /\ Ascending(r) /\ ToSet(r) = ToSet(q) \cup {x}
<1> DEFINE c == Cardinality({i \in DOMAIN q : q[i] < x})
           r == InsertAt(q, c + 1, x)
<1>1. Len(q) \in Nat /\ DOMAIN q = 1 .. Len(q) /\ q \in [1 .. Len(q) -> Nat]
  BY LenProperties
<1>2. c \in 0 .. Len(q) /\ \A i \in 1 .. Len(q) : q[i] < x <=> i <= c
  BY BelowIsPrefix
<1> HIDE DEF c
<1>3. /\ r \in Seq(Nat) /\ Len(r) = Len(q) + 1
      /\ \A i \in 1 .. Len(q) + 1 :
           r[i] = IF i < c + 1 THEN q[i] ELSE IF i = c + 1 THEN x ELSE q[i - 1]
  <2>1. c + 1 \in 1 .. Len(q) + 1
    BY <1>1, <1>2
  <2>2. ASSUME NEW k \in 1 .. Len(q) + 1
        PROVE  /\ InsertAt(q, k, x) \in Seq(Nat)
               /\ Len(InsertAt(q, k, x)) = Len(q) + 1
               /\ \A i \in 1 .. Len(q) + 1 :
                    InsertAt(q, k, x)[i] = IF i < k THEN q[i]
                                           ELSE IF i = k THEN x ELSE q[i - 1]
    <3> DEFINE N == Nat
    <3>1. q \in Seq(N) /\ x \in N
      OBVIOUS
    <3>2. \A y : y \in Seq(N) => y \in Seq(Nat)
      OBVIOUS
    <3> HIDE DEF N
    <3>3. /\ InsertAt(q, k, x) \in Seq(N)
          /\ Len(InsertAt(q, k, x)) = Len(q) + 1
          /\ \A i \in 1 .. Len(q) + 1 :
               InsertAt(q, k, x)[i] = IF i < k THEN q[i]
                                      ELSE IF i = k THEN x ELSE q[i - 1]
      BY <3>1, InsertAtProperties
    <3> QED BY <3>2, <3>3
  <2> QED BY <2>1, <2>2
<1> HIDE DEF r
<1>4. DOMAIN r = 1 .. Len(q) + 1
  BY <1>3, LenProperties
<1>5. \A i \in 1 .. Len(q) : q[i] # x
  BY <1>1 DEF ToSet
<1>6. Ascending(r)
  <2> SUFFICES ASSUME NEW i \in 1 .. Len(r) - 1 PROVE r[i] < r[i + 1]
    BY DEF Ascending
  <2>0. i \in 1 .. Len(q) + 1 /\ i + 1 \in 1 .. Len(q) + 1 /\ i \in 1 .. Len(q)
    BY <1>1, <1>3
  <2>1. CASE i < c
    <3>1. r[i] = q[i] /\ r[i + 1] = q[i + 1] /\ i \in 1 .. Len(q) - 1
      BY <1>1, <1>2, <1>3, <2>0, <2>1
    <3> QED BY <3>1 DEF Ascending
  <2>2. CASE i = c
    <3>1. r[i] = q[i] /\ r[i + 1] = x /\ q[i] < x
      BY <1>1, <1>2, <1>3, <2>0, <2>2
    <3> QED BY <3>1
  <2>3. CASE i = c + 1
    <3>1. r[i] = x /\ r[i + 1] = q[i] /\ ~ (q[i] < x) /\ q[i] # x /\ q[i] \in Nat
      BY <1>1, <1>2, <1>3, <1>5, <2>0, <2>3
    <3> QED BY <3>1
  <2>4. CASE i > c + 1
    <3>1. r[i] = q[i - 1] /\ r[i + 1] = q[i] /\ i - 1 \in 1 .. Len(q) - 1 /\ (i - 1) + 1 = i
      BY <1>1, <1>2, <1>3, <2>0, <2>4
    <3> QED BY <3>1 DEF Ascending
  <2> QED BY <1>2, <2>0, <2>1, <2>2, <2>3, <2>4
<1>7. ToSet(r) = ToSet(q) \cup {x}
  <2>1. \A i \in 1 .. Len(q) + 1 : r[i] = x \/ \E j \in 1 .. Len(q) : r[i] = q[j]
    <3> SUFFICES ASSUME NEW i \in 1 .. Len(q) + 1, r[i] # x
                 PROVE  \E j \in 1 .. Len(q) : r[i] = q[j]
      OBVIOUS
    <3>1. CASE i < c + 1
      <4>1. i \in 1 .. Len(q) /\ r[i] = q[i]
        BY <1>1, <1>2, <1>3, <3>1
      <4> QED BY <4>1
    <3>2. CASE i > c + 1
      <4>1. i - 1 \in 1 .. Len(q) /\ r[i] = q[i - 1]
        BY <1>1, <1>2, <1>3, <3>2
      <4> QED BY <4>1
    <3>3. i # c + 1
      BY <1>2, <1>3
    <3> QED BY <1>2, <3>1, <3>2, <3>3
  <2>2. \A j \in 1 .. Len(q) : \E i \in 1 .. Len(q) + 1 : r[i] = q[j]
    <3> SUFFICES ASSUME NEW j \in 1 .. Len(q)
                 PROVE  \E i \in 1 .. Len(q) + 1 : r[i] = q[j]
      OBVIOUS
    <3>1. CASE j <= c
      <4>1. j \in 1 .. Len(q) + 1 /\ r[j] = q[j]
        BY <1>1, <1>2, <1>3, <3>1
      <4> QED BY <4>1
    <3>2. CASE ~ (j <= c)
      <4>1. j + 1 \in 1 .. Len(q) + 1 /\ ~ (j + 1 < c + 1) /\ j + 1 # c + 1 /\ (j + 1) - 1 = j
        BY <1>1, <1>2, <3>2
      <4>2. r[j + 1] = q[j]
        BY <1>3, <4>1
      <4> QED BY <4>1, <4>2
    <3> QED BY <3>1, <3>2
  <2>3. c + 1 \in 1 .. Len(q) + 1 /\ r[c + 1] = x
    BY <1>1, <1>2, <1>3
  <2>4. \A y : y \in ToSet(r) <=> \E i \in 1 .. Len(q) + 1 : r[i] = y
    BY <1>4 DEF ToSet
  <2>5. \A y : y \in ToSet(q) <=> \E i \in 1 .. Len(q) : q[i] = y
    BY <1>1 DEF ToSet
  <2>6. ASSUME NEW y PROVE y \in ToSet(r) <=> y \in ToSet(q) \/ y = x
    BY <2>1, <2>2, <2>3, <2>4, <2>5
  <2> QED BY <2>6
<1> QED BY <1>3, <1>6, <1>7 DEF c, r

-----------------------------------------------------------------------------
(* A multiple is a whole size behind a smaller one. *)
LEMMA NextMultiple ==
  ASSUME NEW size \in Nat \ {0}, NEW i \in Int, NEW j \in Int, i < j
  PROVE  i * size + size <= j * size /\ (i + 1) * size = i * size + size
<1>1. \A a, b \in Nat : a * b >= 0
  OBVIOUS
<1>2. j - (i + 1) \in Nat /\ size \in Nat
  OBVIOUS
<1>3. (j - (i + 1)) * size >= 0
  BY <1>1, <1>2
<1>4. (j - (i + 1)) * size = j * size - (i * size + size)
  OBVIOUS
<1>5. (i + 1) * size = i * size + size
  OBVIOUS
<1>6. j * size \in Int /\ i * size \in Int
  OBVIOUS
<1> QED BY <1>3, <1>4, <1>5, <1>6

(* The positions up to which the list q goes on from n without a hole, and *)
(* what is in A from n on.                                                 *)
Stretch(q, n, size) ==
  {0} \cup {i \in DOMAIN q : \A j \in 1 .. i : q[j] = n + j * size}
From(A, n) == {b \in A : b >= n}

(* An ascending list of what lies whole sizes behind n: if m is the end of *)
(* the stretch that follows n without a hole, the rest is behind the hole. *)
LEMMA StretchWithoutHole ==
  ASSUME NEW q \in Seq(Nat), Ascending(q), NEW n \in Nat, NEW size \in Nat \ {0},
         \A i \in 1 .. Len(q) : \E k \in Nat \ {0} : q[i] = n + k * size
  PROVE  LET m == Max(Stretch(q, n, size))
         IN  /\ m \in 0 .. Len(q)
             /\ \A j \in 1 .. m : q[j] = n + j * size
             /\ \A i \in m + 1 .. Len(q) : q[i] > n + (m + 1) * size
<1> DEFINE T == {0} \cup {i \in DOMAIN q : \A j \in 1 .. i : q[j] = n + j * size}
           m == Max(T)
<1>0. T = Stretch(q, n, size)
  BY DEF Stretch
<1>1. Len(q) \in Nat /\ DOMAIN q = 1 .. Len(q)
  BY LenProperties
<1>2. T \in SUBSET Nat /\ T # {} /\ \A i \in T : i <= Len(q)
  BY <1>1
<1>3. m \in T /\ \A i \in T : m >= i
  BY <1>1, <1>2, MaxProperties
<1>4. m \in 0 .. Len(q)
  BY <1>1, <1>2, <1>3
<1>5. \A j \in 1 .. m : q[j] = n + j * size
  <2> HIDE DEF m
  <2> QED BY <1>3, <1>4
<1>6. m + 1 \notin T
  <2> HIDE DEF m, T
  <2> QED BY <1>1, <1>3, <1>4
<1>7. ASSUME m + 1 \in 1 .. Len(q) PROVE q[m + 1] # n + (m + 1) * size
  <2>1. PICK j \in 1 .. m + 1 : q[j] # n + j * size
    BY <1>1, <1>6, <1>7
  <2>2. j \notin 1 .. m
    BY <1>5, <2>1
  <2> HIDE DEF m
  <2>3. j = m + 1
    BY <1>1, <1>4, <2>2
  <2> QED BY <2>1, <2>3
<1> HIDE DEF m, T
<1>8. ASSUME m + 1 \in 1 .. Len(q) PROVE q[m + 1] > n + (m + 1) * size
  <2>1. PICK k \in Nat \ {0} : q[m + 1] = n + k * size
    BY <1>8
  <2>2. k # m + 1
    BY <1>7, <1>8, <2>1
  <2>3. ~ (k <= m)
    <3> SUFFICES ASSUME k <= m PROVE FALSE
      OBVIOUS
    <3>1. k \in 1 .. m /\ k \in 1 .. Len(q)
      BY <1>1, <1>4
    <3>2. q[k] = q[m + 1]
      BY <1>5, <2>1, <3>1
    <3>3. q[k] < q[m + 1] /\ q[k] \in Nat
      <4>1. k < m + 1
        BY <1>1, <1>4
      <4> QED BY <1>8, <3>1, <4>1, AscendingThroughout
    <3> QED BY <3>2, <3>3
  <2>4. k \in Int /\ m + 1 \in Int /\ m + 1 < k
    BY <1>4, <2>2, <2>3
  <2>5. (m + 1) * size + size <= k * size
    BY <2>4, NextMultiple
  <2>6. (m + 1) * size \in Int /\ k * size \in Int /\ size > 0
    BY <2>4
  <2> QED BY <2>1, <2>5, <2>6
<1>9. ASSUME NEW i \in m + 1 .. Len(q) PROVE q[i] > n + (m + 1) * size
  <2>1. m + 1 \in 1 .. Len(q) /\ i \in 1 .. Len(q)
    BY <1>1, <1>4
  <2>2. i = m + 1 \/ q[m + 1] < q[i]
    BY <1>4, <2>1, AscendingThroughout
  <2>3. q[m + 1] \in Nat /\ q[i] \in Nat /\ (m + 1) * size \in Int
    BY <1>4, <2>1
  <2>4. n + (m + 1) * size \in Int
    BY <2>3
  <2>5. q[m + 1] > n + (m + 1) * size
    BY <1>8, <2>1
  <2> QED BY <2>2, <2>3, <2>4, <2>5
<1>10. m \in 0 .. Len(q) /\ \A j \in 1 .. m : q[j] = n + j * size
  BY <1>4, <1>5
<1>11. m = Max(Stretch(q, n, size))
  BY <1>0 DEF m
<1> QED BY <1>9, <1>10, <1>11

(* What a receiver keeps in such a list, of what has arrived, when what it *)
(* expects next arrives: the end of what it can acknowledge moves on.      *)
LEMMA StretchMovesOn ==
  ASSUME NEW q \in Seq(Nat), Ascending(q), NEW n \in Nat, NEW size \in Nat \ {0},
         \A i \in 1 .. Len(q) : \E k \in Nat \ {0} : q[i] = n + k * size,
         NEW A \in SUBSET Nat, n \notin A, ToSet(q) = From(A, n)
  PROVE  LET m == Max(Stretch(q, n, size))
             r == SubSeq(q, m + 1, Len(q))
         IN  /\ m \in 0 .. Len(q)
             /\ \A j \in 1 .. m : q[j] = n + j * size /\ n + j * size \in A
             /\ r \in Seq(Nat) /\ Ascending(r)
             /\ ToSet(r) = From(A \cup {n}, n + m * size + size)
             /\ n + m * size + size \notin A
<1> DEFINE m == Max(Stretch(q, n, size))
           r == SubSeq(q, m + 1, Len(q))
<1>1. /\ m \in 0 .. Len(q)
      /\ \A j \in 1 .. m : q[j] = n + j * size
      /\ \A i \in m + 1 .. Len(q) : q[i] > n + (m + 1) * size
  BY StretchWithoutHole
<1> HIDE DEF m
<1>2. /\ r \in Seq(Nat) /\ Ascending(r)
      /\ ToSet(r) = {q[i] : i \in m + 1 .. Len(q)}
  BY <1>1, AscendingRest
<1> HIDE DEF r
<1>3. Len(q) \in Nat /\ DOMAIN q = 1 .. Len(q) /\ m \in Nat
  BY <1>1, LenProperties
<1>4. ASSUME NEW i \in 1 .. Len(q) PROVE q[i] \in A /\ q[i] >= n /\ q[i] \in Nat
  <2>1. q[i] \in ToSet(q)
    BY <1>3 DEF ToSet
  <2> QED BY <2>1 DEF From
<1>5. (m + 1) * size = m * size + size /\ m * size \in Nat
  <2>1. \A a, b \in Nat : a * b \in Nat
    OBVIOUS
  <2>2. (m + 1) * size = m * size + size
    BY <1>3
  <2> QED BY <1>3, <2>1, <2>2
<1> DEFINE e == n + m * size + size
<1>6. e \in Nat /\ e > n
  BY <1>5
<1>7. ASSUME NEW b \in A, b >= e
      PROVE  \E i \in m + 1 .. Len(q) : b = q[i]
  <2>1. b \in Nat /\ b >= n
    BY <1>6, <1>7
  <2>2. PICK i \in 1 .. Len(q) : b = q[i]
    BY <1>3, <2>1 DEF ToSet, From
  <2>3. ASSUME i <= m PROVE FALSE
    <3>1. q[i] = n + i * size /\ i \in Int /\ i * size \in Int
      BY <1>1, <2>3
    <3>2. i * size <= m * size
      <4>1. CASE i = m
        BY <1>5, <4>1
      <4>2. CASE i < m
        <5>1. i * size + size <= m * size
          BY <1>3, <4>2, NextMultiple
        <5> QED BY <1>5, <3>1, <5>1
      <4> QED BY <2>3, <3>1, <1>3, <4>1, <4>2
    <3> HIDE DEF e
    <3>3. b < e
      BY <1>5, <2>2, <3>1, <3>2 DEF e
    <3> QED BY <1>6, <1>7, <2>1, <3>3
  <2>4. i \in m + 1 .. Len(q)
    BY <1>3, <2>3
  <2> QED BY <2>2, <2>4
<1>8. ASSUME NEW i \in m + 1 .. Len(q)
      PROVE  q[i] \in A /\ q[i] > e
  <2>1. i \in 1 .. Len(q)
    BY <1>3
  <2> QED BY <1>1, <1>4, <1>5, <2>1
<1>9. \A j \in 1 .. m : q[j] = n + j * size /\ n + j * size \in A
  <2> SUFFICES ASSUME NEW j \in 1 .. m
               PROVE  q[j] = n + j * size /\ n + j * size \in A
    OBVIOUS
  <2>1. j \in 1 .. Len(q)
    BY <1>1, <1>3
  <2> QED BY <1>1, <1>4, <2>1
<1>10. ToSet(r) = From(A \cup {n}, e)
  <2>1. ASSUME NEW b \in A \cup {n}, b >= e PROVE b \in ToSet(r)
    <3>1. b # n
      BY <1>6, <2>1
    <3> HIDE DEF e
    <3>2. b \in A
      BY <3>1
    <3> QED BY <1>2, <1>7, <2>1, <3>2
  <2>2. ASSUME NEW i \in m + 1 .. Len(q) PROVE q[i] \in A /\ q[i] >= e
    <3>1. q[i] \in A /\ q[i] > e
      BY <1>8
    <3> HIDE DEF e
    <3>2. q[i] \in Nat
      BY <3>1
    <3> QED BY <1>6, <3>1, <3>2
  <2> HIDE DEF e
  <2> QED BY <1>2, <2>1, <2>2 DEF From
<1>11. e \notin A
  <2> SUFFICES ASSUME e \in A PROVE FALSE
    OBVIOUS
  <2> HIDE DEF e
  <2>1. e >= e
    BY <1>6
  <2>2. PICK i \in m + 1 .. Len(q) : e = q[i]
    BY <1>7, <2>1
  <2> QED BY <1>6, <1>8, <2>2
<1>12. m \in 0 .. Len(q)
  BY <1>1
<1> QED BY <1>2, <1>9, <1>10, <1>11, <1>12 DEF m, r

-----------------------------------------------------------------------------
(* How many elements of q are in T. *)
Places(q, T) == {i \in DOMAIN q : q[i] \in T}
HowMany(q, T) == Cardinality(Places(q, T))
Occurs(q, e) == HowMany(q, {e})

LEMMA CountType ==
  ASSUME NEW S, NEW q \in Seq(S), NEW T
  PROVE  /\ IsFiniteSet(Places(q, T)) /\ Places(q, T) \subseteq 1 .. Len(q)
         /\ HowMany(q, T) \in 0 .. Len(q)
<1>1. Len(q) \in Nat /\ DOMAIN q = 1 .. Len(q)
  BY LenProperties
<1>2. Places(q, T) \in SUBSET (1 .. Len(q))
  BY <1>1 DEF Places
<1>3. IsFiniteSet(1 .. Len(q)) /\ Cardinality(1 .. Len(q)) = Len(q)
  BY <1>1, FS_Interval
<1>4. IsFiniteSet(Places(q, T)) /\ Cardinality(Places(q, T)) <= Len(q)
  BY <1>2, <1>3, FS_Subset
<1>5. Cardinality(Places(q, T)) \in Nat
  BY <1>4, FS_CardinalityType
<1> QED BY <1>1, <1>2, <1>4, <1>5 DEF HowMany

LEMMA CountEmpty ==
  ASSUME NEW T
  PROVE  HowMany(<<>>, T) = 0
<1>1. Places(<<>>, T) = {}
  BY DEF Places
<1> QED BY <1>1, FS_EmptySet DEF HowMany

LEMMA CountOne ==
  ASSUME NEW e, NEW T
  PROVE  HowMany(<<e>>, T) = IF e \in T THEN 1 ELSE 0
<1>1. DOMAIN <<e>> = {1} /\ <<e>>[1] = e
  OBVIOUS
<1>2. Places(<<e>>, T) = IF e \in T THEN {1} ELSE {}
  BY <1>1 DEF Places
<1> QED BY <1>2, FS_EmptySet, FS_Singleton DEF HowMany

LEMMA CountConcat ==
  ASSUME NEW S, NEW p \in Seq(S), NEW q \in Seq(S), NEW T
  PROVE  HowMany(p \o q, T) = HowMany(p, T) + HowMany(q, T)
<1> DEFINE n == Len(p)
           A == Places(p, T)
           B == Places(q, T)
           C == {i \in n + 1 .. n + Len(q) : i - n \in B}
           f == [i \in B |-> n + i]
<1>1. /\ n \in Nat /\ DOMAIN p = 1 .. n
      /\ Len(q) \in Nat /\ DOMAIN q = 1 .. Len(q)
  BY LenProperties
<1>2. /\ p \o q \in Seq(S) /\ Len(p \o q) = n + Len(q)
      /\ \A i \in 1 .. n + Len(q) : (p \o q)[i] = IF i <= n THEN p[i] ELSE q[i - n]
  BY ConcatProperties
<1>3. DOMAIN (p \o q) = 1 .. n + Len(q)
  BY <1>2, LenProperties
<1>4. Places(p \o q, T) = A \cup C
  <2> SUFFICES ASSUME NEW i \in 1 .. n + Len(q)
               PROVE  (p \o q)[i] \in T <=> i \in A \cup C
    BY <1>1, <1>3 DEF Places
  <2>1. CASE i <= n
    BY <1>1, <1>2, <2>1 DEF Places
  <2>2. CASE ~ (i <= n)
    <3>1. i - n \in 1 .. Len(q) /\ i \in n + 1 .. n + Len(q) /\ i \notin 1 .. n
      BY <1>1, <2>2
    <3> QED BY <1>1, <1>2, <2>2, <3>1 DEF Places
  <2> QED BY <2>1, <2>2
<1>5. /\ IsFiniteSet(A) /\ A \subseteq 1 .. n
      /\ IsFiniteSet(B) /\ B \subseteq 1 .. Len(q)
  BY CountType
<1>6. f \in Bijection(B, C)
  <2>1. \A i \in B : n + i \in C
    <3> SUFFICES ASSUME NEW i \in B PROVE n + i \in C
      OBVIOUS
    <3>1. i \in 1 .. Len(q)
      BY <1>5
    <3>2. n + i \in n + 1 .. n + Len(q) /\ (n + i) - n = i
      BY <1>1, <3>1
    <3> QED BY <3>2
  <2>2. f \in [B -> C]
    BY <2>1
  <2>3. IsInjective(f)
    BY <1>1, <1>5 DEF IsInjective
  <2>4. \A i \in C : \E j \in B : f[j] = i
    <3> SUFFICES ASSUME NEW i \in C PROVE f[i - n] = i /\ i - n \in B
      OBVIOUS
    <3> QED BY <1>1
  <2> QED BY <2>2, <2>3, <2>4 DEF Bijection, Injection, Surjection
<1>7. IsFiniteSet(C) /\ Cardinality(C) = Cardinality(B)
  BY <1>5, <1>6, FS_Bijection DEF ExistsBijection
<1>8. A \cap C = {}
  BY <1>1, <1>5
<1>9. Cardinality(A \cup C) = Cardinality(A) + Cardinality(C) - Cardinality(A \cap C)
  BY <1>5, <1>7, FS_Union
<1>10. Cardinality(A \cap C) = 0
  BY <1>8, FS_EmptySet
<1>11. Cardinality(A) \in Nat /\ Cardinality(C) \in Nat
  BY <1>5, <1>7, FS_CardinalityType
<1> HIDE DEF A, B, C
<1>12. Cardinality(Places(p \o q, T)) = Cardinality(A) + Cardinality(B)
  BY <1>4, <1>7, <1>9, <1>10, <1>11
<1> QED BY <1>12 DEF HowMany, A, B

(* An element more, an element less, and the list in two parts. *)
LEMMA CountAppend ==
  ASSUME NEW S, NEW q \in Seq(S), NEW e \in S, NEW T
  PROVE  HowMany(Append(q, e), T) = HowMany(q, T) + (IF e \in T THEN 1 ELSE 0)
<1>1. <<e>> \in Seq(S) /\ Append(q, e) = q \o <<e>>
  OBVIOUS
<1>2. HowMany(q \o <<e>>, T) = HowMany(q, T) + HowMany(<<e>>, T)
  BY <1>1, CountConcat
<1>3. HowMany(<<e>>, T) = IF e \in T THEN 1 ELSE 0
  BY CountOne
<1>4. HowMany(Append(q, e), T) = HowMany(q \o <<e>>, T)
  BY <1>1
<1> QED BY <1>2, <1>3, <1>4

LEMMA CountRemoveAt ==
  ASSUME NEW S, NEW q \in Seq(S), NEW k \in 1 .. Len(q), NEW T
  PROVE  HowMany(RemoveAt(q, k), T) = HowMany(q, T) - (IF q[k] \in T THEN 1 ELSE 0)
<1> DEFINE a == SubSeq(q, 1, k - 1)
           b == SubSeq(q, k + 1, Len(q))
<1>1. Len(q) \in Nat /\ q[k] \in S
  BY LenProperties, ElementOfSeq
<1>2. a \in Seq(S) /\ b \in Seq(S)
  <2>1. \A i \in 1 .. Len(q) : q[i] \in S
    BY ElementOfSeq
  <2> QED BY <1>1, <2>1, SubSeqProperties
<1>3. SubSeq(q, k, Len(q)) = <<q[k]>> \o b
  BY <1>1, SubSeqRecursiveFirst
<1>4. a \o SubSeq(q, k, Len(q)) = q
  <2>1. /\ 1 \in 1 .. Len(q) + 1 /\ k - 1 \in 1 - 1 .. Len(q)
        /\ Len(q) \in k - 1 .. Len(q) /\ (k - 1) + 1 = k
    BY <1>1
  <2>2. \A m \in 1 - 1 .. Len(q) :
          Len(q) \in m .. Len(q)
            => SubSeq(q, 1, m) \o SubSeq(q, m + 1, Len(q)) = SubSeq(q, 1, Len(q))
    <3> SUFFICES ASSUME NEW m \in 1 - 1 .. Len(q), Len(q) \in m .. Len(q)
                 PROVE  SubSeq(q, 1, m) \o SubSeq(q, m + 1, Len(q)) = SubSeq(q, 1, Len(q))
      OBVIOUS
    <3> QED BY <2>1, ConcatAdjacentSubSeq
  <2>3. a \o SubSeq(q, (k - 1) + 1, Len(q)) = SubSeq(q, 1, Len(q))
    BY <2>1, <2>2
  <2>4. SubSeq(q, 1, Len(q)) = q
    BY SubSeqFull
  <2> QED BY <2>1, <2>3, <2>4
<1>5. RemoveAt(q, k) = a \o b
  BY DEF RemoveAt
<1> HIDE DEF a, b
<1>6. <<q[k]>> \in Seq(S) /\ <<q[k]>> \o b \in Seq(S)
  BY <1>1, <1>2, ConcatProperties
<1>7. HowMany(q, T) = HowMany(a, T) + HowMany(<<q[k]>> \o b, T)
  <2>1. HowMany(a \o (<<q[k]>> \o b), T) = HowMany(a, T) + HowMany(<<q[k]>> \o b, T)
    BY <1>2, <1>6, CountConcat
  <2>2. a \o (<<q[k]>> \o b) = q
    BY <1>3, <1>4
  <2> HIDE DEF a, b
  <2> QED BY <2>1, <2>2
<1>8. HowMany(<<q[k]>> \o b, T) = HowMany(<<q[k]>>, T) + HowMany(b, T)
  BY <1>2, <1>6, CountConcat
<1>9. HowMany(<<q[k]>>, T) = IF q[k] \in T THEN 1 ELSE 0
  BY CountOne
<1>10. HowMany(RemoveAt(q, k), T) = HowMany(a, T) + HowMany(b, T)
  BY <1>2, <1>5, CountConcat
<1>11. HowMany(a, T) \in Nat /\ HowMany(b, T) \in Nat
  BY <1>2, CountType
<1> QED BY <1>7, <1>8, <1>9, <1>10, <1>11

LEMMA CountInTwoParts ==
  ASSUME NEW S, NEW q \in Seq(S), NEW k \in 0 .. Len(q), NEW T
  PROVE  HowMany(q, T) = HowMany(SubSeq(q, 1, k), T) + HowMany(SubSeq(q, k + 1, Len(q)), T)
<1>1. Len(q) \in Nat /\ \A i \in 1 .. Len(q) : q[i] \in S
  BY LenProperties, ElementOfSeq
<1>2. SubSeq(q, 1, k) \in Seq(S) /\ SubSeq(q, k + 1, Len(q)) \in Seq(S)
  BY <1>1, SubSeqProperties
<1> DEFINE a == SubSeq(q, 1, k)
           b == SubSeq(q, k + 1, Len(q))
<1>3. a \o b = q
  <2>1. 1 \in 1 .. Len(q) + 1 /\ k \in 1 - 1 .. Len(q) /\ Len(q) \in k .. Len(q)
    BY <1>1
  <2>2. a \o b = SubSeq(q, 1, Len(q))
    BY <2>1, ConcatAdjacentSubSeq
  <2>3. SubSeq(q, 1, Len(q)) = q
    BY SubSeqFull
  <2> QED BY <2>2, <2>3
<1> HIDE DEF a, b
<1>4. HowMany(a \o b, T) = HowMany(a, T) + HowMany(b, T)
  BY <1>2, CountConcat DEF a, b
<1>5. HowMany(q, T) = HowMany(a, T) + HowMany(b, T)
  BY <1>3, <1>4
<1> QED BY <1>5 DEF a, b

(* A place holds one element. *)
LEMMA CountDisjoint ==
  ASSUME NEW S, NEW q \in Seq(S), NEW T, NEW x, x \notin T
  PROVE  HowMany(q, T \cup {x}) = HowMany(q, T) + HowMany(q, {x})
<1> DEFINE A == Places(q, T)
           B == Places(q, {x})
<1>1. Places(q, T \cup {x}) = A \cup B /\ A \cap B = {}
  BY DEF Places
<1>2. IsFiniteSet(A) /\ IsFiniteSet(B)
  BY CountType
<1> HIDE DEF A, B
<1>3. Cardinality(A) \in Nat /\ Cardinality(B) \in Nat /\ Cardinality(A \cap B) = 0
  BY <1>1, <1>2, FS_CardinalityType, FS_EmptySet
<1>4. Cardinality(A \cup B) = Cardinality(A) + Cardinality(B) - Cardinality(A \cap B)
  BY <1>2, FS_Union
<1>5. Cardinality(A \cup B) = Cardinality(A) + Cardinality(B)
  BY <1>3, <1>4
<1>6. HowMany(q, T \cup {x}) = Cardinality(A \cup B)
  BY <1>1 DEF HowMany
<1>7. HowMany(q, T) = Cardinality(A) /\ HowMany(q, {x}) = Cardinality(B)
  BY DEF HowMany, A, B
<1> QED BY <1>5, <1>6, <1>7

(* All elements up to a number, one number at a time. *)
LEMMA CountUpTo ==
  ASSUME NEW n \in Nat, NEW q \in Seq(1 .. n)
  PROVE  /\ HowMany(q, 1 .. 0) = 0 /\ HowMany(q, 1 .. n) = Len(q)
         /\ \A i \in 1 .. n : HowMany(q, 1 .. i) = HowMany(q, 1 .. i - 1) + Occurs(q, i)
<1>1. HowMany(q, 1 .. 0) = 0
  <2>1. Places(q, 1 .. 0) = {}
    BY DEF Places
  <2> QED BY <2>1, FS_EmptySet DEF HowMany
<1>2. HowMany(q, 1 .. n) = Len(q)
  <2>1. Len(q) \in Nat /\ DOMAIN q = 1 .. Len(q) /\ \A i \in 1 .. Len(q) : q[i] \in 1 .. n
    BY LenProperties, ElementOfSeq
  <2>2. Places(q, 1 .. n) = 1 .. Len(q)
    BY <2>1 DEF Places
  <2>3. Cardinality(1 .. Len(q)) = Len(q)
    <3>1. \A m \in Nat : Cardinality(1 .. m) = m
      BY FS_Interval
    <3> QED BY <2>1, <3>1
  <2> QED BY <2>2, <2>3 DEF HowMany
<1>3. ASSUME NEW i \in 1 .. n
      PROVE  HowMany(q, 1 .. i) = HowMany(q, 1 .. i - 1) + Occurs(q, i)
  <2>1. i \notin 1 .. i - 1 /\ 1 .. i = (1 .. i - 1) \cup {i}
    OBVIOUS
  <2>2. HowMany(q, (1 .. i - 1) \cup {i}) = HowMany(q, 1 .. i - 1) + HowMany(q, {i})
    BY <2>1, CountDisjoint
  <2> QED BY <2>1, <2>2 DEF Occurs
<1> QED BY <1>1, <1>2, <1>3

-----------------------------------------------------------------------------
(* S holds the sums of the first values of v, up to n of them. *)
PartialSums(S, v, n) ==
  /\ S \in [0 .. n -> Int] /\ S[0] = 0
  /\ \A i \in 1 .. n : S[i] = S[i - 1] + v[i]

LEMMA PartialSumsUnique ==
  ASSUME NEW n \in Nat, NEW v, NEW S, PartialSums(S, v, n), NEW f, f[0] = 0,
         \A i \in 1 .. n : f[i] = f[i - 1] + v[i]
  PROVE  f[n] = S[n] /\ S[n] \in Int
<1> DEFINE W == {i \in 0 .. n : f[i] # S[i]}
<1>1. ASSUME W # {} PROVE FALSE
  <2>1. W \in SUBSET Nat
    OBVIOUS
  <2>2. PICK m \in W : \A i \in W : m <= i
    BY <1>1, <2>1, MinProperties
  <2>3. m # 0
    BY <2>2 DEF PartialSums
  <2>4. m \in 1 .. n /\ m - 1 \in 0 .. n /\ m - 1 \notin W
    BY <2>2, <2>3
  <2>5. f[m - 1] = S[m - 1]
    BY <2>4
  <2> QED BY <2>2, <2>4, <2>5 DEF PartialSums
<1> QED BY <1>1 DEF PartialSums

(* One value changes. *)
LEMMA PartialSumsAt ==
  ASSUME NEW n \in Nat, NEW v, NEW w, NEW S, PartialSums(S, v, n),
         NEW k \in 1 .. n, NEW d \in Int, w[k] = v[k] + d,
         \A i \in 1 .. n : v[i] \in Int /\ (i # k => w[i] = v[i])
  PROVE  \E R : PartialSums(R, w, n) /\ R[n] = S[n] + d
<1> DEFINE R == [i \in 0 .. n |-> IF i < k THEN S[i] ELSE S[i] + d]
<1>1. /\ S \in [0 .. n -> Int] /\ S[0] = 0
      /\ \A i \in 1 .. n : S[i] = S[i - 1] + v[i]
  BY DEF PartialSums
<1>2. R \in [0 .. n -> Int] /\ R[0] = 0 /\ R[n] = S[n] + d
  BY <1>1
<1>3. ASSUME NEW i \in 1 .. n
      PROVE  R[i] = R[i - 1] + w[i]
  <2>0. i \in 0 .. n /\ i - 1 \in 0 .. n
    OBVIOUS
  <2>1. S[i] \in Int /\ S[i - 1] \in Int /\ S[i] = S[i - 1] + v[i] /\ v[i] \in Int
    BY <1>1, <2>0
  <2>2. CASE i < k
    <3>1. R[i] = S[i] /\ R[i - 1] = S[i - 1] /\ w[i] = v[i]
      BY <2>0, <2>2
    <3> QED BY <2>1, <3>1
  <2>3. CASE i = k
    <3>1. R[i] = S[i] + d /\ R[i - 1] = S[i - 1] /\ w[i] = v[i] + d
      BY <2>0, <2>3
    <3> QED BY <2>1, <3>1
  <2>4. CASE i > k
    <3>1. R[i] = S[i] + d /\ R[i - 1] = S[i - 1] + d /\ w[i] = v[i]
      BY <2>0, <2>4
    <3> QED BY <2>1, <3>1
  <2> QED BY <2>2, <2>3, <2>4
<1> HIDE DEF R
<1>4. PartialSums(R, w, n)
  BY <1>2, <1>3 DEF PartialSums
<1> QED BY <1>2, <1>4

(* Each value grows by how often its number is in a list. *)
LEMMA PartialSumsCounted ==
  ASSUME NEW n \in Nat, NEW v, NEW w, NEW S, PartialSums(S, v, n),
         NEW P \in SUBSET (1 .. n), NEW q \in Seq(P),
         \A i \in 1 .. n : v[i] \in Int /\ w[i] = v[i] + Occurs(q, i)
  PROVE  \E R : PartialSums(R, w, n) /\ R[n] = S[n] + Len(q)
<1> DEFINE R == [i \in 0 .. n |-> S[i] + HowMany(q, 1 .. i)]
<1>1. /\ S \in [0 .. n -> Int] /\ S[0] = 0
      /\ \A i \in 1 .. n : S[i] = S[i - 1] + v[i]
  BY DEF PartialSums
<1>0. q \in Seq(1 .. n)
  BY SeqMonotonic
<1>2. \A T : HowMany(q, T) \in Int
  <2>1. ASSUME NEW T PROVE HowMany(q, T) \in Int
    <3>1. HowMany(q, T) \in 0 .. Len(q)
      BY CountType
    <3> QED BY <3>1
  <2> QED BY <2>1
<1>3. R \in [0 .. n -> Int] /\ R[0] = 0 /\ R[n] = S[n] + Len(q)
  BY <1>0, <1>1, <1>2, CountUpTo
<1>4. ASSUME NEW i \in 1 .. n
      PROVE  R[i] = R[i - 1] + w[i]
  <2>0. i \in 0 .. n /\ i - 1 \in 0 .. n
    OBVIOUS
  <2>1. S[i] \in Int /\ S[i - 1] \in Int /\ S[i] = S[i - 1] + v[i] /\ v[i] \in Int
    BY <1>1, <2>0
  <2>2. HowMany(q, 1 .. i) = HowMany(q, 1 .. i - 1) + Occurs(q, i)
    BY <1>0, CountUpTo
  <2>3. R[i] = S[i] + HowMany(q, 1 .. i) /\ R[i - 1] = S[i - 1] + HowMany(q, 1 .. i - 1)
    BY <2>0
  <2>4. w[i] = v[i] + Occurs(q, i)
    OBVIOUS
  <2>5. HowMany(q, 1 .. i - 1) \in Int /\ Occurs(q, i) \in Int
    BY <1>2 DEF Occurs
  <2> HIDE DEF R
  <2> QED BY <2>1, <2>2, <2>3, <2>4, <2>5
<1> HIDE DEF R
<1>5. PartialSums(R, w, n)
  BY <1>3, <1>4 DEF PartialSums
<1> QED BY <1>3, <1>5

-----------------------------------------------------------------------------
(* Elements of sequences that are put together or taken apart.            *)
(* A sequence of some numbers is a sequence over any set that holds them.  *)
LEMMA ListOf ==
  ASSUME NEW r \in Seq(Nat), NEW S, \A x \in ToSet(r) : x \in S
  PROVE  r \in Seq(S)
<1>1. \A i \in 1 .. Len(r) : r[i] \in S
  <2> SUFFICES ASSUME NEW i \in 1 .. Len(r) PROVE r[i] \in S
    OBVIOUS
  <2>1. r[i] \in ToSet(r)
    BY LenProperties DEF ToSet
  <2> QED BY <2>1
<1>2. Len(r) \in Nat /\ r \in [1 .. Len(r) -> S]
  BY <1>1, LenProperties
<1> QED BY <1>2

(* The size of a set of numbers that holds with each number those below it. *)
LEMMA DownTo ==
  ASSUME NEW m \in Nat, NEW S \in SUBSET (1 .. m),
         \A i \in S : \A j \in 1 .. m : j <= i => j \in S
  PROVE  /\ Cardinality(S) \in Nat
         /\ Cardinality(S) > 0 => Cardinality(S) \in S
<1>1. CASE S = {}
  BY <1>1, FS_EmptySet
<1>2. CASE S # {}
  <2>1. S \in SUBSET Nat /\ \A x \in S : x <= m
    OBVIOUS
  <2> DEFINE a == Max(S)
  <2>2. a \in S /\ \A x \in S : a >= x
    BY <1>2, <2>1, MaxProperties
  <2> HIDE DEF a
  <2>3. S = 1 .. a /\ a \in Nat
    <3>1. a \in 1 .. m
      BY <2>2
    <3>2. \A x \in S : x \in 1 .. a
      BY <2>2, <3>1
    <3>3. \A x \in 1 .. a : x \in S
      BY <2>2, <3>1
    <3>4. a \in Nat
      BY <3>1
    <3>5. S \subseteq 1 .. a /\ 1 .. a \subseteq S
      BY <3>2, <3>3
    <3> QED BY <3>4, <3>5
  <2>4. Cardinality(S) = a
    BY <2>3, FS_Interval
  <2> QED BY <2>2, <2>3, <2>4
<1> QED BY <1>1, <1>2

(* Every element of c is one of p or one of q. *)
OfBoth(c, p, q) ==
  \A i \in DOMAIN c : \/ \E j \in DOMAIN p : c[i] = p[j]
                      \/ \E j \in 1 .. Len(q) : c[i] = q[j]

LEMMA ConcatElements ==
  ASSUME NEW S, NEW p \in Seq(S), NEW q \in Seq(S), NEW c, c = p \o q
  PROVE  c \in Seq(S) /\ OfBoth(c, p, q)
<1>1. /\ c \in Seq(S) /\ Len(c) = Len(p) + Len(q)
      /\ \A i \in 1 .. Len(p) + Len(q) :
           c[i] = IF i <= Len(p) THEN p[i] ELSE q[i - Len(p)]
  BY ConcatProperties
<1>2. Len(p) \in Nat /\ Len(q) \in Nat /\ DOMAIN p = 1 .. Len(p)
  BY LenProperties
<1>3. DOMAIN c = 1 .. Len(p) + Len(q)
  BY <1>1, LenProperties
<1>4. ASSUME NEW i \in DOMAIN c
      PROVE  \/ \E j \in DOMAIN p : c[i] = p[j]
             \/ \E j \in 1 .. Len(q) : c[i] = q[j]
  <2>1. CASE i <= Len(p)
    BY <1>1, <1>2, <1>3, <2>1
  <2>2. CASE ~ (i <= Len(p))
    <3>1. i - Len(p) \in 1 .. Len(q)
      BY <1>2, <1>3, <2>2
    <3> QED BY <1>1, <1>3, <2>2, <3>1
  <2> QED BY <2>1, <2>2
<1> QED BY <1>1, <1>4 DEF OfBoth

(* What is left is what was there. *)
LEMMA RemoveAtElements ==
  ASSUME NEW S, NEW p \in Seq(S), NEW k \in DOMAIN p
  PROVE  /\ RemoveAt(p, k) \in Seq(S)
         /\ \A i \in DOMAIN RemoveAt(p, k) :
              \E j \in DOMAIN p : RemoveAt(p, k)[i] = p[j]
<1> DEFINE c == RemoveAt(p, k)
<1>1. k \in 1 .. Len(p) /\ DOMAIN p = 1 .. Len(p) /\ Len(p) \in Nat
  BY LenProperties
<1>2. /\ c \in Seq(S) /\ Len(c) = Len(p) - 1
      /\ \A i \in 1 .. Len(p) - 1 : c[i] = IF i < k THEN p[i] ELSE p[i + 1]
  BY <1>1, RemoveAtProperties
<1> HIDE DEF c
<1>3. DOMAIN c = 1 .. Len(p) - 1
  BY <1>2, LenProperties
<1>4. ASSUME NEW i \in DOMAIN c PROVE \E j \in DOMAIN p : c[i] = p[j]
  <2>1. i \in 1 .. Len(p) /\ i + 1 \in 1 .. Len(p)
    BY <1>1, <1>3
  <2>2. c[i] = p[i] \/ c[i] = p[i + 1]
    BY <1>2, <1>3
  <2> QED BY <1>1, <2>1, <2>2
<1> QED BY <1>2, <1>4 DEF c
-----------------------------------------------------------------------------
(* The sizes of a sequence of packets: S sums them up and is total at the  *)
(* end.                                                                    *)
SizeSums(S, q, total) ==
  /\ S \in [0 .. Len(q) -> Nat]
  /\ S[0] = 0
  /\ \A i \in 1 .. Len(q) : S[i] = S[i - 1] + q[i].size
  /\ \A i, j \in 0 .. Len(q) : i <= j => S[i] <= S[j]
  /\ total = S[Len(q)]
Summed(q, total) == \E S : SizeSums(S, q, total)

TotalSize(q) ==
  LET sum[n \in 0 .. Len(q)] == IF n = 0 THEN 0 ELSE sum[n - 1] + q[n].size
  IN  sum[Len(q)]

(* The recursive function of TotalSize is such a sum: there is one         *)
(* function only that satisfies its equation.                              *)
LEMMA SummedIsTotal ==
  ASSUME NEW R, NEW q \in Seq(R), NEW total, Summed(q, total)
  PROVE  total = TotalSize(q) /\ total \in Nat
<1> DEFINE D == 0 .. Len(q)
           Rec(g) == [n \in D |-> IF n = 0 THEN 0 ELSE g[n - 1] + q[n].size]
           f == CHOOSE g : g = Rec(g)
<1>0. Len(q) \in Nat
  BY LenProperties
<1>1. PICK S : SizeSums(S, q, total)
  BY DEF Summed
<1>2. S = Rec(S)
  <2>1. \A n \in D : S[n] = IF n = 0 THEN 0 ELSE S[n - 1] + q[n].size
    BY <1>0, <1>1 DEF SizeSums
  <2> QED BY <1>1, <2>1 DEF SizeSums
<1>3. f = Rec(f)
  BY <1>2
<1>4. TotalSize(q) = f[Len(q)]
  BY DEF TotalSize
<1> HIDE DEF f
<1>5. f[0] = 0 /\ \A n \in 1 .. Len(q) : f[n] = f[n - 1] + q[n].size
  <2>1. \A n \in D : f[n] = IF n = 0 THEN 0 ELSE f[n - 1] + q[n].size
    BY <1>3
  <2> QED BY <1>0, <2>1
<1>6. \A n \in D : f[n] = S[n]
  <2> DEFINE W == {n \in D : f[n] # S[n]}
  <2> SUFFICES ASSUME W # {} PROVE FALSE
    OBVIOUS
  <2>1. W \in SUBSET Nat
    BY <1>0
  <2>2. PICK m \in W : \A n \in W : m <= n
    BY <2>1, MinProperties
  <2>3. m # 0
    BY <1>1, <1>5, <2>2 DEF SizeSums
  <2>4. m \in 1 .. Len(q) /\ m - 1 \in D /\ m - 1 \notin W
    BY <1>0, <2>2, <2>3
  <2>5. f[m - 1] = S[m - 1]
    BY <2>4
  <2> QED BY <1>1, <1>5, <2>2, <2>4, <2>5 DEF SizeSums
<1> QED BY <1>0, <1>1, <1>4, <1>6 DEF SizeSums

LEMMA SummedEmpty == Summed(<<>>, 0)
<1>1. Len(<<>>) = 0
  OBVIOUS
<1>2. SizeSums([n \in 0 .. 0 |-> 0], <<>>, 0)
  BY <1>1 DEF SizeSums
<1> QED BY <1>2 DEF Summed

LEMMA SummedAppend ==
  ASSUME NEW R, NEW q \in Seq(R), NEW r \in Seq(R), NEW total, Summed(q, total),
         Len(r) = Len(q) + 1, r[Len(q) + 1].size \in Nat,
         \A i \in 1 .. Len(q) : r[i] = q[i]
  PROVE  Summed(r, total + r[Len(q) + 1].size)
<1> DEFINE k == Len(q) + 1
<1>0. Len(q) \in Nat
  BY LenProperties
<1>1. PICK S : SizeSums(S, q, total)
  BY DEF Summed
<1> DEFINE T == [n \in 0 .. k |-> IF n = k THEN total + r[k].size ELSE S[n]]
<1>2. total \in Nat /\ \A n \in 0 .. Len(q) : S[n] \in Nat /\ S[n] <= total
  BY <1>0, <1>1 DEF SizeSums
<1>3. T \in [0 .. k -> Nat] /\ T[0] = 0
  BY <1>0, <1>1, <1>2 DEF SizeSums
<1>4. \A i \in 1 .. k : T[i] = T[i - 1] + r[i].size
  <2> SUFFICES ASSUME NEW i \in 1 .. k PROVE T[i] = T[i - 1] + r[i].size
    OBVIOUS
  <2>1. CASE i = k
    <3>1. T[i] = total + r[k].size /\ T[i - 1] = S[Len(q)]
      BY <1>0, <2>1
    <3> QED BY <1>1, <2>1, <3>1 DEF SizeSums
  <2>2. CASE i # k
    <3>1. i \in 1 .. Len(q) /\ T[i] = S[i] /\ T[i - 1] = S[i - 1]
      BY <1>0, <2>2
    <3> QED BY <1>1, <3>1 DEF SizeSums
  <2> QED BY <2>1, <2>2
<1>5. \A i, j \in 0 .. k : i <= j => T[i] <= T[j]
  <2> SUFFICES ASSUME NEW i \in 0 .. k, NEW j \in 0 .. k, i <= j PROVE T[i] <= T[j]
    OBVIOUS
  <2>1. CASE j = k
    BY <1>0, <1>2, <2>1
  <2>2. CASE j # k
    <3>1. i \in 0 .. Len(q) /\ j \in 0 .. Len(q) /\ T[i] = S[i] /\ T[j] = S[j]
      BY <1>0, <2>2
    <3> QED BY <1>1, <3>1 DEF SizeSums
  <2> QED BY <2>1, <2>2
<1>6. SizeSums(T, r, total + r[k].size)
  <2>1. Len(r) = k /\ T[k] = total + r[k].size
    BY <1>0
  <2> HIDE DEF T
  <2> QED BY <1>3, <1>4, <1>5, <2>1 DEF SizeSums
<1> QED BY <1>6 DEF Summed

LEMMA SummedTail ==
  ASSUME NEW R, NEW q \in Seq(R), NEW r \in Seq(R), NEW total, Summed(q, total),
         Len(q) >= 1, Len(r) = Len(q) - 1, \A i \in 1 .. Len(q) : q[i].size \in Nat,
         \A i \in 1 .. Len(r) : r[i] = q[i + 1]
  PROVE  Summed(r, total - q[1].size)
<1> DEFINE h == q[1].size
<1>0. Len(q) \in Nat /\ Len(r) \in Nat
  BY LenProperties
<1>1. PICK S : SizeSums(S, q, total)
  BY DEF Summed
<1> DEFINE T == [n \in 0 .. Len(r) |-> S[n + 1] - h]
<1>2. S[1] = h
  BY <1>0, <1>1 DEF SizeSums
<1>3. \A n \in 0 .. Len(r) : S[n + 1] \in Nat /\ S[n + 1] >= h /\ n + 1 \in 0 .. Len(q)
  <2> SUFFICES ASSUME NEW n \in 0 .. Len(r)
               PROVE  S[n + 1] \in Nat /\ S[n + 1] >= h /\ n + 1 \in 0 .. Len(q)
    OBVIOUS
  <2>1. n + 1 \in 0 .. Len(q) /\ 1 \in 0 .. Len(q) /\ 1 <= n + 1
    BY <1>0
  <2> QED BY <1>1, <1>2, <2>1 DEF SizeSums
<1>4. T \in [0 .. Len(r) -> Nat] /\ T[0] = 0
  <2>1. \A n \in 0 .. Len(r) : S[n + 1] - h \in Nat
    <3> SUFFICES ASSUME NEW n \in 0 .. Len(r) PROVE S[n + 1] - h \in Nat
      OBVIOUS
    <3>1. S[n + 1] \in Nat /\ S[n + 1] >= h /\ h \in Nat
      BY <1>0, <1>3
    <3> HIDE DEF h
    <3> QED BY <3>1
  <2>2. T[0] = S[1] - h /\ h \in Nat
    BY <1>0
  <2>3. T[0] = 0
    <3> HIDE DEF h, T
    <3> QED BY <1>2, <2>2
  <2> QED BY <2>1, <2>3
<1>5. \A i \in 1 .. Len(r) : T[i] = T[i - 1] + r[i].size
  <2> SUFFICES ASSUME NEW i \in 1 .. Len(r) PROVE T[i] = T[i - 1] + r[i].size
    OBVIOUS
  <2>1. i + 1 \in 1 .. Len(q) /\ T[i] = S[i + 1] - h /\ T[i - 1] = S[i] - h
    BY <1>0
  <2>2. S[i + 1] = S[i] + r[i].size
    <3>1. (i + 1) - 1 = i /\ r[i] = q[i + 1]
      OBVIOUS
    <3>2. S[i + 1] = S[(i + 1) - 1] + q[i + 1].size
      BY <1>1, <2>1 DEF SizeSums
    <3> QED BY <3>1, <3>2
  <2>3. /\ S[i + 1] \in Nat /\ S[i] \in Nat /\ S[i] >= h /\ S[i + 1] >= S[i]
        /\ h \in Nat
    <3>1. i \in 0 .. Len(q) /\ 1 \in 0 .. Len(q) /\ i + 1 \in 0 .. Len(q)
      BY <1>0
    <3> QED BY <1>1, <1>2, <3>1 DEF SizeSums
  <2>4. r[i].size = S[i + 1] - S[i]
    <3>1. r[i].size \in Nat
      BY <2>1
    <3> QED BY <2>2, <2>3, <3>1
  <2> QED BY <2>1, <2>3, <2>4
<1>6. \A i, j \in 0 .. Len(r) : i <= j => T[i] <= T[j]
  BY <1>0, <1>1, <1>3 DEF SizeSums
<1>7. total - h = T[Len(r)]
  BY <1>0, <1>1 DEF SizeSums
<1>8. SizeSums(T, r, total - h)
  BY <1>4, <1>5, <1>6, <1>7 DEF SizeSums
<1> QED BY <1>8 DEF Summed

(* The last one is taken off. *)
LEMMA SummedFront ==
  ASSUME NEW R, NEW q \in Seq(R), NEW r \in Seq(R), NEW total, Summed(q, total),
         Len(q) >= 1, Len(r) = Len(q) - 1, q[Len(q)].size \in Nat,
         \A i \in 1 .. Len(r) : r[i] = q[i]
  PROVE  /\ Summed(r, total - q[Len(q)].size)
         /\ total \in Nat /\ q[Len(q)].size <= total
         /\ Len(q) = 1 => total = q[Len(q)].size
<1> DEFINE k == Len(q)
<1>0. k \in Nat \ {0} /\ Len(r) = k - 1
  BY LenProperties
<1>1. PICK S : SizeSums(S, q, total)
  BY DEF Summed
<1>2. /\ total \in Nat /\ S[k - 1] \in Nat /\ total = S[k - 1] + q[k].size
      /\ S[0] = 0
  <2>1. /\ S \in [0 .. k -> Nat] /\ S[0] = 0 /\ total = S[k]
        /\ \A i \in 1 .. k : S[i] = S[i - 1] + q[i].size
    BY <1>1, Zenon DEF SizeSums
  <2> HIDE DEF k
  <2>2. k \in 0 .. k /\ k - 1 \in 0 .. k /\ k \in 1 .. k
    BY <1>0
  <2> QED BY <2>1, <2>2
<1> DEFINE T == [n \in 0 .. k - 1 |-> S[n]]
<1>3. S[k - 1] = total - q[k].size /\ q[k].size <= total
  <2> HIDE DEF k
  <2>1. q[k].size \in Nat
    BY DEF k
  <2> QED BY <1>2, <2>1
<1>4. SizeSums(T, r, S[k - 1])
  <2>1. T \in [0 .. k - 1 -> Nat] /\ T[0] = 0 /\ S[k - 1] = T[k - 1]
    BY <1>0, <1>1 DEF SizeSums
  <2>2. \A i \in 1 .. k - 1 : T[i] = T[i - 1] + r[i].size
    BY <1>0, <1>1 DEF SizeSums
  <2>3. \A i, j \in 0 .. k - 1 : i <= j => T[i] <= T[j]
    BY <1>0, <1>1 DEF SizeSums
  <2> HIDE DEF T
  <2> QED BY <1>0, <2>1, <2>2, <2>3 DEF SizeSums
<1>5. k = 1 => total = q[k].size
  <2>1. CASE k = 1
    <3>1. S[k - 1] = 0
      BY <1>2, <2>1
    <3>2. q[k].size \in Nat
      OBVIOUS
    <3> HIDE DEF k
    <3> QED BY <1>2, <3>1, <3>2
  <2> QED BY <2>1
<1> QED BY <1>2, <1>3, <1>4, <1>5 DEF Summed

-----------------------------------------------------------------------------
(* A finite set as a sequence of its elements. *)
LEMMA SetToSeqProperties ==
  ASSUME NEW S, IsFiniteSet(S)
  PROVE  /\ SetToSeq(S) \in Seq(S)
         /\ Cardinality(S) \in Nat
         /\ Len(SetToSeq(S)) = Cardinality(S)
         /\ \A x \in S : \E i \in 1 .. Cardinality(S) : SetToSeq(S)[i] = x
         /\ \A i, j \in 1 .. Cardinality(S) : SetToSeq(S)[i] = SetToSeq(S)[j] => i = j
<1> DEFINE n == Cardinality(S)
           D == 1 .. n
           q == SetToSeq(S)
<1>1. n \in Nat /\ ExistsBijection(D, S)
  BY FS_CardinalityType
<1> HIDE DEF n
<1>2. PICK g \in Bijection(D, S) : TRUE
  BY <1>1 DEF ExistsBijection
<1>3. g \in [D -> S] /\ IsInjective(g)
  BY <1>2 DEF Bijection, Injection
<1>4. q = CHOOSE f \in [D -> S] : IsInjective(f)
  BY Zenon DEF SetToSeq, n
<1> HIDE DEF q
<1>5. q \in [D -> S] /\ IsInjective(q)
  BY <1>3, <1>4, Zenon
<1>6. q \in Injection(D, S)
  BY <1>5 DEF Injection
<1>7. IsFiniteSet(D) /\ Cardinality(D) = Cardinality(S)
  BY <1>1, FS_Interval DEF n
<1>8. q \in Surjection(D, S)
  <2> HIDE DEF D
  <2> QED BY <1>6, <1>7, FS_Injection
<1>9. q \in Seq(S) /\ Len(q) = n
  BY <1>1, <1>5
<1>10. \A i, j \in D : q[i] = q[j] => i = j
  BY <1>5 DEF IsInjective
<1>11. \A x \in S : \E i \in D : q[i] = x
  BY <1>8 DEF Surjection
<1> QED BY <1>1, <1>9, <1>10, <1>11 DEF q, n
=============================================================================
