----------------------------- MODULE ProofLemmas -----------------------------
(***************************************************************************)
(* Facts about counting and about sequences without repetition that the    *)
(* proofs about several components need.                                   *)
(***************************************************************************)
EXTENDS Integers, Sequences, SequencesExt, FiniteSets, FiniteSetTheorems, SequenceTheorems,
        WellFoundedInduction, TLAPS

\* How a subset of a finite set is counted when an element comes or goes.
LEMMA CountChange ==
  ASSUME NEW S, IsFiniteSet(S), NEW A \in SUBSET S, NEW x \in S
  PROVE  /\ IsFiniteSet(A) /\ Cardinality(A) \in Nat
         /\ Cardinality(A) <= Cardinality(S) /\ Cardinality(S) \in Nat
         /\ x \notin A => Cardinality(A \cup {x}) = Cardinality(A) + 1
         /\ x \in A => Cardinality(A \ {x}) = Cardinality(A) - 1 /\ Cardinality(A) > 0
<1>1. IsFiniteSet(A) /\ Cardinality(A) \in Nat /\ Cardinality(S) \in Nat
      /\ Cardinality(A) <= Cardinality(S)
  BY FS_Subset, FS_CardinalityType
<1>2. x \notin A => Cardinality(A \cup {x}) = Cardinality(A) + 1 BY <1>1, FS_AddElement
<1>3. x \in A => Cardinality(A \ {x}) = Cardinality(A) - 1 BY <1>1, FS_RemoveElement
<1>4. x \in A => Cardinality(A) # 0 BY <1>1, FS_EmptySet
<1>5. QED BY <1>1, <1>2, <1>3, <1>4

\* A set whose elements are all equal has at most one.
LEMMA AtMostOne ==
  ASSUME NEW S, \A x, y \in S : x = y
  PROVE  Cardinality(S) <= 1
<1>1. CASE S = {} BY <1>1, FS_EmptySet
<1>2. CASE S # {}
  <2>1. PICK x \in S : S = {x} BY <1>2
  <2>2. Cardinality({x}) = 1 BY FS_Singleton
  <2>3. QED BY <2>1, <2>2
<1>3. QED BY <1>1, <1>2

\* What a sequence holds.
LEMMA RangeOf ==
  ASSUME NEW S, NEW s \in Seq(S)
  PROVE  /\ Range(s) \subseteq S /\ ToSet(s) = Range(s)
         /\ DOMAIN s = 1..Len(s) /\ Len(s) \in Nat
         /\ \A i \in 1..Len(s) : s[i] \in S
         /\ s = <<>> <=> Range(s) = {}
<1>1. DOMAIN s = 1..Len(s) /\ Len(s) \in Nat /\ \A i \in 1..Len(s) : s[i] \in S OBVIOUS
<1>2. Range(s) \subseteq S /\ ToSet(s) = Range(s) BY <1>1 DEF Range, ToSet
<1>3. s = <<>> => Range(s) = {}
  <2>1. DOMAIN <<>> = {} OBVIOUS
  <2>2. QED BY <2>1 DEF Range
<1>4. s # <<>> => Range(s) # {}
  <2>1. s # <<>> => 1 \in DOMAIN s OBVIOUS
  <2>2. QED BY <2>1 DEF Range
<1>5. QED BY <1>1, <1>2, <1>3, <1>4

\* A sequence without repetition, after its first element is taken.
LEMMA TailOnce ==
  ASSUME NEW S, NEW s \in Seq(S), s # <<>>, IsInjective(s)
  PROVE  /\ Tail(s) \in Seq(S) /\ Head(s) \in S /\ Head(s) \in Range(s)
         /\ IsInjective(Tail(s)) /\ Range(Tail(s)) = Range(s) \ {Head(s)}
<1>1. /\ Tail(s) \in Seq(S) /\ Head(s) = s[1] /\ Head(s) \in S /\ Len(s) \in Nat \ {0}
      /\ DOMAIN s = 1..Len(s) /\ DOMAIN Tail(s) = 1..Len(s) - 1
      /\ \A i \in 1..Len(s) - 1 : Tail(s)[i] = s[i + 1]
  OBVIOUS
<1>2. \A i, j \in 1..Len(s) : s[i] = s[j] => i = j BY <1>1 DEF IsInjective
<1>3. Head(s) \in Range(s) BY <1>1 DEF Range
<1>4. IsInjective(Tail(s))
  <2> SUFFICES ASSUME NEW i \in DOMAIN Tail(s), NEW j \in DOMAIN Tail(s), Tail(s)[i] = Tail(s)[j]
               PROVE  i = j
    BY DEF IsInjective
  <2>1. s[i + 1] = s[j + 1] /\ i + 1 \in 1..Len(s) /\ j + 1 \in 1..Len(s) /\ i \in Nat /\ j \in Nat
    BY <1>1
  <2>2. i + 1 = j + 1 BY <1>2, <2>1
  <2>3. QED BY <2>1, <2>2
<1>5. Range(Tail(s)) \subseteq Range(s) \ {Head(s)}
  <2> SUFFICES ASSUME NEW i \in DOMAIN Tail(s) PROVE Tail(s)[i] \in Range(s) \ {Head(s)}
    BY DEF Range
  <2>1. Tail(s)[i] = s[i + 1] /\ i + 1 \in DOMAIN s /\ i + 1 # 1 /\ 1 \in DOMAIN s BY <1>1
  <2>2. QED BY <1>1, <1>2, <2>1 DEF Range
<1>6. Range(s) \ {Head(s)} \subseteq Range(Tail(s))
  <2> SUFFICES ASSUME NEW i \in DOMAIN s, s[i] # Head(s) PROVE s[i] \in Range(Tail(s))
    BY DEF Range
  <2>1. i - 1 \in DOMAIN Tail(s) /\ (i - 1) + 1 = i /\ i - 1 \in 1..Len(s) - 1 BY <1>1
  <2>2. Tail(s)[i - 1] = s[i] BY <1>1, <2>1
  <2>3. QED BY <2>1, <2>2 DEF Range
<1>7. QED BY <1>1, <1>3, <1>4, <1>5, <1>6

\* The same after an element is put at its end.
LEMMA AppendOnce ==
  ASSUME NEW S, NEW s \in Seq(S), NEW x \in S \ Range(s), IsInjective(s)
  PROVE  /\ Append(s, x) \in Seq(S)
         /\ IsInjective(Append(s, x)) /\ Range(Append(s, x)) = Range(s) \cup {x}
<1>1. /\ Append(s, x) \in Seq(S) /\ Len(s) \in Nat /\ DOMAIN s = 1..Len(s)
      /\ DOMAIN Append(s, x) = 1..Len(s) + 1 /\ Append(s, x)[Len(s) + 1] = x
      /\ \A i \in 1..Len(s) : Append(s, x)[i] = s[i]
  OBVIOUS
<1>2. \A i, j \in 1..Len(s) : s[i] = s[j] => i = j BY <1>1 DEF IsInjective
<1>3. \A i \in 1..Len(s) : s[i] # x BY <1>1 DEF Range
<1>4. \A i \in DOMAIN Append(s, x) : i \in 1..Len(s) \/ i = Len(s) + 1 BY <1>1
<1>5. IsInjective(Append(s, x))
  <2> DEFINE t == Append(s, x)
  <2>1. \A i, j \in DOMAIN t : t[i] = t[j] => i = j BY <1>1, <1>2, <1>3, <1>4
  <2>2. QED BY <2>1 DEF IsInjective
<1>6. Range(Append(s, x)) \subseteq Range(s) \cup {x} BY <1>1, <1>4 DEF Range
<1>7. Range(s) \cup {x} \subseteq Range(Append(s, x))
  <2>1. Len(s) + 1 \in DOMAIN Append(s, x) /\ 1..Len(s) \subseteq DOMAIN Append(s, x) BY <1>1
  <2>2. QED BY <1>1, <2>1 DEF Range
<1>8. QED BY <1>1, <1>5, <1>6, <1>7

\* The elements of a sequence without its i-th.
LEMMA RemovedAt ==
  ASSUME NEW S, NEW s \in Seq(S), NEW i \in DOMAIN s
  PROVE  /\ RemoveAt(s, i) \in Seq(S) /\ Len(RemoveAt(s, i)) = Len(s) - 1
         /\ Len(s) \in Nat /\ i \in 1..Len(s) /\ DOMAIN s = 1..Len(s)
         /\ DOMAIN RemoveAt(s, i) = 1..(Len(s) - 1)
         /\ \A k \in 1..(Len(s) - 1) : RemoveAt(s, i)[k] = IF k < i THEN s[k] ELSE s[k + 1]
<1> DEFINE t == RemoveAt(s, i)
<1>1. Len(s) \in Nat /\ i \in 1..Len(s) /\ DOMAIN s = 1..Len(s) OBVIOUS
<1>2. t = SubSeq(s, 1, i - 1) \o SubSeq(s, i + 1, Len(s)) BY DEF RemoveAt
<1>3. /\ SubSeq(s, 1, i - 1) \in Seq(S) /\ Len(SubSeq(s, 1, i - 1)) = i - 1
      /\ \A k \in 1..(i - 1) : SubSeq(s, 1, i - 1)[k] = s[k]
  BY <1>1
<1>4. /\ SubSeq(s, i + 1, Len(s)) \in Seq(S) /\ Len(SubSeq(s, i + 1, Len(s))) = Len(s) - i
      /\ \A k \in 1..(Len(s) - i) : SubSeq(s, i + 1, Len(s))[k] = s[i + k]
  BY <1>1
<1>a. \A p, q \in Seq(S) :
        /\ p \o q \in Seq(S) /\ Len(p \o q) = Len(p) + Len(q)
        /\ \A k \in 1..Len(p) : (p \o q)[k] = p[k]
        /\ \A k \in 1..Len(q) : (p \o q)[Len(p) + k] = q[k]
  OBVIOUS
<1>5. t \in Seq(S) /\ Len(t) = Len(s) - 1 /\ DOMAIN t = 1..(Len(s) - 1)
  <2>1. t \in Seq(S) /\ Len(t) = (i - 1) + (Len(s) - i) BY <1>2, <1>3, <1>4, <1>a
  <2>2. QED BY <1>1, <2>1
<1>6. \A k \in 1..(Len(s) - 1) : t[k] = IF k < i THEN s[k] ELSE s[k + 1]
  <2> SUFFICES ASSUME NEW k \in 1..(Len(s) - 1) PROVE t[k] = IF k < i THEN s[k] ELSE s[k + 1] OBVIOUS
  <2> DEFINE p == SubSeq(s, 1, i - 1)
             q == SubSeq(s, i + 1, Len(s))
             n == k - (i - 1)
  <2>0. /\ p \in Seq(S) /\ q \in Seq(S) /\ t = p \o q /\ Len(p) = i - 1 /\ Len(q) = Len(s) - i
        /\ \A m \in 1..(i - 1) : p[m] = s[m]
        /\ \A m \in 1..(Len(s) - i) : q[m] = s[i + m]
    BY <1>2, <1>3, <1>4
  <2> HIDE DEF p, q
  <2>1. CASE k < i
    <3>1. k \in 1..Len(p) BY <1>1, <2>0, <2>1
    <3>2. t[k] = p[k] BY <1>a, <2>0, <3>1
    <3>3. QED BY <2>0, <2>1, <3>1, <3>2
  <2>2. CASE k >= i
    <3>1. n \in 1..Len(q) /\ Len(p) + n = k /\ i + n = k + 1 BY <1>1, <2>0, <2>2
    <3> HIDE DEF n, t
    <3>2. (p \o q)[k] = q[n]
      <4>1. \A m \in 1..Len(q) : (p \o q)[Len(p) + m] = q[m] BY <1>a, <2>0
      <4>2. QED BY <3>1, <4>1
    <3>3. q[n] = s[i + n] BY <2>0, <3>1
    <3>4. t[k] = q[n] BY <2>0, <3>1, <3>2
    <3>5. QED BY <1>1, <2>2, <3>1, <3>3, <3>4
  <2>3. QED BY <1>1, <2>1, <2>2
<1>7. QED BY <1>1, <1>5, <1>6

\* The same after the element at i is taken out.
LEMMA RemoveOnce ==
  ASSUME NEW S, NEW s \in Seq(S), IsInjective(s), NEW i \in DOMAIN s
  PROVE  /\ RemoveAt(s, i) \in Seq(S) /\ IsInjective(RemoveAt(s, i))
         /\ Range(RemoveAt(s, i)) = Range(s) \ {s[i]} /\ Len(RemoveAt(s, i)) = Len(s) - 1
<1> DEFINE t == RemoveAt(s, i)
<1>1. Len(s) \in Nat /\ i \in 1..Len(s) /\ DOMAIN s = 1..Len(s) OBVIOUS
<1>5. t \in Seq(S) /\ Len(t) = Len(s) - 1 /\ DOMAIN t = 1..(Len(s) - 1) BY RemovedAt
<1>6. \A k \in 1..(Len(s) - 1) : t[k] = IF k < i THEN s[k] ELSE s[k + 1] BY RemovedAt
<1> HIDE DEF t
<1>7. \A k, m \in 1..Len(s) : s[k] = s[m] => k = m BY <1>1 DEF IsInjective
<1>8. IsInjective(t)
  <2> SUFFICES ASSUME NEW k \in DOMAIN t, NEW m \in DOMAIN t, t[k] = t[m] PROVE k = m
    BY DEF IsInjective
  <2>1. CASE k < i /\ m < i BY <1>1, <1>5, <1>6, <1>7, <2>1
  <2>2. CASE k < i /\ m >= i
    <3>1. s[k] = s[m + 1] /\ k \in 1..Len(s) /\ m + 1 \in 1..Len(s) BY <1>1, <1>5, <1>6, <2>2
    <3>2. QED BY <1>1, <1>5, <1>7, <2>2, <3>1
  <2>3. CASE k >= i /\ m < i
    <3>1. s[k + 1] = s[m] /\ m \in 1..Len(s) /\ k + 1 \in 1..Len(s) BY <1>1, <1>5, <1>6, <2>3
    <3>2. QED BY <1>1, <1>5, <1>7, <2>3, <3>1
  <2>4. CASE k >= i /\ m >= i
    <3>1. s[k + 1] = s[m + 1] /\ m + 1 \in 1..Len(s) /\ k + 1 \in 1..Len(s)
      BY <1>1, <1>5, <1>6, <2>4
    <3>2. k + 1 = m + 1 BY <1>7, <3>1
    <3>3. QED BY <1>5, <3>2
  <2>5. QED BY <1>1, <1>5, <2>1, <2>2, <2>3, <2>4
<1>9. Range(t) \subseteq Range(s) \ {s[i]}
  <2> SUFFICES ASSUME NEW k \in DOMAIN t PROVE t[k] \in Range(s) \ {s[i]} BY DEF Range
  <2>1. PICK m \in 1..Len(s) : m # i /\ t[k] = s[m]
    <3>1. CASE k < i BY <1>1, <1>5, <1>6, <3>1
    <3>2. CASE k >= i
      <4>1. k + 1 \in 1..Len(s) /\ k + 1 # i /\ t[k] = s[k + 1] BY <1>1, <1>5, <1>6, <3>2
      <4>2. QED BY <4>1
    <3>3. QED BY <1>1, <1>5, <3>1, <3>2
  <2>2. QED BY <1>1, <1>7, <2>1 DEF Range
<1>10. Range(s) \ {s[i]} \subseteq Range(t)
  <2> SUFFICES ASSUME NEW m \in DOMAIN s, s[m] # s[i] PROVE \E k \in DOMAIN t : t[k] = s[m]
    BY DEF Range
  <2>1. CASE m < i BY <1>1, <1>5, <1>6, <2>1
  <2>2. CASE m > i
    <3>1. m - 1 \in DOMAIN t /\ m - 1 \in 1..(Len(s) - 1) /\ ~(m - 1 < i) /\ (m - 1) + 1 = m
      BY <1>1, <1>5, <2>2
    <3>2. t[m - 1] = s[m] BY <1>6, <3>1
    <3>3. QED BY <3>1, <3>2
  <2>3. QED BY <1>1, <2>1, <2>2
<1>11. QED BY <1>5, <1>8, <1>9, <1>10 DEF t

\* The places of x in a sequence.
PlacesOf(s, x) == {i \in DOMAIN s : s[i] = x}

\* They are finitely many, and none if x is not there.
LEMMA Places ==
  ASSUME NEW S, NEW s \in Seq(S), NEW x
  PROVE  /\ IsFiniteSet(PlacesOf(s, x))
         /\ Cardinality(PlacesOf(s, x)) \in Nat
         /\ Cardinality(PlacesOf(s, x)) = 0 => \A i \in DOMAIN s : s[i] # x
         /\ (\A i \in DOMAIN s : s[i] # x) => Cardinality(PlacesOf(s, x)) = 0
<1>1. PICK A : A = PlacesOf(s, x) OBVIOUS
<1>a. A = {i \in DOMAIN s : s[i] = x} BY <1>1 DEF PlacesOf
<1>2. PICK n \in Nat : n = Len(s) /\ DOMAIN s = 1..n OBVIOUS
<1>3. IsFiniteSet(1..n) BY FS_Interval
<1>4. IsFiniteSet(A) /\ Cardinality(A) \in Nat BY <1>a, <1>2, <1>3, FS_Subset, FS_CardinalityType
<1>5. Cardinality(A) = 0 <=> A = {} BY <1>4, FS_EmptySet
<1>6. A = {} <=> \A i \in DOMAIN s : s[i] # x BY <1>a
<1>7. QED BY <1>1, <1>4, <1>5, <1>6, Zenon

\* One more place if it is x that is appended.
LEMMA PlacesAppend ==
  ASSUME NEW S, NEW s \in Seq(S), NEW y \in S, NEW x
  PROVE  Cardinality(PlacesOf(Append(s, y), x))
           = IF x = y THEN Cardinality(PlacesOf(s, x)) + 1
             ELSE Cardinality(PlacesOf(s, x))
<1>1. PICK A : A = PlacesOf(s, x) OBVIOUS
<1>2. PICK B : B = PlacesOf(Append(s, y), x) OBVIOUS
<1>3. PICK n \in Nat : n = Len(s) /\ DOMAIN s = 1..n OBVIOUS
<1>4. /\ DOMAIN Append(s, y) = 1..n + 1 /\ Append(s, y)[n + 1] = y
      /\ \A i \in 1..n : Append(s, y)[i] = s[i]
  BY <1>3
<1>5. \A i \in 1..n + 1 : i \in 1..n \/ i = n + 1 OBVIOUS
<1>6. n + 1 \in 1..n + 1 /\ n + 1 \notin 1..n /\ 1..n \subseteq 1..n + 1 OBVIOUS
<1>7. B = IF x = y THEN A \cup {n + 1} ELSE A BY <1>1, <1>2, <1>3, <1>4, <1>5, <1>6 DEF PlacesOf
<1>8. n + 1 \notin A BY <1>1, <1>3, <1>6 DEF PlacesOf
<1>9. IsFiniteSet(A) BY <1>1, Places
<1>10. Cardinality(A \cup {n + 1}) = Cardinality(A) + 1 BY <1>8, <1>9, FS_AddElement
<1>11. Cardinality(B) = IF x = y THEN Cardinality(A) + 1 ELSE Cardinality(A) BY <1>7, <1>10, Zenon
<1>12. QED BY <1>1, <1>2, <1>11, Zenon

\* One place less if it is x that is removed: the places behind it move up.
LEMMA PlacesRemove ==
  ASSUME NEW S, NEW s \in Seq(S), NEW k \in DOMAIN s, NEW x
  PROVE  Cardinality(PlacesOf(RemoveAt(s, k), x))
           = IF x = s[k] THEN Cardinality(PlacesOf(s, x)) - 1
             ELSE Cardinality(PlacesOf(s, x))
<1>1. PICK P : P = PlacesOf(s, x) OBVIOUS
<1>2. PICK A : A = P \ {k} OBVIOUS
<1>3. PICK r \in Seq(S) : r = RemoveAt(s, k) BY RemovedAt
<1>4. PICK B : B = PlacesOf(r, x) OBVIOUS
<1>5. PICK n \in Nat : n = Len(s) /\ k \in 1..n /\ DOMAIN s = 1..n OBVIOUS
<1>6. DOMAIN r = 1..(n - 1) /\ \A i \in 1..(n - 1) : r[i] = IF i < k THEN s[i] ELSE s[i + 1]
  BY <1>3, <1>5, RemovedAt
<1>7. IsFiniteSet(P) BY <1>1, Places
<1>8. IsFiniteSet(A) BY <1>2, <1>7, FS_Subset
<1>9. PICK g : g = [i \in A |-> IF i < k THEN i ELSE i - 1] OBVIOUS
<1>10. \A i \in A : i \in 1..n /\ i # k /\ s[i] = x BY <1>1, <1>2, <1>5 DEF PlacesOf
<1>11. \A i \in A : g[i] \in B
  <2> SUFFICES ASSUME NEW i \in A PROVE g[i] \in B OBVIOUS
  <2>1. CASE i < k
    <3>1. g[i] = i /\ i \in 1..(n - 1) BY <1>5, <1>9, <1>10, <2>1
    <3>2. r[i] = x BY <1>6, <1>10, <2>1, <3>1
    <3>3. QED BY <1>4, <1>6, <3>1, <3>2 DEF PlacesOf
  <2>2. CASE i > k
    <3>1. g[i] = i - 1 /\ i - 1 \in 1..(n - 1) /\ ~(i - 1 < k) /\ (i - 1) + 1 = i
      BY <1>5, <1>9, <1>10, <2>2
    <3>2. r[i - 1] = x BY <1>6, <1>10, <3>1
    <3>3. QED BY <1>4, <1>6, <3>1, <3>2 DEF PlacesOf
  <2>3. QED BY <1>5, <1>10, <2>1, <2>2
<1>12. \A i, j \in A : g[i] = g[j] => i = j
  <2> SUFFICES ASSUME NEW i \in A, NEW j \in A, g[i] = g[j] PROVE i = j OBVIOUS
  <2>1. i \in Nat /\ j \in Nat /\ i # k /\ j # k /\ k \in Nat BY <1>5, <1>10
  <2>2. (IF i < k THEN i ELSE i - 1) = (IF j < k THEN j ELSE j - 1) BY <1>9
  <2>3. QED BY <2>1, <2>2
<1>13. \A j \in B : \E i \in A : g[i] = j
  <2> SUFFICES ASSUME NEW j \in B PROVE \E i \in A : g[i] = j OBVIOUS
  <2>1. j \in 1..(n - 1) /\ r[j] = x BY <1>4, <1>6 DEF PlacesOf
  <2>2. CASE j < k
    <3>1. j \in 1..n /\ j # k /\ s[j] = x BY <1>5, <1>6, <2>1, <2>2
    <3>2. j \in A BY <1>1, <1>2, <1>5, <3>1 DEF PlacesOf
    <3>3. QED BY <1>9, <2>2, <3>2
  <2>3. CASE ~(j < k)
    <3>1. j + 1 \in 1..n /\ j + 1 # k /\ s[j + 1] = x /\ ~(j + 1 < k) /\ (j + 1) - 1 = j
      BY <1>5, <1>6, <2>1, <2>3
    <3>2. j + 1 \in A BY <1>1, <1>2, <1>5, <3>1 DEF PlacesOf
    <3>3. g[j + 1] = j BY <1>9, <3>1, <3>2
    <3>4. QED BY <3>2, <3>3
  <2>4. QED BY <2>2, <2>3
<1>14. g \in Bijection(A, B)
  <2>1. g \in [A -> B] BY <1>9, <1>11
  <2>2. DOMAIN g = A BY <1>9
  <2>3. IsInjective(g) BY <1>12, <2>2 DEF IsInjective
  <2>4. QED BY <1>13, <2>1, <2>3 DEF Bijection, Injection, Surjection
<1>15. Cardinality(B) = Cardinality(A)
  <2>1. ExistsBijection(A, B) BY <1>14 DEF ExistsBijection
  <2>2. QED BY <1>8, <2>1, FS_Bijection
<1>16. x = s[k] => Cardinality(A) = Cardinality(P) - 1
  BY <1>1, <1>2, <1>7, FS_RemoveElement DEF PlacesOf
<1>17. x # s[k] => A = P BY <1>1, <1>2 DEF PlacesOf
<1>18. Cardinality(B) = IF x = s[k] THEN Cardinality(P) - 1 ELSE Cardinality(P)
  BY <1>15, <1>16, <1>17, Zenon
<1>19. QED BY <1>1, <1>3, <1>4, <1>18, Zenon

\* The last of a list, and what is left without it.
LEMMA FrontLast ==
  ASSUME NEW S, NEW q \in Seq(S), q # <<>>
  PROVE  /\ Front(q) \in Seq(S) /\ Last(q) \in S /\ Last(q) \in Range(q)
         /\ Range(q) = Range(Front(q)) \cup {Last(q)}
         /\ Len(q) \in Nat \ {0} /\ Len(Front(q)) = Len(q) - 1
         /\ DOMAIN Front(q) = 1..Len(q) - 1
         /\ Len(q) \in DOMAIN q /\ Last(q) = q[Len(q)]
         /\ \A i \in DOMAIN Front(q) : i \in DOMAIN q /\ i < Len(q) /\ Front(q)[i] = q[i]
<1>1. Len(q) \in Nat \ {0} /\ DOMAIN q = 1..Len(q) OBVIOUS
<1>2. /\ Front(q) = SubSeq(q, 1, Len(q) - 1) /\ Last(q) = q[Len(q)] BY DEF Front, Last
<1>3. /\ SubSeq(q, 1, Len(q) - 1) \in Seq(S) /\ DOMAIN SubSeq(q, 1, Len(q) - 1) = 1..Len(q) - 1
      /\ \A i \in 1..Len(q) - 1 : SubSeq(q, 1, Len(q) - 1)[i] = q[i]
  BY <1>1
<1>4. PICK p \in Seq(S) : p = Front(q)
  <2>1. Front(q) \in Seq(S) BY <1>2, <1>3
  <2>2. QED BY <2>1, Zenon
<1>5. DOMAIN p = 1..Len(q) - 1 /\ \A i \in 1..Len(q) - 1 : p[i] = q[i] BY <1>2, <1>3, <1>4
<1>a. Len(p) = Len(q) - 1
  <2>1. DOMAIN p = 1..Len(p) /\ Len(p) \in Nat OBVIOUS
  <2>2. \A x \in Nat : (1 <= x /\ x <= Len(p)) <=> (1 <= x /\ x <= Len(q) - 1)
    <3>1. \A x \in Nat : x \in 1..Len(p) <=> x \in 1..Len(q) - 1 BY <1>5, <2>1
    <3>2. QED BY <1>1, <2>1, <3>1
  <2>a. Len(q) - 1 \in Nat BY <1>1
  <2>b. PICK m \in Nat : m = Len(p) BY <2>1, Zenon
  <2>3. PICK n \in Nat : n = Len(q) - 1 BY <2>a, Zenon
  <2>4. (1 <= m /\ m <= m) <=> (1 <= m /\ m <= n) BY <2>2, <2>b, <2>3
  <2>5. (1 <= n /\ n <= m) <=> (1 <= n /\ n <= n) BY <2>2, <2>b, <2>3
  <2>6. m = n BY <2>4, <2>5
  <2>7. QED BY <2>b, <2>3, <2>6
<1>6. \A i \in DOMAIN p : i \in DOMAIN q /\ i < Len(q) /\ p[i] = q[i] BY <1>1, <1>5
<1>7. Len(q) \in DOMAIN q /\ Last(q) = q[Len(q)] /\ Last(q) \in S BY <1>1, <1>2
<1>8. \A i \in DOMAIN q : i = Len(q) \/ i \in DOMAIN p BY <1>1, <1>5
<1>9. Range(q) = Range(p) \cup {Last(q)} BY <1>6, <1>7, <1>8 DEF Range
<1>10. QED BY <1>1, <1>4, <1>5, <1>a, <1>6, <1>7, <1>9

\* What is put at an end of a sequence, and what stays when its head goes.
LEMMA RangeAppend ==
  ASSUME NEW S, NEW s \in Seq(S), NEW x \in S
  PROVE  Append(s, x) \in Seq(S) /\ Range(Append(s, x)) = Range(s) \cup {x}
<1>1. /\ Append(s, x) \in Seq(S) /\ Len(s) \in Nat /\ DOMAIN s = 1..Len(s)
      /\ DOMAIN Append(s, x) = 1..Len(s) + 1 /\ Append(s, x)[Len(s) + 1] = x
      /\ \A i \in 1..Len(s) : Append(s, x)[i] = s[i]
  OBVIOUS
<1>2. \A i \in DOMAIN Append(s, x) : i \in 1..Len(s) \/ i = Len(s) + 1 BY <1>1
<1>3. Range(Append(s, x)) \subseteq Range(s) \cup {x} BY <1>1, <1>2 DEF Range
<1>4. Range(s) \cup {x} \subseteq Range(Append(s, x))
  <2>1. Len(s) + 1 \in DOMAIN Append(s, x) /\ 1..Len(s) \subseteq DOMAIN Append(s, x) BY <1>1
  <2>2. QED BY <1>1, <2>1 DEF Range
<1>5. QED BY <1>1, <1>3, <1>4

\* Two sequences one behind the other.
LEMMA TwoParts ==
  ASSUME NEW S, NEW s \in Seq(S), NEW t \in Seq(S)
  PROVE  /\ s \o t \in Seq(S) /\ Len(s \o t) = Len(s) + Len(t)
         /\ \A i \in 1..Len(s) : (s \o t)[i] = s[i]
         /\ \A i \in 1..Len(t) : (s \o t)[Len(s) + i] = t[i]
OBVIOUS

\* They hold different things if nothing is repeated.
LEMMA PartsApart ==
  ASSUME NEW S, NEW s \in Seq(S), NEW t \in Seq(S)
  PROVE  /\ Range(s \o t) = Range(s) \cup Range(t)
         /\ IsInjective(s \o t) => Range(s) \cap Range(t) = {}
<1>0. /\ Len(s) \in Nat /\ DOMAIN s = 1..Len(s) /\ Len(t) \in Nat /\ DOMAIN t = 1..Len(t)
      /\ DOMAIN (s \o t) = 1..(Len(s) + Len(t))
  BY TwoParts
<1>1. /\ \A i \in 1..Len(s) : i \in DOMAIN (s \o t) /\ (s \o t)[i] = s[i]
      /\ \A i \in 1..Len(t) : Len(s) + i \in DOMAIN (s \o t) /\ (s \o t)[Len(s) + i] = t[i]
  BY <1>0, TwoParts
<1>2. \A k \in DOMAIN (s \o t) : k \in 1..Len(s) \/ \E i \in 1..Len(t) : k = Len(s) + i
  <2> SUFFICES ASSUME NEW k \in DOMAIN (s \o t), k \notin 1..Len(s)
               PROVE  \E i \in 1..Len(t) : k = Len(s) + i
    OBVIOUS
  <2>1. k - Len(s) \in 1..Len(t) /\ k = Len(s) + (k - Len(s)) BY <1>0
  <2>2. QED BY <2>1
<1>3. Range(s \o t) \subseteq Range(s) \cup Range(t)
  <2> SUFFICES ASSUME NEW k \in DOMAIN (s \o t) PROVE (s \o t)[k] \in Range(s) \cup Range(t)
    BY DEF Range
  <2>1. CASE k \in 1..Len(s) BY <1>0, <1>1, <2>1 DEF Range
  <2>2. CASE \E i \in 1..Len(t) : k = Len(s) + i
    <3>1. PICK i \in 1..Len(t) : k = Len(s) + i BY <2>2
    <3>2. (s \o t)[k] = t[i] BY <1>1, <3>1
    <3>3. QED BY <1>0, <3>2 DEF Range
  <2>3. QED BY <1>2, <2>1, <2>2
<1>4. Range(s) \cup Range(t) \subseteq Range(s \o t)
  <2>1. \A i \in DOMAIN s : s[i] \in Range(s \o t)
    <3> SUFFICES ASSUME NEW i \in DOMAIN s PROVE s[i] \in Range(s \o t) OBVIOUS
    <3>1. i \in DOMAIN (s \o t) /\ (s \o t)[i] = s[i] BY <1>0, <1>1
    <3>2. QED BY <3>1 DEF Range
  <2>2. \A i \in DOMAIN t : t[i] \in Range(s \o t)
    <3> SUFFICES ASSUME NEW i \in DOMAIN t PROVE t[i] \in Range(s \o t) OBVIOUS
    <3>1. Len(s) + i \in DOMAIN (s \o t) /\ (s \o t)[Len(s) + i] = t[i] BY <1>0, <1>1
    <3>2. QED BY <3>1 DEF Range
  <2>3. QED BY <2>1, <2>2 DEF Range
<1>5. ASSUME IsInjective(s \o t) PROVE Range(s) \cap Range(t) = {}
  <2> SUFFICES ASSUME NEW i \in DOMAIN s, NEW j \in DOMAIN t, s[i] = t[j] PROVE FALSE BY DEF Range
  <2>1. i \in DOMAIN (s \o t) /\ Len(s) + j \in DOMAIN (s \o t) /\ (s \o t)[i] = (s \o t)[Len(s) + j]
    BY <1>0, <1>1
  <2>2. i = Len(s) + j BY <1>5, <2>1 DEF IsInjective
  <2>3. QED BY <1>0, <2>2
<1>6. QED BY <1>3, <1>4, <1>5

\* Elements move from the front of t to the end of s, and come in behind t.
LEMMA PartsMove ==
  ASSUME NEW S, NEW s \in Seq(S), NEW t \in Seq(S)
  PROVE  /\ t # <<>> => Append(s, Head(t)) \o Tail(t) = s \o t
         /\ \A x \in S : s \o Append(t, x) = Append(s \o t, x)
<1>1. ASSUME t # <<>> PROVE Append(s, Head(t)) \o Tail(t) = s \o t
  <2>1. Head(t) \in S /\ Tail(t) \in Seq(S) /\ Head(t) = t[1] /\ Len(t) \in Nat \ {0} BY <1>1
  <2>2. PICK h \in Seq(S) : h = <<Head(t)>>
    <3>1. <<Head(t)>> \in Seq(S) BY <2>1
    <3>2. QED BY <3>1, Zenon
  <2>3. t = h \o Tail(t)
    <3>1. 1 \in 1..Len(t) /\ Len(t) \in 1..Len(t) BY <2>1
    <3>2. SubSeq(t, 1, Len(t)) = <<t[1]>> \o SubSeq(t, 1 + 1, Len(t)) BY <3>1, SubSeqRecursiveFirst
    <3>3. SubSeq(t, 1, Len(t)) = t BY SubSeqFull
    <3>4. Tail(t) = SubSeq(t, 2, Len(t)) BY <1>1, TailIsSubSeq
    <3>5. 1 + 1 = 2 OBVIOUS
    <3>6. QED BY <2>1, <2>2, <3>2, <3>3, <3>4, <3>5, Zenon
  <2>4. Append(s, Head(t)) = s \o h BY <2>1, <2>2, AppendIsConcat
  <2>5. (s \o h) \o Tail(t) = s \o (h \o Tail(t)) BY <2>1, ConcatAssociative
  <2>6. QED BY <2>3, <2>4, <2>5, Zenon
<1>2. ASSUME NEW x \in S PROVE s \o Append(t, x) = Append(s \o t, x)
  <2>1. PICK h \in Seq(S) : h = <<x>>
    <3>1. <<x>> \in Seq(S) OBVIOUS
    <3>2. QED BY <3>1, Zenon
  <2>2. Append(t, x) = t \o h BY <2>1, AppendIsConcat
  <2>3. s \o t \in Seq(S) BY TwoParts
  <2>4. Append(s \o t, x) = (s \o t) \o h BY <2>1, <2>3, AppendIsConcat
  <2>5. (s \o t) \o h = s \o (t \o h) BY ConcatAssociative
  <2>6. QED BY <2>2, <2>4, <2>5, Zenon
<1>3. QED BY <1>1, <1>2, Zenon

\* The first k elements move.
LEMMA PartsSplit ==
  ASSUME NEW S, NEW s \in Seq(S), NEW t \in Seq(S), NEW k \in 0..Len(t)
  PROVE  /\ SubSeq(t, 1, k) \in Seq(S) /\ SubSeq(t, k + 1, Len(t)) \in Seq(S)
         /\ SubSeq(t, 1, k) \o SubSeq(t, k + 1, Len(t)) = t
         /\ (s \o SubSeq(t, 1, k)) \o SubSeq(t, k + 1, Len(t)) = s \o t
         /\ k = 0 => SubSeq(t, 1, k) = <<>>
<1>1. Len(t) \in Nat OBVIOUS
<1>a. SubSeq(t, 1, k) \in Seq(S) /\ SubSeq(t, k + 1, Len(t)) \in Seq(S) BY <1>1
<1>2. PICK a \in Seq(S) : a = SubSeq(t, 1, k) BY <1>a, Zenon
<1>3. PICK b \in Seq(S) : b = SubSeq(t, k + 1, Len(t)) BY <1>a, Zenon
<1>4. SubSeq(t, 1, k) \o SubSeq(t, k + 1, Len(t)) = SubSeq(t, 1, Len(t))
  <2>1. 1 \in 1..Len(t) + 1 /\ k \in 1 - 1..Len(t) /\ Len(t) \in k..Len(t) BY <1>1
  <2>2. QED BY <2>1, ConcatAdjacentSubSeq
<1>5. SubSeq(t, 1, Len(t)) = t BY SubSeqFull
<1>6. a \o b = t BY <1>2, <1>3, <1>4, <1>5, Zenon
<1>7. (s \o a) \o b = s \o (a \o b) BY ConcatAssociative
<1>8. k = 0 => SubSeq(t, 1, k) = <<>> BY SubSeqEmpty
<1>9. QED BY <1>2, <1>3, <1>6, <1>7, <1>8, Zenon

\* A line of elements, the ones that have gone and the ones that are there: one comes
\* in at the end.
LEMMA LineAppend ==
  ASSUME NEW S, NEW gone \in Seq(S), NEW buf \in Seq(S), IsInjective(gone \o buf),
         NEW v \in S \ Range(gone \o buf)
  PROVE  /\ Append(buf, v) \in Seq(S) /\ gone \o Append(buf, v) = Append(gone \o buf, v)
         /\ Append(gone \o buf, v) \in Seq(S) /\ IsInjective(Append(gone \o buf, v))
         /\ Range(Append(gone \o buf, v)) = Range(gone \o buf) \cup {v}
<1>1. Append(buf, v) \in Seq(S) /\ gone \o buf \in Seq(S) BY RangeAppend, TwoParts
<1>2. gone \o Append(buf, v) = Append(gone \o buf, v) BY PartsMove
<1>3. /\ Append(gone \o buf, v) \in Seq(S) /\ IsInjective(Append(gone \o buf, v))
      /\ Range(Append(gone \o buf, v)) = Range(gone \o buf) \cup {v}
  <2>1. PICK seen \in Seq(S) : seen = gone \o buf BY <1>1, Zenon
  <2>2. IsInjective(seen) /\ v \in S \ Range(seen) BY <2>1, Zenon
  <2>3. /\ Append(seen, v) \in Seq(S) /\ IsInjective(Append(seen, v))
        /\ Range(Append(seen, v)) = Range(seen) \cup {v}
    BY <2>2, AppendOnce
  <2>4. QED BY <2>1, <2>3, Zenon
<1>4. QED BY <1>1, <1>2, <1>3, Zenon

\* The first k of those there go.
LEMMA LineCut ==
  ASSUME NEW S, NEW gone \in Seq(S), NEW all \in Seq(S), IsInjective(gone \o all),
         NEW k \in 0..Len(all)
  PROVE  /\ SubSeq(all, 1, k) \in Seq(S) /\ SubSeq(all, k + 1, Len(all)) \in Seq(S)
         /\ gone \o SubSeq(all, 1, k) \in Seq(S)
         /\ (gone \o SubSeq(all, 1, k)) \o SubSeq(all, k + 1, Len(all)) = gone \o all
         /\ Range(gone \o SubSeq(all, 1, k)) = Range(gone) \cup Range(SubSeq(all, 1, k))
         /\ Range(gone) \cap Range(SubSeq(all, 1, k)) = {}
         /\ k = 0 => Range(SubSeq(all, 1, k)) = {}
<1>1. /\ SubSeq(all, 1, k) \in Seq(S) /\ SubSeq(all, k + 1, Len(all)) \in Seq(S)
      /\ SubSeq(all, 1, k) \o SubSeq(all, k + 1, Len(all)) = all
      /\ (gone \o SubSeq(all, 1, k)) \o SubSeq(all, k + 1, Len(all)) = gone \o all
      /\ k = 0 => SubSeq(all, 1, k) = <<>>
  BY PartsSplit
<1>2. PICK out \in Seq(S) : out = SubSeq(all, 1, k) BY <1>1, Zenon
<1>3. PICK rest \in Seq(S) : rest = SubSeq(all, k + 1, Len(all)) BY <1>1, Zenon
<1>4. Range(gone) \cap Range(all) = {} BY PartsApart
<1>5. Range(out \o rest) = Range(out) \cup Range(rest) BY PartsApart
<1>6. Range(all) = Range(out) \cup Range(rest) BY <1>1, <1>2, <1>3, <1>5, Zenon
<1>7. gone \o out \in Seq(S) /\ Range(gone \o out) = Range(gone) \cup Range(out)
  BY TwoParts, PartsApart
<1>8. k = 0 => Range(out) = {}
  <2>1. out = <<>> => Range(out) = {} BY RangeOf
  <2>2. QED BY <1>1, <1>2, <2>1, Zenon
<1>9. Range(gone) \cap Range(out) = {} BY <1>4, <1>6, Zenon
<1>10. QED BY <1>1, <1>2, <1>3, <1>7, <1>8, <1>9, Zenon

\* The first one there goes.
LEMMA LineHead ==
  ASSUME NEW S, NEW gone \in Seq(S), NEW buf \in Seq(S), IsInjective(gone \o buf), buf # <<>>
  PROVE  /\ Tail(buf) \in Seq(S) /\ Head(buf) \in S /\ Append(gone, Head(buf)) \in Seq(S)
         /\ Append(gone, Head(buf)) \o Tail(buf) = gone \o buf
         /\ Range(Append(gone, Head(buf))) = Range(gone) \cup {Head(buf)}
         /\ Head(buf) \notin Range(gone) /\ Head(buf) \in Range(buf)
<1>1. Tail(buf) \in Seq(S) /\ Head(buf) \in S BY RangeOf
<1>2. Head(buf) \in Range(buf)
  <2>1. 1 \in DOMAIN buf /\ Head(buf) = buf[1] OBVIOUS
  <2>2. QED BY <2>1 DEF Range
<1>3. Range(gone) \cap Range(buf) = {} BY PartsApart
<1>4. QED BY <1>1, <1>2, <1>3, RangeAppend, PartsMove

\* An empty line.
LEMMA EmptyLine == Range(<<>>) = {} /\ IsInjective(<<>>) /\ <<>> \o <<>> = <<>>
<1>1. DOMAIN <<>> = {} OBVIOUS
<1>2. <<>> \o <<>> = <<>> OBVIOUS
<1>3. QED BY <1>1, <1>2 DEF Range, IsInjective

\* Two sequences without repetition and with nothing in common, one behind the other.
LEMMA ConcatOnce ==
  ASSUME NEW S, NEW s \in Seq(S), NEW t \in Seq(S), IsInjective(s), IsInjective(t),
         Range(s) \cap Range(t) = {}
  PROVE  /\ s \o t \in Seq(S) /\ IsInjective(s \o t) /\ Range(s \o t) = Range(s) \cup Range(t)
<1>0. /\ Len(s) \in Nat /\ DOMAIN s = 1..Len(s) /\ Len(t) \in Nat /\ DOMAIN t = 1..Len(t)
      /\ DOMAIN (s \o t) = 1..(Len(s) + Len(t))
  BY TwoParts
<1>1. \A k \in DOMAIN (s \o t) : \/ k \in DOMAIN s /\ (s \o t)[k] = s[k]
                                 \/ \E i \in DOMAIN t : k = Len(s) + i /\ (s \o t)[k] = t[i]
  <2> SUFFICES ASSUME NEW k \in DOMAIN (s \o t), k \notin DOMAIN s
               PROVE  \E i \in DOMAIN t : k = Len(s) + i /\ (s \o t)[k] = t[i]
    BY <1>0, TwoParts
  <2>1. k - Len(s) \in 1..Len(t) /\ k = Len(s) + (k - Len(s)) BY <1>0
  <2>2. PICK i \in 1..Len(t) : k = Len(s) + i BY <2>1
  <2>3. (s \o t)[Len(s) + i] = t[i] BY TwoParts
  <2>4. QED BY <1>0, <2>2, <2>3
<1>2. \A i \in DOMAIN s, j \in DOMAIN t : s[i] # t[j] BY DEF Range
<1>3. IsInjective(s \o t)
  <2> SUFFICES ASSUME NEW k \in DOMAIN (s \o t), NEW m \in DOMAIN (s \o t), (s \o t)[k] = (s \o t)[m]
               PROVE  k = m
    BY DEF IsInjective
  <2>1. CASE k \in DOMAIN s /\ (s \o t)[k] = s[k]
    <3>1. CASE m \in DOMAIN s /\ (s \o t)[m] = s[m] BY <2>1, <3>1 DEF IsInjective
    <3>2. CASE \E i \in DOMAIN t : m = Len(s) + i /\ (s \o t)[m] = t[i] BY <1>2, <2>1, <3>2
    <3>3. QED BY <1>1, <3>1, <3>2
  <2>2. CASE \E i \in DOMAIN t : k = Len(s) + i /\ (s \o t)[k] = t[i]
    <3>1. PICK i \in DOMAIN t : k = Len(s) + i /\ (s \o t)[k] = t[i] BY <2>2
    <3>2. CASE m \in DOMAIN s /\ (s \o t)[m] = s[m] BY <1>2, <3>1, <3>2
    <3>3. CASE \E j \in DOMAIN t : m = Len(s) + j /\ (s \o t)[m] = t[j]
      <4>1. PICK j \in DOMAIN t : m = Len(s) + j /\ (s \o t)[m] = t[j] BY <3>3
      <4>2. i = j BY <3>1, <4>1 DEF IsInjective
      <4>3. QED BY <3>1, <4>1, <4>2
    <3>4. QED BY <1>1, <3>2, <3>3
  <2>3. QED BY <1>1, <2>1, <2>2
<1>4. QED BY <1>3, TwoParts, PartsApart

\* A sequence without repetition is as long as the finite set of its elements only if
\* it holds them all.
LEMMA LenOnce ==
  ASSUME NEW S, IsFiniteSet(S), NEW s \in Seq(S), IsInjective(s)
  PROVE  Len(s) = Cardinality(S) <=> Range(s) = S
<1>1. Len(s) \in Nat /\ DOMAIN s = 1..Len(s) /\ s \in [1..Len(s) -> S] BY LenProperties
<1>2. s \in Injection(1..Len(s), S) BY <1>1 DEF Injection
<1>3. Cardinality(1..Len(s)) = Len(s) BY <1>1, FS_Interval
<1>4. Len(s) = Cardinality(S) <=> s \in Surjection(1..Len(s), S) BY <1>2, <1>3, FS_Injection
<1>5. s \in Surjection(1..Len(s), S) <=> Range(s) = S BY <1>1 DEF Surjection, Range
<1>6. QED BY <1>4, <1>5, Zenon

\* The sequences of the elements of a finite set, each once.
LEMMA SeqsOnce ==
  ASSUME NEW S, NEW T \in SUBSET S, IsFiniteSet(T), NEW q \in SetToSeqs(T)
  PROVE  q \in Seq(S) /\ IsInjective(q) /\ Range(q) = T
<1>1. PICK n \in Nat : n = Cardinality(T) BY FS_CardinalityType
<1>2. q \in [1..n -> T] /\ \A i, j \in 1..n : i # j => q[i] # q[j] BY <1>1 DEF SetToSeqs
<1>3. IsInjective(q) BY <1>2 DEF IsInjective
<1>4. q \in Seq(T) /\ Len(q) = n BY <1>2
<1>5. Range(q) = T BY <1>1, <1>3, <1>4, LenOnce
<1>6. q \in Seq(S) BY <1>4, SeqMonotonic
<1>7. QED BY <1>3, <1>5, <1>6

\* A set of naturals has a least element.
LEMMA LeastOf ==
  ASSUME NEW T \in SUBSET Nat, T # {}
  PROVE  \E x \in T : \A y \in T : x <= y
<1>1. \E x \in T : \A y \in T : ~(<<y, x>> \in OpToRel(<, Nat))
  BY NatLessThanWellFounded, WFMin
<1>2. PICK x \in T : \A y \in T : ~(<<y, x>> \in OpToRel(<, Nat)) BY <1>1
<1>3. \A y \in T : ~(y < x) BY <1>2 DEF OpToRel
<1>4. QED BY <1>3

\* The largest element of a bounded set of naturals.
LEMMA GreatestOf ==
  ASSUME NEW n \in Nat, NEW T \in SUBSET (0..n), T # {}
  PROVE  Max(T) \in T /\ \A y \in T : y <= Max(T)
<1>1. PICK R : R = {n - x : x \in T} OBVIOUS
<1>2. R \in SUBSET Nat /\ R # {}
  <2>1. \A x \in T : n - x \in Nat OBVIOUS
  <2>2. QED BY <1>1, <2>1
<1>3. PICK r \in R : \A y \in R : r <= y BY <1>2, LeastOf
<1>4. PICK x \in T : r = n - x BY <1>1, <1>3
<1>5. \A y \in T : n - y \in R BY <1>1
<1>6. \A y \in T : x >= y
  <2> SUFFICES ASSUME NEW y \in T PROVE x >= y OBVIOUS
  <2>1. n - x <= n - y /\ x \in Nat /\ y \in Nat BY <1>3, <1>4, <1>5
  <2>2. QED BY <2>1
<1>7. Max(T) \in T /\ \A y \in T : Max(T) >= y BY <1>6 DEF Max
<1>8. QED BY <1>7

\* A part of a sequence, when the sequence and when the part grow.
LEMMA PartGrows ==
  ASSUME NEW V, NEW log \in Seq(V), NEW from \in Nat \ {0}, NEW upto \in Nat,
         from <= upto + 1, upto <= Len(log)
  PROVE  /\ \A v \in V : SubSeq(Append(log, v), from, upto) = SubSeq(log, from, upto)
         /\ upto < Len(log) =>
              SubSeq(log, from, upto + 1) = Append(SubSeq(log, from, upto), log[upto + 1])
         /\ from = upto + 1 => SubSeq(log, from, upto) = <<>>
<1>1. Len(log) \in Nat OBVIOUS
<1>2. from = upto + 1 => SubSeq(log, from, upto) = <<>> BY SubSeqEmpty
<1>3. \A i \in from..upto : log[i] \in V BY <1>1
<1>4. PICK part \in Seq(V) : part = SubSeq(log, from, upto)
  <2>1. SubSeq(log, from, upto) \in Seq(V) BY <1>3, SubSeqProperties
  <2>2. QED BY <2>1, Zenon
<1>5. /\ Len(part) = upto - from + 1 /\ \A i \in 1..upto - from + 1 : part[i] = log[from + i - 1]
  BY <1>3, <1>4, SubSeqProperties
<1>6. ASSUME NEW v \in V PROVE SubSeq(Append(log, v), from, upto) = part
  <2>0. Append(log, v) \in Seq(V) OBVIOUS
  <2>1. PICK grown \in Seq(V) : grown = Append(log, v) BY <2>0, Zenon
  <2>2. \A i \in from..upto : grown[i] = log[i] /\ grown[i] \in V BY <1>1, <2>1
  <2>3. PICK more \in Seq(V) : more = SubSeq(grown, from, upto)
    <3>1. SubSeq(grown, from, upto) \in Seq(V) BY <2>2, SubSeqProperties
    <3>2. QED BY <3>1, Zenon
  <2>4. Len(more) = upto - from + 1 /\ \A i \in 1..upto - from + 1 : more[i] = grown[from + i - 1]
    BY <2>2, <2>3, SubSeqProperties
  <2>5. \A i \in 1..upto - from + 1 : from + i - 1 \in from..upto OBVIOUS
  <2>6. \A i \in 1..Len(more) : more[i] = part[i] BY <1>5, <2>2, <2>4, <2>5
  <2>7. more = part BY <1>5, <2>4, <2>6, SeqEqual
  <2>8. QED BY <2>1, <2>3, <2>7
<1>7. ASSUME upto < Len(log) PROVE SubSeq(log, from, upto + 1) = Append(part, log[upto + 1])
  <2>1. from \in 1..Len(log) /\ upto + 1 \in from..Len(log) /\ (upto + 1) - 1 = upto BY <1>1, <1>7
  <2>2. SubSeq(log, from, upto + 1) = SubSeq(log, from, (upto + 1) - 1) \o <<log[upto + 1]>>
    BY <2>1, SubSeqRecursiveSecond
  <2>3. log[upto + 1] \in V BY <1>1, <1>7
  <2>4. part \o <<log[upto + 1]>> = Append(part, log[upto + 1]) BY <2>3
  <2>5. QED BY <1>4, <2>1, <2>2, <2>4
<1>8. QED BY <1>2, <1>4, <1>6, <1>7
==============================================================================
