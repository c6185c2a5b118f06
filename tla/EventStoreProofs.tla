-------------------------- MODULE EventStoreProofs ---------------------------
(***************************************************************************)
(* Appends to an event store keep versions dense and acknowledged events   *)
(* stored, whoever appends at the same time.                               *)
(***************************************************************************)
EXTENDS EventStore, ProofLemmas

\* The versions of stream s are 1, 2, 3, ...
EsDense(s) ==
  /\ \A i \in EsAt(s) : eslog[i].version = Cardinality(EsUpTo(EsAt(s), i))
  /\ EsVersions(s) = 1..Cardinality(EsAt(s))

\* The events that w has stored are the first ones of its append.
EsPrefix(w) ==
  /\ \A i \in EsBy(w) : eslog[i] = EsRecord(w, esfirst[w], Cardinality(EsUpTo(EsBy(w), i)))
  /\ \A e \in 1..Cardinality(EsBy(w)) : \E i \in EsBy(w) : eslog[i] = EsRecord(w, esfirst[w], e)

\* How far the append of w is.
EsProgress(w) ==
  /\ esat[w] = "new" => EsBy(w) = {} /\ esnext[w] = 1
  /\ esat[w] = "write" => /\ Cardinality(EsBy(w)) + 1 = esnext[w]
                          /\ esnext[w] <= EsCount[w] /\ eskind # "memory"
  /\ esat[w] = "break" => /\ Cardinality(EsBy(w)) = esnext[w]
                          /\ esnext[w] <= EsCount[w] /\ eskind = "file"
  /\ esat[w] = "Ok" => Cardinality(EsBy(w)) = EsCount[w]
  /\ esat[w] # "new" => esfirst[w] >= 1

\* The versions an append under way was given: in the SQL journal others may have
\* taken them, in the file nobody has while it is alone.
EsGiven(w) ==
  LET next == esfirst[w] + esnext[w] - 1
      stored == Cardinality(EsAt(EsStream[w]))
  IN  /\ eskind = "sql" /\ esat[w] = "write" => next <= stored + 1
      /\ eskind = "file" /\ EsAlone(EsStream[w]) /\ esat[w] = "write" => next = stored + 1
      /\ eskind = "file" /\ EsAlone(EsStream[w]) /\ esat[w] = "break" => next = stored

\* Two appends under way overlap; without any overlap lines are whole.
EsLines ==
  /\ \A u, w \in EsActive : u # w => {u, w} \in esoverlap
  /\ eskind = "file" /\ esoverlap = {} =>
       /\ EsReadable
       /\ (\A w \in EsWriters : esat[w] # "break") => eslog = <<>> \/ eslog[Len(eslog)] = LineBreak

\* The inductive invariant.
EventStoreIInv ==
  /\ EventStoreTypeOK /\ EsLines
  /\ \A s \in EsStreams : EsAlone(s) => EsDense(s)
  /\ \A w \in EsWriters : EsPrefix(w) /\ EsProgress(w) /\ EsGiven(w)

\* Item r of the log is a record of w with version v.
EsIsRecord(r, w, v) ==
  r \in EsRecords /\ r # LineBreak /\ r.stream = EsStream[w] /\ r.writer = w /\ r.version = v

\* The record of event i of an append that begins at version first.
LEMMA EsRecordIs ==
  ASSUME NEW w \in EsWriters, NEW first \in Nat, NEW i \in Nat \ {0}
  PROVE  EsIsRecord(EsRecord(w, first, i), w, first + i - 1)
<1> USE EventStoreAssumption
<1> DEFINE r == EsRecord(w, first, i)
<1>1. /\ r = [stream |-> EsStream[w], version |-> first + i - 1, writer |-> w, event |-> i]
      /\ first + i - 1 \in Nat
  BY DEF EsRecord
<1>2. r \in EsRecords /\ r.stream = EsStream[w] /\ r.writer = w /\ r.version = first + i - 1
  BY <1>1 DEF EsRecords
<1>3. r # LineBreak
  <2>1. "event" \in DOMAIN r BY <1>1
  <2>2. "event" \notin DOMAIN LineBreak BY DEF LineBreak
  <2>3. QED BY <2>1, <2>2
<1>4. QED BY <1>2, <1>3 DEF EsIsRecord

\* Positions are counted.
LEMMA EsCounted ==
  ASSUME EventStoreTypeOK
  PROVE  /\ Len(eslog) \in Nat /\ DOMAIN eslog = 1..Len(eslog)
         /\ \A A \in SUBSET (1..Len(eslog)) : IsFiniteSet(A) /\ Cardinality(A) \in Nat
         /\ \A s \in EsStreams : EsAt(s) \in SUBSET (1..Len(eslog))
         /\ \A w \in EsWriters : EsBy(w) \in SUBSET (1..Len(eslog))
<1>1. Len(eslog) \in Nat /\ DOMAIN eslog = 1..Len(eslog) BY DEF EventStoreTypeOK
<1>2. IsFiniteSet(1..Len(eslog)) BY <1>1, FS_Interval
<1>3. \A A \in SUBSET (1..Len(eslog)) : IsFiniteSet(A) /\ Cardinality(A) \in Nat
  BY <1>2, FS_Subset, FS_CardinalityType
<1>4. QED BY <1>1, <1>3 DEF EsAt, EsBy

\* The positions of c items behind n others.
EsNew(n, c) == (n + 1)..(n + c)

\* The elements up to a position when positions are added behind.
EsGrown(A, n, c) ==
  /\ \A i \in 1..n : EsUpTo(A \cup EsNew(n, c), i) = EsUpTo(A, i)
  /\ \A i \in 1..c : Cardinality(EsUpTo(A \cup EsNew(n, c), n + i)) = Cardinality(A) + i
  /\ Cardinality(A \cup EsNew(n, c)) = Cardinality(A) + c /\ Cardinality(A) \in Nat

\* Places behind the end of the log are new ones.
LEMMA UpToGrows ==
  ASSUME NEW n \in Nat, NEW c \in Nat, NEW A \in SUBSET (1..n)
  PROVE  EsGrown(A, n, c)
<1> USE DEF EsNew
<1>0. IsFiniteSet(A) /\ Cardinality(A) \in Nat
  <2>1. IsFiniteSet(1..n) BY FS_Interval
  <2>2. QED BY <2>1, FS_Subset, FS_CardinalityType
<1>1. \A i \in 1..n : EsUpTo(A \cup EsNew(n, c), i) = EsUpTo(A, i) BY DEF EsUpTo
<1>2. ASSUME NEW i \in 0..c PROVE Cardinality(A \cup ((n + 1)..(n + i))) = Cardinality(A) + i
  <2> DEFINE C == (n + 1)..(n + i)
  <2>1. n + 1 \in Int /\ n + i \in Int OBVIOUS
  <2>2. IsFiniteSet(C) /\ Cardinality(C) = IF n + 1 > n + i THEN 0 ELSE n + i - (n + 1) + 1
    BY <2>1, FS_Interval
  <2>3. Cardinality(C) = i BY <2>2
  <2>4. A \cap C = {} BY <2>1
  <2> HIDE DEF C
  <2>5. Cardinality(A \cup C) = Cardinality(A) + Cardinality(C) - Cardinality(A \cap C)
    BY <1>0, <2>2, FS_Union
  <2>6. Cardinality(A \cap C) = 0 BY <2>4, FS_EmptySet
  <2>7. Cardinality(A \cup C) = Cardinality(A) + i BY <1>0, <2>3, <2>5, <2>6
  <2>8. QED BY <2>7 DEF C
<1>3. \A i \in 1..c : EsUpTo(A \cup EsNew(n, c), n + i) = A \cup ((n + 1)..(n + i))
  <2> SUFFICES ASSUME NEW i \in 1..c PROVE EsUpTo(A \cup EsNew(n, c), n + i) = A \cup ((n + 1)..(n + i)) OBVIOUS
  <2>1. \A k \in A : k <= n + i OBVIOUS
  <2>2. \A k \in (n + 1)..(n + c) : k <= n + i <=> k \in (n + 1)..(n + i) OBVIOUS
  <2>3. (n + 1)..(n + i) \subseteq (n + 1)..(n + c) OBVIOUS
  <2>4. QED BY <2>1, <2>2, <2>3 DEF EsUpTo
<1>4. \A i \in 1..c : Cardinality(EsUpTo(A \cup EsNew(n, c), n + i)) = Cardinality(A) + i
  <2> SUFFICES ASSUME NEW i \in 1..c PROVE Cardinality(EsUpTo(A \cup EsNew(n, c), n + i)) = Cardinality(A) + i OBVIOUS
  <2>1. i \in 0..c OBVIOUS
  <2>2. EsUpTo(A \cup EsNew(n, c), n + i) = A \cup ((n + 1)..(n + i)) BY <1>3
  <2>3. QED BY <1>2, <2>1, <2>2
<1>5. Cardinality(A \cup EsNew(n, c)) = Cardinality(A) + c BY <1>2
<1>6. QED BY <1>0, <1>1, <1>4, <1>5 DEF EsGrown

\* What is known of the log after c records of w are added to it.
EsAdded(w, first, from, c) ==
  /\ eslog' \in Seq(EsRecords \cup {LineBreak})
  /\ Len(eslog') = Len(eslog) + c
  /\ \A i \in 1..Len(eslog) : eslog'[i] = eslog[i]
  /\ \A i \in 1..c : eslog'[Len(eslog) + i] = EsRecord(w, first, from + i - 1)

\* Where records are when c records of w were added.
LEMMA EsAddedAt ==
  ASSUME EventStoreTypeOK, NEW w \in EsWriters, NEW first \in Nat, NEW from \in Nat \ {0},
         NEW c \in Nat, EsAdded(w, first, from, c)
  PROVE  /\ \A s \in EsStreams :
              EsAt(s)' = IF s = EsStream[w] THEN EsAt(s) \cup EsNew(Len(eslog), c) ELSE EsAt(s)
         /\ EsBy(w)' = EsBy(w) \cup EsNew(Len(eslog), c)
         /\ \A u \in EsWriters \ {w} : EsBy(u)' = EsBy(u)
         /\ \A i \in EsNew(Len(eslog), c) : eslog'[i] = EsRecord(w, first, from + (i - Len(eslog)) - 1)
         /\ \A i \in EsNew(Len(eslog), c) : eslog'[i].version = first + (from + (i - Len(eslog)) - 1) - 1
<1>n. PICK n \in Nat : n = Len(eslog) BY EsCounted
<1> DEFINE new == EsNew(n, c)
<1>1. /\ n \in Nat /\ DOMAIN eslog = 1..n /\ DOMAIN eslog' = 1..(n + c)
      /\ \A i \in 1..n : eslog'[i] = eslog[i]
      /\ \A i \in 1..c : eslog'[n + i] = EsRecord(w, first, from + i - 1)
  BY <1>n, EsCounted DEF EsAdded
<1>2. ASSUME NEW i \in new
      PROVE  /\ eslog'[i] = EsRecord(w, first, from + (i - n) - 1)
             /\ eslog'[i] # LineBreak /\ eslog'[i].stream = EsStream[w] /\ eslog'[i].writer = w
             /\ eslog'[i].version = first + (from + (i - n) - 1) - 1
  <2> DEFINE k == i - n
             e == from + k - 1
  <2>1. k \in 1..c /\ n + k = i /\ e \in Nat \ {0} BY <1>1 DEF EsNew
  <2> HIDE DEF k
  <2>2. eslog'[n + k] = EsRecord(w, first, e) BY <1>1, <2>1
  <2> HIDE DEF e
  <2>3. eslog'[i] = EsRecord(w, first, e) BY <2>1, <2>2
  <2>4. EsIsRecord(eslog'[i], w, first + e - 1)
    <3>1. e \in Nat \ {0} BY <2>1
    <3>2. EsIsRecord(EsRecord(w, first, e), w, first + e - 1) BY <3>1, EsRecordIs, Zenon
    <3>3. QED BY <2>3, <3>2, Zenon
  <2>5. QED BY <2>3, <2>4 DEF e, k, EsIsRecord
<1>3. 1..(n + c) = 1..n \cup new /\ 1..n \cap new = {} BY <1>1 DEF EsNew
<1>4. \A s \in EsStreams : EsAt(s)' = IF s = EsStream[w] THEN EsAt(s) \cup new ELSE EsAt(s)
  BY <1>1, <1>2, <1>3 DEF EsAt
<1>5. \A u \in EsWriters : EsBy(u)' = IF u = w THEN EsBy(u) \cup new ELSE EsBy(u)
  BY <1>1, <1>2, <1>3 DEF EsBy
<1>6. QED BY <1>n, <1>2, <1>4, <1>5

\* The versions stay dense when records with the next ones are added ...
LEMMA EsDenseAdded ==
  ASSUME EventStoreTypeOK, NEW w \in EsWriters, NEW first \in Nat, NEW from \in Nat \ {0},
         NEW c \in Nat, EsAdded(w, first, from, c), EsDense(EsStream[w]),
         first + from - 1 = Cardinality(EsAt(EsStream[w])) + 1
  PROVE  /\ EsDense(EsStream[w])'
         /\ Cardinality(EsAt(EsStream[w])') = Cardinality(EsAt(EsStream[w])) + c
<1>s. PICK s \in EsStreams : s = EsStream[w] BY EventStoreAssumption
<1>n. PICK n \in Nat : n = Len(eslog) BY EsCounted
<1>A. PICK A \in SUBSET (1..n) : A = EsAt(s) BY <1>n, EsCounted
<1>a. PICK a \in Nat : a = Cardinality(A) BY <1>n, EsCounted
<1>d. EsDense(s) /\ first + from - 1 = a + 1 BY <1>s, <1>A, <1>a
<1> DEFINE new == EsNew(n, c)
<1>2. /\ n \in Nat /\ A \in SUBSET (1..n) /\ EsAt(s)' = A \cup new
      /\ \A i \in new : eslog'[i].version = first + (from + (i - n) - 1) - 1
      /\ \A i \in 1..n : eslog'[i] = eslog[i]
  <2>1. n \in Nat /\ A \in SUBSET (1..n) OBVIOUS
  <2>2. \A i \in 1..n : eslog'[i] = eslog[i] BY <1>n DEF EsAdded
  <2>3. /\ \A t \in EsStreams : EsAt(t)' = IF t = EsStream[w] THEN EsAt(t) \cup EsNew(Len(eslog), c)
                                        ELSE EsAt(t)
        /\ \A i \in EsNew(Len(eslog), c) :
             eslog'[i].version = first + (from + (i - Len(eslog)) - 1) - 1
    BY EsAddedAt
  <2>4. QED BY <1>s, <1>n, <1>A, <2>1, <2>2, <2>3
<1>3. /\ \A i \in A : eslog[i].version = Cardinality(EsUpTo(A, i))
      /\ {eslog[i].version : i \in A} = 1..a
  BY <1>A, <1>a, <1>d DEF EsDense, EsVersions
<1>4. /\ \A i \in 1..n : EsUpTo(A \cup new, i) = EsUpTo(A, i)
      /\ \A i \in 1..c : Cardinality(EsUpTo(A \cup new, n + i)) = a + i
      /\ Cardinality(A \cup new) = a + c /\ a \in Nat
  <2>1. EsGrown(A, n, c) BY UpToGrows
  <2>2. QED BY <1>a, <2>1 DEF EsGrown
<1>5. first + from - 1 = a + 1 BY <1>d
<1>6. \A i \in 1..c : n + i \in new /\ eslog'[n + i].version = a + i
  <2> SUFFICES ASSUME NEW i \in 1..c PROVE n + i \in new /\ eslog'[n + i].version = a + i OBVIOUS
  <2>1. n + i \in new /\ (n + i) - n = i BY DEF EsNew
  <2>2. eslog'[n + i].version = first + (from + ((n + i) - n) - 1) - 1 BY <1>2, <2>1
  <2>3. QED BY <1>2, <1>4, <1>5, <2>1, <2>2
<1>7. \A i \in new : \E k \in 1..c : i = n + k
  <2> SUFFICES ASSUME NEW i \in new PROVE \E k \in 1..c : i = n + k OBVIOUS
  <2>1. i - n \in 1..c /\ n + (i - n) = i BY DEF EsNew
  <2>2. QED BY <2>1
<1>8. \A i \in A : eslog'[i] = eslog[i] BY <1>2
<1>9. ASSUME NEW i \in A \cup new
      PROVE  eslog'[i].version = Cardinality(EsUpTo(A \cup new, i))
  <2>1. CASE i \in A BY <1>2, <1>3, <1>4, <1>8, <2>1
  <2>2. CASE i \in new
    <3>1. PICK k \in 1..c : i = n + k BY <1>7, <2>2
    <3>2. QED BY <1>4, <1>6, <3>1
  <2>3. QED BY <2>1, <2>2
<1>10. {eslog'[i].version : i \in A \cup new} = 1..(a + c)
  <2>1. ASSUME NEW i \in A \cup new PROVE eslog'[i].version \in 1..(a + c)
    <3>1. CASE i \in A
      <4>1. eslog[i].version \in 1..a BY <1>3, <3>1
      <4>2. QED BY <1>4, <1>8, <3>1, <4>1
    <3>2. CASE i \in new
      <4>1. PICK k \in 1..c : i = n + k BY <1>7, <3>2
      <4>2. QED BY <1>4, <1>6, <4>1
    <3>3. QED BY <3>1, <3>2
  <2>2. ASSUME NEW v \in 1..(a + c) PROVE \E i \in A \cup new : eslog'[i].version = v
    <3>1. CASE v <= a
      <4>a. v \in 1..a BY <1>4, <3>1
      <4>1. v \in {eslog[i].version : i \in A} BY <1>3, <4>a
      <4>2. QED BY <1>8, <4>1
    <3>2. CASE v > a
      <4>1. v - a \in 1..c /\ a + (v - a) = v BY <1>4, <3>2
      <4>2. n + (v - a) \in new /\ eslog'[n + (v - a)].version = v BY <1>6, <4>1
      <4>3. QED BY <4>2
    <3>3. QED BY <1>4, <3>1, <3>2
  <2>3. QED BY <2>1, <2>2
<1>11. Cardinality(EsAt(s)') = a + c BY <1>2, <1>4
<1>12. EsDense(s)'
  <2>1. \A i \in EsAt(s)' : eslog'[i].version = Cardinality(EsUpTo(EsAt(s)', i)) BY <1>2, <1>9
  <2>2. {eslog'[i].version : i \in EsAt(s)'} = 1..Cardinality(EsAt(s)') BY <1>2, <1>10, <1>11
  <2>3. QED BY <2>1, <2>2 DEF EsDense, EsVersions, EsUpTo
<1>13. QED BY <1>s, <1>A, <1>a, <1>11, <1>12

\* ... and so do the events of the writer.
LEMMA EsPrefixAdded ==
  ASSUME EventStoreTypeOK, NEW w \in EsWriters, NEW first \in Nat, NEW from \in Nat \ {0},
         NEW c \in Nat, EsAdded(w, first, from, c), EsPrefix(w), esfirst'[w] = first,
         EsBy(w) = {} \/ esfirst[w] = first, Cardinality(EsBy(w)) + 1 = from
  PROVE  EsPrefix(w)' /\ Cardinality(EsBy(w)') = Cardinality(EsBy(w)) + c
<1>n. PICK n \in Nat : n = Len(eslog) BY EsCounted
<1>A. PICK A \in SUBSET (1..n) : A = EsBy(w) BY <1>n, EsCounted
<1>a. PICK a \in Nat : a = Cardinality(A) BY <1>n, EsCounted
<1>d. (A = {} \/ esfirst[w] = first) /\ a + 1 = from BY <1>A, <1>a
<1> DEFINE new == EsNew(n, c)
<1>2. /\ n \in Nat /\ A \in SUBSET (1..n) /\ EsBy(w)' = A \cup new
      /\ \A i \in new : eslog'[i] = EsRecord(w, first, from + (i - n) - 1)
      /\ \A i \in 1..n : eslog'[i] = eslog[i]
  <2>1. n \in Nat /\ A \in SUBSET (1..n) OBVIOUS
  <2>2. \A i \in 1..n : eslog'[i] = eslog[i] BY <1>n DEF EsAdded
  <2>3. /\ EsBy(w)' = EsBy(w) \cup EsNew(Len(eslog), c)
        /\ \A i \in EsNew(Len(eslog), c) :
             eslog'[i] = EsRecord(w, first, from + (i - Len(eslog)) - 1)
    BY EsAddedAt
  <2>4. QED BY <1>n, <1>A, <2>1, <2>2, <2>3
<1>3. /\ \A i \in A : eslog[i] = EsRecord(w, first, Cardinality(EsUpTo(A, i)))
      /\ \A e \in 1..a : \E i \in A : eslog[i] = EsRecord(w, first, e)
  <2>1. CASE EsBy(w) = {}
    <3>1. A = {} /\ a = 0 BY <1>A, <1>a, <2>1, FS_EmptySet
    <3>2. QED BY <3>1
  <2>2. CASE esfirst[w] = first BY <1>A, <1>a, <2>2 DEF EsPrefix
  <2>3. QED BY <1>A, <1>d, <2>1, <2>2
<1>4. /\ \A i \in 1..n : EsUpTo(A \cup new, i) = EsUpTo(A, i)
      /\ \A i \in 1..c : Cardinality(EsUpTo(A \cup new, n + i)) = a + i
      /\ Cardinality(A \cup new) = a + c /\ a \in Nat
  <2>1. EsGrown(A, n, c) BY UpToGrows
  <2>2. QED BY <1>a, <2>1 DEF EsGrown
<1>5. a + 1 = from BY <1>d
<1>6. \A i \in 1..c : n + i \in new /\ eslog'[n + i] = EsRecord(w, first, a + i)
  <2> SUFFICES ASSUME NEW i \in 1..c PROVE n + i \in new /\ eslog'[n + i] = EsRecord(w, first, a + i)
    OBVIOUS
  <2>1. n + i \in new BY DEF EsNew
  <2>a. from + ((n + i) - n) - 1 = a + i BY <1>5
  <2>2. eslog'[n + i] = EsRecord(w, first, from + ((n + i) - n) - 1) BY <1>2, <2>1
  <2>3. QED BY <2>1, <2>2, <2>a
<1>7. \A i \in new : \E k \in 1..c : i = n + k
  <2> SUFFICES ASSUME NEW i \in new PROVE \E k \in 1..c : i = n + k OBVIOUS
  <2>1. i - n \in 1..c /\ n + (i - n) = i BY DEF EsNew
  <2>2. QED BY <2>1
<1>8. \A i \in A : eslog'[i] = eslog[i] BY <1>2
<1>9. ASSUME NEW i \in A \cup new
      PROVE  eslog'[i] = EsRecord(w, first, Cardinality(EsUpTo(A \cup new, i)))
  <2>1. CASE i \in A BY <1>2, <1>3, <1>4, <1>8, <2>1
  <2>2. CASE i \in new
    <3>1. PICK k \in 1..c : i = n + k BY <1>7, <2>2
    <3>2. QED BY <1>4, <1>6, <3>1
  <2>3. QED BY <2>1, <2>2
<1>10. ASSUME NEW e \in 1..(a + c) PROVE \E i \in A \cup new : eslog'[i] = EsRecord(w, first, e)
  <2>1. CASE e <= a
    <3>1. PICK i \in A : eslog[i] = EsRecord(w, first, e) BY <1>3, <1>4, <2>1
    <3>2. QED BY <1>8, <3>1
  <2>2. CASE e > a
    <3>1. e - a \in 1..c /\ a + (e - a) = e BY <1>4, <2>2
    <3>2. n + (e - a) \in new /\ eslog'[n + (e - a)] = EsRecord(w, first, a + (e - a)) BY <1>6, <3>1
    <3>3. QED BY <3>1, <3>2
  <2>3. e \in Int /\ a \in Int OBVIOUS
  <2>4. e <= a \/ e > a BY <2>3
  <2>5. QED BY <2>1, <2>2, <2>4
<1>11. Cardinality(EsBy(w)') = a + c BY <1>2, <1>4
<1>12. EsPrefix(w)'
  <2>1. \A i \in EsBy(w)' : eslog'[i] = EsRecord(w, first, Cardinality(EsUpTo(EsBy(w)', i)))
    BY <1>2, <1>9
  <2>2. \A e \in 1..Cardinality(EsBy(w)') : \E i \in EsBy(w)' : eslog'[i] = EsRecord(w, first, e)
    BY <1>2, <1>10, <1>11
  <2>3. QED BY <2>1, <2>2 DEF EsPrefix, EsUpTo, EsRecord
<1>13. QED BY <1>A, <1>a, <1>11, <1>12

\* What holds of a stream or of a writer stays when its records do.
LEMMA EsDenseKept ==
  ASSUME NEW s \in EsStreams, EsDense(s), EsAt(s)' = EsAt(s),
         \A i \in EsAt(s) : eslog'[i] = eslog[i]
  PROVE  EsDense(s)'
<1>1. \A i \in EsAt(s)' : eslog'[i].version = Cardinality(EsUpTo(EsAt(s)', i))
  BY DEF EsDense
<1>2. {eslog'[i].version : i \in EsAt(s)'} = 1..Cardinality(EsAt(s)')
  <2>1. {eslog'[i].version : i \in EsAt(s)} = {eslog[i].version : i \in EsAt(s)} OBVIOUS
  <2>2. QED BY <2>1 DEF EsDense, EsVersions
<1>3. QED BY <1>1, <1>2 DEF EsDense, EsVersions, EsUpTo

\* A step that touches no record of u keeps what u has written.
LEMMA EsPrefixKept ==
  ASSUME NEW u \in EsWriters, EsPrefix(u), EsBy(u)' = EsBy(u),
         \A i \in EsBy(u) : eslog'[i] = eslog[i], EsBy(u) = {} \/ esfirst'[u] = esfirst[u]
  PROVE  EsPrefix(u)'
<1>1. CASE EsBy(u) = {}
  <2>1. EsBy(u)' = {} /\ Cardinality(EsBy(u)') = 0 BY <1>1, FS_EmptySet
  <2>2. QED BY <2>1 DEF EsPrefix
<1>2. CASE esfirst'[u] = esfirst[u]
  <2>1. \A i \in EsBy(u)' : eslog'[i] = EsRecord(u, esfirst'[u], Cardinality(EsUpTo(EsBy(u)', i)))
    BY <1>2 DEF EsPrefix
  <2>2. \A e \in 1..Cardinality(EsBy(u)') : \E i \in EsBy(u)' : eslog'[i] = EsRecord(u, esfirst'[u], e)
    BY <1>2 DEF EsPrefix
  <2>3. QED BY <2>1, <2>2 DEF EsPrefix, EsUpTo, EsRecord
<1>3. QED BY <1>1, <1>2

\* A step of w that leaves the other writers and the overlaps alone.
EsStepOf(w) ==
  /\ eskind' = eskind /\ esoverlap' = esoverlap
  /\ \A u \in EsWriters \ {w} : esat'[u] = esat[u] /\ esfirst'[u] = esfirst[u] /\ esnext'[u] = esnext[u]

\* The c records that w adds from event from on have the versions it expects.
EsFits(w, first, from) ==
  /\ esfirst'[w] = first /\ (EsBy(w) = {} \/ esfirst[w] = first)
  /\ Cardinality(EsBy(w)) + 1 = from
  /\ EsAlone(EsStream[w]) => first + from - 1 = Cardinality(EsAt(EsStream[w])) + 1
  /\ eskind = "file" => w \in EsActive

\* What adding records does to streams and writers.
EsAfterAdd(w, c) ==
  /\ \A s \in EsStreams : EsAlone(s)' => EsDense(s)'
  /\ \A u \in EsWriters \ {w} : EsPrefix(u)' /\ EsProgress(u)' /\ EsGiven(u)'
  /\ EsPrefix(w)' /\ Cardinality(EsBy(w)') = Cardinality(EsBy(w)) + c
  /\ EsAlone(EsStream[w]) =>
       Cardinality(EsAt(EsStream[w])') = Cardinality(EsAt(EsStream[w])) + c

\* A writer adds its next records to the log.
LEMMA EsAddOk ==
  ASSUME EventStoreIInv, NEW w \in EsWriters, NEW first \in Nat, NEW from \in Nat \ {0}, NEW c \in Nat,
         EsAdded(w, first, from, c), EsStepOf(w), EsFits(w, first, from)
  PROVE  EsAfterAdd(w, c)
<1>0. /\ EventStoreTypeOK /\ EsLines
      /\ \A s \in EsStreams : EsAlone(s) => EsDense(s)
      /\ \A u \in EsWriters : EsPrefix(u) /\ EsProgress(u) /\ EsGiven(u)
  BY DEF EventStoreIInv
<1>s. EsStream[w] \in EsStreams /\ \A u \in EsWriters : EsStream[u] \in EsStreams
  BY EventStoreAssumption
<1>1. \A s \in EsStreams : EsAlone(s)' <=> EsAlone(s) BY DEF EsAlone, EsStepOf
<1>2. /\ \A s \in EsStreams :
           EsAt(s)' = IF s = EsStream[w] THEN EsAt(s) \cup EsNew(Len(eslog), c) ELSE EsAt(s)
      /\ EsBy(w)' = EsBy(w) \cup EsNew(Len(eslog), c)
      /\ \A u \in EsWriters \ {w} : EsBy(u)' = EsBy(u)
  BY <1>0, EsAddedAt
<1>3. /\ \A s \in EsStreams : \A i \in EsAt(s) : eslog'[i] = eslog[i]
      /\ \A u \in EsWriters : \A i \in EsBy(u) : eslog'[i] = eslog[i]
  <2>1. \A i \in 1..Len(eslog) : eslog'[i] = eslog[i] BY DEF EsAdded
  <2>2. /\ \A s \in EsStreams : EsAt(s) \in SUBSET (1..Len(eslog))
        /\ \A u \in EsWriters : EsBy(u) \in SUBSET (1..Len(eslog))
    BY <1>0, EsCounted
  <2>3. QED BY <2>1, <2>2
<1>4. EsAlone(EsStream[w]) =>
        /\ EsDense(EsStream[w])'
        /\ Cardinality(EsAt(EsStream[w])') = Cardinality(EsAt(EsStream[w])) + c
  <2> SUFFICES ASSUME EsAlone(EsStream[w])
               PROVE  /\ EsDense(EsStream[w])'
                      /\ Cardinality(EsAt(EsStream[w])') = Cardinality(EsAt(EsStream[w])) + c
    OBVIOUS
  <2>1. EsDense(EsStream[w]) BY <1>0, <1>s
  <2>2. first + from - 1 = Cardinality(EsAt(EsStream[w])) + 1 BY DEF EsFits
  <2>3. QED BY <1>0, <2>1, <2>2, EsDenseAdded
<1>5. \A s \in EsStreams : EsAlone(s)' => EsDense(s)'
  <2> SUFFICES ASSUME NEW s \in EsStreams, EsAlone(s) PROVE EsDense(s)' BY <1>1
  <2>1. CASE s = EsStream[w] BY <1>4, <2>1
  <2>2. CASE s # EsStream[w]
    <3>1. EsAt(s)' = EsAt(s) BY <1>2, <2>2
    <3>2. EsDense(s) BY <1>0
    <3>3. \A i \in EsAt(s) : eslog'[i] = eslog[i] BY <1>3
    <3>4. QED BY <3>1, <3>2, <3>3, EsDenseKept
  <2>3. QED BY <2>1, <2>2
<1>6. EsPrefix(w)' /\ Cardinality(EsBy(w)') = Cardinality(EsBy(w)) + c
  <2>1. /\ esfirst'[w] = first /\ (EsBy(w) = {} \/ esfirst[w] = first)
        /\ Cardinality(EsBy(w)) + 1 = from
    BY DEF EsFits
  <2>2. EsPrefix(w) BY <1>0
  <2>3. QED BY <1>0, <2>1, <2>2, EsPrefixAdded
<1>7. ASSUME NEW u \in EsWriters \ {w} PROVE EsPrefix(u)' /\ EsProgress(u)' /\ EsGiven(u)'
  <2>0. /\ esat'[u] = esat[u] /\ esfirst'[u] = esfirst[u] /\ esnext'[u] = esnext[u]
        /\ eskind' = eskind /\ esoverlap' = esoverlap
    BY DEF EsStepOf
  <2>1. EsBy(u)' = EsBy(u) /\ EsPrefix(u) /\ EsProgress(u) /\ EsGiven(u) BY <1>0, <1>2
  <2>2. EsPrefix(u)'
    <3>1. \A i \in EsBy(u) : eslog'[i] = eslog[i] BY <1>3
    <3>2. QED BY <2>0, <2>1, <3>1, EsPrefixKept
  <2>3. EsProgress(u)' BY <2>0, <2>1 DEF EsProgress
  <2>4. EsGiven(u)'
    <3>s. PICK s \in EsStreams : s = EsStream[u] BY <1>s
    <3>1. CASE s # EsStream[w]
      <4>1. EsAt(s)' = EsAt(s) BY <1>2, <3>1
      <4>2. EsAlone(s)' <=> EsAlone(s) BY <1>1
      <4>3. QED BY <2>0, <2>1, <3>s, <4>1, <4>2 DEF EsGiven
    <3>2. CASE s = EsStream[w] /\ eskind = "file"
      <4>1. ASSUME esat[u] \in {"write", "break"} PROVE ~EsAlone(s)
        <5>1. u \in EsActive /\ w \in EsActive /\ u # w BY <3>2, <4>1 DEF EsActive, EsFits
        <5>2. {u, w} \in esoverlap BY <1>0, <5>1 DEF EsLines
        <5>3. QED BY <3>2, <3>s, <5>2 DEF EsAlone
      <4>2. ~EsAlone(s)' \/ esat'[u] \notin {"write", "break"} BY <1>1, <2>0, <4>1
      <4>3. eskind' = "file" BY <2>0, <3>2
      <4>4. QED BY <3>s, <4>2, <4>3 DEF EsGiven
    <3>3. CASE s = EsStream[w] /\ eskind # "file"
      <4>1. EsAlone(s) BY <3>3 DEF EsAlone
      <4>2. Cardinality(EsAt(s)') = Cardinality(EsAt(s)) + c BY <1>4, <3>3, <4>1
      <4>3. Cardinality(EsAt(s)) \in Nat
        <5>1. EsAt(s) \in SUBSET (1..Len(eslog)) BY <1>0, EsCounted
        <5>2. QED BY <1>0, <5>1, EsCounted
      <4>4. esfirst[u] \in Nat /\ esnext[u] \in Nat BY <1>0 DEF EventStoreTypeOK
      <4>5. eskind = "sql" /\ esat[u] = "write" => esfirst[u] + esnext[u] - 1 <= Cardinality(EsAt(s)) + 1
        BY <2>1, <3>s DEF EsGiven
      <4>6. eskind = "sql" /\ esat[u] = "write" => esfirst[u] + esnext[u] - 1 <= Cardinality(EsAt(s)') + 1
        BY <4>2, <4>3, <4>4, <4>5
      <4>7. eskind' # "file" BY <2>0, <3>3
      <4>8. QED BY <2>0, <3>s, <4>6, <4>7 DEF EsGiven
    <3>4. QED BY <3>1, <3>2, <3>3
  <2>5. QED BY <2>2, <2>3, <2>4
<1>8. QED BY <1>4, <1>5, <1>6, <1>7 DEF EsAfterAdd

\* What a step of w does to its own entries.
EsSetTo(w, at, first, next) ==
  /\ esat' = [esat EXCEPT ![w] = at]
  /\ esfirst' = [esfirst EXCEPT ![w] = first]
  /\ esnext' = [esnext EXCEPT ![w] = next]
  /\ eskind' = eskind /\ esoverlap' = esoverlap

\* A writer moves on; the types are kept and nobody else moves.
LEMMA EsSetOk ==
  ASSUME EventStoreTypeOK, NEW w \in EsWriters,
         NEW at \in {"new", "write", "break", "Ok", "Conflict", "Serde"},
         NEW first \in Nat, NEW next \in Nat, EsSetTo(w, at, first, next),
         eslog' \in Seq(EsRecords \cup {LineBreak})
  PROVE  /\ EventStoreTypeOK' /\ EsStepOf(w)
         /\ esat'[w] = at /\ esfirst'[w] = first /\ esnext'[w] = next
         /\ \A u \in EsActive' : u \in EsActive \/ (u = w /\ at \in {"write", "break"})
<1>0. /\ eskind \in EsKinds /\ esoverlap \subseteq SUBSET EsWriters
      /\ esat \in [EsWriters -> {"new", "write", "break", "Ok", "Conflict", "Serde"}]
      /\ esfirst \in [EsWriters -> Nat] /\ esnext \in [EsWriters -> Nat]
      /\ esat' = [esat EXCEPT ![w] = at]
      /\ esfirst' = [esfirst EXCEPT ![w] = first]
      /\ esnext' = [esnext EXCEPT ![w] = next]
      /\ eskind' = eskind /\ esoverlap' = esoverlap
  BY DEF EventStoreTypeOK, EsSetTo
<1>1. /\ esat' \in [EsWriters -> {"new", "write", "break", "Ok", "Conflict", "Serde"}]
      /\ esfirst' \in [EsWriters -> Nat] /\ esnext' \in [EsWriters -> Nat]
      /\ esat'[w] = at /\ esfirst'[w] = first /\ esnext'[w] = next
      /\ \A u \in EsWriters \ {w} : esat'[u] = esat[u] /\ esfirst'[u] = esfirst[u] /\ esnext'[u] = esnext[u]
  BY <1>0
<1>2. EventStoreTypeOK' BY <1>0, <1>1 DEF EventStoreTypeOK
<1>3. EsStepOf(w) BY <1>0, <1>1 DEF EsStepOf
<1>4. \A u \in EsActive' : u \in EsActive \/ (u = w /\ at \in {"write", "break"})
  BY <1>1 DEF EsActive
<1>5. QED BY <1>1, <1>2, <1>3, <1>4

\* One record more at the end of the log.
LEMMA EsAppended ==
  ASSUME EventStoreTypeOK, NEW w \in EsWriters, NEW first \in Nat, NEW from \in Nat \ {0},
         eslog' = Append(eslog, EsRecord(w, first, from))
  PROVE  EsAdded(w, first, from, 1)
<1>1. EsRecord(w, first, from) \in EsRecords
  <2>1. EsIsRecord(EsRecord(w, first, from), w, first + from - 1) BY EsRecordIs
  <2>2. QED BY <2>1 DEF EsIsRecord
<1>2. eslog \in Seq(EsRecords \cup {LineBreak}) BY DEF EventStoreTypeOK
<1>3. PICK r \in EsRecords \cup {LineBreak} : r = EsRecord(w, first, from) BY <1>1
<1>4. eslog' = Append(eslog, r) BY <1>3
<1>5. /\ eslog' \in Seq(EsRecords \cup {LineBreak}) /\ Len(eslog') = Len(eslog) + 1
      /\ \A i \in 1..Len(eslog) : eslog'[i] = eslog[i] /\ eslog'[Len(eslog) + 1] = r
  BY <1>2, <1>4
<1>6. \A i \in 1..1 : i = 1 /\ from + i - 1 = from OBVIOUS
<1>7. \A i \in 1..1 : eslog'[Len(eslog) + i] = EsRecord(w, first, from + i - 1)
  <2>1. eslog'[Len(eslog) + 1] = r BY <1>2, <1>4
  <2>2. QED BY <1>3, <1>6, <2>1
<1>8. QED BY <1>5, <1>7 DEF EsAdded

\* It holds at the start.
LEMMA EventStoreInitOk == EventStoreInit => EventStoreIInv
<1> SUFFICES ASSUME EventStoreInit PROVE EventStoreIInv OBVIOUS
<1> USE EventStoreAssumption DEF EventStoreInit
<1>1. EventStoreTypeOK BY DEF EventStoreTypeOK
<1>2. DOMAIN eslog = {} /\ Len(eslog) = 0 OBVIOUS
<1>3. /\ \A s \in EsStreams : EsAt(s) = {}
      /\ \A w \in EsWriters : EsBy(w) = {}
  BY <1>2 DEF EsAt, EsBy
<1>4. Cardinality({}) = 0 BY FS_EmptySet
<1>5. \A s \in EsStreams : EsDense(s)
  <2> SUFFICES ASSUME NEW s \in EsStreams PROVE EsDense(s) OBVIOUS
  <2>1. EsAt(s) = {} /\ Cardinality(EsAt(s)) = 0 BY <1>3, <1>4
  <2>2. EsVersions(s) = {} BY <2>1 DEF EsVersions
  <2>3. 1..0 = {} OBVIOUS
  <2>4. QED BY <2>1, <2>2, <2>3 DEF EsDense
<1>6. \A w \in EsWriters : EsPrefix(w) /\ EsProgress(w) /\ EsGiven(w)
  <2> SUFFICES ASSUME NEW w \in EsWriters PROVE EsPrefix(w) /\ EsProgress(w) /\ EsGiven(w) OBVIOUS
  <2>1. EsBy(w) = {} /\ Cardinality(EsBy(w)) = 0 BY <1>3, <1>4
  <2>2. esat[w] = "new" /\ esnext[w] = 1 OBVIOUS
  <2>3. QED BY <2>1, <2>2 DEF EsPrefix, EsProgress, EsGiven
<1>7. EsLines
  <2>1. EsActive = {} BY DEF EsActive
  <2>2. EsReadable BY <1>2 DEF EsReadable
  <2>3. QED BY <2>1, <2>2 DEF EsLines
<1>8. QED BY <1>1, <1>5, <1>6, <1>7 DEF EventStoreIInv

\* What an append under way knows.
LEMMA EsKnown ==
  ASSUME EventStoreIInv, NEW w \in EsWriters
  PROVE  /\ EventStoreTypeOK /\ EsLines
         /\ \A s \in EsStreams : EsAlone(s) => EsDense(s)
         /\ \A u \in EsWriters : EsPrefix(u) /\ EsProgress(u) /\ EsGiven(u)
         /\ EsStream[w] \in EsStreams /\ EsCount[w] \in Nat \ {0}
         /\ esfirst[w] \in Nat /\ esnext[w] \in Nat
         /\ Cardinality(EsBy(w)) \in Nat /\ Cardinality(EsAt(EsStream[w])) \in Nat
         /\ esat[w] = "new" => EsBy(w) = {} /\ Cardinality(EsBy(w)) = 0 /\ esnext[w] = 1
<1>1. /\ EventStoreTypeOK /\ EsLines
      /\ \A s \in EsStreams : EsAlone(s) => EsDense(s)
      /\ \A u \in EsWriters : EsPrefix(u) /\ EsProgress(u) /\ EsGiven(u)
  BY DEF EventStoreIInv
<1>2. EsStream[w] \in EsStreams /\ EsCount[w] \in Nat \ {0} BY EventStoreAssumption
<1>3. esfirst[w] \in Nat /\ esnext[w] \in Nat BY <1>1 DEF EventStoreTypeOK
<1>4. EsBy(w) \in SUBSET (1..Len(eslog)) /\ EsAt(EsStream[w]) \in SUBSET (1..Len(eslog))
  BY <1>1, <1>2, EsCounted
<1>5. Cardinality(EsBy(w)) \in Nat /\ Cardinality(EsAt(EsStream[w])) \in Nat
  BY <1>1, <1>4, EsCounted
<1>6. esat[w] = "new" => EsBy(w) = {} /\ Cardinality(EsBy(w)) = 0 /\ esnext[w] = 1
  <2>1. esat[w] = "new" => EsBy(w) = {} /\ esnext[w] = 1 BY <1>1 DEF EsProgress
  <2>2. Cardinality({}) = 0 BY FS_EmptySet
  <2>3. QED BY <2>1, <2>2
<1>7. QED BY <1>1, <1>2, <1>3, <1>5, <1>6

\* The greatest version of a dense stream is the number of its records.
LEMMA EsNextIs ==
  ASSUME EventStoreIInv, NEW w \in EsWriters
  PROVE  /\ EsNextVersion(w) \in Nat /\ EsNextVersion(w) >= 1
         /\ EsNextVersion(w) = Cardinality(EsAt(EsStream[w])) + 1
<1>0. PICK n \in Nat : n = Cardinality(EsAt(EsStream[w])) BY EsKnown
<1>1. CASE eskind = "sql"
  <2>1. EsAlone(EsStream[w]) BY <1>1 DEF EsAlone
  <2>2. EsDense(EsStream[w]) BY <2>1, EsKnown
  <2>3. EsVersions(EsStream[w]) = 1..n BY <1>0, <2>2 DEF EsDense
  <2>4. {0} \cup 1..n = 0..n OBVIOUS
  <2>5. Max(0..n) = n
    <3>1. \A x \in 0..n : (\A y \in 0..n : x >= y) <=> x = n OBVIOUS
    <3>2. n \in 0..n OBVIOUS
    <3>3. QED BY <3>1, <3>2 DEF Max
  <2>6. Max({0} \cup EsVersions(EsStream[w])) = n BY <2>3, <2>4, <2>5
  <2>7. EsNextVersion(w) = 1 + n BY <1>1, <2>6 DEF EsNextVersion
  <2>8. QED BY <1>0, <2>7
<1>2. CASE eskind # "sql"
  <2>1. EsNextVersion(w) = 1 + n BY <1>0, <1>2 DEF EsNextVersion
  <2>2. QED BY <1>0, <2>1
<1>3. QED BY <1>1, <1>2

\* The memory store appends in one step.
LEMMA EsMemoryAppendOk ==
  ASSUME EventStoreIInv, NEW w \in EsWriters, EsMemoryAppend(w) PROVE EventStoreIInv'
<1>v. PICK v \in Nat : v = EsNextVersion(w) BY EsNextIs
<1>c. PICK c \in Nat \ {0} : c = EsCount[w] BY EsKnown
<1>r. PICK r : r = [i \in 1..c |-> EsRecord(w, v, i)] OBVIOUS
<1>0. /\ EventStoreTypeOK /\ EsLines
      /\ EsStream[w] \in EsStreams /\ esfirst[w] \in Nat /\ esnext[w] \in Nat
      /\ eskind = "memory" /\ esat[w] = "new" /\ EsBy(w) = {} /\ Cardinality(EsBy(w)) = 0
  BY EsKnown DEF EsMemoryAppend
<1>1. v \in Nat /\ v >= 1 /\ v = Cardinality(EsAt(EsStream[w])) + 1 BY <1>v, EsNextIs
<1>2. r \in Seq(EsRecords \cup {LineBreak}) /\ Len(r) = c /\ \A i \in 1..c : r[i] = EsRecord(w, v, i)
  <2>1. \A i \in 1..c : EsRecord(w, v, i) \in EsRecords
    <3> SUFFICES ASSUME NEW i \in 1..c PROVE EsRecord(w, v, i) \in EsRecords OBVIOUS
    <3>1. i \in Nat \ {0} BY <1>0
    <3>2. EsIsRecord(EsRecord(w, v, i), w, v + i - 1) BY <1>1, <3>1, EsRecordIs
    <3>3. QED BY <3>2 DEF EsIsRecord
  <2>2. r \in [1..c -> EsRecords \cup {LineBreak}] BY <1>r, <2>1
  <2>3. QED BY <1>r, <2>2
<1>3. eslog' = eslog \o r BY <1>v, <1>c, <1>r DEF EsMemoryAppend
<1>4. EsAdded(w, v, 1, c)
  <2>1. eslog \in Seq(EsRecords \cup {LineBreak}) BY <1>0 DEF EventStoreTypeOK
  <2>s. PICK S : S = EsRecords \cup {LineBreak} OBVIOUS
  <2>t. eslog \in Seq(S) /\ r \in Seq(S) BY <1>2, <2>1, <2>s
  <2>a. /\ (eslog \o r) \in Seq(S) /\ Len(eslog \o r) = Len(eslog) + Len(r)
        /\ \A i \in 1..Len(eslog) : (eslog \o r)[i] = eslog[i]
        /\ \A i \in 1..Len(r) : (eslog \o r)[Len(eslog) + i] = r[i]
    BY <2>t, TwoParts
  <2>2. /\ eslog' \in Seq(EsRecords \cup {LineBreak}) /\ Len(eslog') = Len(eslog) + c
        /\ \A i \in 1..Len(eslog) : eslog'[i] = eslog[i]
        /\ \A i \in 1..c : eslog'[Len(eslog) + i] = r[i]
    BY <1>2, <1>3, <2>a, <2>s
  <2>3. \A i \in 1..c : 1 + i - 1 = i BY <1>0
  <2>4. \A i \in 1..c : eslog'[Len(eslog) + i] = EsRecord(w, v, 1 + i - 1) BY <1>2, <2>2, <2>3
  <2>5. QED BY <2>2, <2>4 DEF EsAdded
<1>5. EsSetTo(w, "Ok", v, c + 1) BY <1>v, <1>c DEF EsMemoryAppend, EsSetTo
<1>6. eslog' \in Seq(EsRecords \cup {LineBreak}) BY <1>4 DEF EsAdded
<1>7. /\ EventStoreTypeOK' /\ EsStepOf(w)
      /\ esat'[w] = "Ok" /\ esfirst'[w] = v /\ esnext'[w] = c + 1
      /\ \A u \in EsActive' : u \in EsActive
  <2>1. c + 1 \in Nat BY <1>0
  <2>2. QED BY <1>0, <1>1, <1>5, <1>6, <2>1, EsSetOk
<1>8. EsFits(w, v, 1) BY <1>0, <1>1, <1>7 DEF EsFits
<1>9. /\ \A s \in EsStreams : EsAlone(s)' => EsDense(s)'
      /\ \A u \in EsWriters \ {w} : EsPrefix(u)' /\ EsProgress(u)' /\ EsGiven(u)'
      /\ EsPrefix(w)' /\ Cardinality(EsBy(w)') = Cardinality(EsBy(w)) + c
  <2>1. EsAfterAdd(w, c) BY <1>4, <1>7, <1>8, EsAddOk
  <2>2. QED BY <2>1 DEF EsAfterAdd
<1>10. EsProgress(w)' /\ EsGiven(w)'
  <2>1. Cardinality(EsBy(w)') = EsCount[w] BY <1>0, <1>9, <1>c
  <2>2. QED BY <1>1, <1>7, <2>1 DEF EsProgress, EsGiven
<1>11. EsLines'
  <2>1. eskind' = "memory" /\ esoverlap' = esoverlap BY <1>0, <1>7 DEF EsStepOf
  <2>2. QED BY <1>0, <1>7, <2>1 DEF EsLines
<1>12. QED BY <1>7, <1>9, <1>10, <1>11 DEF EventStoreIInv

\* Reading chooses the versions and notes the overlaps.
LEMMA EsReadOk ==
  ASSUME EventStoreIInv, NEW w \in EsWriters, EsRead(w) PROVE EventStoreIInv'
<1>0. /\ EventStoreTypeOK /\ EsLines /\ EsCount[w] \in Nat \ {0}
      /\ \A s \in EsStreams : EsAlone(s) => EsDense(s)
      /\ \A u \in EsWriters : EsPrefix(u) /\ EsProgress(u) /\ EsGiven(u)
      /\ EsStream[w] \in EsStreams
      /\ EsBy(w) = {} /\ Cardinality(EsBy(w)) = 0 /\ esnext[w] = 1
  BY EsKnown DEF EsRead
<1>1. PICK v \in Nat : v = EsNextVersion(w) BY EsNextIs
<1>2. v >= 1 /\ v = Cardinality(EsAt(EsStream[w])) + 1 BY <1>1, EsNextIs
<1>3. PICK at \in {"Serde", "write"} : at = IF eskind = "file" /\ ~EsReadable THEN "Serde" ELSE "write"
  OBVIOUS
<1>4. /\ eskind # "memory" /\ esat[w] = "new" /\ esat' = [esat EXCEPT ![w] = at]
      /\ esfirst' = [esfirst EXCEPT ![w] = v]
      /\ esoverlap' = esoverlap \cup {{u, w} : u \in EsActive}
      /\ eskind' = eskind /\ eslog' = eslog /\ esnext' = esnext
  BY <1>1, <1>3 DEF EsRead
<1>t. /\ eskind \in EsKinds /\ esoverlap \subseteq SUBSET EsWriters
      /\ esat \in [EsWriters -> {"new", "write", "break", "Ok", "Conflict", "Serde"}]
      /\ esfirst \in [EsWriters -> Nat] /\ esnext \in [EsWriters -> Nat]
  BY <1>0 DEF EventStoreTypeOK
<1>5. /\ esat'[w] = at /\ esfirst'[w] = v
      /\ \A u \in EsWriters \ {w} : esat'[u] = esat[u] /\ esfirst'[u] = esfirst[u]
  BY <1>4, <1>t
<1>6. EventStoreTypeOK'
  <2>1. esat' \in [EsWriters -> {"new", "write", "break", "Ok", "Conflict", "Serde"}]
        /\ esfirst' \in [EsWriters -> Nat]
    BY <1>4, <1>t
  <2>2. esoverlap' \subseteq SUBSET EsWriters BY <1>4, <1>t DEF EsActive
  <2>3. QED BY <1>0, <1>4, <2>1, <2>2 DEF EventStoreTypeOK
<1>7. /\ \A s \in EsStreams : EsAt(s)' = EsAt(s)
      /\ \A u \in EsWriters : EsBy(u)' = EsBy(u)
  BY <1>4 DEF EsAt, EsBy
<1>8. \A s \in EsStreams : EsAlone(s)' => EsAlone(s) BY <1>4 DEF EsAlone
<1>9. \A s \in EsStreams : EsAlone(s)' => EsDense(s)'
  <2> SUFFICES ASSUME NEW s \in EsStreams, EsAlone(s)' PROVE EsDense(s)' OBVIOUS
  <2>1. EsDense(s) BY <1>0, <1>8
  <2>2. QED BY <1>4, <1>7, <2>1, EsDenseKept
<1>10. \A u \in EsWriters : EsPrefix(u)'
  <2> SUFFICES ASSUME NEW u \in EsWriters PROVE EsPrefix(u)' OBVIOUS
  <2>1. EsPrefix(u) /\ (EsBy(u) = {} \/ esfirst'[u] = esfirst[u]) BY <1>0, <1>5
  <2>2. QED BY <1>4, <1>7, <2>1, EsPrefixKept
<1>11. \A u \in EsWriters \ {w} : EsProgress(u)' /\ EsGiven(u)'
  <2> SUFFICES ASSUME NEW u \in EsWriters \ {w} PROVE EsProgress(u)' /\ EsGiven(u)' OBVIOUS
  <2>1. EsProgress(u) /\ EsGiven(u) BY <1>0
  <2>2. EsStream[u] \in EsStreams BY EventStoreAssumption
  <2>3. EsAt(EsStream[u])' = EsAt(EsStream[u]) /\ (EsAlone(EsStream[u])' => EsAlone(EsStream[u]))
    BY <1>7, <1>8, <2>2
  <2>4. esat'[u] = esat[u] /\ esfirst'[u] = esfirst[u] /\ esnext'[u] = esnext[u] /\ eskind' = eskind
        /\ EsBy(u)' = EsBy(u)
    BY <1>4, <1>5, <1>7
  <2>5. EsProgress(u)' BY <2>1, <2>4 DEF EsProgress
  <2>6. EsGiven(u)' BY <2>1, <2>3, <2>4 DEF EsGiven
  <2>7. QED BY <2>5, <2>6
<1>12. EsProgress(w)' /\ EsGiven(w)'
  <2>1. Cardinality(EsBy(w)') = 0 /\ esnext'[w] = 1 BY <1>0, <1>4, <1>7
  <2>2. EsAt(EsStream[w])' = EsAt(EsStream[w]) BY <1>0, <1>7
  <2>3. PICK n \in Nat : n = Cardinality(EsAt(EsStream[w])) BY EsKnown
  <2>4. esfirst'[w] + esnext'[w] - 1 = Cardinality(EsAt(EsStream[w])') + 1
    BY <1>2, <1>5, <2>1, <2>2, <2>3
  <2>5. Cardinality(EsAt(EsStream[w])') \in Nat BY <2>2, <2>3
  <2>6. EsProgress(w)' BY <1>0, <1>2, <1>4, <1>5, <2>1 DEF EsProgress
  <2>7. EsGiven(w)' BY <1>5, <2>4, <2>5 DEF EsGiven
  <2>8. QED BY <2>6, <2>7
<1>13. EsLines'
  <2>1. \A u \in EsActive' : u \in EsActive \/ u = w BY <1>5 DEF EsActive
  <2>2. \A u, x \in EsActive' : u # x => {u, x} \in esoverlap'
    <3> SUFFICES ASSUME NEW u \in EsActive', NEW x \in EsActive', u # x PROVE {u, x} \in esoverlap'
      OBVIOUS
    <3>1. CASE u \in EsActive /\ x \in EsActive BY <1>0, <1>4, <3>1 DEF EsLines
    <3>2. CASE u = w /\ x \in EsActive
      <4>1. {x, w} \in esoverlap' /\ {x, w} = {u, x} BY <1>4, <3>2
      <4>2. QED BY <4>1
    <3>3. CASE x = w /\ u \in EsActive BY <1>4, <3>3
    <3>4. QED BY <2>1, <3>1, <3>2, <3>3
  <2>3. ASSUME eskind' = "file", esoverlap' = {}
        PROVE  /\ EsReadable'
               /\ (\A u \in EsWriters : esat'[u] # "break") => eslog' = <<>> \/ eslog'[Len(eslog')] = LineBreak
    <3>1. eskind = "file" /\ esoverlap = {} BY <1>4, <2>3
    <3>2. EsReadable' BY <1>0, <1>4, <3>1 DEF EsLines, EsReadable
    <3>3. (\A u \in EsWriters : esat'[u] # "break") => \A u \in EsWriters : esat[u] # "break"
      BY <1>4, <1>5
    <3>4. QED BY <1>0, <1>4, <3>1, <3>2, <3>3 DEF EsLines
  <2>4. QED BY <2>2, <2>3 DEF EsLines
<1>14. QED BY <1>6, <1>9, <1>10, <1>11, <1>12, <1>13 DEF EventStoreIInv

\* An overlap is there as soon as two appends are under way.
LEMMA EsOnlyOne ==
  ASSUME EsLines, esoverlap = {}, NEW w \in EsActive, NEW u \in EsWriters, esat[u] = "break"
  PROVE  u = w
<1>1. u \in EsActive BY DEF EsActive
<1>2. QED BY <1>1 DEF EsLines

\* The text of a line.
LEMMA EsWriteLineOk ==
  ASSUME EventStoreIInv, NEW w \in EsWriters, EsWriteLine(w) PROVE EventStoreIInv'
<1>0. /\ EventStoreTypeOK /\ EsLines /\ EsStream[w] \in EsStreams
      /\ EsPrefix(w) /\ EsProgress(w) /\ EsGiven(w)
      /\ Cardinality(EsBy(w)) \in Nat /\ Cardinality(EsAt(EsStream[w])) \in Nat
  BY EsKnown
<1>1. /\ eskind = "file" /\ esat[w] = "write"
      /\ eslog' = Append(eslog, EsRecord(w, esfirst[w], esnext[w]))
      /\ esat' = [esat EXCEPT ![w] = "break"]
      /\ eskind' = eskind /\ esfirst' = esfirst /\ esnext' = esnext /\ esoverlap' = esoverlap
  BY DEF EsWriteLine
<1>2. PICK first \in Nat : first = esfirst[w] BY EsKnown
<1>3. PICK k \in Nat \ {0} : k = esnext[w]
  <2>1. Cardinality(EsBy(w)) + 1 = esnext[w] BY <1>0, <1>1 DEF EsProgress
  <2>2. esnext[w] \in Nat \ {0} BY <1>0, <2>1
  <2>3. QED BY <2>2
<1>4. EsAdded(w, first, k, 1) BY <1>0, <1>1, <1>2, <1>3, EsAppended
<1>5. EsSetTo(w, "break", first, k)
  <2>1. esfirst \in [EsWriters -> Nat] /\ esnext \in [EsWriters -> Nat] BY <1>0 DEF EventStoreTypeOK
  <2>2. esfirst' = [esfirst EXCEPT ![w] = first] /\ esnext' = [esnext EXCEPT ![w] = k]
    BY <1>1, <1>2, <1>3, <2>1
  <2>3. QED BY <1>1, <2>2 DEF EsSetTo
<1>6. eslog' \in Seq(EsRecords \cup {LineBreak}) BY <1>4 DEF EsAdded
<1>7. /\ EventStoreTypeOK' /\ EsStepOf(w)
      /\ esat'[w] = "break" /\ esfirst'[w] = first /\ esnext'[w] = k
      /\ \A u \in EsActive' : u \in EsActive \/ (u = w /\ "break" \in {"write", "break"})
  BY <1>0, <1>5, <1>6, EsSetOk
<1>a. w \in EsActive BY <1>1 DEF EsActive
<1>b. Cardinality(EsBy(w)) + 1 = k /\ k <= EsCount[w] BY <1>0, <1>1, <1>3 DEF EsProgress
<1>c. EsAlone(EsStream[w]) => first + k - 1 = Cardinality(EsAt(EsStream[w])) + 1
  BY <1>0, <1>1, <1>2, <1>3 DEF EsGiven
<1>8. EsFits(w, first, k) BY <1>2, <1>7, <1>a, <1>b, <1>c DEF EsFits
<1>9. /\ \A s \in EsStreams : EsAlone(s)' => EsDense(s)'
      /\ \A u \in EsWriters \ {w} : EsPrefix(u)' /\ EsProgress(u)' /\ EsGiven(u)'
      /\ EsPrefix(w)' /\ Cardinality(EsBy(w)') = Cardinality(EsBy(w)) + 1
      /\ EsAlone(EsStream[w]) =>
           Cardinality(EsAt(EsStream[w])') = Cardinality(EsAt(EsStream[w])) + 1
  <2>1. EsAfterAdd(w, 1) BY <1>4, <1>7, <1>8, EsAddOk
  <2>2. QED BY <2>1 DEF EsAfterAdd
<1>d. esfirst'[w] >= 1
  <2>1. esfirst[w] >= 1 BY <1>0, <1>1 DEF EsProgress
  <2>2. QED BY <1>2, <1>7, <2>1
<1>10. EsProgress(w)'
  <2>1. Cardinality(EsBy(w)') = k BY <1>0, <1>9, <1>b
  <2>2. eskind' = "file" BY <1>1
  <2>3. QED BY <1>7, <1>b, <1>d, <2>1, <2>2 DEF EsProgress
<1>11. EsGiven(w)'
  <2>1. EsAlone(EsStream[w])' => EsAlone(EsStream[w]) BY <1>1 DEF EsAlone
  <2>2. EsAlone(EsStream[w])' => first + k - 1 = Cardinality(EsAt(EsStream[w])')
    BY <1>0, <1>9, <1>c, <2>1
  <2>3. QED BY <1>7, <2>2 DEF EsGiven
<1>12. EsLines'
  <2>1. \A u \in EsActive' : u \in EsActive BY <1>7, <1>a
  <2>2. \A u, x \in EsActive' : u # x => {u, x} \in esoverlap' BY <1>0, <1>1, <2>1 DEF EsLines
  <2>3. ASSUME esoverlap' = {} PROVE EsReadable'
    <3>1. esoverlap = {} BY <1>1, <2>3
    <3>2. EsReadable BY <1>0, <1>1, <3>1 DEF EsLines
    <3>3. \A u \in EsWriters : esat[u] # "break" BY <1>0, <1>1, <1>a, <3>1, EsOnlyOne
    <3>4. eslog = <<>> \/ eslog[Len(eslog)] = LineBreak BY <1>0, <1>1, <3>1, <3>3 DEF EsLines
    <3>5. /\ Len(eslog) \in Nat /\ Len(eslog') = Len(eslog) + 1
          /\ \A i \in 1..Len(eslog) : eslog'[i] = eslog[i]
      BY <1>0, <1>4, EsCounted DEF EsAdded
    <3>6. ASSUME NEW i \in 1..(Len(eslog') - 1) PROVE LineBreak \in {eslog'[i], eslog'[i + 1]}
      <4>1. i \in 1..Len(eslog) /\ eslog'[i] = eslog[i] BY <3>5
      <4>2. CASE i = Len(eslog)
        <5>1. eslog # <<>> BY <3>5, <4>1, <4>2
        <5>2. QED BY <3>4, <4>1, <4>2, <5>1
      <4>3. CASE i # Len(eslog)
        <5>1. i \in 1..(Len(eslog) - 1) /\ i + 1 \in 1..Len(eslog) BY <3>5, <4>1, <4>3
        <5>2. eslog'[i + 1] = eslog[i + 1] BY <3>5, <5>1
        <5>3. LineBreak \in {eslog[i], eslog[i + 1]} BY <3>2, <5>1 DEF EsReadable
        <5>4. QED BY <4>1, <5>2, <5>3
      <4>4. QED BY <4>2, <4>3
    <3>7. QED BY <3>6 DEF EsReadable
  <2>4. QED BY <1>7, <2>2, <2>3 DEF EsLines
<1>13. \A u \in EsWriters : EsPrefix(u)' /\ EsProgress(u)' /\ EsGiven(u)' BY <1>9, <1>10, <1>11
<1>14. QED BY <1>7, <1>9, <1>12, <1>13 DEF EventStoreIInv

\* Its line break.
LEMMA EsWriteBreakOk ==
  ASSUME EventStoreIInv, NEW w \in EsWriters, EsWriteBreak(w) PROVE EventStoreIInv'
<1>0. /\ EventStoreTypeOK /\ EsLines /\ EsStream[w] \in EsStreams /\ EsCount[w] \in Nat
      /\ \A s \in EsStreams : EsAlone(s) => EsDense(s)
      /\ \A u \in EsWriters : EsPrefix(u) /\ EsProgress(u) /\ EsGiven(u)
      /\ Cardinality(EsBy(w)) \in Nat /\ Cardinality(EsAt(EsStream[w])) \in Nat
  BY EsKnown
<1>1. PICK at \in {"Ok", "write"} : at = IF esnext[w] = EsCount[w] THEN "Ok" ELSE "write" OBVIOUS
<1>2. PICK first \in Nat : first = esfirst[w] BY EsKnown
<1>3. PICK k \in Nat : k = esnext[w] BY EsKnown
<1>4. /\ eskind = "file" /\ esat[w] = "break" /\ eslog' = Append(eslog, LineBreak)
      /\ esnext' = [esnext EXCEPT ![w] = @ + 1] /\ esat' = [esat EXCEPT ![w] = at]
      /\ eskind' = eskind /\ esfirst' = esfirst /\ esoverlap' = esoverlap
  BY <1>1 DEF EsWriteBreak
<1>5. EsSetTo(w, at, first, k + 1)
  <2>1. esfirst \in [EsWriters -> Nat] /\ esnext \in [EsWriters -> Nat] BY <1>0 DEF EventStoreTypeOK
  <2>2. esfirst' = [esfirst EXCEPT ![w] = first] /\ esnext' = [esnext EXCEPT ![w] = k + 1]
    BY <1>2, <1>3, <1>4, <2>1
  <2>3. QED BY <1>4, <2>2 DEF EsSetTo
<1>6. /\ eslog' \in Seq(EsRecords \cup {LineBreak}) /\ Len(eslog') = Len(eslog) + 1
      /\ Len(eslog) \in Nat /\ DOMAIN eslog' = 1..(Len(eslog) + 1) /\ DOMAIN eslog = 1..Len(eslog)
      /\ \A i \in 1..Len(eslog) : eslog'[i] = eslog[i]
      /\ eslog'[Len(eslog) + 1] = LineBreak
  <2>1. eslog \in Seq(EsRecords \cup {LineBreak}) BY <1>0 DEF EventStoreTypeOK
  <2>2. PICK r \in EsRecords \cup {LineBreak} : r = LineBreak OBVIOUS
  <2>3. eslog' = Append(eslog, r) BY <1>4, <2>2
  <2>4. QED BY <2>1, <2>2, <2>3
<1>7. /\ EventStoreTypeOK' /\ EsStepOf(w)
      /\ esat'[w] = at /\ esfirst'[w] = first /\ esnext'[w] = k + 1
      /\ \A u \in EsActive' : u \in EsActive \/ (u = w /\ at \in {"write", "break"})
  <2>1. k + 1 \in Nat OBVIOUS
  <2>2. at \in {"new", "write", "break", "Ok", "Conflict", "Serde"} OBVIOUS
  <2>3. QED BY <1>0, <1>5, <1>6, <2>1, <2>2, EsSetOk
<1>8. /\ \A s \in EsStreams : EsAt(s)' = EsAt(s)
      /\ \A u \in EsWriters : EsBy(u)' = EsBy(u)
  <2>1. \A i \in 1..(Len(eslog) + 1) : i \in 1..Len(eslog) \/ i = Len(eslog) + 1 BY <1>6
  <2>2. \A i \in 1..Len(eslog) : i \in 1..(Len(eslog) + 1) BY <1>6
  <2>3. QED BY <1>6, <2>1, <2>2 DEF EsAt, EsBy
<1>9. /\ \A s \in EsStreams : \A i \in EsAt(s) : eslog'[i] = eslog[i]
      /\ \A u \in EsWriters : \A i \in EsBy(u) : eslog'[i] = eslog[i]
  BY <1>6 DEF EsAt, EsBy
<1>10. \A s \in EsStreams : EsAlone(s)' <=> EsAlone(s) BY <1>4 DEF EsAlone
<1>11. \A s \in EsStreams : EsAlone(s)' => EsDense(s)'
  <2> SUFFICES ASSUME NEW s \in EsStreams, EsAlone(s)' PROVE EsDense(s)' OBVIOUS
  <2>1. EsDense(s) BY <1>0, <1>10
  <2>2. QED BY <1>8, <1>9, <2>1, EsDenseKept
<1>12. \A u \in EsWriters : EsPrefix(u)'
  <2> SUFFICES ASSUME NEW u \in EsWriters PROVE EsPrefix(u)' OBVIOUS
  <2>1. EsPrefix(u) /\ esfirst'[u] = esfirst[u] BY <1>0, <1>4
  <2>2. QED BY <1>8, <1>9, <2>1, EsPrefixKept
<1>13. \A u \in EsWriters \ {w} : EsProgress(u)' /\ EsGiven(u)'
  <2> SUFFICES ASSUME NEW u \in EsWriters \ {w} PROVE EsProgress(u)' /\ EsGiven(u)' OBVIOUS
  <2>1. EsProgress(u) /\ EsGiven(u) BY <1>0
  <2>2. EsStream[u] \in EsStreams BY EventStoreAssumption
  <2>3. EsAt(EsStream[u])' = EsAt(EsStream[u]) /\ (EsAlone(EsStream[u])' <=> EsAlone(EsStream[u]))
    BY <1>8, <1>10, <2>2
  <2>4. esat'[u] = esat[u] /\ esfirst'[u] = esfirst[u] /\ esnext'[u] = esnext[u] /\ eskind' = eskind
        /\ EsBy(u)' = EsBy(u)
    BY <1>7, <1>8 DEF EsStepOf
  <2>5. EsProgress(u)' BY <2>1, <2>4 DEF EsProgress
  <2>6. EsGiven(u)' BY <2>1, <2>3, <2>4 DEF EsGiven
  <2>7. QED BY <2>5, <2>6
<1>14. EsProgress(w)' /\ EsGiven(w)'
  <2>1. Cardinality(EsBy(w)) = k /\ k <= EsCount[w] /\ first >= 1 BY <1>0, <1>2, <1>3, <1>4 DEF EsProgress
  <2>2. EsAlone(EsStream[w]) => first + k - 1 = Cardinality(EsAt(EsStream[w]))
    BY <1>0, <1>2, <1>3, <1>4 DEF EsGiven
  <2>3. /\ EsBy(w)' = EsBy(w) /\ EsAt(EsStream[w])' = EsAt(EsStream[w])
        /\ (EsAlone(EsStream[w])' <=> EsAlone(EsStream[w]))
    BY <1>0, <1>8, <1>10
  <2>4. at = "Ok" => k = EsCount[w] BY <1>1, <1>3
  <2>5. at = "write" => k + 1 <= EsCount[w]
    <3>1. at = "write" => k # EsCount[w] BY <1>1, <1>3
    <3>2. QED BY <1>0, <2>1, <3>1
  <2>6. eskind' = "file" BY <1>4
  <2>7. EsProgress(w)' BY <1>7, <2>1, <2>3, <2>4, <2>5, <2>6 DEF EsProgress
  <2>8. EsAlone(EsStream[w]) => first + (k + 1) - 1 = Cardinality(EsAt(EsStream[w])) + 1
    BY <1>0, <2>2
  <2>9. EsGiven(w)' BY <1>7, <2>3, <2>6, <2>8 DEF EsGiven
  <2>10. QED BY <2>7, <2>9
<1>15. EsLines'
  <2>0. w \in EsActive BY <1>4 DEF EsActive
  <2>1. \A u \in EsActive' : u \in EsActive BY <1>7, <2>0
  <2>2. \A u, x \in EsActive' : u # x => {u, x} \in esoverlap' BY <1>0, <1>4, <2>1 DEF EsLines
  <2>3. ASSUME esoverlap' = {} PROVE EsReadable'
    <3>1. EsReadable BY <1>0, <1>4, <2>3 DEF EsLines
    <3>2. ASSUME NEW i \in 1..(Len(eslog') - 1) PROVE LineBreak \in {eslog'[i], eslog'[i + 1]}
      <4>1. CASE i = Len(eslog) BY <1>6, <4>1
      <4>2. CASE i # Len(eslog)
        <5>a. Len(eslog) \in Nat /\ Len(eslog') - 1 = Len(eslog) BY <1>6
        <5>b. i \in 1..Len(eslog) BY <5>a
        <5>1. i \in 1..(Len(eslog) - 1) /\ i \in 1..Len(eslog) /\ i + 1 \in 1..Len(eslog)
          BY <4>2, <5>a, <5>b
        <5>2. eslog'[i] = eslog[i] /\ eslog'[i + 1] = eslog[i + 1] BY <1>6, <5>1
        <5>3. LineBreak \in {eslog[i], eslog[i + 1]} BY <3>1, <5>1 DEF EsReadable
        <5>4. QED BY <5>2, <5>3
      <4>3. QED BY <4>1, <4>2
    <3>3. QED BY <3>2 DEF EsReadable
  <2>4. eslog'[Len(eslog')] = LineBreak BY <1>6
  <2>5. QED BY <2>2, <2>3, <2>4 DEF EsLines
<1>16. QED BY <1>7, <1>11, <1>12, <1>13, <1>14, <1>15 DEF EventStoreIInv

\* A row of the SQL journal.
LEMMA EsInsertRowOk ==
  ASSUME EventStoreIInv, NEW w \in EsWriters, EsInsertRow(w) PROVE EventStoreIInv'
<1>0. /\ EventStoreTypeOK /\ EsLines /\ EsStream[w] \in EsStreams /\ EsCount[w] \in Nat
      /\ \A s \in EsStreams : EsAlone(s) => EsDense(s)
      /\ \A u \in EsWriters : EsPrefix(u) /\ EsProgress(u) /\ EsGiven(u)
      /\ Cardinality(EsBy(w)) \in Nat
  BY EsKnown
<1>1. /\ eskind = "sql" /\ esat[w] = "write"
      /\ eskind' = eskind /\ esfirst' = esfirst /\ esoverlap' = esoverlap
  BY DEF EsInsertRow
<1>2. PICK first \in Nat : first = esfirst[w] BY EsKnown
<1>3. PICK k \in Nat \ {0} : k = esnext[w]
  <2>1. Cardinality(EsBy(w)) + 1 = esnext[w] BY <1>0, <1>1 DEF EsProgress
  <2>2. esnext[w] \in Nat \ {0} BY <1>0, <2>1
  <2>3. QED BY <2>2
<1>4. PICK n \in Nat : n = Cardinality(EsAt(EsStream[w])) BY EsKnown
<1>5. /\ first >= 1 /\ k <= EsCount[w] /\ Cardinality(EsBy(w)) + 1 = k /\ first + k - 1 <= n + 1
  BY <1>0, <1>1, <1>2, <1>3, <1>4 DEF EsProgress, EsGiven
<1>6. esfirst \in [EsWriters -> Nat] /\ esnext \in [EsWriters -> Nat] BY <1>0 DEF EventStoreTypeOK
<1>7. CASE EsTaken(w)
  <2>1. eslog' = eslog /\ esnext' = esnext /\ esat' = [esat EXCEPT ![w] = "Conflict"]
    BY <1>7 DEF EsInsertRow
  <2>2. EsSetTo(w, "Conflict", first, k)
    <3>1. esfirst' = [esfirst EXCEPT ![w] = first] /\ esnext' = [esnext EXCEPT ![w] = k]
      BY <1>1, <1>2, <1>3, <1>6, <2>1
    <3>2. QED BY <1>1, <2>1, <3>1 DEF EsSetTo
  <2>3. eslog' \in Seq(EsRecords \cup {LineBreak}) BY <1>0, <2>1 DEF EventStoreTypeOK
  <2>4. /\ EventStoreTypeOK' /\ EsStepOf(w) /\ esat'[w] = "Conflict" /\ esfirst'[w] = first
        /\ \A u \in EsActive' : u \in EsActive \/ (u = w /\ "Conflict" \in {"write", "break"})
    BY <1>0, <2>2, <2>3, EsSetOk
  <2>5. /\ \A s \in EsStreams : EsAt(s)' = EsAt(s)
        /\ \A u \in EsWriters : EsBy(u)' = EsBy(u)
    BY <2>1 DEF EsAt, EsBy
  <2>6. \A s \in EsStreams : EsAlone(s)' <=> EsAlone(s) BY <1>1 DEF EsAlone
  <2>7. \A s \in EsStreams : EsAlone(s)' => EsDense(s)'
    <3> SUFFICES ASSUME NEW s \in EsStreams, EsAlone(s)' PROVE EsDense(s)' OBVIOUS
    <3>1. EsDense(s) BY <1>0, <2>6
    <3>2. QED BY <2>1, <2>5, <3>1, EsDenseKept
  <2>8. \A u \in EsWriters : EsPrefix(u)'
    <3> SUFFICES ASSUME NEW u \in EsWriters PROVE EsPrefix(u)' OBVIOUS
    <3>1. EsPrefix(u) /\ esfirst'[u] = esfirst[u] BY <1>0, <1>1
    <3>2. QED BY <2>1, <2>5, <3>1, EsPrefixKept
  <2>9. \A u \in EsWriters \ {w} : EsProgress(u)' /\ EsGiven(u)'
    <3> SUFFICES ASSUME NEW u \in EsWriters \ {w} PROVE EsProgress(u)' /\ EsGiven(u)' OBVIOUS
    <3>1. EsProgress(u) /\ EsGiven(u) BY <1>0
    <3>2. EsStream[u] \in EsStreams BY EventStoreAssumption
    <3>3. EsAt(EsStream[u])' = EsAt(EsStream[u]) /\ (EsAlone(EsStream[u])' <=> EsAlone(EsStream[u]))
      BY <2>5, <2>6, <3>2
    <3>4. esat'[u] = esat[u] /\ esfirst'[u] = esfirst[u] /\ esnext'[u] = esnext[u] /\ eskind' = eskind
          /\ EsBy(u)' = EsBy(u)
      BY <2>4, <2>5 DEF EsStepOf
    <3>5. EsProgress(u)' BY <3>1, <3>4 DEF EsProgress
    <3>6. EsGiven(u)' BY <3>1, <3>3, <3>4 DEF EsGiven
    <3>7. QED BY <3>5, <3>6
  <2>10. EsProgress(w)' /\ EsGiven(w)' BY <1>5, <2>4 DEF EsProgress, EsGiven
  <2>11. EsLines'
    <3>1. \A u \in EsActive' : u \in EsActive BY <2>4
    <3>2. QED BY <1>0, <1>1, <3>1 DEF EsLines
  <2>12. QED BY <2>4, <2>7, <2>8, <2>9, <2>10, <2>11 DEF EventStoreIInv
<1>8. CASE ~EsTaken(w)
  <2>1. PICK at \in {"Ok", "write"} : at = IF esnext[w] = EsCount[w] THEN "Ok" ELSE "write" OBVIOUS
  <2>2. /\ eslog' = Append(eslog, EsRecord(w, esfirst[w], esnext[w]))
        /\ esnext' = [esnext EXCEPT ![w] = @ + 1] /\ esat' = [esat EXCEPT ![w] = at]
    BY <1>8, <2>1 DEF EsInsertRow
  <2>3. EsAdded(w, first, k, 1) BY <1>0, <1>2, <1>3, <2>2, EsAppended
  <2>4. EsSetTo(w, at, first, k + 1)
    <3>1. esfirst' = [esfirst EXCEPT ![w] = first] /\ esnext' = [esnext EXCEPT ![w] = k + 1]
      BY <1>1, <1>2, <1>3, <1>6, <2>2
    <3>2. QED BY <1>1, <2>2, <3>1 DEF EsSetTo
  <2>5. eslog' \in Seq(EsRecords \cup {LineBreak}) BY <2>3 DEF EsAdded
  <2>6. /\ EventStoreTypeOK' /\ EsStepOf(w)
        /\ esat'[w] = at /\ esfirst'[w] = first /\ esnext'[w] = k + 1
        /\ \A u \in EsActive' : u \in EsActive \/ (u = w /\ at \in {"write", "break"})
    <3>1. k + 1 \in Nat OBVIOUS
    <3>2. at \in {"new", "write", "break", "Ok", "Conflict", "Serde"} OBVIOUS
    <3>3. QED BY <1>0, <2>4, <2>5, <3>1, <3>2, EsSetOk
  <2>7. first + k - 1 = n + 1
    <3>1. EsAlone(EsStream[w]) BY <1>1 DEF EsAlone
    <3>2. EsVersions(EsStream[w]) = 1..n BY <1>0, <1>4, <3>1 DEF EsDense
    <3>3. first + k - 1 \notin 1..n BY <1>2, <1>3, <1>8, <3>2 DEF EsTaken
    <3>4. QED BY <1>5, <3>3
  <2>8. EsFits(w, first, k)
    <3>1. eskind # "file" BY <1>1
    <3>2. QED BY <1>2, <1>4, <1>5, <2>6, <2>7, <3>1 DEF EsFits
  <2>9. /\ \A s \in EsStreams : EsAlone(s)' => EsDense(s)'
        /\ \A u \in EsWriters \ {w} : EsPrefix(u)' /\ EsProgress(u)' /\ EsGiven(u)'
        /\ EsPrefix(w)' /\ Cardinality(EsBy(w)') = Cardinality(EsBy(w)) + 1
        /\ EsAlone(EsStream[w]) =>
             Cardinality(EsAt(EsStream[w])') = Cardinality(EsAt(EsStream[w])) + 1
    <3>1. EsAfterAdd(w, 1) BY <2>3, <2>6, <2>8, EsAddOk
    <3>2. QED BY <3>1 DEF EsAfterAdd
  <2>10. EsProgress(w)'
    <3>1. Cardinality(EsBy(w)') = k BY <1>0, <1>5, <2>9
    <3>2. at = "Ok" => k = EsCount[w] BY <1>3, <2>1
    <3>3. at = "write" => k + 1 <= EsCount[w]
      <4>1. at = "write" => k # EsCount[w] BY <1>3, <2>1
      <4>2. QED BY <1>0, <1>5, <4>1
    <3>4. eskind' = "sql" BY <1>1
    <3>5. QED BY <1>5, <2>6, <3>1, <3>2, <3>3, <3>4 DEF EsProgress
  <2>11. EsGiven(w)'
    <3>1. EsAlone(EsStream[w]) BY <1>1 DEF EsAlone
    <3>2. Cardinality(EsAt(EsStream[w])') = n + 1 BY <1>4, <2>9, <3>1
    <3>3. first + (k + 1) - 1 <= Cardinality(EsAt(EsStream[w])') + 1 BY <1>5, <3>2
    <3>4. eskind' = "sql" BY <1>1
    <3>5. QED BY <2>6, <3>3, <3>4 DEF EsGiven
  <2>12. EsLines'
    <3>0. w \in EsActive BY <1>1 DEF EsActive
    <3>1. \A u \in EsActive' : u \in EsActive BY <2>6, <3>0
    <3>2. QED BY <1>0, <1>1, <3>1 DEF EsLines
  <2>13. \A u \in EsWriters : EsPrefix(u)' /\ EsProgress(u)' /\ EsGiven(u)' BY <2>9, <2>10, <2>11
  <2>14. QED BY <2>6, <2>9, <2>12, <2>13 DEF EventStoreIInv
<1>9. QED BY <1>7, <1>8

\* The rank of a position is its own.
LEMMA RankOnce ==
  ASSUME NEW n \in Nat, NEW A \in SUBSET (1..n), NEW i \in A, NEW j \in A, i < j
  PROVE  Cardinality(EsUpTo(A, i)) < Cardinality(EsUpTo(A, j))
<1>1. PICK B \in SUBSET (1..n) : B = EsUpTo(A, j) BY DEF EsUpTo
<1>2. PICK C \in SUBSET (1..n) : C = EsUpTo(A, i) BY DEF EsUpTo
<1>3. j \in B /\ C \subseteq B \ {j} BY <1>1, <1>2 DEF EsUpTo
<1>4. IsFiniteSet(1..n) BY FS_Interval
<1>5. IsFiniteSet(B) BY <1>4, FS_Subset
<1>6. IsFiniteSet(B \ {j}) /\ Cardinality(B \ {j}) = Cardinality(B) - 1 /\ Cardinality(B) \in Nat
  BY <1>3, <1>5, FS_RemoveElement, FS_CardinalityType
<1>7. Cardinality(C) <= Cardinality(B \ {j}) /\ Cardinality(C) \in Nat
  BY <1>3, <1>6, FS_Subset, FS_CardinalityType
<1>8. Cardinality(C) < Cardinality(B) BY <1>6, <1>7
<1>9. QED BY <1>1, <1>2, <1>8

\* Two appends that have stored the same version of a stream are one.
LEMMA EsVersionOnce ==
  ASSUME EventStoreIInv, eskind = "sql", NEW u \in EsWriters, NEW w \in EsWriters,
         EsStream[u] = EsStream[w], NEW d \in 1..Cardinality(EsBy(u)), NEW e \in 1..Cardinality(EsBy(w)),
         esfirst[u] + d - 1 = esfirst[w] + e - 1
  PROVE  u = w
<1>0. /\ EventStoreTypeOK /\ EsPrefix(u) /\ EsPrefix(w) /\ EsStream[w] \in EsStreams
      /\ esfirst[u] \in Nat /\ esfirst[w] \in Nat
      /\ Cardinality(EsBy(u)) \in Nat /\ Cardinality(EsBy(w)) \in Nat
  <2>1. /\ EventStoreTypeOK /\ EsPrefix(u) /\ EsPrefix(w) /\ EsStream[w] \in EsStreams
        /\ esfirst[w] \in Nat /\ Cardinality(EsBy(w)) \in Nat
    BY EsKnown
  <2>2. esfirst[u] \in Nat /\ Cardinality(EsBy(u)) \in Nat BY EsKnown
  <2>3. QED BY <2>1, <2>2
<1>1. PICK s \in EsStreams : s = EsStream[w] BY <1>0
<1>2. EsDense(s)
  <2>1. EsAlone(s) BY DEF EsAlone
  <2>2. QED BY <2>1 DEF EventStoreIInv
<1>3. PICK n \in Nat : n = Len(eslog) BY <1>0, EsCounted
<1>4. PICK A \in SUBSET (1..n) : A = EsAt(s) BY <1>0, <1>3, EsCounted
<1>5. PICK i \in EsBy(u) : eslog[i] = EsRecord(u, esfirst[u], d) BY <1>0 DEF EsPrefix
<1>6. PICK j \in EsBy(w) : eslog[j] = EsRecord(w, esfirst[w], e) BY <1>0 DEF EsPrefix
<1>7. d \in Nat \ {0} /\ e \in Nat \ {0} BY <1>0
<1>8. EsIsRecord(eslog[i], u, esfirst[u] + d - 1)
  <2>1. EsIsRecord(EsRecord(u, esfirst[u], d), u, esfirst[u] + d - 1) BY <1>0, <1>7, EsRecordIs
  <2>2. QED BY <1>5, <2>1
<1>9. EsIsRecord(eslog[j], w, esfirst[w] + e - 1)
  <2>1. EsIsRecord(EsRecord(w, esfirst[w], e), w, esfirst[w] + e - 1) BY <1>0, <1>7, EsRecordIs
  <2>2. QED BY <1>6, <2>1
<1>10. i \in A /\ j \in A
  <2>1. i \in DOMAIN eslog /\ j \in DOMAIN eslog BY DEF EsBy
  <2>2. eslog[i] # LineBreak /\ eslog[i].stream = s BY <1>1, <1>8 DEF EsIsRecord
  <2>3. eslog[j] # LineBreak /\ eslog[j].stream = s BY <1>1, <1>9 DEF EsIsRecord
  <2>4. QED BY <1>4, <2>1, <2>2, <2>3 DEF EsAt
<1>11. Cardinality(EsUpTo(A, i)) = Cardinality(EsUpTo(A, j))
  <2>1. eslog[i].version = eslog[j].version BY <1>8, <1>9 DEF EsIsRecord
  <2>2. eslog[i].version = Cardinality(EsUpTo(A, i)) /\ eslog[j].version = Cardinality(EsUpTo(A, j))
    BY <1>2, <1>4, <1>10 DEF EsDense
  <2>3. QED BY <2>1, <2>2
<1>12. i = j
  <2>1. CASE i < j
    <3>1. Cardinality(EsUpTo(A, i)) < Cardinality(EsUpTo(A, j)) BY <1>10, <2>1, RankOnce
    <3>2. Cardinality(EsUpTo(A, j)) \in Nat
      <4>1. EsUpTo(A, j) \in SUBSET (1..n) BY DEF EsUpTo
      <4>2. QED BY <1>0, <1>3, <4>1, EsCounted
    <3>3. QED BY <1>11, <3>1, <3>2
  <2>2. CASE j < i
    <3>1. Cardinality(EsUpTo(A, j)) < Cardinality(EsUpTo(A, i)) BY <1>10, <2>2, RankOnce
    <3>2. Cardinality(EsUpTo(A, j)) \in Nat
      <4>1. EsUpTo(A, j) \in SUBSET (1..n) BY DEF EsUpTo
      <4>2. QED BY <1>0, <1>3, <4>1, EsCounted
    <3>3. QED BY <1>11, <3>1, <3>2
  <2>3. i \in Nat /\ j \in Nat BY <1>10
  <2>4. QED BY <2>1, <2>2, <2>3
<1>13. eslog[i].writer = u /\ eslog[j].writer = w BY <1>8, <1>9 DEF EsIsRecord
<1>14. QED BY <1>12, <1>13

\* The stores keep what their callers were told, whoever appends at the same time.
THEOREM EventStoreInvariant == EventStoreSpec => []EventStoreInv
<1>1. EventStoreIInv /\ [EventStoreNext]_esvars => EventStoreIInv'
  <2> SUFFICES ASSUME EventStoreIInv, [EventStoreNext]_esvars PROVE EventStoreIInv' OBVIOUS
  <2>1. CASE EventStoreNext
    <3>1. PICK w \in EsWriters : \/ EsMemoryAppend(w) \/ EsRead(w) \/ EsWriteLine(w)
                                 \/ EsWriteBreak(w) \/ EsInsertRow(w)
      BY <2>1 DEF EventStoreNext
    <3>2. QED BY <3>1, EsMemoryAppendOk, EsReadOk, EsWriteLineOk, EsWriteBreakOk, EsInsertRowOk
  <2>2. CASE UNCHANGED esvars
    <3>1. /\ eskind' = eskind /\ eslog' = eslog /\ esat' = esat /\ esfirst' = esfirst
          /\ esnext' = esnext /\ esoverlap' = esoverlap
      BY <2>2 DEF esvars
    <3>2. EventStoreTypeOK' BY <3>1 DEF EventStoreIInv, EventStoreTypeOK
    <3>3. EsLines' BY <3>1 DEF EventStoreIInv, EsLines, EsActive, EsReadable
    <3>4. /\ \A s \in EsStreams : EsAt(s)' = EsAt(s) /\ (EsAlone(s)' <=> EsAlone(s))
          /\ \A w \in EsWriters : EsBy(w)' = EsBy(w)
      BY <3>1 DEF EsAt, EsAlone, EsBy
    <3>5. \A s \in EsStreams : EsAlone(s)' => EsDense(s)'
      <4> SUFFICES ASSUME NEW s \in EsStreams, EsAlone(s)' PROVE EsDense(s)' OBVIOUS
      <4>1. EsDense(s) BY <3>4 DEF EventStoreIInv
      <4>2. QED BY <3>1, <3>4, <4>1, EsDenseKept
    <3>6. ASSUME NEW w \in EsWriters PROVE EsPrefix(w)' /\ EsProgress(w)' /\ EsGiven(w)'
      <4>1. EsPrefix(w) /\ EsProgress(w) /\ EsGiven(w) /\ EsStream[w] \in EsStreams
        BY EventStoreAssumption DEF EventStoreIInv
      <4>2. EsPrefix(w)' BY <3>1, <3>4, <4>1, EsPrefixKept
      <4>3. EsProgress(w)' BY <3>1, <3>4, <4>1 DEF EsProgress
      <4>4. EsGiven(w)' BY <3>1, <3>4, <4>1 DEF EsGiven
      <4>5. QED BY <4>2, <4>3, <4>4
    <3>7. QED BY <3>2, <3>3, <3>5, <3>6 DEF EventStoreIInv
  <2>3. QED BY <2>1, <2>2
<1>2. EventStoreIInv => EventStoreInv
  <2> SUFFICES ASSUME EventStoreIInv PROVE EventStoreInv OBVIOUS
  <2>1. EventStoreTypeOK BY DEF EventStoreIInv
  <2>2. VersionsCount BY DEF EventStoreIInv, VersionsCount, EsDense
  <2>3. AcknowledgedStored BY DEF EventStoreIInv, AcknowledgedStored, EsPrefix, EsProgress
  <2>4. SpoiltByOverlap BY DEF EventStoreIInv, SpoiltByOverlap, EsLines
  <2>5. OkAppendsAdjacent
    <3> SUFFICES ASSUME eskind = "sql", NEW u \in EsWriters, NEW w \in EsWriters, u # w,
                        EsStream[u] = EsStream[w], {esat[u], esat[w]} = {"Ok"},
                        ~(esfirst[u] + EsCount[u] <= esfirst[w]),
                        ~(esfirst[w] + EsCount[w] <= esfirst[u])
                 PROVE  FALSE
      BY DEF OkAppendsAdjacent
    <3>1. /\ esfirst[u] \in Nat /\ EsCount[u] \in Nat \ {0}
          /\ esfirst[w] \in Nat /\ EsCount[w] \in Nat \ {0}
      BY EsKnown
    <3>2. esat[u] = "Ok" /\ esat[w] = "Ok" OBVIOUS
    <3>3. Cardinality(EsBy(u)) = EsCount[u] /\ Cardinality(EsBy(w)) = EsCount[w]
      BY <3>2 DEF EventStoreIInv, EsProgress
    <3>4. CASE esfirst[u] <= esfirst[w]
      <4>1. /\ esfirst[w] - esfirst[u] + 1 \in 1..EsCount[u] /\ 1 \in 1..EsCount[w]
            /\ esfirst[u] + (esfirst[w] - esfirst[u] + 1) - 1 = esfirst[w] + 1 - 1
        BY <3>1, <3>4
      <4>2. QED BY <3>3, <4>1, EsVersionOnce
    <3>5. CASE esfirst[w] <= esfirst[u]
      <4>1. /\ esfirst[u] - esfirst[w] + 1 \in 1..EsCount[w] /\ 1 \in 1..EsCount[u]
            /\ esfirst[u] + 1 - 1 = esfirst[w] + (esfirst[u] - esfirst[w] + 1) - 1
        BY <3>1, <3>5
      <4>2. QED BY <3>3, <4>1, EsVersionOnce
    <3>6. QED BY <3>1, <3>4, <3>5
  <2>6. QED BY <2>1, <2>2, <2>3, <2>4, <2>5 DEF EventStoreInv
<1>3. QED BY <1>1, <1>2, EventStoreInitOk, PTL DEF EventStoreSpec
==============================================================================
