------------------------- MODULE EngineCacheStoreProofs -------------------------
(***************************************************************************)
(* Proofs about the operators of EngineCacheStore, for any keys, weights,  *)
(* budget and slack: each leaves a sound cache sound, the eviction ends    *)
(* within the budget, having dropped the least recently used entries and   *)
(* as few as possible, and the queue is compacted.                         *)
(***************************************************************************)
EXTENDS EngineCacheStore, CollectionLemmas

(* What every cache satisfies between two operations, except that its      *)
(* bytes fit the budget and its queue is compacted.                        *)
Record == [key : Key, generation : Nat]
Accesses == UNION {[keys -> Nat] : keys \in SUBSET Key}
CacheShape(c) ==
    /\ c \in [lastAccess : Accesses, recency : Seq(Record), used : Int, clock : Nat]
    /\ IsFiniteSet(Entries(c))
(* The queue lists accesses in their order, and the last one of each entry.*)
InOrder(records) ==
    \A i, j \in 1..Len(records) : i < j => records[i].generation < records[j].generation
QueueIsAHistory(c) ==
    /\ InOrder(c.recency)
    /\ \A i \in 1..Len(c.recency) : c.recency[i].generation <= c.clock
    /\ \A k \in Entries(c) : \E i \in 1..Len(c.recency) :
           c.recency[i].key = k /\ c.recency[i].generation = c.lastAccess[k]
CacheSound(c) ==
    CacheShape(c) /\ QueueIsAHistory(c) /\ c.used = TotalWeight(Entries(c))

(* The recursive function behind CurrentRecords.                           *)
KeptStep(c, g, i) ==
    IF i = 0 THEN <<>>
    ELSE IF Current(c, c.recency[i]) THEN Append(g[i - 1], c.recency[i]) ELSE g[i - 1]
KeptUpTo(c, g) == g = [i \in 0..Len(c.recency) |-> KeptStep(c, g, i)]

LEMMA CurrentRecordsDef ==
    ASSUME NEW c
    PROVE  CurrentRecords(c) = (CHOOSE g : KeptUpTo(c, g))[Len(c.recency)]
BY DEF CurrentRecords, KeptUpTo, KeptStep

LEMMA KeptExists ==
    ASSUME NEW c, c.recency \in Seq(Record)
    PROVE  \E g \in [0..Len(c.recency) -> Seq(Record)] : KeptUpTo(c, g)
<1> DEFINE N == Len(c.recency)
           S == Seq(Record)
           UpTo(g, n) == \A i \in 0..N : i <= n => g[i] = KeptStep(c, g, i)
           Good == {n \in Nat : \E g \in [0..N -> S] : UpTo(g, n)}
<1>1. N \in Nat
  OBVIOUS
<1>2. <<>> \in S /\ \A s \in S, i \in 1..N : Append(s, c.recency[i]) \in S
  OBVIOUS
<1> HIDE DEF S, N
<1>3. 0 \in Good
  <2>1. [i \in 0..N |-> <<>>] \in [0..N -> S]
    BY <1>2
  <2>2. UpTo([i \in 0..N |-> <<>>], 0)
    BY <1>1 DEF KeptStep
  <2> QED BY <2>1, <2>2
<1>4. ASSUME NEW n \in Nat, n \in Good
      PROVE  n + 1 \in Good
  <2>1. PICK g \in [0..N -> S] : UpTo(g, n)
    BY <1>4
  <2> DEFINE h == [i \in 0..N |-> IF i <= n THEN g[i] ELSE KeptStep(c, g, i)]
  <2>2. ASSUME NEW i \in 0..N
        PROVE  KeptStep(c, g, i) \in S
    <3>1. CASE i # 0
      <4>1. g[i - 1] \in S /\ i \in 1..N
        BY <1>1, <2>1, <3>1
      <4> QED BY <1>2, <3>1, <4>1 DEF KeptStep
    <3> QED BY <1>2, <3>1 DEF KeptStep
  <2>3. h \in [0..N -> S]
    BY <2>1, <2>2
  <2>4. ASSUME NEW i \in 0..N, i <= n + 1
        PROVE  h[i] = KeptStep(c, h, i)
    <3>1. h[i] = KeptStep(c, g, i)
      BY <2>1
    <3>2. i # 0 => h[i - 1] = g[i - 1]
      BY <1>1, <2>4
    <3> HIDE DEF h
    <3> QED BY <3>1, <3>2 DEF KeptStep
  <2> HIDE DEF h
  <2>5. UpTo(h, n + 1)
    BY <2>4
  <2> HIDE DEF UpTo
  <2>6. n + 1 \in Nat
    OBVIOUS
  <2> QED BY <2>3, <2>5, <2>6
<1> HIDE DEF Good
<1>5. N \in Good
  BY <1>1, <1>3, <1>4, NatInductionOnSets
<1>6. PICK g \in [0..N -> S] : UpTo(g, N)
  BY <1>5 DEF Good
<1>7. \A i \in 0..N : g[i] = KeptStep(c, g, i)
  BY <1>1, <1>6
<1>8. KeptUpTo(c, g)
  BY <1>6, <1>7 DEF KeptUpTo, N
<1> QED BY <1>6, <1>8 DEF S, N

(* s is what a filter that keeps the records in T has left of the first n  *)
(* of q.                                                                   *)
Selected(q, T, s, n) ==
    /\ s \in Seq(Record) /\ InOrder(s)
    /\ \A j \in 1..Len(s) : \E i \in 1..n : s[j] = q[i] /\ q[i] \in T
    /\ \A i \in 1..n : q[i] \in T => \E j \in 1..Len(s) : s[j] = q[i]

LEMMA SelectOne ==
    ASSUME NEW q \in Seq(Record), InOrder(q), NEW T, NEW s, NEW n \in Nat,
           n + 1 \in 1..Len(q), Selected(q, T, s, n)
    PROVE  Selected(q, T, IF q[n + 1] \in T THEN Append(s, q[n + 1]) ELSE s, n + 1)
<1> DEFINE record == q[n + 1]
<1>1. \A i \in 1..Len(q) : q[i] \in Record /\ q[i].generation \in Nat
  <2>1. \A i \in 1..Len(q) : q[i] \in Record
    OBVIOUS
  <2> QED BY <2>1 DEF Record
<1>2. CASE record \notin T
  BY <1>2 DEF Selected
<1>3. CASE record \in T
  <2> DEFINE t == Append(s, record)
  <2>1. /\ t \in Seq(Record) /\ Len(t) = Len(s) + 1 /\ Len(s) \in Nat
        /\ (\A j \in 1..Len(s) : t[j] = s[j]) /\ t[Len(s) + 1] = record
    BY <1>1 DEF Selected
  <2> HIDE DEF t
  <2>2. ASSUME NEW j \in 1..Len(s)
        PROVE  s[j].generation < record.generation
    <3>1. PICK i \in 1..n : s[j] = q[i]
      BY DEF Selected
    <3>2. i \in 1..Len(q) /\ i < n + 1
      OBVIOUS
    <3>3. q[i].generation < q[n + 1].generation
      BY <3>2 DEF InOrder
    <3> QED BY <3>1, <3>3
  <2>3. InOrder(t)
    <3> SUFFICES ASSUME NEW i \in 1..Len(t), NEW j \in 1..Len(t), i < j
                 PROVE  t[i].generation < t[j].generation
      BY DEF InOrder
    <3>1. i \in 1..Len(s) /\ t[i] = s[i]
      BY <2>1
    <3>2. CASE j = Len(s) + 1
      BY <2>1, <2>2, <3>1, <3>2
    <3>3. CASE j # Len(s) + 1
      <4>1. j \in 1..Len(s) /\ t[j] = s[j]
        BY <2>1, <3>3
      <4> QED BY <3>1, <4>1 DEF Selected, InOrder
    <3> QED BY <3>2, <3>3
  <2>4. ASSUME NEW j \in 1..Len(t)
        PROVE  \E i \in 1..(n + 1) : t[j] = q[i] /\ q[i] \in T
    <3>1. CASE j = Len(s) + 1
      BY <1>3, <2>1, <3>1
    <3>2. CASE j # Len(s) + 1
      <4>1. j \in 1..Len(s) /\ t[j] = s[j]
        BY <2>1, <3>2
      <4>2. PICK i \in 1..n : s[j] = q[i] /\ q[i] \in T
        BY <4>1 DEF Selected
      <4> QED BY <4>1, <4>2
    <3> QED BY <3>1, <3>2
  <2>5. ASSUME NEW i \in 1..(n + 1), q[i] \in T
        PROVE  \E j \in 1..Len(t) : t[j] = q[i]
    <3>1. CASE i = n + 1
      BY <2>1, <3>1
    <3>2. CASE i # n + 1
      <4>1. PICK j \in 1..Len(s) : s[j] = q[i]
        BY <2>5, <3>2 DEF Selected
      <4> QED BY <2>1, <4>1
    <3> QED BY <3>1, <3>2
  <2>6. Selected(q, T, t, n + 1)
    BY <2>1, <2>3, <2>4, <2>5 DEF Selected
  <2> QED BY <1>3, <2>6 DEF t
<1> QED BY <1>2, <1>3

LEMMA SelectedSet ==
    ASSUME NEW q \in Seq(Record), NEW T, NEW s, Selected(q, T, s, Len(q))
    PROVE  ToSet(s) = {record \in ToSet(q) : record \in T}
<1>1. s \in Seq(Record)
  BY DEF Selected
<1>2. ASSUME NEW x \in ToSet(s) PROVE x \in ToSet(q) /\ x \in T
  <2>1. PICK j \in 1..Len(s) : s[j] = x
    BY <1>1, <1>2 DEF ToSet
  <2>2. PICK i \in 1..Len(q) : s[j] = q[i] /\ q[i] \in T
    BY <2>1 DEF Selected
  <2> QED BY <2>1, <2>2 DEF ToSet
<1>3. ASSUME NEW x \in ToSet(q), x \in T PROVE x \in ToSet(s)
  <2>1. PICK i \in 1..Len(q) : q[i] = x
    BY <1>3 DEF ToSet
  <2>2. PICK j \in 1..Len(s) : s[j] = q[i]
    BY <1>3, <2>1 DEF Selected
  <2> QED BY <1>1, <2>1, <2>2 DEF ToSet
<1> QED BY <1>2, <1>3

(* The current records, in their order.                                    *)
LEMMA CurrentRecordsAre ==
    ASSUME NEW c, c.recency \in Seq(Record), InOrder(c.recency)
    PROVE  LET kept == CurrentRecords(c)
           IN  /\ kept \in Seq(Record) /\ InOrder(kept)
               /\ ToSet(kept) = {record \in ToSet(c.recency) : Current(c, record)}
<1> DEFINE q == c.recency
           N == Len(q)
           T == {record \in Record : Current(c, record)}
           g == CHOOSE g : KeptUpTo(c, g)
           Good == {n \in Nat : n <= N => Selected(q, T, g[n], n)}
<1>1. N \in Nat /\ \A i \in 1..N : q[i] \in Record
  OBVIOUS
<1>2. KeptUpTo(c, g)
  BY KeptExists
<1>3. CurrentRecords(c) = g[N]
  BY CurrentRecordsDef
<1> HIDE DEF g
<1>4. \A i \in 0..N : g[i] = KeptStep(c, g, i)
  BY <1>2 DEF KeptUpTo
<1>5. \A i \in 1..N : Current(c, q[i]) <=> q[i] \in T
  BY <1>1
<1> HIDE DEF T
<1>6. Selected(q, T, g[0], 0)
  <2>1. g[0] = <<>>
    BY <1>1, <1>4 DEF KeptStep
  <2>2. <<>> \in Seq(Record) /\ Len(<<>>) = 0
    OBVIOUS
  <2> QED BY <2>1, <2>2 DEF Selected, InOrder
<1>7. ASSUME NEW n \in Nat, n + 1 <= N, Selected(q, T, g[n], n)
      PROVE  Selected(q, T, g[n + 1], n + 1)
  <2>1. n + 1 \in 1..N
    BY <1>1, <1>7
  <2>2. g[n + 1] = IF q[n + 1] \in T THEN Append(g[n], q[n + 1]) ELSE g[n]
    BY <1>1, <1>4, <1>5, <2>1 DEF KeptStep
  <2> HIDE DEF q
  <2>3. q \in Seq(Record) /\ InOrder(q)
    BY DEF q
  <2>4. Selected(q, T, IF q[n + 1] \in T THEN Append(g[n], q[n + 1]) ELSE g[n], n + 1)
    BY <1>7, <2>1, <2>3, SelectOne
  <2> QED BY <2>2, <2>4
<1>8. Nat \subseteq Good
  <2>1. 0 \in Good
    BY <1>6
  <2>2. ASSUME NEW n \in Nat, n \in Good PROVE n + 1 \in Good
    <3> SUFFICES ASSUME n + 1 <= N PROVE Selected(q, T, g[n + 1], n + 1)
      OBVIOUS
    <3>1. n <= N
      BY <1>1
    <3>2. Selected(q, T, g[n], n)
      BY <2>2, <3>1
    <3> QED BY <1>7, <3>2
  <2> HIDE DEF Good
  <2> QED BY <2>1, <2>2, NatInductionOnSets
<1>9. Selected(q, T, g[N], N)
  BY <1>1, <1>8
<1> HIDE DEF q, Good
<1>10. ToSet(g[N]) = {record \in ToSet(q) : record \in T}
  <2>1. q \in Seq(Record)
    BY DEF q
  <2> QED BY <1>9, <2>1, SelectedSet
<1>11. \A record \in ToSet(q) : Current(c, record) <=> record \in T
  BY <1>5 DEF ToSet, q
<1> QED BY <1>3, <1>9, <1>10, <1>11 DEF Selected, q
-----------------------------------------------------------------------------
LEMMA AccessesAre ==
    ASSUME NEW c, CacheShape(c)
    PROVE  /\ Entries(c) \in SUBSET Key /\ c.lastAccess \in [Entries(c) -> Nat]
           /\ c.recency \in Seq(Record) /\ c.clock \in Nat /\ IsFiniteSet(Entries(c))
BY DEF CacheShape, Accesses, Entries

LEMMA WeightsAre ==
    ASSUME NEW keys \in SUBSET Key, IsFiniteSet(keys)
    PROVE  /\ \A k \in keys : Weight[k] \in Nat
           /\ IntegersOn(Weight, keys) /\ TotalWeight(keys) \in Nat
<1>1. \A k \in keys : Weight[k] \in Nat
  BY CacheAssumption
<1>2. IntegersOn(Weight, keys)
  BY <1>1 DEF IntegersOn
<1> QED BY <1>1, <1>2, SumIsNatural DEF TotalWeight

LEMMA ScaledIsMore ==
    ASSUME NEW m \in Nat
    PROVE  m <= RecencyFactor * m + RecencySlack
<1>1. PICK d \in Nat : RecencyFactor = d + 1
  <2>1. RecencyFactor - 1 \in Nat /\ RecencyFactor = (RecencyFactor - 1) + 1
    BY CacheAssumption
  <2> QED BY <2>1
<1>2. RecencyFactor * m = d * m + m /\ d * m \in Nat
  BY <1>1
<1> QED BY <1>2, CacheAssumption

(* One current record for an entry.                                        *)
LEMMA CurrentRecordsAreFew ==
    ASSUME NEW c, CacheShape(c), InOrder(c.recency)
    PROVE  Len(CurrentRecords(c)) <= Cardinality(Entries(c))
<1> DEFINE kept == CurrentRecords(c)
           key == [j \in 1..Len(kept) |-> kept[j].key]
<1>1. /\ kept \in Seq(Record) /\ InOrder(kept)
      /\ ToSet(kept) = {record \in ToSet(c.recency) : Current(c, record)}
  BY AccessesAre, CurrentRecordsAre
<1> HIDE DEF kept
<1>2. ASSUME NEW j \in 1..Len(kept)
      PROVE  /\ kept[j].key \in Entries(c) /\ kept[j].generation \in Nat
             /\ c.lastAccess[kept[j].key] = kept[j].generation
  <2>1. kept[j] \in Record /\ kept[j] \in ToSet(kept)
    BY <1>1 DEF ToSet
  <2>2. Current(c, kept[j])
    BY <1>1, <2>1
  <2> QED BY <2>1, <2>2 DEF Current, Record
<1>3. Len(kept) \in Nat
  BY <1>1
<1>4. key \in [1..Len(kept) -> Entries(c)]
  BY <1>2
<1>5. ASSUME NEW i \in 1..Len(kept), NEW j \in 1..Len(kept), key[i] = key[j]
      PROVE  i = j
  <2>1. kept[i].generation = kept[j].generation
    BY <1>2, <1>5
  <2>2. ~(i < j) /\ ~(j < i)
    BY <1>1, <1>2, <2>1 DEF InOrder
  <2> QED BY <1>3, <2>2
<1>6. key \in Injection(1..Len(kept), Entries(c))
  BY <1>4, <1>5 DEF Injection, IsInjective
<1>7. Cardinality(1..Len(kept)) <= Cardinality(Entries(c))
  BY <1>6, AccessesAre, FS_Injection
<1>8. Cardinality(1..Len(kept)) = Len(kept)
  BY <1>3, CountsUpTo
<1> QED BY <1>7, <1>8 DEF kept

Compacted(c) == Len(c.recency) <= RecencyFactor * Cardinality(Entries(c)) + RecencySlack

LEMMA CompactKeeps ==
    ASSUME NEW c, CacheSound(c)
    PROVE  LET d == CompactRecency(c)
           IN  /\ CacheSound(d) /\ Compacted(d)
               /\ d.lastAccess = c.lastAccess /\ d.used = c.used /\ d.clock = c.clock
<1>1. CASE Compacted(c)
  BY <1>1 DEF CompactRecency, Compacted
<1>2. CASE ~Compacted(c)
  <2> DEFINE kept == CurrentRecords(c)
             d == [c EXCEPT !.recency = kept]
  <2>1. d = CompactRecency(c)
    BY <1>2 DEF CompactRecency, Compacted
  <2>2. /\ kept \in Seq(Record) /\ InOrder(kept)
        /\ ToSet(kept) = {record \in ToSet(c.recency) : Current(c, record)}
        /\ Len(kept) <= Cardinality(Entries(c))
    BY AccessesAre, CurrentRecordsAre, CurrentRecordsAreFew DEF CacheSound, QueueIsAHistory
  <2> HIDE DEF kept
  <2>3. /\ d \in [lastAccess : Accesses, recency : Seq(Record), used : Int, clock : Nat]
        /\ d.recency = kept
        /\ d.lastAccess = c.lastAccess /\ d.used = c.used /\ d.clock = c.clock
    BY <2>2 DEF CacheSound, CacheShape
  <2> HIDE DEF d
  <2>4. Entries(d) = Entries(c)
    BY <2>3 DEF Entries
  <2>5. CacheShape(d)
    BY <2>3, <2>4 DEF CacheSound, CacheShape
  <2>6. QueueIsAHistory(d)
    <3>1. ASSUME NEW i \in 1..Len(kept)
          PROVE  kept[i].generation <= d.clock
      <4>1. kept[i] \in ToSet(c.recency)
        BY <2>2 DEF ToSet
      <4>2. PICK j \in 1..Len(c.recency) : kept[i] = c.recency[j]
        BY <4>1, AccessesAre DEF ToSet, CacheSound
      <4> QED BY <2>3, <4>2 DEF CacheSound, QueueIsAHistory
    <3>2. ASSUME NEW k \in Entries(d)
          PROVE  \E i \in 1..Len(kept) :
                     kept[i].key = k /\ kept[i].generation = d.lastAccess[k]
      <4>1. PICK j \in 1..Len(c.recency) :
                c.recency[j].key = k /\ c.recency[j].generation = c.lastAccess[k]
        BY <2>4 DEF CacheSound, QueueIsAHistory
      <4>2. c.recency[j] \in ToSet(c.recency) /\ Current(c, c.recency[j])
        BY <2>4, <4>1, AccessesAre DEF ToSet, Current, CacheSound
      <4>3. c.recency[j] \in ToSet(kept)
        BY <2>2, <4>2
      <4>4. PICK i \in 1..Len(kept) : kept[i] = c.recency[j]
        BY <2>2, <4>3 DEF ToSet
      <4> QED BY <2>3, <4>1, <4>4
    <3> QED BY <2>2, <2>3, <3>1, <3>2 DEF QueueIsAHistory
  <2>7. Compacted(d)
    <3>1. Cardinality(Entries(d)) \in Nat
      BY <2>5, AccessesAre, FS_CardinalityType
    <3>2. Cardinality(Entries(d)) <= RecencyFactor * Cardinality(Entries(d)) + RecencySlack
      BY <3>1, ScaledIsMore
    <3>3. Len(kept) \in Nat /\ RecencyFactor * Cardinality(Entries(d)) + RecencySlack \in Nat
      BY <2>2, <3>1, CacheAssumption
    <3> QED BY <2>2, <2>3, <2>4, <3>1, <3>2, <3>3 DEF Compacted
  <2>8. CacheSound(d)
    BY <2>3, <2>4, <2>5, <2>6 DEF CacheSound
  <2> QED BY <2>1, <2>3, <2>7, <2>8
<1> QED BY <1>1, <1>2
-----------------------------------------------------------------------------
(* The operations.                                                         *)

LEMMA WithoutIs ==
    ASSUME NEW c, CacheSound(c), NEW keys
    PROVE  LET d == Without(c, keys)
           IN  /\ CacheShape(d) /\ Entries(d) = Entries(c) \ keys
               /\ \A k \in Entries(d) : d.lastAccess[k] = c.lastAccess[k]
               /\ d.recency = c.recency /\ d.clock = c.clock
               /\ d.used = TotalWeight(Entries(d))
<1> DEFINE last == [k \in Entries(c) \ keys |-> c.lastAccess[k]]
           used == c.used - TotalWeight(Entries(c) \cap keys)
           d == [c EXCEPT !.lastAccess = last, !.used = used]
<1>1. d = Without(c, keys)
  BY DEF Without
<1>2. last \in Accesses
  <2>1. last \in [Entries(c) \ keys -> Nat] /\ Entries(c) \ keys \in SUBSET Key
    BY AccessesAre DEF CacheSound
  <2> QED BY <2>1 DEF Accesses
<1>3. /\ IsFiniteSet(Entries(c)) /\ IntegersOn(Weight, Entries(c))
      /\ Entries(c) \in SUBSET Key
  BY AccessesAre, WeightsAre DEF CacheSound
<1>4. TotalWeight(Entries(c) \ keys) \in Nat /\ TotalWeight(Entries(c) \cap keys) \in Nat
  <2>1. IsFiniteSet(Entries(c) \ keys) /\ IsFiniteSet(Entries(c) \cap keys)
    BY <1>3, FS_Subset
  <2> QED BY <1>3, <2>1, WeightsAre
<1>5. used = TotalWeight(Entries(c) \ keys)
  <2>1. Entries(c) \ (Entries(c) \cap keys) = Entries(c) \ keys
    OBVIOUS
  <2>2. Entries(c) \cap keys \in SUBSET Entries(c)
    OBVIOUS
  <2>3. TotalWeight(Entries(c)) =
            TotalWeight(Entries(c) \ keys) + TotalWeight(Entries(c) \cap keys)
    BY <1>3, <2>1, <2>2, SumSplits DEF TotalWeight
  <2> QED BY <1>4, <2>3 DEF CacheSound
<1>6. DOMAIN last = Entries(c) \ keys
  OBVIOUS
<1>7. \A k \in Entries(c) \ keys : last[k] = c.lastAccess[k]
  OBVIOUS
<1> HIDE DEF last, used
<1>8. /\ d \in [lastAccess : Accesses, recency : Seq(Record), used : Int, clock : Nat]
      /\ d.lastAccess = last /\ d.used = used /\ d.recency = c.recency /\ d.clock = c.clock
  <2>1. used \in Int
    BY <1>4, <1>5
  <2>2. c \in [lastAccess : Accesses, recency : Seq(Record), used : Int, clock : Nat]
    BY DEF CacheSound, CacheShape
  <2> QED BY <1>2, <2>1, <2>2
<1> HIDE DEF d
<1>9. Entries(d) = Entries(c) \ keys
  BY <1>6, <1>8 DEF Entries
<1>10. IsFiniteSet(Entries(d))
  BY <1>3, <1>9, FS_Subset
<1> QED BY <1>1, <1>5, <1>7, <1>8, <1>9, <1>10 DEF CacheShape

(* An entry is popped with its record, so those that stay keep theirs.     *)
LEMMA PoppedIs ==
    ASSUME NEW c, CacheSound(c), NEW n \in 0..Len(c.recency)
    PROVE  LET d == Popped(c, n)
           IN  /\ CacheSound(d) /\ d.clock = c.clock
               /\ d.recency = SubSeq(c.recency, n + 1, Len(c.recency))
               /\ Entries(d) = {k \in Entries(c) :
                      \E i \in (n + 1)..Len(c.recency) :
                          c.recency[i].key = k /\ c.recency[i].generation = c.lastAccess[k]}
               /\ \A k \in Entries(d) : d.lastAccess[k] = c.lastAccess[k]
<1> DEFINE N == Len(c.recency)
           evicted == {c.recency[i].key : i \in {j \in 1..n : Current(c, c.recency[j])}}
           e == Without(c, evicted)
           rest == SubSeq(c.recency, n + 1, N)
           d == [e EXCEPT !.recency = rest]
<1>1. d = Popped(c, n)
  BY DEF Popped
<1>2. N \in Nat /\ \A i \in 1..N : c.recency[i] \in Record /\ c.recency[i].generation \in Nat
  <2>1. c.recency \in Seq(Record)
    BY AccessesAre DEF CacheSound
  <2>2. \A i \in 1..N : c.recency[i] \in Record
    BY <2>1
  <2> QED BY <2>1, <2>2 DEF Record
<1>3. /\ rest \in Seq(Record) /\ Len(rest) = N - n
      /\ \A i \in 1..(N - n) : rest[i] = c.recency[n + i]
  <2>1. c.recency \in Seq(Record)
    BY AccessesAre DEF CacheSound
  <2> QED BY <1>2, <2>1, SubSeqProperties
<1>4. /\ CacheShape(e) /\ Entries(e) = Entries(c) \ evicted
      /\ \A k \in Entries(e) : e.lastAccess[k] = c.lastAccess[k]
      /\ e.clock = c.clock /\ e.used = TotalWeight(Entries(e))
  BY WithoutIs
<1>5. \A k \in Entries(c) :
          k \in evicted <=> \E i \in 1..n : c.recency[i].key = k
                                         /\ c.recency[i].generation = c.lastAccess[k]
  BY DEF Current
<1>6. \A k \in Entries(c) :
          k \notin evicted <=> \E i \in (n + 1)..N : c.recency[i].key = k
                                         /\ c.recency[i].generation = c.lastAccess[k]
  <2> SUFFICES ASSUME NEW k \in Entries(c)
               PROVE  k \notin evicted <=> \E i \in (n + 1)..N : c.recency[i].key = k
                                         /\ c.recency[i].generation = c.lastAccess[k]
    OBVIOUS
  <2>1. PICK i \in 1..N : c.recency[i].key = k /\ c.recency[i].generation = c.lastAccess[k]
    BY DEF CacheSound, QueueIsAHistory
  <2>2. ASSUME NEW j \in 1..N, c.recency[j].key = k, c.recency[j].generation = c.lastAccess[k]
        PROVE  j = i
    <3>1. ~(i < j) /\ ~(j < i)
      BY <1>2, <2>1, <2>2 DEF CacheSound, QueueIsAHistory, InOrder
    <3> QED BY <1>2, <3>1
  <2> HIDE DEF evicted
  <2> QED BY <1>2, <1>5, <2>1, <2>2
<1> HIDE DEF evicted, e, rest
<1>7. /\ d \in [lastAccess : Accesses, recency : Seq(Record), used : Int, clock : Nat]
      /\ d.recency = rest
      /\ d.lastAccess = e.lastAccess /\ d.used = e.used /\ d.clock = e.clock
  BY <1>3, <1>4 DEF CacheShape
<1> HIDE DEF d
<1>8. Entries(d) = Entries(e)
  BY <1>7 DEF Entries
<1>9. CacheShape(d)
  BY <1>4, <1>7, <1>8 DEF CacheShape
<1>10. InOrder(rest)
  <2> SUFFICES ASSUME NEW i \in 1..Len(rest), NEW j \in 1..Len(rest), i < j
               PROVE  rest[i].generation < rest[j].generation
    BY DEF InOrder
  <2>1. n + i \in 1..N /\ n + j \in 1..N /\ n + i < n + j
    BY <1>2, <1>3
  <2>2. c.recency[n + i].generation < c.recency[n + j].generation
    BY <2>1 DEF CacheSound, QueueIsAHistory, InOrder
  <2> QED BY <1>3, <2>2
<1>11. \A i \in 1..Len(rest) : rest[i].generation <= d.clock
  <2> SUFFICES ASSUME NEW i \in 1..Len(rest) PROVE rest[i].generation <= d.clock
    OBVIOUS
  <2>1. n + i \in 1..N /\ rest[i] = c.recency[n + i]
    BY <1>2, <1>3
  <2> QED BY <1>4, <1>7, <2>1 DEF CacheSound, QueueIsAHistory
<1>12. \A k \in Entries(d) : \E i \in 1..Len(rest) :
           rest[i].key = k /\ rest[i].generation = d.lastAccess[k]
  <2> SUFFICES ASSUME NEW k \in Entries(d)
               PROVE  \E i \in 1..Len(rest) :
                          rest[i].key = k /\ rest[i].generation = d.lastAccess[k]
    OBVIOUS
  <2>1. PICK i \in (n + 1)..N : c.recency[i].key = k /\ c.recency[i].generation = c.lastAccess[k]
    BY <1>4, <1>6, <1>8
  <2>2. i - n \in 1..Len(rest) /\ rest[i - n] = c.recency[i]
    BY <1>2, <1>3
  <2> QED BY <1>4, <1>7, <1>8, <2>1, <2>2
<1>13. CacheSound(d)
  BY <1>4, <1>7, <1>8, <1>9, <1>10, <1>11, <1>12 DEF CacheSound, QueueIsAHistory
<1> QED BY <1>1, <1>4, <1>6, <1>7, <1>8, <1>13 DEF rest

LEMMA NothingLeft ==
    ASSUME NEW c, CacheSound(c), Entries(c) = {}
    PROVE  /\ c.used = 0
           /\ CacheSound([c EXCEPT !.recency = <<>>])
<1>1. c.used = 0
  BY SumOfNone DEF CacheSound, TotalWeight
<1> DEFINE d == [c EXCEPT !.recency = <<>>]
<1>2. <<>> \in Seq(Record) /\ Len(<<>>) = 0
  OBVIOUS
<1>3. /\ d \in [lastAccess : Accesses, recency : Seq(Record), used : Int, clock : Nat]
      /\ d.recency = <<>> /\ d.lastAccess = c.lastAccess /\ d.used = c.used
  BY <1>2 DEF CacheSound, CacheShape
<1> HIDE DEF d
<1>4. Entries(d) = Entries(c)
  BY <1>3 DEF Entries
<1>5. CacheShape(d)
  BY <1>3, <1>4 DEF CacheSound, CacheShape
<1>6. QueueIsAHistory(d)
  BY <1>2, <1>3, <1>4 DEF QueueIsAHistory, InOrder
<1>7. CacheSound(d)
  BY <1>3, <1>4, <1>5, <1>6 DEF CacheSound
<1> QED BY <1>1, <1>7 DEF d

(* The eviction stops at the first record that makes room.                 *)
LEMMA EvictIs ==
    ASSUME NEW c, CacheSound(c)
    PROVE  \E n \in 0..Len(c.recency) :
               /\ Popped(c, n).used <= MaxBytes
               /\ \A m \in 0..(n - 1) : ~(Popped(c, m).used <= MaxBytes)
               /\ LET d == EvictToBudget(c)
                  IN  /\ CacheSound(d) /\ d.used <= MaxBytes
                      /\ d.lastAccess = Popped(c, n).lastAccess /\ d.clock = c.clock
                      /\ d.used = Popped(c, n).used
<1> DEFINE N == Len(c.recency)
           enough(n) == Popped(c, n).used <= MaxBytes \/ n = N
           first(n) == enough(n) /\ \A m \in 0..(n - 1) : ~enough(m)
           n == CHOOSE n \in 0..N : first(n)
           evicted == Popped(c, n)
<1>1. N \in Nat
  BY AccessesAre DEF CacheSound
<1>2. \E m \in 0..N : first(m)
  <2> DEFINE T == {m \in 0..N : enough(m)}
  <2>1. T \in SUBSET Nat /\ N \in T
    BY <1>1
  <2> HIDE DEF enough
  <2>2. PICK m \in T : \A l \in T : m <= l
    <3> HIDE DEF T
    <3> QED BY <2>1, LeastNatural
  <2>3. \A l \in 0..(m - 1) : l \in 0..N /\ ~(m <= l)
    BY <1>1, <2>1, <2>2
  <2> QED BY <2>2, <2>3
<1>3. n \in 0..N /\ first(n)
  <2> HIDE DEF first
  <2> QED BY <1>2
<1>4. EvictToBudget(c) =
          IF Entries(evicted) = {} THEN [evicted EXCEPT !.recency = <<>>] ELSE evicted
  BY DEF EvictToBudget
<1> HIDE DEF n, evicted
<1>5. /\ CacheSound(evicted) /\ evicted.clock = c.clock
      /\ Entries(evicted) = {k \in Entries(c) :
             \E i \in (n + 1)..Len(c.recency) :
                 c.recency[i].key = k /\ c.recency[i].generation = c.lastAccess[k]}
  BY <1>3, PoppedIs DEF evicted
<1>6. evicted.used <= MaxBytes
  <2>1. CASE n = N
    <3>1. Entries(evicted) = {}
      BY <1>1, <1>5, <2>1
    <3>2. evicted.used = 0
      BY <1>5, <3>1, NothingLeft
    <3> QED BY <3>2, CacheAssumption
  <2>2. CASE n # N
    BY <1>3, <2>2 DEF evicted
  <2> QED BY <2>1, <2>2
<1>7. \A m \in 0..(n - 1) : ~(Popped(c, m).used <= MaxBytes)
  BY <1>3
<1> HIDE DEF enough, first
<1> DEFINE d == EvictToBudget(c)
<1>8. /\ CacheSound(d) /\ d.lastAccess = evicted.lastAccess
      /\ d.clock = evicted.clock /\ d.used = evicted.used
  <2>1. CASE Entries(evicted) = {}
    <3>1. d = [evicted EXCEPT !.recency = <<>>]
      BY <1>4, <2>1
    <3>2. CacheSound(d)
      BY <1>5, <2>1, <3>1, NothingLeft
    <3>3. evicted \in [lastAccess : Accesses, recency : Seq(Record), used : Int, clock : Nat]
      BY <1>5 DEF CacheSound, CacheShape
    <3> HIDE DEF d
    <3> QED BY <3>1, <3>2, <3>3
  <2>2. CASE Entries(evicted) # {}
    BY <1>4, <1>5, <2>2
  <2> QED BY <2>1, <2>2
<1> HIDE DEF d
<1>9. /\ evicted = Popped(c, n) /\ d.used <= MaxBytes /\ d.clock = c.clock
  BY <1>5, <1>6, <1>8 DEF evicted
<1>10. n \in 0..Len(c.recency)
  BY <1>3
<1> QED BY <1>6, <1>7, <1>8, <1>9, <1>10 DEF d

LEMMA AccessedIs ==
    ASSUME NEW c, CacheShape(c), QueueIsAHistory(c), NEW k \in Key
    PROVE  LET d == Accessed(c, k)
           IN  /\ CacheShape(d) /\ QueueIsAHistory(d) /\ Entries(d) = Entries(c) \cup {k}
               /\ d.used = c.used /\ d.clock = c.clock + 1
               /\ \A j \in Entries(d) :
                      d.lastAccess[j] = IF j = k THEN c.clock + 1 ELSE c.lastAccess[j]
<1> DEFINE keys == Entries(c) \cup {k}
           last == [j \in keys |-> IF j = k THEN c.clock + 1 ELSE c.lastAccess[j]]
           record == [key |-> k, generation |-> c.clock + 1]
           records == Append(c.recency, record)
           N == Len(c.recency)
           d == [c EXCEPT !.clock = c.clock + 1, !.lastAccess = last, !.recency = records]
<1>1. d = Accessed(c, k)
  BY DEF Accessed
<1>2. /\ Entries(c) \in SUBSET Key /\ c.lastAccess \in [Entries(c) -> Nat]
      /\ c.recency \in Seq(Record) /\ c.clock \in Nat /\ IsFiniteSet(Entries(c))
  BY AccessesAre
<1>3. last \in Accesses
  <2>1. last \in [keys -> Nat] /\ keys \in SUBSET Key
    BY <1>2
  <2> QED BY <2>1 DEF Accesses
<1>4. record \in Record /\ record.key = k /\ record.generation = c.clock + 1
  BY <1>2 DEF Record
<1>5. \A j \in keys : last[j] = IF j = k THEN c.clock + 1 ELSE c.lastAccess[j]
  OBVIOUS
<1>6. DOMAIN last = keys
  OBVIOUS
<1> HIDE DEF last, record
<1>7. /\ records \in Seq(Record) /\ Len(records) = N + 1 /\ N \in Nat
      /\ (\A i \in 1..N : records[i] = c.recency[i]) /\ records[N + 1] = record
  BY <1>2, <1>4
<1> HIDE DEF records
<1>8. /\ d \in [lastAccess : Accesses, recency : Seq(Record), used : Int, clock : Nat]
      /\ d.lastAccess = last /\ d.used = c.used /\ d.recency = records
      /\ d.clock = c.clock + 1
  <2>1. c \in [lastAccess : Accesses, recency : Seq(Record), used : Int, clock : Nat]
    BY DEF CacheShape
  <2> DEFINE time == c.clock + 1
  <2>2. time \in Nat
    BY <1>2
  <2> HIDE DEF time
  <2>3. d = [c EXCEPT !.clock = time, !.lastAccess = last, !.recency = records]
    BY DEF time
  <2>4. last \in Accesses /\ records \in Seq(Record)
    BY <1>3, <1>7
  <2> HIDE DEF d
  <2>5. /\ d \in [lastAccess : Accesses, recency : Seq(Record), used : Int, clock : Nat]
        /\ d.lastAccess = last /\ d.used = c.used /\ d.recency = records
        /\ d.clock = time
    BY <2>1, <2>2, <2>3, <2>4
  <2> QED BY <2>5 DEF time
<1> HIDE DEF d
<1>9. Entries(d) = keys
  BY <1>6, <1>8 DEF Entries
<1>10. CacheShape(d)
  BY <1>2, <1>8, <1>9, FS_AddElement DEF CacheShape
<1>11. \A i \in 1..N : c.recency[i].generation \in Nat /\ c.recency[i].generation <= c.clock
  <2>1. \A i \in 1..N : c.recency[i] \in Record
    BY <1>2
  <2> QED BY <2>1 DEF QueueIsAHistory, Record
<1>12. InOrder(records)
  <2> SUFFICES ASSUME NEW i \in 1..Len(records), NEW j \in 1..Len(records), i < j
               PROVE  records[i].generation < records[j].generation
    BY DEF InOrder
  <2>1. i \in 1..N /\ records[i] = c.recency[i]
    BY <1>7
  <2>2. CASE j = N + 1
    BY <1>2, <1>4, <1>7, <1>11, <2>1, <2>2
  <2>3. CASE j # N + 1
    <3>1. j \in 1..N /\ records[j] = c.recency[j]
      BY <1>7, <2>3
    <3> QED BY <2>1, <3>1 DEF QueueIsAHistory, InOrder
  <2> QED BY <2>2, <2>3
<1>13. ASSUME NEW i \in 1..Len(records)
       PROVE  records[i].generation <= d.clock
  <2>1. CASE i = N + 1
    BY <1>2, <1>4, <1>7, <1>8, <2>1
  <2>2. CASE i # N + 1
    <3>1. i \in 1..N /\ records[i] = c.recency[i]
      BY <1>7, <2>2
    <3> QED BY <1>2, <1>8, <1>11, <3>1
  <2> QED BY <2>1, <2>2
<1>14. ASSUME NEW j \in Entries(d)
       PROVE  \E i \in 1..Len(records) :
                  records[i].key = j /\ records[i].generation = d.lastAccess[j]
  <2>1. CASE j = k
    <3>1. N + 1 \in 1..Len(records)
      BY <1>7
    <3> QED BY <1>4, <1>5, <1>7, <1>8, <1>9, <2>1, <3>1
  <2>2. CASE j # k
    <3>1. PICK i \in 1..N : c.recency[i].key = j /\ c.recency[i].generation = c.lastAccess[j]
      BY <1>9, <2>2 DEF QueueIsAHistory
    <3>2. i \in 1..Len(records) /\ records[i] = c.recency[i]
      BY <1>7
    <3> QED BY <1>5, <1>8, <1>9, <2>2, <3>1, <3>2
  <2> QED BY <2>1, <2>2
<1>15. QueueIsAHistory(d)
  BY <1>8, <1>12, <1>13, <1>14 DEF QueueIsAHistory
<1> QED BY <1>1, <1>5, <1>8, <1>9, <1>10, <1>15

(* What the store promises of a cache between two calls.                   *)
CacheInv(c) == CacheSound(c) /\ c.used <= MaxBytes /\ Compacted(c)

LEMMA EmptyCacheHolds == CacheInv(EmptyCache)
<1> DEFINE c == EmptyCache
<1>1. /\ c.lastAccess = <<>> /\ c.recency = <<>> /\ c.used = 0 /\ c.clock = 0
      /\ c = [lastAccess |-> c.lastAccess, recency |-> c.recency, used |-> 0, clock |-> 0]
  BY DEF EmptyCache
<1>2. /\ <<>> \in Seq(Record) /\ Len(<<>>) = 0 /\ DOMAIN <<>> = {} /\ <<>> \in [{} -> Nat]
  OBVIOUS
<1>3. <<>> \in Accesses
  BY <1>2 DEF Accesses
<1> HIDE DEF c
<1>4. Entries(c) = {}
  BY <1>1, <1>2 DEF Entries
<1>5. CacheShape(c)
  <2>1. c \in [lastAccess : Accesses, recency : Seq(Record), used : Int, clock : Nat]
    <3>1. 0 \in Int /\ 0 \in Nat
      OBVIOUS
    <3> QED BY <1>2, <1>3, <3>1 DEF c, EmptyCache
  <2> QED BY <1>4, <2>1, FS_EmptySet DEF CacheShape
<1>6. QueueIsAHistory(c)
  BY <1>1, <1>2, <1>4 DEF QueueIsAHistory, InOrder
<1>7. c.used = TotalWeight(Entries(c))
  BY <1>1, <1>4, SumOfNone DEF TotalWeight
<1>8. Compacted(c)
  BY <1>1, <1>2, <1>4, FS_EmptySet, ScaledIsMore DEF Compacted
<1>9. c.used <= MaxBytes
  BY <1>1, CacheAssumption
<1> QED BY <1>5, <1>6, <1>7, <1>8, <1>9 DEF CacheInv, CacheSound, c

LEMMA GotKeeps ==
    ASSUME NEW c, CacheInv(c), NEW p
    PROVE  CacheInv(Got(c, p))
<1>1. CASE p \notin Entries(c)
  BY <1>1 DEF Got
<1>2. CASE p \in Entries(c)
  <2> DEFINE d == Accessed(c, p)
  <2>1. p \in Key /\ Entries(c) \cup {p} = Entries(c)
    BY <1>2, AccessesAre DEF CacheInv, CacheSound
  <2>2. CacheShape(d) /\ QueueIsAHistory(d) /\ Entries(d) = Entries(c) /\ d.used = c.used
    BY <2>1, AccessedIs DEF CacheInv, CacheSound
  <2>3. Got(c, p) = CompactRecency(d)
    BY <1>2 DEF Got
  <2> HIDE DEF d
  <2>4. CacheSound(d)
    BY <2>2 DEF CacheInv, CacheSound
  <2>5. CacheSound(CompactRecency(d)) /\ Compacted(CompactRecency(d))
        /\ CompactRecency(d).used = d.used
    BY <2>4, CompactKeeps
  <2> QED BY <2>2, <2>3, <2>5 DEF CacheInv
<1> QED BY <1>1, <1>2

LEMMA StoredIs ==
    ASSUME NEW c, CacheSound(c), NEW k \in Key
    PROVE  LET d == Stored(c, k)
           IN  /\ CacheSound(d) /\ Entries(d) = Entries(c) \cup {k}
               /\ d.clock = c.clock + 1
               /\ \A j \in Entries(d) :
                      d.lastAccess[j] = IF j = k THEN c.clock + 1 ELSE c.lastAccess[j]
<1> DEFINE w == Without(c, {k})
           a == Accessed(w, k)
           d == [a EXCEPT !.used = a.used + Weight[k]]
<1>1. d = Stored(c, k)
  BY DEF Stored
<1>2. /\ CacheShape(w) /\ Entries(w) = Entries(c) \ {k}
      /\ (\A j \in Entries(w) : w.lastAccess[j] = c.lastAccess[j])
      /\ w.recency = c.recency /\ w.clock = c.clock /\ w.used = TotalWeight(Entries(w))
  BY WithoutIs
<1> HIDE DEF w
<1>3. QueueIsAHistory(w)
  <2>1. \A j \in Entries(w) : j \in Entries(c) /\ w.lastAccess[j] = c.lastAccess[j]
    BY <1>2
  <2> QED BY <1>2, <2>1 DEF CacheSound, QueueIsAHistory
<1>4. /\ CacheShape(a) /\ QueueIsAHistory(a) /\ Entries(a) = Entries(w) \cup {k}
      /\ a.used = w.used /\ a.clock = w.clock + 1
      /\ \A j \in Entries(a) :
             a.lastAccess[j] = IF j = k THEN w.clock + 1 ELSE w.lastAccess[j]
  BY <1>2, <1>3, AccessedIs
<1> HIDE DEF a
<1>5. Weight[k] \in Nat /\ w.used \in Int
  BY <1>2, CacheAssumption DEF CacheShape
<1>6. /\ d \in [lastAccess : Accesses, recency : Seq(Record), used : Int, clock : Nat]
      /\ d.lastAccess = a.lastAccess /\ d.recency = a.recency
      /\ d.used = w.used + Weight[k] /\ d.clock = a.clock
  BY <1>4, <1>5 DEF CacheShape
<1> HIDE DEF d
<1>7. Entries(d) = Entries(a) /\ Entries(d) = Entries(c) \cup {k}
  BY <1>2, <1>4, <1>6 DEF Entries
<1>8. CacheShape(d)
  BY <1>4, <1>6, <1>7 DEF CacheShape
<1>9. QueueIsAHistory(d)
  BY <1>4, <1>6, <1>7 DEF QueueIsAHistory
<1>10. d.used = TotalWeight(Entries(d))
  <2>1. IsFiniteSet(Entries(w)) /\ k \notin Entries(w) /\ Entries(d) \in SUBSET Key
        /\ IsFiniteSet(Entries(d)) /\ Entries(d) = Entries(w) \cup {k}
    BY <1>2, <1>4, <1>7, <1>8, AccessesAre
  <2>2. IntegersOn(Weight, Entries(d))
    BY <2>1, WeightsAre
  <2>3. TotalWeight(Entries(w) \cup {k}) = TotalWeight(Entries(w)) + Weight[k]
    BY <2>1, <2>2, SumWith DEF TotalWeight
  <2> QED BY <1>2, <1>6, <2>1, <2>3
<1>11. \A j \in Entries(d) :
           d.lastAccess[j] = IF j = k THEN c.clock + 1 ELSE c.lastAccess[j]
  BY <1>2, <1>4, <1>6, <1>7
<1> QED BY <1>1, <1>2, <1>4, <1>6, <1>7, <1>8, <1>9, <1>10, <1>11 DEF CacheSound

LEMMA InsertedKeeps ==
    ASSUME NEW c, CacheInv(c), NEW k \in Key, NEW d \in Inserted(c, k)
    PROVE  CacheInv(d)
<1>1. CASE Weight[k] > MaxBytes
  BY <1>1 DEF Inserted
<1>2. CASE ~(Weight[k] > MaxBytes)
  <2> DEFINE e == EvictToBudget(Stored(c, k))
  <2>1. d = CompactRecency(e)
    BY <1>2 DEF Inserted
  <2>2. CacheSound(Stored(c, k))
    BY StoredIs DEF CacheInv
  <2>3. CacheSound(e) /\ e.used <= MaxBytes
    BY <2>2, EvictIs
  <2> HIDE DEF e
  <2>4. CacheSound(d) /\ Compacted(d) /\ d.used = e.used
    BY <2>1, <2>3, CompactKeeps
  <2> QED BY <2>3, <2>4 DEF CacheInv
<1> QED BY <1>1, <1>2

-----------------------------------------------------------------------------
(* The order of use.  s lists the keys, the least recently used first.     *)
ByUse(s, keys, last) ==
    /\ s \in Seq(Key) /\ ToSet(s) = keys
    /\ \A i, j \in 1..Len(s) : i < j => last[s[i]] < last[s[j]]

UsedOn(last, keys) == \A k \in keys : last[k] \in Nat

LEMMA ListedAre ==
    ASSUME NEW s \in Seq(Key)
    PROVE  /\ \A i \in 1..Len(s) : s[i] \in ToSet(s)
           /\ \A k \in ToSet(s) : \E i \in 1..Len(s) : s[i] = k
BY DEF ToSet

LEMMA ByUsePrefix ==
    ASSUME NEW keys, NEW last, UsedOn(last, keys),
           NEW s, NEW t, ByUse(s, keys, last), ByUse(t, keys, last)
    PROVE  Len(s) <= Len(t) /\ \A i \in 1..Len(s) : s[i] = t[i]
<1> DEFINE Good == {n \in Nat : n <= Len(s) => n <= Len(t) /\ \A i \in 1..n : s[i] = t[i]}
<1>1. /\ s \in Seq(Key) /\ Len(s) \in Nat /\ t \in Seq(Key) /\ Len(t) \in Nat
      /\ ToSet(s) = keys /\ ToSet(t) = keys
  BY DEF ByUse
<1>2. /\ \A i \in 1..Len(s) : s[i] \in keys /\ \E j \in 1..Len(t) : t[j] = s[i]
      /\ \A j \in 1..Len(t) : t[j] \in keys /\ \E i \in 1..Len(s) : s[i] = t[j]
  BY <1>1, ListedAre
<1>10. \A k \in keys : last[k] \in Nat
  BY DEF UsedOn
<1>3. 0 \in Good
  BY <1>1
<1>4. ASSUME NEW n \in Nat, n \in Good
      PROVE  n + 1 \in Good
  <2> SUFFICES ASSUME n + 1 <= Len(s)
               PROVE  n + 1 <= Len(t) /\ \A i \in 1..(n + 1) : s[i] = t[i]
    OBVIOUS
  <2>1. n <= Len(t) /\ \A i \in 1..n : s[i] = t[i]
    BY <1>1, <1>4
  <2>2. n + 1 \in 1..Len(s)
    BY <1>1
  <2>3. PICK j \in 1..Len(t) : t[j] = s[n + 1]
    BY <1>2, <2>2
  <2>4. j > n
    <3> SUFFICES ASSUME j <= n PROVE FALSE
      OBVIOUS
    <3>1. s[j] = s[n + 1] /\ j \in 1..Len(s) /\ j < n + 1
      BY <1>1, <2>1, <2>2, <2>3
    <3>2. last[s[j]] < last[s[n + 1]]
      BY <2>2, <3>1 DEF ByUse
    <3>3. last[s[n + 1]] \in Nat
      BY <1>2, <1>10, <2>2
    <3> QED BY <3>1, <3>2, <3>3
  <2>5. n + 1 \in 1..Len(t)
    BY <1>1, <2>4
  <2>6. PICK i \in 1..Len(s) : s[i] = t[n + 1]
    BY <1>2, <2>5
  <2>7. i > n
    <3> SUFFICES ASSUME i <= n PROVE FALSE
      OBVIOUS
    <3>1. t[i] = t[n + 1] /\ i \in 1..Len(t) /\ i < n + 1
      BY <1>1, <2>1, <2>5, <2>6
    <3>2. last[t[i]] < last[t[n + 1]]
      BY <2>5, <3>1 DEF ByUse
    <3>3. last[t[n + 1]] \in Nat
      BY <1>2, <1>10, <2>5
    <3> QED BY <3>1, <3>2, <3>3
  <2>8. last[s[n + 1]] \in Nat /\ last[t[n + 1]] \in Nat
    BY <1>2, <1>10, <2>2, <2>5
  <2>9. CASE j = n + 1
    BY <2>1, <2>3, <2>5, <2>9
  <2>10. CASE j # n + 1
    <3>1. last[t[n + 1]] < last[s[n + 1]]
      BY <2>3, <2>4, <2>5, <2>10 DEF ByUse
    <3>2. last[s[n + 1]] <= last[t[n + 1]]
      <4>1. CASE i = n + 1
        BY <2>6, <2>8, <4>1
      <4>2. CASE i # n + 1
        BY <2>2, <2>6, <2>7, <2>8, <4>2 DEF ByUse
      <4> QED BY <4>1, <4>2
    <3> QED BY <2>8, <3>1, <3>2
  <2> QED BY <2>9, <2>10
<1> HIDE DEF Good
<1>5. Len(s) \in Good
  BY <1>1, <1>3, <1>4, NatInductionOnSets
<1> QED BY <1>1, <1>5 DEF Good

LEMMA ByUseUnique ==
    ASSUME NEW keys, NEW last, UsedOn(last, keys),
           NEW s, NEW t, ByUse(s, keys, last), ByUse(t, keys, last)
    PROVE  s = t
<1>1. Len(s) <= Len(t) /\ \A i \in 1..Len(s) : s[i] = t[i]
  BY ByUsePrefix
<1>4. Len(t) <= Len(s)
  BY ByUsePrefix
<1>2. s \in Seq(Key) /\ t \in Seq(Key)
  BY DEF ByUse
<1>3. Len(s) = Len(t)
  BY <1>1, <1>2, <1>4
<1> QED BY <1>1, <1>2, <1>3

(* The keys of the current records.                                        *)
LEMMA CurrentByUse ==
    ASSUME NEW c, CacheSound(c)
    PROVE  LET kept == CurrentRecords(c)
           IN  ByUse([i \in DOMAIN kept |-> kept[i].key], Entries(c), c.lastAccess)
<1> DEFINE kept == CurrentRecords(c)
           order == [i \in DOMAIN kept |-> kept[i].key]
<1>1. /\ kept \in Seq(Record) /\ InOrder(kept)
      /\ ToSet(kept) = {record \in ToSet(c.recency) : Current(c, record)}
  BY AccessesAre, CurrentRecordsAre DEF CacheSound, QueueIsAHistory
<1>2. c.recency \in Seq(Record) /\ Entries(c) \in SUBSET Key
  BY AccessesAre DEF CacheSound
<1> HIDE DEF kept
<1>3. ASSUME NEW i \in 1..Len(kept)
      PROVE  /\ kept[i].key \in Entries(c) /\ kept[i].generation = c.lastAccess[kept[i].key]
             /\ kept[i].key \in Key
  <2>1. kept[i] \in ToSet(kept)
    BY <1>1 DEF ToSet
  <2> QED BY <1>1, <1>2, <2>1 DEF Current
<1>4. order \in Seq(Key) /\ Len(order) = Len(kept) /\ \A i \in 1..Len(kept) : order[i] = kept[i].key
  BY <1>1, <1>3
<1>5. ASSUME NEW k \in Entries(c)
      PROVE  \E i \in 1..Len(kept) : kept[i].key = k
  <2>1. PICK j \in 1..Len(c.recency) :
            c.recency[j].key = k /\ c.recency[j].generation = c.lastAccess[k]
    BY DEF CacheSound, QueueIsAHistory
  <2>2. c.recency[j] \in ToSet(kept)
    BY <1>1, <1>2, <2>1 DEF ToSet, Current
  <2> QED BY <1>1, <2>1, <2>2 DEF ToSet
<1> HIDE DEF order
<1>6. ToSet(order) = Entries(c)
  BY <1>3, <1>4, <1>5 DEF ToSet
<1>7. \A i, j \in 1..Len(order) : i < j => c.lastAccess[order[i]] < c.lastAccess[order[j]]
  BY <1>1, <1>3, <1>4 DEF InOrder
<1> QED BY <1>4, <1>6, <1>7 DEF ByUse, order, kept

LEMMA ByUseOnce ==
    ASSUME NEW keys, NEW last, UsedOn(last, keys), NEW s, ByUse(s, keys, last)
    PROVE  Once(s)
<1>1. s \in Seq(Key) /\ ToSet(s) = keys /\ \A i \in 1..Len(s) : s[i] \in keys
  BY ListedAre DEF ByUse
<1> SUFFICES ASSUME NEW i \in 1..Len(s), NEW j \in 1..Len(s), s[i] = s[j]
             PROVE  i = j
  BY DEF Once
<1>2. last[s[i]] \in Nat /\ ~(last[s[i]] < last[s[j]]) /\ ~(last[s[j]] < last[s[i]])
  BY <1>1 DEF UsedOn
<1>3. ~(i < j) /\ ~(j < i)
  BY <1>2 DEF ByUse
<1> QED BY <1>1, <1>3

(* A use moves its key to the end.                                         *)
LEMMA LatestByUse ==
    ASSUME NEW keys, NEW last, UsedOn(last, keys),
           NEW s, ByUse(s, keys, last), NEW k \in Key, NEW new, new[k] \in Nat,
           \A j \in keys \ {k} : new[j] = last[j] /\ new[j] < new[k]
    PROVE  ByUse(Append(RemoveFirst(s, k), k), keys \cup {k}, new)
<1> DEFINE t == RemoveFirst(s, k)
           u == Append(t, k)
<1>1. s \in Seq(Key) /\ ToSet(s) = keys /\ \A i \in 1..Len(s) : s[i] \in keys
  BY ListedAre DEF ByUse
<1>2. Once(s)
  BY ByUseOnce
<1>3. t \in Seq(Key) /\ Once(t) /\ ToSet(t) = keys \ {k}
  BY <1>1, <1>2, RemoveFirstKeeps
<1>4. \A i, j \in 1..Len(t) : i < j => last[t[i]] < last[t[j]]
  <2>1. CASE k \notin ToSet(s)
    <3>1. t = s
      BY <1>1, <2>1, ListedAre DEF RemoveFirst
    <3> QED BY <3>1 DEF ByUse
  <2>2. CASE k \in ToSet(s)
    <3>1. PICK x \in 1..Len(s) : s[x] = k
      BY <1>1, <2>2, ListedAre
    <3>2. t = [i \in 1..(Len(s) - 1) |-> IF i < x THEN s[i] ELSE s[i + 1]]
      BY <1>1, <1>2, <3>1, RemoveFirstIs
    <3>3. Len(s) \in Nat /\ Len(s) - 1 \in Nat
      BY <1>1, <3>1
    <3>4. Len(t) = Len(s) - 1
      BY <3>2, <3>3
    <3>5. \A i \in 1..Len(t) : t[i] = IF i < x THEN s[i] ELSE s[i + 1]
      BY <3>2, <3>4
    <3> HIDE DEF t
    <3> SUFFICES ASSUME NEW i \in 1..Len(t), NEW j \in 1..Len(t), i < j
                 PROVE  last[t[i]] < last[t[j]]
      OBVIOUS
    <3>6. PICK a \in 1..Len(s) : t[i] = s[a] /\ a = IF i < x THEN i ELSE i + 1
      BY <3>3, <3>4, <3>5
    <3>7. PICK b \in 1..Len(s) : t[j] = s[b] /\ b = IF j < x THEN j ELSE j + 1
      BY <3>3, <3>4, <3>5
    <3>8. a < b
      BY <3>6, <3>7
    <3> QED BY <3>6, <3>7, <3>8 DEF ByUse
  <2> QED BY <2>1, <2>2
<1> HIDE DEF t
<1>5. Once(u) /\ u \in Seq(Key) /\ ToSet(u) = keys \cup {k}
  BY <1>3, AppendKeeps
<1>6. /\ Len(u) = Len(t) + 1 /\ Len(t) \in Nat /\ u[Len(t) + 1] = k
      /\ \A i \in 1..Len(t) : u[i] = t[i] /\ t[i] \in keys \ {k}
  BY <1>3, ListedAre
<1> HIDE DEF u
<1>7. ASSUME NEW i \in 1..Len(u), NEW j \in 1..Len(u), i < j
      PROVE  new[u[i]] < new[u[j]]
  <2>1. i \in 1..Len(t) /\ u[i] = t[i] /\ t[i] \in keys \ {k}
    BY <1>6, <1>7
  <2>2. CASE j = Len(t) + 1
    BY <1>6, <2>1, <2>2
  <2>3. CASE j # Len(t) + 1
    <3>1. j \in 1..Len(t) /\ u[j] = t[j] /\ t[j] \in keys \ {k}
      BY <1>6, <2>3
    <3> QED BY <1>4, <1>7, <2>1, <3>1
  <2> QED BY <2>2, <2>3
<1> QED BY <1>5, <1>7 DEF ByUse, u, t

LEMMA SuffixIs ==
    ASSUME NEW keys, NEW last, UsedOn(last, keys),
           NEW s, ByUse(s, keys, last), NEW m \in 1..Len(s)
    PROVE  ToSet(SubSeq(s, m, Len(s))) = {k \in keys : last[s[m]] <= last[k]}
<1> DEFINE t == SubSeq(s, m, Len(s))
<1>1. /\ s \in Seq(Key) /\ Len(s) \in Nat /\ ToSet(s) = keys
      /\ \A i \in 1..Len(s) : s[i] \in keys /\ last[s[i]] \in Nat
  BY ListedAre DEF ByUse, UsedOn
<1>2. /\ t \in Seq(Key) /\ Len(t) = Len(s) - m + 1
      /\ \A i \in 1..(Len(s) - m + 1) : t[i] = s[m + i - 1]
  BY <1>1, SubSeqProperties
<1> HIDE DEF t
<1>3. ASSUME NEW k \in ToSet(t) PROVE k \in keys /\ last[s[m]] <= last[k]
  <2>1. PICK i \in 1..Len(t) : t[i] = k
    BY <1>2, <1>3, ListedAre
  <2>2. m + i - 1 \in 1..Len(s) /\ k = s[m + i - 1] /\ (m = m + i - 1 \/ m < m + i - 1)
    BY <1>1, <1>2, <2>1
  <2> QED BY <1>1, <2>2 DEF ByUse
<1>4. ASSUME NEW k \in keys, last[s[m]] <= last[k] PROVE k \in ToSet(t)
  <2>1. PICK i \in 1..Len(s) : s[i] = k
    BY <1>1, <1>4, ListedAre
  <2>2. ~(i < m)
    <3>1. i < m => last[s[i]] < last[s[m]]
      BY DEF ByUse
    <3> QED BY <1>1, <1>4, <2>1, <3>1
  <2> DEFINE x == i - m + 1
  <2>3. x \in 1..(Len(s) - m + 1) /\ m + x - 1 = i
    BY <1>1, <2>1, <2>2
  <2> HIDE DEF x
  <2>4. x \in 1..Len(t) /\ t[x] = k
    BY <1>2, <2>1, <2>3
  <2> QED BY <1>2, <2>4, ListedAre
<1> QED BY <1>3, <1>4 DEF t

(* Keys that are all used later than the others are a suffix.              *)
LEMMA LaterByUse ==
    ASSUME NEW keys, NEW last, UsedOn(last, keys),
           NEW s, ByUse(s, keys, last), NEW later \in SUBSET keys,
           \A j \in later, k \in keys : last[j] < last[k] => k \in later
    PROVE  \E m \in 0..Len(s) : /\ ByUse(SubSeq(s, m + 1, Len(s)), later, last)
                                /\ m > 0 => s[m] \notin later
<1> DEFINE From == {n \in 0..Len(s) : \A i \in 1..Len(s) : i > n => s[i] \in later}
<1>1. /\ s \in Seq(Key) /\ Len(s) \in Nat /\ ToSet(s) = keys
      /\ \A i \in 1..Len(s) : s[i] \in keys /\ last[s[i]] \in Nat
  BY ListedAre DEF ByUse, UsedOn
<1>2. PICK m \in From : \A n \in From : m <= n
  <2>1. Len(s) \in From /\ From \in SUBSET Nat
    BY <1>1
  <2> HIDE DEF From
  <2> QED BY <2>1, LeastNatural
<1>3. m \in 0..Len(s) /\ \A i \in 1..Len(s) : i > m => s[i] \in later
  OBVIOUS
<1>4. ASSUME m > 0, s[m] \in later PROVE FALSE
  <2>1. m - 1 \in 0..Len(s) /\ ~(m <= m - 1)
    BY <1>1, <1>3, <1>4
  <2>2. \A i \in 1..Len(s) : i > m - 1 => i = m \/ i > m
    BY <1>1, <1>3
  <2>3. m - 1 \in From
    BY <1>3, <1>4, <2>1, <2>2
  <2> QED BY <1>2, <2>1, <2>3
<1> HIDE DEF From
<1>5. ASSUME NEW i \in 1..Len(s), s[i] \in later
      PROVE  i > m
  <2> SUFFICES ASSUME i <= m PROVE FALSE
    BY <1>1, <1>3
  <2>1. m \in 1..Len(s) /\ s[m] \in keys
    BY <1>1, <1>3
  <2>2. i = m \/ last[s[i]] < last[s[m]]
    BY <1>3, <2>1 DEF ByUse
  <2>3. s[m] \in later
    BY <1>5, <2>1, <2>2
  <2> QED BY <1>4, <2>1, <2>3
<1> DEFINE t == SubSeq(s, m + 1, Len(s))
<1>6. /\ t \in Seq(Key) /\ Len(t) = Len(s) - m
      /\ \A i \in 1..(Len(s) - m) : t[i] = s[m + i]
  BY <1>1, <1>3, SubSeqProperties
<1> HIDE DEF t
<1>7. ToSet(t) = later
  <2>1. ASSUME NEW k \in ToSet(t) PROVE k \in later
    <3>1. PICK i \in 1..Len(t) : t[i] = k
      BY <1>6, <2>1, ListedAre
    <3>2. m + i \in 1..Len(s) /\ m + i > m /\ s[m + i] = k
      BY <1>1, <1>3, <1>6, <3>1
    <3> QED BY <1>3, <3>2
  <2>2. ASSUME NEW k \in later PROVE k \in ToSet(t)
    <3>1. PICK i \in 1..Len(s) : s[i] = k
      BY <1>1, ListedAre
    <3>2. i > m
      BY <1>5, <3>1
    <3>3. i - m \in 1..Len(t) /\ t[i - m] = k
      BY <1>1, <1>3, <1>6, <3>1, <3>2
    <3> QED BY <1>6, <3>3, ListedAre
  <2> QED BY <2>1, <2>2
<1>8. ASSUME NEW i \in 1..Len(t), NEW j \in 1..Len(t), i < j
      PROVE  last[t[i]] < last[t[j]]
  <2>1. /\ m + i \in 1..Len(s) /\ m + j \in 1..Len(s) /\ m + i < m + j
        /\ t[i] = s[m + i] /\ t[j] = s[m + j]
    BY <1>1, <1>3, <1>6, <1>8
  <2> QED BY <2>1 DEF ByUse
<1>9. ByUse(t, later, last)
  BY <1>6, <1>7, <1>8 DEF ByUse
<1> QED BY <1>3, <1>4, <1>9 DEF t
-----------------------------------------------------------------------------
LEMMA EntryRecord ==
    ASSUME NEW c, CacheSound(c), NEW k \in Entries(c), NEW j \in Entries(c),
           NEW a \in 1..Len(c.recency), NEW b \in 1..Len(c.recency),
           c.recency[a].key = k, c.recency[a].generation = c.lastAccess[k],
           c.recency[b].key = j, c.recency[b].generation = c.lastAccess[j]
    PROVE  a <= b <=> c.lastAccess[k] <= c.lastAccess[j]
<1>1. c.lastAccess[k] \in Nat /\ c.lastAccess[j] \in Nat
  BY AccessesAre DEF CacheSound
<1>2. /\ a < b => c.lastAccess[k] < c.lastAccess[j]
      /\ b < a => c.lastAccess[j] < c.lastAccess[k]
  BY DEF CacheSound, QueueIsAHistory, InOrder
<1> QED BY <1>1, <1>2

(* The eviction drops the least recently used entries, as few as possible. *)
LEMMA EvictedByUse ==
    ASSUME NEW c, CacheSound(c), NEW s, ByUse(s, Entries(c), c.lastAccess)
    PROVE  \E m \in 0..Len(s) :
               /\ ByUse(SubSeq(s, m + 1, Len(s)), Entries(EvictToBudget(c)),
                        EvictToBudget(c).lastAccess)
               /\ TotalWeight(ToSet(SubSeq(s, m + 1, Len(s)))) <= MaxBytes
               /\ m > 0 => TotalWeight(ToSet(SubSeq(s, m, Len(s)))) > MaxBytes
<1> DEFINE d == EvictToBudget(c)
           last == c.lastAccess
           IsRecord(i, k) == c.recency[i].key = k /\ c.recency[i].generation = last[k]
<1>1. PICK n \in 0..Len(c.recency) :
          /\ \A m \in 0..(n - 1) : ~(Popped(c, m).used <= MaxBytes)
          /\ CacheSound(d) /\ d.used <= MaxBytes
          /\ d.lastAccess = Popped(c, n).lastAccess
  BY EvictIs
<1>2. /\ Entries(c) \in SUBSET Key /\ IsFiniteSet(Entries(c)) /\ Len(c.recency) \in Nat
      /\ \A k \in Entries(c) : last[k] \in Nat
      /\ UsedOn(last, Entries(c))
  BY AccessesAre DEF CacheSound, UsedOn
<1>3. \A k \in Entries(c) : \E i \in 1..Len(c.recency) : IsRecord(i, k)
  BY DEF CacheSound, QueueIsAHistory
<1>4. /\ Entries(d) = Entries(Popped(c, n))
      /\ \A k \in Entries(d) : d.lastAccess[k] = last[k]
  BY <1>1, PoppedIs DEF Entries
<1>5. Entries(d) = {k \in Entries(c) : \E i \in (n + 1)..Len(c.recency) : IsRecord(i, k)}
  BY <1>4, PoppedIs
<1> HIDE DEF d
<1>6. ASSUME NEW j \in Entries(d), NEW k \in Entries(c), last[j] < last[k]
      PROVE  k \in Entries(d)
  <2>1. j \in Entries(c) /\ last[j] \in Nat /\ last[k] \in Nat
    BY <1>2, <1>5
  <2>2. PICK a \in (n + 1)..Len(c.recency) : IsRecord(a, j)
    BY <1>5
  <2>3. PICK b \in 1..Len(c.recency) : IsRecord(b, k)
    BY <1>3
  <2>4. a \in 1..Len(c.recency)
    BY <1>1, <1>2
  <2>5. a <= b
    BY <1>6, <2>1, <2>2, <2>3, <2>4, EntryRecord
  <2>6. b \in (n + 1)..Len(c.recency)
    BY <1>1, <1>2, <2>5
  <2> QED BY <1>5, <2>3, <2>6
<1>7. PICK m \in 0..Len(s) : /\ ByUse(SubSeq(s, m + 1, Len(s)), Entries(d), last)
                             /\ m > 0 => s[m] \notin Entries(d)
  <2>1. Entries(d) \in SUBSET Entries(c)
    BY <1>5
  <2> HIDE DEF last
  <2>2. ByUse(s, Entries(c), last)
    BY DEF last
  <2> QED BY <1>2, <1>6, <2>1, <2>2, LaterByUse
<1> DEFINE t == SubSeq(s, m + 1, Len(s))
<1>8. t \in Seq(Key) /\ ToSet(t) = Entries(d) /\ \A i \in 1..Len(t) : t[i] \in Entries(d)
  BY <1>7, ListedAre DEF ByUse
<1>9. ByUse(t, Entries(d), d.lastAccess)
  <2> HIDE DEF t
  <2>1. ByUse(t, Entries(d), last)
    BY <1>7 DEF t
  <2> QED BY <1>4, <1>8, <2>1 DEF ByUse
<1>10. TotalWeight(ToSet(t)) <= MaxBytes
  BY <1>1, <1>8 DEF CacheSound
<1>11. ASSUME m > 0
       PROVE  TotalWeight(ToSet(SubSeq(s, m, Len(s)))) > MaxBytes
  <2> DEFINE k == s[m]
  <2>1. s \in Seq(Key) /\ Len(s) \in Nat /\ m \in 1..Len(s)
    BY <1>7, <1>11 DEF ByUse
  <2>2. k \in Entries(c) /\ k \notin Entries(d)
    BY <1>7, <1>11, <2>1, ListedAre DEF ByUse
  <2> HIDE DEF k
  <2>3. PICK a \in 1..Len(c.recency) : IsRecord(a, k)
    BY <1>3, <2>2
  <2>4. a - 1 \in 0..(n - 1) /\ a - 1 \in 0..Len(c.recency) /\ (a - 1) + 1 = a
    BY <1>1, <1>2, <1>5, <2>2, <2>3
  <2> DEFINE p == Popped(c, a - 1)
  <2>5. /\ CacheSound(p) /\ ~(p.used <= MaxBytes)
        /\ Entries(p) = {j \in Entries(c) : \E i \in a..Len(c.recency) : IsRecord(i, j)}
    BY <1>1, <2>4, PoppedIs
  <2> HIDE DEF p
  <2>6. ASSUME NEW j \in Entries(c)
        PROVE  j \in Entries(p) <=> last[k] <= last[j]
    <3>1. PICK b \in 1..Len(c.recency) : IsRecord(b, j)
      BY <1>3
    <3>2. a <= b <=> last[k] <= last[j]
      BY <2>2, <2>3, <3>1, EntryRecord
    <3>3. ASSUME NEW i \in a..Len(c.recency), IsRecord(i, j) PROVE last[k] <= last[j]
      <4>1. i \in 1..Len(c.recency) /\ a <= i
        BY <1>2
      <4> QED BY <2>2, <2>3, <3>3, <4>1, EntryRecord
    <3>4. a <= b => b \in a..Len(c.recency)
      BY <1>2
    <3> HIDE DEF IsRecord, last
    <3> QED BY <2>5, <3>1, <3>2, <3>3, <3>4
  <2>7. Entries(p) = {j \in Entries(c) : last[k] <= last[j]}
    BY <2>5, <2>6
  <2>8. ToSet(SubSeq(s, m, Len(s))) = {j \in Entries(c) : last[s[m]] <= last[j]}
    <3> HIDE DEF last
    <3>1. ByUse(s, Entries(c), last)
      BY DEF last
    <3> QED BY <1>2, <2>1, <3>1, SuffixIs
  <2>9. ToSet(SubSeq(s, m, Len(s))) = Entries(p)
    BY <2>7, <2>8 DEF k
  <2>10. TotalWeight(Entries(p)) \in Nat /\ p.used = TotalWeight(Entries(p))
    BY <2>5, AccessesAre, WeightsAre DEF CacheSound
  <2> QED BY <2>5, <2>9, <2>10, CacheAssumption
<1> QED BY <1>7, <1>9, <1>10, <1>11 DEF d, t

===============================================================================
