--------------------------- MODULE EngineCacheStore ---------------------------
(***************************************************************************)
(* EngineCache: the entries, and a queue of (key, generation) records of   *)
(* the accesses.  A record is current when its generation is the entry's   *)
(* last access; the queue keeps stale records until they reach its head or *)
(* it is compacted.  Every operation runs under one mutex, so each is an   *)
(* operator on the whole cache.                                            *)
(***************************************************************************)
EXTENDS Integers, Sequences, FiniteSetsExt

CONSTANTS
    Key,             \* CacheKey: engine identity and position content id
    Weight,          \* Weight[k]: cache_weight of the analysis of k
    MaxBytes,        \* max_bytes
    RecencyFactor,   \* 4 records for each entry ...
    RecencySlack     \* ... and 64 more, before the queue is compacted

ASSUME CacheAssumption ==
    /\ Weight \in [Key -> Nat \ {0}] /\ MaxBytes \in Nat
    /\ RecencyFactor \in Nat \ {0} /\ RecencySlack \in Nat

EmptyCache == [lastAccess |-> <<>>, recency |-> <<>>, used |-> 0, clock |-> 0]

Entries(c) == DOMAIN c.lastAccess
TotalWeight(keys) == SumFunctionOnSet(Weight, keys)

Current(c, record) ==
    record.key \in Entries(c) /\ c.lastAccess[record.key] = record.generation

Without(c, keys) ==
    [c EXCEPT !.lastAccess = [k \in Entries(c) \ keys |-> c.lastAccess[k]],
              !.used = c.used - TotalWeight(Entries(c) \cap keys)]

(* The records of the queue that are current, in their order.              *)
CurrentRecords(c) ==
    LET kept[i \in 0..Len(c.recency)] ==
            IF i = 0 THEN <<>>
            ELSE IF Current(c, c.recency[i]) THEN Append(kept[i - 1], c.recency[i])
            ELSE kept[i - 1]
    IN  kept[Len(c.recency)]

CompactRecency(c) ==
    IF Len(c.recency) <= RecencyFactor * Cardinality(Entries(c)) + RecencySlack THEN c
    ELSE [c EXCEPT !.recency = CurrentRecords(c)]

PoppedStale(c, n) ==     \* mutant: any record evicts the entry of its key
    [Without(c, {c.recency[i].key : i \in 1..n}) EXCEPT
        !.recency = SubSeq(c.recency, n + 1, Len(c.recency))]

(* The cache after popping n records, each evicting its entry if current.  *)
Popped(c, n) ==
    LET evicted == {c.recency[i].key : i \in {j \in 1..n : Current(c, c.recency[j])}}
    IN  [Without(c, evicted) EXCEPT !.recency = SubSeq(c.recency, n + 1, Len(c.recency))]

EvictToBudget(c) ==
    LET enough(n) == Popped(c, n).used <= MaxBytes \/ n = Len(c.recency)
        evicted == Popped(c, CHOOSE n \in 0..Len(c.recency) :
                                 enough(n) /\ \A m \in 0..(n - 1) : ~enough(m))
    IN  IF Entries(evicted) = {} THEN [evicted EXCEPT !.recency = <<>>] ELSE evicted

(* The access of key k: the clock ticks, and both the entry and the queue  *)
(* remember its value.                                                     *)
UnrecordedAccess(c, k) ==    \* mutant: the queue does not learn of it
    [c EXCEPT !.clock = c.clock + 1,
              !.lastAccess = [j \in Entries(c) \cup {k} |->
                                  IF j = k THEN c.clock + 1 ELSE c.lastAccess[j]]]
Accessed(c, k) ==
    [c EXCEPT !.clock = c.clock + 1,
              !.lastAccess = [j \in Entries(c) \cup {k} |->
                                  IF j = k THEN c.clock + 1 ELSE c.lastAccess[j]],
              !.recency = Append(c.recency, [key |-> k, generation |-> c.clock + 1])]

GotUncompacted(c, k) ==   \* mutant: only insert compacts the queue
    IF k \in Entries(c) THEN Accessed(c, k) ELSE c
Got(c, k) == IF k \in Entries(c) THEN CompactRecency(Accessed(c, k)) ELSE c

(* insert, up to its eviction.                                             *)
Stored(c, k) ==
    LET stored == Accessed(Without(c, {k}), k)
    IN  [stored EXCEPT !.used = stored.used + Weight[k]]

(* The whole insert, as the set of the one cache it leaves: each stage is  *)
(* evaluated once.                                                         *)
Inserted(c, k) ==
    IF Weight[k] > MaxBytes THEN {c}
    ELSE {CompactRecency(evicted) :
              evicted \in {EvictToBudget(stored) : stored \in {Stored(c, k)}}}

===============================================================================
