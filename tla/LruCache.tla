------------------------------- MODULE LruCache -------------------------------
(***************************************************************************)
(* What the engine cache promises: it holds the most recently used         *)
(* analyses that fit its budget.  `order` lists them from the least to the *)
(* most recently used.  There is no clock and no recency queue here.       *)
(***************************************************************************)
EXTENDS Integers, Sequences, SequencesExt, FiniteSetsExt

CONSTANTS Key, Weight, MaxBytes

VARIABLE order

Kept(s) == {s[i] : i \in DOMAIN s}
Bytes(s) == SumFunctionOnSet(Weight, Kept(s))
Latest(s, k) == Append(RemoveFirst(s, k), k)

Init == order = <<>>

Use(k) == k \in Kept(order) /\ order' = Latest(order, k)

(* No more is dropped than the budget asks for.                            *)
Store(k) ==
    /\ Weight[k] <= MaxBytes
    /\ LET latest == Latest(order, k)
           after(n) == SubSeq(latest, n + 1, Len(latest))
       IN  \E n \in 0..Len(order) :
               /\ order' = after(n)
               /\ Bytes(after(n)) <= MaxBytes /\ (n > 0 => Bytes(after(n - 1)) > MaxBytes)

Next == \E k \in Key : Use(k) \/ Store(k)

Spec == Init /\ [][Next]_order

===============================================================================
