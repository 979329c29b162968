-------------------------- MODULE MCExactEngineCache --------------------------
(* Small instances of ExactEngineCache: the weights, and the calls made.   *)
EXTENDS ExactEngineCache, TLC

CONSTANTS a, b, c, u

Weights == a :> 1 @@ b :> 1 @@ c :> 1

Single(p) == [batch |-> FALSE, positions |-> <<p>>]
Batch(positions) == [batch |-> TRUE, positions |-> positions]
MixedCalls == {Single(a), Single(u), Batch(<<b, c>>)}

===============================================================================
