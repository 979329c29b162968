----------------------------- MODULE SlidingWindow -----------------------------
(***************************************************************************)
(* A meter: the stamps of what was admitted, in the order of admission.    *)
(* Only the front is looked at when stamps expire.  Stamps are read before *)
(* the meter is locked, and the clock may step back, so they need not be   *)
(* in order.                                                               *)
(***************************************************************************)
EXTENDS Integers, Sequences, SequencesExt

Since(stamp, now) == IF stamp < now THEN now - stamp ELSE 0     \* saturating_sub

(* How many stamps at the front are `window` or more ago.                  *)
ExpiredUpTo(stamps, now, window) ==    \* mutant: a stamp of exactly one window ago stays
    CHOOSE n \in 0..Len(stamps) :
        /\ \A i \in 1..n : Since(stamps[i], now) > window
        /\ n < Len(stamps) => Since(stamps[n + 1], now) <= window
Expired(stamps, now, window) ==
    CHOOSE n \in 0..Len(stamps) :
        /\ \A i \in 1..n : Since(stamps[i], now) >= window
        /\ n < Len(stamps) => Since(stamps[n + 1], now) < window

Live(stamps, now, window) ==
    SubSeq(stamps, Expired(stamps, now, window) + 1, Len(stamps))

===============================================================================
