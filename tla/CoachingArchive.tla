--------------------------- MODULE CoachingArchive ---------------------------
(***************************************************************************)
(* What the Daily Coaching Run store promises of one Player's archive,     *)
(* whoever runs it: each window goes through one lifecycle, and publishing *)
(* a window shelves a set of games under it, all at once, taking none that *)
(* another window's digest already holds.  There are no leases, fences,    *)
(* tasks or clocks here.                                                   *)
(***************************************************************************)
EXTENDS Integers

CONSTANTS Game, LastWindow

Window == 1..LastWindow
NoShelf == 0

VARIABLES
    status,   \* status[w]: the lifecycle of window w
    shelf     \* shelf[g]: the window whose digest holds game g, or NoShelf

vars == <<status, shelf>>

Ended == {"published", "noDigest", "fenced", "abandoned", "skipped"}

TypeOK ==
    /\ status \in [Window -> {"absent", "active"} \cup Ended]
    /\ shelf \in [Game -> Window \cup {NoShelf}]

Init ==
    /\ status = [w \in Window |-> "absent"]
    /\ shelf = [g \in Game |-> NoShelf]

Start(w) ==
    /\ status[w] = "absent"
    /\ \E s \in {"active", "skipped"} : status' = [status EXCEPT ![w] = s]
    /\ UNCHANGED shelf

EndWithout(w) ==
    /\ status[w] = "active"
    /\ \E s \in {"noDigest", "fenced", "abandoned"} : status' = [status EXCEPT ![w] = s]
    /\ UNCHANGED shelf

Publish(w, games) ==
    /\ status[w] = "active"
    /\ games # {} /\ \A g \in games : shelf[g] \in {NoShelf, w}
    /\ status' = [status EXCEPT ![w] = "published"]
    /\ shelf' = [g \in Game |-> IF g \in games THEN w
                                ELSE IF shelf[g] = w THEN NoShelf ELSE shelf[g]]

Rebuild(w) ==
    /\ status[w] \in {"published", "noDigest"}
    /\ status' = [status EXCEPT ![w] = "active"]
    /\ UNCHANGED shelf

Next ==
    \E w \in Window :
        \/ Start(w)
        \/ EndWithout(w)
        \/ \E games \in SUBSET Game : Publish(w, games)
        \/ Rebuild(w)

Spec == Init /\ [][Next]_vars

=============================================================================
