------------------------ MODULE MCDailyCoachingRuns ------------------------
(* Small instances of DailyCoachingRuns: the values of its constants and   *)
(* the symmetry of the sets whose members are interchangeable.             *)
EXTENDS DailyCoachingRuns, TLC

CONSTANTS t1, t2, t3, cellA, cellB, p1, p2, lichess

(* Two tasks on one cell and a third elsewhere; or one task on each cell.  *)
SharedCell == t1 :> cellA @@ t2 :> cellA @@ t3 :> cellB
OneCell == t1 :> cellA @@ t2 :> cellA
TwoCells == t1 :> cellA @@ t2 :> cellB

OneProvider == p1 :> lichess @@ p2 :> lichess
OneProfile == p1 :> lichess

(* Cells of two deployments with different review budgets.                 *)
MixedBudgets == cellA :> 1 @@ cellB :> 2
SingleBudgetA == cellA :> 1
SmallBudgets == cellA :> 1 @@ cellB :> 1

(* Two games while there is one Run, with a takeover and a fence; one game *)
(* that two undisturbed windows compete for.                               *)
Selected == {g \in Game : \E w \in Window : run[w].games[g].progress # "none"}
OneRunOrOneGame ==
    \/ run[LastWindow].status = "absent" /\ day <= LastWindow
    \/ /\ Cardinality(Selected) <= 1 /\ runFence = 0
       /\ \A w \in Window : run[w].takeovers = 0

Interchangeable == Permutations(Game)

=============================================================================
