------------------------------ MODULE MCServices ------------------------------
(* The services of the Coach Engine around its coaching share Players and  *)
(* no state: one run explores the behaviours of each, side by side.        *)
EXTENDS EngineAdmission, PlayerTraffic, LanguageLayerSpend, ImportedGames,
        AccountDeletion, BetaAccess, TLC

CONSTANTS p1, p2, s1, i1, i2, q1, q2

VARIABLE side
vars == <<side, admissionVars, trafficVars, spendVars, importsVars, sagaVars, betaVars>>

ServicesInit ==
    /\ side \in {"admission", "traffic", "spend", "imports", "deletion", "beta"}
    /\ AdmissionInit /\ TrafficInit /\ SpendInit /\ ImportsInit /\ DeletionInit /\ BetaInit
ServicesNext ==
    /\ UNCHANGED side
    /\ \/ /\ side = "admission" /\ AdmissionNext
          /\ UNCHANGED <<trafficVars, spendVars, importsVars, sagaVars, betaVars>>
       \/ /\ side = "traffic" /\ TrafficNext
          /\ UNCHANGED <<admissionVars, spendVars, importsVars, sagaVars, betaVars>>
       \/ /\ side = "spend" /\ SpendNext
          /\ UNCHANGED <<admissionVars, trafficVars, importsVars, sagaVars, betaVars>>
       \/ /\ side = "imports" /\ ImportsNext
          /\ UNCHANGED <<admissionVars, trafficVars, spendVars, sagaVars, betaVars>>
       \/ /\ side = "deletion" /\ DeletionNext
          /\ UNCHANGED <<admissionVars, trafficVars, spendVars, importsVars, betaVars>>
       \/ /\ side = "beta" /\ BetaNext
          /\ UNCHANGED <<admissionVars, trafficVars, spendVars, importsVars, sagaVars>>
(* A side that is not explored stays where no fair step is enabled.        *)
ServicesSpec ==
    /\ ServicesInit /\ [][ServicesNext]_vars
    /\ AdmissionFairness /\ DeletionFairness

OneEach == [p \in Pool |-> 1]
MixedCalls ==
    {[pool |-> "batch", principal |-> p1, prefetch |-> FALSE],
     [pool |-> "interactive", principal |-> p1, prefetch |-> FALSE],
     [pool |-> "local", principal |-> LocalCoach, prefetch |-> FALSE],
     [pool |-> "batch", principal |-> LocalCoach, prefetch |-> TRUE],
     [pool |-> "batch", principal |-> p2, prefetch |-> FALSE]}
TrafficWindows == [c \in TrafficClass |-> IF c = "import" THEN 3 ELSE 2]
TrafficLimits == [c \in TrafficClass |-> IF c = "import" THEN 2 ELSE 1]
OneSession == s1 :> p1
OneGame == i1 :> "game" @@ i2 :> "game"
Addresses == p1 :> {q1, q2} @@ p2 :> {q1}

(* Bound: the administrators see to one request at a time, and the email   *)
(* to the second address is sent once.                                     *)
OneMailing ==
    LET busy == {a \in Admin : ~Stage(a, "idle")}
    IN  /\ \A a, b \in busy : For(a) = For(b) /\ (For(a) = q2 => a = b)
        /\ invitation[q2].attempt <= 1
===============================================================================
