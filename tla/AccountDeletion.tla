---------------------------- MODULE AccountDeletion ----------------------------
(***************************************************************************)
(* The deletion of one Player's account: a saga whose progress is a marker *)
(* in the production database, with a second marker in staging.  The       *)
(* request runs it, and so does every recovery pass of every cell, side by *)
(* side; a run may end anywhere and leaves the rest to the next pass.      *)
(***************************************************************************)
EXTENDS Integers

CONSTANTS
    Runner,        \* the request, and the recovery loops of the cells
    Recoverer,     \* one recovery loop
    LastHour,      \* bound on the clock
    MaxFailures    \* bound: how often a run fails or its process dies

Environment == {"production", "staging"}

(* AccountDeletionPhase, in its order; 0 stands for no marker.             *)
MarkersWritten == 1
CapturesWithdrawn == 2
ApplicationDataDeleted == 3
OAuthGrantsRevoked == 4
FirebaseTokensRevoked == 5
FirebaseIdentityDeleted == 6
Phase == MarkersWritten..FirebaseIdentityDeleted

ASSUME DeletionAssumption ==
    Recoverer \in Runner /\ LastHour \in Nat /\ MaxFailures \in Nat

VARIABLES
    hour,          \* the clock
    marker,        \* marker[e]: the phase, and purge_at or 0
    sagaRun,       \* sagaRun[r]: where run r is, and the marker it goes by
    stepsDone,     \* what was done outside: phases whose work was completed
    tokensEnd,     \* the last hour with a valid token, once the identity is gone
    failures

outside == <<stepsDone, tokensEnd>>
sagaVars == <<hour, marker, sagaRun, outside, failures>>

NoMarker == [phase |-> 0, purgeAt |-> 0]
NotRunning == [pc |-> "idle", phase |-> 0, purgeAt |-> 0]

Marker == [phase : 0..FirebaseIdentityDeleted, purgeAt : Nat]
RunPC == {"idle", "production", "staging", "work", "record",
          "complete", "completeStaging", "completeProduction"}
DeletionTypeOK ==
    /\ hour \in Nat
    /\ marker \in [Environment -> Marker]
    /\ sagaRun \in [Runner -> [pc : RunPC, phase : 0..FirebaseIdentityDeleted, purgeAt : Nat]]
    /\ stepsDone \in SUBSET Phase
    /\ tokensEnd \in Nat /\ failures \in Nat

DeletionInit ==
    /\ hour = 0
    /\ marker = [e \in Environment |-> NoMarker]
    /\ sagaRun = [r \in Runner |-> NotRunning]
    /\ stepsDone = {} /\ tokensEnd = 0 /\ failures = 0

-----------------------------------------------------------------------------
IdentityGone == FirebaseIdentityDeleted \in stepsDone
RunAt(r, pc) == sagaRun[r].pc = pc
Proceeds(r, pc) == sagaRun' = [sagaRun EXCEPT ![r].pc = pc]
Ends(r) == sagaRun' = [sagaRun EXCEPT ![r] = NotRunning]
GoesBy(r, m, pc) ==
    sagaRun' = [sagaRun EXCEPT ![r] = [pc |-> pc, phase |-> m.phase, purgeAt |-> m.purgeAt]]
Continue(r, m) ==        \* the next step that the marker does not have yet
    IF m.phase = FirebaseIdentityDeleted THEN Ends(r) ELSE GoesBy(r, m, "work")
Step(r) == sagaRun[r].phase + 1

Hour ==
    /\ hour < LastHour /\ hour' = hour + 1
    /\ UNCHANGED <<marker, sagaRun, outside, failures>>

RequestDeletion(r) ==    \* needs a recent sign-in
    /\ RunAt(r, "idle") /\ ~IdentityGone
    /\ Proceeds(r, "production")
    /\ UNCHANGED <<hour, marker, outside, failures>>

ResumeIncomplete(r) ==   \* the marker is listed here, and read again later
    /\ RunAt(r, "idle") /\ marker["production"].phase \in Phase \ {FirebaseIdentityDeleted}
    /\ Proceeds(r, "production")
    /\ UNCHANGED <<hour, marker, outside, failures>>

EnsureProductionMarker(r) ==
    LET m == IF marker["production"] = NoMarker
             THEN [phase |-> MarkersWritten, purgeAt |-> 0] ELSE marker["production"]
    IN  /\ RunAt(r, "production")
        /\ marker' = [marker EXCEPT !["production"] = m]
        /\ GoesBy(r, m, "staging")
        /\ UNCHANGED <<hour, outside, failures>>

EnsureStagingLater(r) ==     \* mutant: staging gets its marker with the completion
    /\ RunAt(r, "staging")
    /\ Continue(r, sagaRun[r])
    /\ UNCHANGED <<hour, marker, outside, failures>>
EnsureStagingMarker(r) ==
    LET m == [phase |-> sagaRun[r].phase, purgeAt |-> sagaRun[r].purgeAt]
    IN  /\ RunAt(r, "staging")
        /\ marker' = IF marker["staging"] = NoMarker
                     THEN [marker EXCEPT !["staging"] = m] ELSE marker
        /\ Continue(r, m)
        /\ UNCHANGED <<hour, outside, failures>>

(* A token outlives the identity by an hour.  To delete an identity that   *)
(* is gone is a success; to revoke its tokens is an error.                 *)
Unknown(r) ==
    RunAt(r, "work") /\ Step(r) = FirebaseTokensRevoked /\ IdentityGone
Work(r) ==
    /\ RunAt(r, "work") /\ ~Unknown(r)
    /\ stepsDone' = stepsDone \cup {Step(r)}
    /\ tokensEnd' = IF Step(r) = FirebaseIdentityDeleted /\ ~IdentityGone
                    THEN hour + 1 ELSE tokensEnd
    /\ Proceeds(r, IF Step(r) = FirebaseIdentityDeleted THEN "complete" ELSE "record")
    /\ UNCHANGED <<hour, marker, failures>>

(* advance: a compare-and-set that keeps what another run got to.          *)
AdvanceBlind(r) ==       \* mutant: the phase of this run is written, wherever the marker is
    LET m == [marker["production"] EXCEPT !.phase = Step(r)]
    IN  /\ RunAt(r, "record") /\ marker["production"] # NoMarker
        /\ marker' = [marker EXCEPT !["production"] = m]
        /\ Continue(r, m)
        /\ UNCHANGED <<hour, outside, failures>>
Advance(r) ==
    LET m == [marker["production"] EXCEPT !.phase = IF @ >= Step(r) THEN @ ELSE Step(r)]
    IN  /\ RunAt(r, "record") /\ marker["production"] # NoMarker
        /\ marker' = [marker EXCEPT !["production"] = m]
        /\ Continue(r, m)
        /\ UNCHANGED <<hour, outside, failures>>

Completed(m, purgeAt) ==
    IF m.phase = FirebaseIdentityDeleted THEN m
    ELSE [phase |-> FirebaseIdentityDeleted, purgeAt |-> purgeAt]

ReadClock(r) ==          \* one time of completion, for both markers
    /\ RunAt(r, "complete")
    /\ sagaRun' = [sagaRun EXCEPT ![r].pc = "completeStaging", ![r].purgeAt = hour + 2]
    /\ UNCHANGED <<hour, marker, outside, failures>>

CompleteStaging(r) ==
    /\ RunAt(r, "completeStaging") /\ marker["staging"] # NoMarker
    /\ marker' = [marker EXCEPT !["staging"] = Completed(@, sagaRun[r].purgeAt)]
    /\ Proceeds(r, "completeProduction")
    /\ UNCHANGED <<hour, outside, failures>>

CompleteProduction(r) ==
    /\ RunAt(r, "completeProduction") /\ marker["production"] # NoMarker
    /\ marker' = [marker EXCEPT !["production"] = Completed(@, sagaRun[r].purgeAt)]
    /\ Ends(r)
    /\ UNCHANGED <<hour, outside, failures>>

(* The marker went while the run was under way, or the identity did.       *)
MarkerGone(r) ==
    \/ RunAt(r, "record") /\ marker["production"] = NoMarker
    \/ RunAt(r, "completeStaging") /\ marker["staging"] = NoMarker
    \/ RunAt(r, "completeProduction") /\ marker["production"] = NoMarker
RunErrs(r) ==
    /\ Unknown(r) \/ MarkerGone(r)
    /\ Ends(r)
    /\ UNCHANGED <<hour, marker, outside, failures>>

(* A dependency fails, or the process dies.                                *)
RunFails(r) ==
    /\ ~RunAt(r, "idle") /\ Ends(r)
    /\ failures < MaxFailures /\ failures' = failures + 1
    /\ UNCHANGED <<hour, marker, outside>>

Purged(e) == marker[e].purgeAt \in 1..hour
PurgeMarker(e) ==        \* the time to live of the collection
    /\ Purged(e)
    /\ marker' = [marker EXCEPT ![e] = NoMarker]
    /\ UNCHANGED <<hour, sagaRun, outside, failures>>

-----------------------------------------------------------------------------
SagaStep(r) ==
    \/ ResumeIncomplete(r) \/ EnsureProductionMarker(r) \/ EnsureStagingMarker(r)
    \/ Work(r) \/ Advance(r) \/ ReadClock(r) \/ CompleteStaging(r)
    \/ CompleteProduction(r) \/ RunErrs(r)

DeletionNext ==
    \/ Hour
    \/ \E r \in Runner : RequestDeletion(r) \/ SagaStep(r) \/ RunFails(r)
    \/ \E e \in Environment : PurgeMarker(e)

DeletionSpec == DeletionInit /\ [][DeletionNext]_sagaVars

(* The recovery loop passes every thirty seconds, and its dependencies     *)
(* fail for a while only.                                                  *)
DeletionFairness == WF_sagaVars(SagaStep(Recoverer))

-----------------------------------------------------------------------------
(* The identity is the last thing to go, and the marker claims no step     *)
(* that was not done: a resumed run skips what the marker has, whichever   *)
(* run put it there.                                                       *)
MarkerIsTrue ==
    /\ \A p \in CapturesWithdrawn..marker["production"].phase : p \in stepsDone
    /\ IdentityGone => CapturesWithdrawn..FirebaseTokensRevoked \subseteq stepsDone

(* From the first step on, ensure_player_active lets no request of the     *)
(* Player in, in either environment, as long as a token may be valid: the  *)
(* markers are written before anything is done, and outlive the tokens.    *)
LetsIn(e) == marker[e] = NoMarker \/ Purged(e)
TokensValid == ~IdentityGone \/ hour <= tokensEnd
NobodyLetIn ==
    stepsDone # {} /\ TokensValid => \A e \in Environment : ~LetsIn(e)

DeletionInOrder == MarkerIsTrue /\ NobodyLetIn

(* A deletion that was started completes, by the request or by recovery,   *)
(* wherever its runs failed and whatever other runs did meanwhile.         *)
DeletionsFinish ==
    marker["production"].phase # 0 /\ ~IdentityGone
        ~> marker["production"].phase = FirebaseIdentityDeleted

===============================================================================
