--------------------------- MODULE AdmissionProofs ----------------------------
(***************************************************************************)
(* Proofs about EngineAdmission and PlayerTraffic, for any number of calls,*)
(* Players and slots and any limits.  Slots: one workload of a Player in   *)
(* each engine class, no claim that outlives its call, no slot lost or     *)
(* leased twice, and no more callers queued than max_waiting.  Windows: the*)
(* ceiling forgets no lease that counts, no Player exceeds its limit, and  *)
(* who waits as long as a refusal says is let through.                     *)
(***************************************************************************)
EXTENDS EngineAdmission, PlayerTraffic, CollectionLemmas

ClaimsIn(state) ==
    /\ state.pool \in EnginePool /\ ~state.prefetch
    /\ state.principal \in Player /\ state.pc \in Claiming

CallerOK(state) ==
    /\ state \in CallerState
    /\ state.pc \in {"check", "claim", "record", "unclaim"} => state.pool \in EnginePool
    /\ state.pc \in {"claim", "unclaim"} => ~state.prefetch

ClaimInv ==
    /\ caller = [r \in Caller |-> caller[r]] /\ \A r \in Caller : CallerOK(caller[r])
    /\ active \in [Pool -> SUBSET Player]
    /\ OneWorkloadPerPlayer

USE DEF OfEngine

LEMMA ClaimsAreClaimsIn ==
    ASSUME NEW r \in Caller
    PROVE  Claims(r) <=> ClaimsIn(caller[r])
BY DEF Claims, ClaimsIn

(* OneWorkloadPerPlayer of any callers, so that it can be said of the next *)
(* ones too.                                                               *)
Alone(callers) ==
    \A q, r \in Caller :
        /\ ClaimsIn(callers[q]) /\ ClaimsIn(callers[r])
        /\ callers[q].pool = callers[r].pool
        /\ callers[q].principal = callers[r].principal
        => q = r
Claimed(callers, p) ==
    {callers[r].principal : r \in {q \in Caller : callers[q].pool = p /\ ClaimsIn(callers[q])}}

LEMMA OneWorkloadIsAlone ==
    ASSUME \A r \in Caller : CallerOK(caller[r])
    PROVE  OneWorkloadPerPlayer <=>
               Alone(caller) /\ \A p \in Pool : active[p] = Claimed(caller, p)
<1>1. \A p \in Pool : {q \in In(p, CallerPC) : Claims(q)} =
                          {q \in Caller : caller[q].pool = p /\ ClaimsIn(caller[q])}
  BY ClaimsAreClaimsIn DEF In, CallerOK, CallerState
<1> QED BY <1>1, ClaimsAreClaimsIn DEF OneWorkloadPerPlayer, Alone, Claimed

LEMMA NextOneWorkloadIsAlone ==
    ASSUME \A r \in Caller : CallerOK(caller'[r]), Alone(caller'),
           \A p \in Pool : active'[p] = Claimed(caller', p)
    PROVE  OneWorkloadPerPlayer'
<1>1. \A r \in Caller : Claims(r)' <=> ClaimsIn(caller'[r])
  BY DEF Claims, ClaimsIn
<1>2. ASSUME NEW p \in Pool
      PROVE  {q \in In(p, CallerPC) : Claims(q)}' =
                 {q \in Caller : caller'[q].pool = p /\ ClaimsIn(caller'[q])}
  BY <1>1 DEF In, CallerOK, CallerState
<1> QED BY <1>1, <1>2 DEF OneWorkloadPerPlayer, Alone, Claimed

LEMMA AdmissionInitInv == AdmissionInit => ClaimInv
<1> SUFFICES ASSUME AdmissionInit PROVE ClaimInv
  OBVIOUS
<1>1. ASSUME NEW r \in Caller PROVE CallerOK(caller[r]) /\ ~ClaimsIn(caller[r])
  BY DEF AdmissionInit, NotAsked, CallerOK, CallerState, CallerPC, Pool, ClaimsIn, Claiming, Counted
<1>2. OneWorkloadPerPlayer
  BY <1>1, OneWorkloadIsAlone DEF AdmissionInit, Alone, Claimed
<1> QED BY <1>1, <1>2 DEF AdmissionInit, ClaimInv

-----------------------------------------------------------------------------
(* A step of r after which it claims what it claimed before.               *)
LEMMA StateKeeps ==
    ASSUME ClaimInv, NEW r \in Caller, NEW state, CallerOK(state),
           caller' = [caller EXCEPT ![r] = state], UNCHANGED active,
           ClaimsIn(state) <=> ClaimsIn(caller[r]),
           ClaimsIn(state) => /\ state.pool = caller[r].pool
                              /\ state.principal = caller[r].principal
    PROVE  ClaimInv'
<1>1. /\ caller'[r] = state
      /\ \A q \in Caller : q # r => caller'[q] = caller[q]
  BY DEF ClaimInv
<1>2. ASSUME NEW q \in Caller PROVE CallerOK(caller[q])'
  BY <1>1 DEF ClaimInv, CallerOK, CallerState
<1>3. \A q \in Caller : /\ ClaimsIn(caller[q])' <=> ClaimsIn(caller[q])
                        /\ ClaimsIn(caller[q]) => /\ caller'[q].pool = caller[q].pool
                                                  /\ caller'[q].principal = caller[q].principal
  BY <1>1 DEF ClaimsIn
<1>4. OneWorkloadPerPlayer'
  <2>1. \A q \in Caller : Claims(q)' <=> Claims(q)
    BY <1>3 DEF Claims, ClaimsIn
  <2>2. \A q \in Caller : Claims(q) => /\ caller'[q].pool = caller[q].pool
                                       /\ caller'[q].principal = caller[q].principal
    BY <1>3, ClaimsAreClaimsIn
  <2>3. \A p \in Pool : {q \in In(p, CallerPC) : Claims(q)}' = {q \in In(p, CallerPC) : Claims(q)}
    BY <1>2, <2>1, <2>2 DEF ClaimInv, In, CallerOK, CallerState
  <2>4. ASSUME NEW p \in Pool
        PROVE  {caller[q].principal : q \in {s \in In(p, CallerPC) : Claims(s)}}'
                   = {caller[q].principal : q \in {s \in In(p, CallerPC) : Claims(s)}}
    BY <2>2, <2>3 DEF In
  <2> QED BY <2>1, <2>2, <2>4 DEF ClaimInv, OneWorkloadPerPlayer
<1> QED BY <1>2, <1>4 DEF ClaimInv

(* A call with its claim, or without one, goes from stage to stage.        *)
LEMMA MoveKeeps ==
    ASSUME ClaimInv, NEW r \in Caller, NEW pc, Move(r, pc), UNCHANGED active,
           \/ /\ caller[r].pc \in Claiming /\ pc \in Claiming \ {"unclaim", "record"}
           \/ /\ caller[r].pc \in Claiming /\ pc = "record" /\ OfEngine(r)
           \/ /\ caller[r].pc \in Claiming /\ pc = "unclaim"
              /\ OfEngine(r) /\ ~caller[r].prefetch
           \/ /\ ~ClaimsIn(caller[r]) /\ pc = "done"
    PROVE  ClaimInv'
<1>1. CASE pc = "done"
  <2>1. CallerOK([NotAsked EXCEPT !.pc = "done"]) /\ ~ClaimsIn([NotAsked EXCEPT !.pc = "done"])
    BY DEF CallerOK, CallerState, CallerPC, NotAsked, Pool, ClaimsIn, Claiming, Counted
  <2>2. ~ClaimsIn(caller[r])
    BY <1>1 DEF Claiming, Counted
  <2> QED BY <1>1, <2>1, <2>2, StateKeeps DEF Move
<1>2. CASE pc # "done"
  <2> DEFINE state == [caller[r] EXCEPT !.pc = pc]
  <2>1. caller' = [caller EXCEPT ![r] = state]
    BY <1>2 DEF Move
  <2>2. CallerOK(state)
    BY <1>2 DEF ClaimInv, CallerOK, CallerState, CallerPC, Claiming, Counted
  <2>3. /\ ClaimsIn(state) <=> ClaimsIn(caller[r])
        /\ state.pool = caller[r].pool /\ state.principal = caller[r].principal
    BY <1>2 DEF ClaimInv, CallerOK, CallerState, ClaimsIn, Claiming, Counted
  <2> QED BY <2>1, <2>2, <2>3, StateKeeps
<1> QED BY <1>1, <1>2

(* A call without a claim ends; one with a claim drops it next.            *)
LEMMA EndKeeps ==
    ASSUME ClaimInv, NEW r \in Caller, End(r), UNCHANGED active, caller[r].pc \in Claiming
    PROVE  ClaimInv'
<1>1. CASE OfEngine(r) /\ ~caller[r].prefetch
  BY <1>1, MoveKeeps DEF End
<1>2. CASE ~(OfEngine(r) /\ ~caller[r].prefetch)
  <2>1. ~ClaimsIn(caller[r])
    BY <1>2 DEF ClaimsIn
  <2> QED BY <1>2, <2>1, MoveKeeps DEF End
<1> QED BY <1>1, <1>2

-----------------------------------------------------------------------------
LEMMA AskKeeps ==
    ASSUME ClaimInv, NEW r \in Caller, Ask(r), AdmissionAssumption PROVE ClaimInv'
<1>1. PICK call \in SlotCalls :
          caller' = [caller EXCEPT ![r] =
              [pc |-> IF call.pool \in EnginePool THEN "check" ELSE "try",
               pool |-> call.pool, principal |-> call.principal, prefetch |-> call.prefetch]]
  BY DEF Ask
<1> DEFINE state == [pc |-> IF call.pool \in EnginePool THEN "check" ELSE "try",
                     pool |-> call.pool, principal |-> call.principal,
                     prefetch |-> call.prefetch]
<1>2. CallerOK(state) /\ ~ClaimsIn(state)
  BY DEF AdmissionAssumption, CallerOK, CallerState, CallerPC, ClaimsIn, Claiming, Counted
<1>3. ~ClaimsIn(caller[r])
  BY DEF Ask, ClaimsIn, Claiming, Counted
<1> QED BY <1>1, <1>2, <1>3, StateKeeps DEF Ask

(* Before the claim, a call claims nothing.                                *)
LEMMA CheckCeilingKeeps ==
    ASSUME ClaimInv, NEW r \in Caller, CheckCeiling(r) PROVE ClaimInv'
<1>1. /\ caller[r].pc = "check" /\ UNCHANGED active
      /\ \/ Move(r, "done")
         \/ caller[r].prefetch /\ Move(r, "try")
         \/ ~caller[r].prefetch /\ Move(r, "claim")
  BY DEF CheckCeiling
<1>2. caller[r] \in CallerState /\ OfEngine(r) /\ ~ClaimsIn(caller[r])
  BY <1>1 DEF ClaimInv, CallerOK, ClaimsIn, Claiming, Counted
<1>3. CASE Move(r, "done")
  BY <1>1, <1>2, <1>3, MoveKeeps
<1>4. ASSUME NEW pc \in {"try", "claim"}, pc = "try" <=> caller[r].prefetch, Move(r, pc)
      PROVE  ClaimInv'
  <2> DEFINE state == [caller[r] EXCEPT !.pc = pc]
  <2>1. caller' = [caller EXCEPT ![r] = state]
    BY <1>4 DEF Move
  <2>2. CallerOK(state) /\ ~ClaimsIn(state)
    BY <1>2, <1>4 DEF CallerOK, CallerState, CallerPC, ClaimsIn, Claiming, Counted
  <2> QED BY <1>1, <1>2, <2>1, <2>2, StateKeeps
<1> QED BY <1>1, <1>3, <1>4

(* A Player that is active is refused, so that the claim taken is alone.   *)
LEMMA ClaimKeeps ==
    ASSUME ClaimInv, NEW r \in Caller, Claim(r), AdmissionAssumption PROVE ClaimInv'
<1>0. PICK p \in Pool, player \in Player \cup {LocalCoach} :
          p = caller[r].pool /\ player = caller[r].principal
  BY DEF ClaimInv, CallerOK, CallerState
<1>1. /\ caller[r].pc = "claim" /\ CallerOK(caller[r]) /\ ~ClaimsIn(caller[r])
      /\ OfEngine(r) /\ ~caller[r].prefetch
  BY DEF Claim, ClaimInv, CallerOK, ClaimsIn, Claiming, Counted
<1>2. CASE player \in active[p]
  <2>1. Move(r, "done")
    BY <1>0, <1>2 DEF Claim
  <2>2. UNCHANGED active
    BY <1>0, <1>2 DEF Claim, ClaimInv
  <2> QED BY <1>1, <2>1, <2>2, MoveKeeps
<1>3. CASE player \notin active[p]
  <2> DEFINE state == [caller[r] EXCEPT !.pc = "try"]
  <2>1. /\ caller' = [caller EXCEPT ![r] = state]
        /\ active' = IF player = LocalCoach THEN active
                     ELSE [active EXCEPT ![p] = @ \cup {player}]
    BY <1>0, <1>3 DEF Claim, Move
  <2>2. /\ CallerOK(state) /\ (ClaimsIn(state) <=> player \in Player)
        /\ state.pool = p /\ state.principal = player
    BY <1>0, <1>1 DEF CallerOK, CallerState, CallerPC, ClaimsIn, Claiming, Counted
  <2>3. CASE player = LocalCoach
    BY <1>1, <2>1, <2>2, <2>3, StateKeeps DEF AdmissionAssumption
  <2>4. CASE player # LocalCoach
    <3>1. /\ caller'[r] = state
          /\ \A q \in Caller : q # r => caller'[q] = caller[q]
          /\ active'[p] = active[p] \cup {player}
          /\ \A o \in Pool : o # p => active'[o] = active[o]
      BY <2>1, <2>4 DEF ClaimInv
    <3> HIDE DEF state
    <3>2. \A q \in Caller : CallerOK(caller'[q])
      BY <2>2, <3>1 DEF ClaimInv
    <3>3. Alone(caller) /\ \A o \in Pool : active[o] = Claimed(caller, o)
      BY OneWorkloadIsAlone DEF ClaimInv
    <3>4. ~\E q \in Caller :
              ClaimsIn(caller[q]) /\ caller[q].pool = p /\ caller[q].principal = player
      BY <1>0, <1>1, <1>3, <3>3 DEF Claimed, CallerOK, CallerState
    <3>5. Alone(caller')
      BY <2>2, <3>1, <3>3, <3>4 DEF Alone
    <3>6. ASSUME NEW o \in Pool PROVE active'[o] = Claimed(caller', o)
      <4>1. CASE o = p
        <5>1. player \in Claimed(caller', p)
          BY <2>2, <2>4, <3>1 DEF Claimed
        <5>2. Claimed(caller', p) = Claimed(caller, p) \cup {player}
          BY <1>1, <2>2, <3>1, <5>1 DEF Claimed
        <5> QED BY <3>1, <3>3, <4>1, <5>2
      <4>2. CASE o # p
        <5>1. Claimed(caller', o) = Claimed(caller, o)
          BY <1>1, <2>2, <3>1, <4>2 DEF Claimed
        <5> QED BY <3>1, <3>3, <4>2, <5>1
      <4> QED BY <4>1, <4>2
    <3>7. OneWorkloadPerPlayer'
      BY <3>2, <3>5, <3>6, NextOneWorkloadIsAlone
    <3>8. active' \in [Pool -> SUBSET Player]
      BY <1>0, <2>1, <2>4 DEF ClaimInv
    <3> QED BY <2>1, <3>2, <3>7, <3>8 DEF ClaimInv, CallerOK, CallerState
  <2> QED BY <2>3, <2>4
<1> QED BY <1>2, <1>3

(* The claim dropped was the only one of its Player.                       *)
LEMMA DropClaimKeeps ==
    ASSUME ClaimInv, NEW r \in Caller, DropClaim(r), AdmissionAssumption PROVE ClaimInv'
<1> DEFINE state == [NotAsked EXCEPT !.pc = "done"]
<1>0. PICK p \in Pool, player \in Player \cup {LocalCoach} :
          p = caller[r].pool /\ player = caller[r].principal
  BY DEF ClaimInv, CallerOK, CallerState
<1>1. /\ caller' = [caller EXCEPT ![r] = state]
      /\ active' = [active EXCEPT ![p] = @ \ {player}]
  BY <1>0 DEF DropClaim, Move
<1>2. CallerOK(state) /\ ~ClaimsIn(state)
  BY DEF CallerOK, CallerState, CallerPC, NotAsked, Pool, ClaimsIn, Claiming, Counted
<1> HIDE DEF state
<1>3. /\ caller'[r] = state
      /\ \A q \in Caller : q # r => caller'[q] = caller[q]
      /\ active'[p] = active[p] \ {player}
      /\ \A o \in Pool : o # p => active'[o] = active[o]
  BY <1>1 DEF ClaimInv
<1>4. ClaimsIn(caller[r]) <=> player \in Player
  BY <1>0 DEF DropClaim, ClaimInv, CallerOK, ClaimsIn, Claiming
<1>5. \A q \in Caller : CallerOK(caller'[q])
  BY <1>2, <1>3 DEF ClaimInv
<1>6. Alone(caller) /\ \A o \in Pool : active[o] = Claimed(caller, o)
  BY OneWorkloadIsAlone DEF ClaimInv
<1>7. Alone(caller')
  BY <1>2, <1>3, <1>6 DEF Alone
<1>8. ASSUME NEW o \in Pool PROVE active'[o] = Claimed(caller', o)
  <2>1. CASE o = p
    <3>1. \A q \in Caller : ClaimsIn(caller[q]) /\ caller[q].pool = p
                            /\ caller[q].principal = player => q = r
      BY <1>0, <1>4, <1>6 DEF Alone, ClaimsIn
    <3>2. Claimed(caller', p) = Claimed(caller, p) \ {player}
      BY <1>0, <1>2, <1>3, <3>1 DEF Claimed
    <3> QED BY <1>3, <1>6, <2>1, <3>2
  <2>2. CASE o # p
    <3>1. Claimed(caller', o) = Claimed(caller, o)
      BY <1>0, <1>2, <1>3, <2>2 DEF Claimed
    <3> QED BY <1>3, <1>6, <2>2, <3>1
  <2> QED BY <2>1, <2>2
<1>9. OneWorkloadPerPlayer' /\ active' \in [Pool -> SUBSET Player]
  BY <1>1, <1>5, <1>7, <1>8, NextOneWorkloadIsAlone DEF ClaimInv
<1> QED BY <1>1, <1>5, <1>9 DEF ClaimInv, CallerOK, CallerState

-----------------------------------------------------------------------------
(* From the slot to the lease, the claim is the caller's.                  *)
LEMMA SlotStepsKeep ==
    ASSUME ClaimInv, NEW r \in Caller,
           \/ TryAcquire(r) \/ Count(r) \/ JoinQueue(r) \/ Grant(r) \/ LeaveQueue(r)
           \/ Uncount(r) \/ Record(r) \/ ReleasePermit(r)
    PROVE  ClaimInv'
<1>1. caller[r].pc \in Claiming /\ UNCHANGED active
  BY DEF TryAcquire, Count, JoinQueue, Grant, LeaveQueue, Uncount, Record, ReleasePermit,
         Claiming, Counted
<1>2. \/ Move(r, Admitted(r))
      \/ caller[r].prefetch /\ Move(r, "done")
      \/ \E pc \in Claiming \ {"unclaim", "record"} : Move(r, pc)
      \/ End(r)
  BY DEF TryAcquire, Count, JoinQueue, Grant, LeaveQueue, Uncount, Record, ReleasePermit,
         Claiming, Counted
<1>3. CASE Move(r, Admitted(r))
  BY <1>1, <1>3, MoveKeeps DEF Admitted, Claiming
<1>4. CASE caller[r].prefetch /\ Move(r, "done")
  BY <1>1, <1>4, MoveKeeps DEF ClaimsIn
<1>5. CASE \E pc \in Claiming \ {"unclaim", "record"} : Move(r, pc)
  BY <1>1, <1>5, MoveKeeps
<1>6. CASE End(r)
  BY <1>1, <1>6, EndKeeps
<1> QED BY <1>2, <1>3, <1>4, <1>5, <1>6

LEMMA AdmissionStep == ClaimInv /\ [AdmissionNext]_admissionVars => ClaimInv'
<1> SUFFICES ASSUME ClaimInv, [AdmissionNext]_admissionVars PROVE ClaimInv'
  OBVIOUS
<1>1. ASSUME NEW r \in Caller, Ask(r) \/ Proceed(r) \/ LeaveQueue(r)
      PROVE  ClaimInv'
  BY <1>1, AdmissionAssumption, AskKeeps, CheckCeilingKeeps, ClaimKeeps, SlotStepsKeep,
     DropClaimKeeps DEF Proceed
<1>2. CASE Tick \/ UNCHANGED admissionVars
  <2>1. UNCHANGED <<caller, active>>
    BY <1>2 DEF Tick, admissionVars
  <2> QED BY <2>1 DEF ClaimInv, CallerOK, CallerState, OneWorkloadPerPlayer, Claims, In
<1> QED BY <1>1, <1>2 DEF AdmissionNext

(* A Player has one workload in an engine class, from the claim to the end *)
(* of the lease, and no claim outlives its call, whichever of the exits    *)
(* the call takes (PlayerClaim::acquire and its Drop).                     *)
THEOREM OneWorkloadOfAPlayer == AdmissionSpec => []OneWorkloadPerPlayer
<1>1. AdmissionSpec => []ClaimInv
  BY AdmissionInitInv, AdmissionStep, PTL DEF AdmissionSpec
<1>2. ClaimInv => OneWorkloadPerPlayer
  BY DEF ClaimInv
<1> QED BY <1>1, <1>2, PTL

-----------------------------------------------------------------------------
(* Who is where.  "done" is no stage that is counted.                      *)
LEMMA MoveIn ==
    ASSUME ClaimInv, NEW r \in Caller, NEW pc, Move(r, pc), NEW p \in Pool, NEW stages,
           "done" \notin stages
    PROVE  /\ r \in In(p, stages) <=> p = caller[r].pool /\ caller[r].pc \in stages
           /\ r \in In(p, stages)' <=> p = caller[r].pool /\ pc \in stages
           /\ \A q \in Caller : q # r => (q \in In(p, stages)' <=> q \in In(p, stages))
           /\ In(p, stages) \subseteq Caller /\ In(p, stages)' \subseteq Caller
<1> DEFINE state == IF pc = "done" THEN [NotAsked EXCEPT !.pc = "done"]
                    ELSE [caller[r] EXCEPT !.pc = pc]
<1>1. caller' = [caller EXCEPT ![r] = state]
  BY DEF Move
<1>2. state.pc = pc /\ (pc # "done" => state.pool = caller[r].pool)
  <2>1. CASE pc = "done"
    BY <2>1 DEF NotAsked
  <2>2. CASE pc # "done"
    BY <2>2 DEF ClaimInv, CallerOK, CallerState
  <2> QED BY <2>1, <2>2
<1> HIDE DEF state
<1>3. caller'[r] = state /\ \A q \in Caller : q # r => caller'[q] = caller[q]
  BY <1>1 DEF ClaimInv
<1> QED BY <1>2, <1>3 DEF In

LEMMA StaysIn ==
    ASSUME ClaimInv, NEW r \in Caller, NEW pc, Move(r, pc), NEW p \in Pool, NEW stages,
           "done" \notin stages,
           p = caller[r].pool => (caller[r].pc \in stages <=> pc \in stages)
    PROVE  In(p, stages)' = In(p, stages)
<1>1. \A q \in Caller : q \in In(p, stages)' <=> q \in In(p, stages)
  BY MoveIn
<1>2. In(p, stages) \subseteq Caller /\ In(p, stages)' \subseteq Caller
  BY MoveIn
<1> QED BY <1>1, <1>2

LEMMA EntersIn ==
    ASSUME ClaimInv, NEW r \in Caller, NEW pc, Move(r, pc), NEW p \in Pool, NEW stages,
           "done" \notin stages, p = caller[r].pool, caller[r].pc \notin stages, pc \in stages,
           IsFiniteSet(In(p, stages))
    PROVE  /\ In(p, stages)' = In(p, stages) \cup {r} /\ r \notin In(p, stages)
           /\ IsFiniteSet(In(p, stages)') /\ Cardinality(In(p, stages)) \in Nat
           /\ Cardinality(In(p, stages)') = Cardinality(In(p, stages)) + 1
<1>1. In(p, stages)' = In(p, stages) \cup {r} /\ r \notin In(p, stages)
  BY MoveIn
<1> QED BY <1>1, FS_AddElement, FS_CardinalityType

LEMMA LeavesIn ==
    ASSUME ClaimInv, NEW r \in Caller, NEW pc, Move(r, pc), NEW p \in Pool, NEW stages,
           "done" \notin stages, p = caller[r].pool, caller[r].pc \in stages, pc \notin stages,
           IsFiniteSet(In(p, stages))
    PROVE  /\ In(p, stages)' = In(p, stages) \ {r} /\ r \in In(p, stages)
           /\ IsFiniteSet(In(p, stages)') /\ Cardinality(In(p, stages)) \in Nat
           /\ Cardinality(In(p, stages)') = Cardinality(In(p, stages)) - 1
<1>1. In(p, stages)' = In(p, stages) \ {r} /\ r \in In(p, stages)
  BY MoveIn
<1> QED BY <1>1, FS_RemoveElement, FS_CardinalityType

(* The slots, the queue and the counter of one pool.                       *)
Queued == {"enqueue", "wait"}
PermitsOK(p) ==
    /\ free[p] \in Nat /\ IsFiniteSet(In(p, WithPermit))
    /\ free[p] + Cardinality(In(p, WithPermit)) = Slots[p]
QueueOK(p) ==
    /\ slotQueue[p] \in Seq(Caller) /\ Once(slotQueue[p])
    /\ ToSet(slotQueue[p]) = In(p, {"wait"})
CountOK(p) ==
    /\ IsFiniteSet(In(p, Counted)) /\ waiting[p] = Cardinality(In(p, Counted))
    /\ Cardinality(In(p, Queued)) <= MaxWaiting[p]

SlotsInv ==
    /\ ClaimInv
    /\ free = [p \in Pool |-> free[p]] /\ slotQueue = [p \in Pool |-> slotQueue[p]]
    /\ waiting = [p \in Pool |-> waiting[p]]
    /\ \A p \in Pool : PermitsOK(p) /\ QueueOK(p) /\ CountOK(p)

LEMMA SlotsInitInv == AdmissionInit => SlotsInv
<1> SUFFICES ASSUME AdmissionInit PROVE SlotsInv
  OBVIOUS
<1>1. \A p \in Pool : /\ In(p, WithPermit) = {} /\ In(p, {"wait"}) = {}
                      /\ In(p, Counted) = {} /\ In(p, Queued) = {}
  BY DEF AdmissionInit, In, NotAsked, WithPermit, Counted, Queued
<1>2. IsFiniteSet({}) /\ Cardinality({}) = 0
  BY FS_EmptySet
<1>3. ASSUME NEW p \in Pool PROVE PermitsOK(p)
  <2>1. free[p] \in Nat /\ free[p] = Slots[p]
    BY AdmissionAssumption DEF AdmissionInit
  <2> QED BY <1>1, <1>2, <2>1 DEF PermitsOK
<1>4. ASSUME NEW p \in Pool PROVE QueueOK(p)
  <2>1. slotQueue[p] = <<>>
    BY DEF AdmissionInit
  <2> QED BY <1>1, <2>1 DEF QueueOK, Once, ToSet
<1>5. ASSUME NEW p \in Pool PROVE CountOK(p)
  <2>1. waiting[p] = 0 /\ MaxWaiting[p] \in Nat
    BY AdmissionAssumption DEF AdmissionInit
  <2> QED BY <1>1, <1>2, <2>1 DEF CountOK
<1>6. free = [p \in Pool |-> free[p]]
  BY AdmissionAssumption DEF AdmissionInit
<1> QED BY <1>3, <1>4, <1>5, <1>6, AdmissionInitInv DEF SlotsInv, AdmissionInit

-----------------------------------------------------------------------------
(* What a step of r leaves alone.                                          *)
LEMMA PermitsKeep ==
    ASSUME SlotsInv, NEW r \in Caller, NEW pc, Move(r, pc), NEW p \in Pool,
           p = caller[r].pool => (caller[r].pc \in WithPermit <=> pc \in WithPermit),
           free'[p] = free[p]
    PROVE  PermitsOK(p)'
<1>1. In(p, WithPermit)' = In(p, WithPermit)
  BY StaysIn DEF SlotsInv, WithPermit
<1> QED BY <1>1 DEF SlotsInv, PermitsOK

LEMMA QueueKeeps ==
    ASSUME SlotsInv, NEW r \in Caller, NEW pc, Move(r, pc), NEW p \in Pool,
           p = caller[r].pool => (caller[r].pc = "wait" <=> pc = "wait"),
           slotQueue'[p] = slotQueue[p]
    PROVE  QueueOK(p)'
<1>1. In(p, {"wait"})' = In(p, {"wait"})
  BY StaysIn DEF SlotsInv
<1> QED BY <1>1 DEF SlotsInv, QueueOK

LEMMA CountKeeps ==
    ASSUME SlotsInv, NEW r \in Caller, NEW pc, Move(r, pc), NEW p \in Pool,
           p = caller[r].pool => /\ caller[r].pc \in Counted <=> pc \in Counted
                                 /\ pc \in Queued => caller[r].pc \in Queued,
           waiting'[p] = waiting[p]
    PROVE  CountOK(p)'
<1>1. In(p, Counted)' = In(p, Counted)
  BY StaysIn DEF SlotsInv, Counted
<1>2. IsFiniteSet(In(p, Queued))
  <2>1. In(p, Queued) \subseteq In(p, Counted) /\ IsFiniteSet(In(p, Counted))
    BY DEF SlotsInv, CountOK, In, Queued, Counted
  <2> QED BY <2>1, FS_Subset
<1>3. Cardinality(In(p, Queued)') <= MaxWaiting[p]
  <2>1. Cardinality(In(p, Queued)) <= MaxWaiting[p] /\ Cardinality(In(p, Queued)) \in Nat
        /\ MaxWaiting[p] \in Nat
    BY <1>2, FS_CardinalityType, AdmissionAssumption DEF SlotsInv, CountOK
  <2>2. In(p, Queued)' \subseteq In(p, Queued)
    BY MoveIn DEF SlotsInv, Queued
  <2>3. Cardinality(In(p, Queued)') <= Cardinality(In(p, Queued))
        /\ Cardinality(In(p, Queued)') \in Nat
    BY <1>2, <2>2, FS_Subset, FS_CardinalityType
  <2> QED BY <2>1, <2>3
<1> QED BY <1>1, <1>3 DEF SlotsInv, CountOK

(* A step that concerns neither the slots nor the queue.                   *)
LEMMA AsideKeeps ==
    ASSUME SlotsInv, ClaimInv', NEW r \in Caller, NEW pc, Move(r, pc),
           caller[r].pc \in WithPermit <=> pc \in WithPermit,
           caller[r].pc \notin Counted, pc \notin Counted,
           UNCHANGED <<free, slotQueue, waiting>>
    PROVE  SlotsInv'
<1>1. ASSUME NEW p \in Pool PROVE (PermitsOK(p) /\ QueueOK(p) /\ CountOK(p))'
  BY PermitsKeep, QueueKeeps, CountKeeps DEF Counted, Queued
<1> QED BY <1>1 DEF SlotsInv

(* The pool of r is as it should be; the others are as they were.          *)
LEMMA OwnPool ==
    ASSUME SlotsInv, ClaimInv', NEW r \in Caller, NEW pc, Move(r, pc),
           NEW p \in Pool, p = caller[r].pool,
           free' = [free EXCEPT ![p] = free'[p]],
           slotQueue' = [slotQueue EXCEPT ![p] = slotQueue'[p]],
           waiting' = [waiting EXCEPT ![p] = waiting'[p]],
           PermitsOK(p)', QueueOK(p)', CountOK(p)'
    PROVE  SlotsInv'
<1>1. ASSUME NEW q \in Pool, q # p
      PROVE  free'[q] = free[q] /\ slotQueue'[q] = slotQueue[q] /\ waiting'[q] = waiting[q]
  BY <1>1 DEF SlotsInv
<1>2. ASSUME NEW q \in Pool PROVE (PermitsOK(q) /\ QueueOK(q) /\ CountOK(q))'
  <2>1. CASE q = p
    BY <2>1
  <2>2. CASE q # p
    BY <1>1, <2>2, PermitsKeep, QueueKeeps, CountKeeps
  <2> QED BY <2>1, <2>2
<1> QED BY <1>2 DEF SlotsInv

-----------------------------------------------------------------------------
LEMMA AskSlots ==
    ASSUME SlotsInv, ClaimInv', NEW r \in Caller, Ask(r) PROVE SlotsInv'
<1>1. PICK state : /\ caller' = [caller EXCEPT ![r] = state] /\ state.pc \in {"check", "try"}
                   /\ caller[r].pc = "idle"
  BY DEF Ask
<1>2. caller'[r] = state /\ \A q \in Caller : q # r => caller'[q] = caller[q]
  BY <1>1 DEF SlotsInv, ClaimInv
<1>3. ASSUME NEW p \in Pool, NEW stages \in {WithPermit, {"wait"}, Counted, Queued}
      PROVE  In(p, stages)' = In(p, stages)
  BY <1>1, <1>2, <1>3 DEF In, WithPermit, Counted, Queued
<1>4. UNCHANGED <<free, slotQueue, waiting>>
  BY DEF Ask
<1> QED BY <1>3, <1>4 DEF SlotsInv, PermitsOK, QueueOK, CountOK

LEMMA AsideSlots ==
    ASSUME SlotsInv, ClaimInv', NEW r \in Caller,
           CheckCeiling(r) \/ Claim(r) \/ DropClaim(r) \/ Record(r)
    PROVE  SlotsInv'
<1>1. CASE CheckCeiling(r) \/ Claim(r) \/ DropClaim(r)
  <2>1. /\ \E pc \in {"done", "try", "claim"} : Move(r, pc)
        /\ UNCHANGED <<free, slotQueue, waiting>> /\ caller[r].pc \in {"check", "claim", "unclaim"}
    BY <1>1 DEF CheckCeiling, Claim, DropClaim
  <2> QED BY <2>1, AsideKeeps DEF WithPermit, Counted
<1>2. CASE Record(r)
  <2>1. Move(r, "lease") /\ caller[r].pc = "record" /\ UNCHANGED <<free, slotQueue, waiting>>
    BY <1>2 DEF Record
  <2> QED BY <2>1, AsideKeeps DEF WithPermit, Counted
<1> QED BY <1>1, <1>2

LEMMA TryAcquireSlots ==
    ASSUME SlotsInv, ClaimInv', NEW r \in Caller, TryAcquire(r) PROVE SlotsInv'
<1>0. PICK p \in Pool : p = caller[r].pool
  BY DEF SlotsInv, ClaimInv, CallerOK, CallerState
<1>1. CASE /\ free[p] > 0 /\ free' = [free EXCEPT ![p] = free[p] - 1]
           /\ \E pc \in {"record", "lease"} : Move(r, pc)
  <2>1. PICK pc \in {"record", "lease"} : Move(r, pc)
    BY <1>1
  <2>2. caller[r].pc = "try" /\ UNCHANGED <<slotQueue, waiting>>
    BY DEF TryAcquire
  <2>3. QueueOK(p)' /\ CountOK(p)'
    BY <2>1, <2>2, QueueKeeps, CountKeeps DEF Counted, Queued
  <2>4. /\ IsFiniteSet(In(p, WithPermit)') /\ Cardinality(In(p, WithPermit)) \in Nat
        /\ Cardinality(In(p, WithPermit)') = Cardinality(In(p, WithPermit)) + 1
    BY <1>0, <2>1, <2>2, EntersIn DEF SlotsInv, PermitsOK, WithPermit
  <2>5. free'[p] = free[p] - 1 /\ free[p] \in Nat
    BY <1>1 DEF SlotsInv, PermitsOK
  <2>6. PermitsOK(p)'
    BY <1>1, <2>4, <2>5 DEF SlotsInv, PermitsOK
  <2>7. /\ free' = [free EXCEPT ![p] = free'[p]] /\ slotQueue' = [slotQueue EXCEPT ![p] = slotQueue'[p]]
        /\ waiting' = [waiting EXCEPT ![p] = waiting'[p]]
    BY <1>1, <2>2, <2>5 DEF SlotsInv
  <2> QED BY <1>0, <2>1, <2>3, <2>6, <2>7, OwnPool
<1>2. CASE \E pc \in {"done", "count"} : Move(r, pc) /\ UNCHANGED free
  <2>1. caller[r].pc = "try" /\ UNCHANGED <<free, slotQueue, waiting>>
    BY <1>2 DEF TryAcquire
  <2> QED BY <1>2, <2>1, AsideKeeps DEF WithPermit, Counted
<1> QED BY <1>0, <1>1, <1>2 DEF TryAcquire, Admitted

(* The counter decides on its old value, so that the place is the caller's *)
(* own when it queues.                                                     *)
LEMMA CountSlots ==
    ASSUME SlotsInv, ClaimInv', NEW r \in Caller, Count(r) PROVE SlotsInv'
<1>0. PICK p \in Pool : p = caller[r].pool
  BY DEF SlotsInv, ClaimInv, CallerOK, CallerState
<1>1. PICK pc \in {"refused", "enqueue"} :
          Move(r, pc) /\ (pc = "enqueue" => ~(waiting[p] >= MaxWaiting[p]))
  BY <1>0 DEF Count
<1>2. /\ caller[r].pc = "count" /\ UNCHANGED <<free, slotQueue>>
      /\ waiting' = [waiting EXCEPT ![p] = waiting[p] + 1]
  BY <1>0 DEF Count
<1>3. PermitsOK(p)' /\ QueueOK(p)'
  BY <1>1, <1>2, PermitsKeep, QueueKeeps DEF WithPermit
<1>4. /\ IsFiniteSet(In(p, Counted)') /\ Cardinality(In(p, Counted)) \in Nat
      /\ Cardinality(In(p, Counted)') = Cardinality(In(p, Counted)) + 1
  BY <1>0, <1>1, <1>2, EntersIn DEF SlotsInv, CountOK, Counted
<1>5. waiting'[p] = waiting[p] + 1 /\ waiting[p] = Cardinality(In(p, Counted))
  BY <1>2 DEF SlotsInv, CountOK
<1>6. /\ IsFiniteSet(In(p, Queued)) /\ Cardinality(In(p, Queued)) \in Nat
      /\ Cardinality(In(p, Queued)) <= Cardinality(In(p, Counted))
      /\ Cardinality(In(p, Queued)) <= MaxWaiting[p]
  <2>1. In(p, Queued) \subseteq In(p, Counted) /\ IsFiniteSet(In(p, Counted))
    BY DEF SlotsInv, CountOK, In, Queued, Counted
  <2> QED BY <2>1, FS_Subset, FS_CardinalityType DEF SlotsInv, CountOK
<1>7. Cardinality(In(p, Queued)') <= MaxWaiting[p]
  <2>1. CASE pc = "enqueue"
    <3>1. Cardinality(In(p, Queued)') = Cardinality(In(p, Queued)) + 1
      BY <1>0, <1>1, <1>2, <1>6, <2>1, EntersIn DEF SlotsInv, Queued
    <3>2. ~(waiting[p] >= MaxWaiting[p]) /\ MaxWaiting[p] \in Nat
      BY <1>1, <2>1, AdmissionAssumption
    <3> QED BY <1>4, <1>5, <1>6, <3>1, <3>2
  <2>2. CASE pc = "refused"
    <3>1. In(p, Queued)' = In(p, Queued)
      BY <1>0, <1>1, <1>2, <2>2, StaysIn DEF SlotsInv, Queued
    <3> QED BY <1>6, <3>1
  <2> QED BY <2>1, <2>2
<1>8. CountOK(p)'
  BY <1>4, <1>5, <1>7 DEF CountOK
<1>9. /\ free' = [free EXCEPT ![p] = free'[p]] /\ slotQueue' = [slotQueue EXCEPT ![p] = slotQueue'[p]]
      /\ waiting' = [waiting EXCEPT ![p] = waiting'[p]]
  BY <1>2, <1>5 DEF SlotsInv
<1> QED BY <1>0, <1>1, <1>3, <1>8, <1>9, OwnPool

LEMMA JoinQueueSlots ==
    ASSUME SlotsInv, ClaimInv', NEW r \in Caller, JoinQueue(r) PROVE SlotsInv'
<1>0. PICK p \in Pool : p = caller[r].pool
  BY DEF SlotsInv, ClaimInv, CallerOK, CallerState
<1>1. /\ caller[r].pc = "enqueue" /\ Move(r, "wait") /\ UNCHANGED <<free, waiting>>
      /\ slotQueue' = [slotQueue EXCEPT ![p] = Append(slotQueue[p], r)]
  BY <1>0 DEF JoinQueue
<1>2. PermitsOK(p)' /\ CountOK(p)'
  BY <1>1, PermitsKeep, CountKeeps DEF WithPermit, Counted, Queued
<1>3. In(p, {"wait"})' = In(p, {"wait"}) \cup {r} /\ r \notin In(p, {"wait"})
  BY <1>0, <1>1, MoveIn DEF SlotsInv
<1>4. slotQueue'[p] = Append(slotQueue[p], r)
  BY <1>1 DEF SlotsInv
<1>5. QueueOK(p)'
  <2>1. /\ slotQueue[p] \in Seq(Caller) /\ Once(slotQueue[p])
        /\ ToSet(slotQueue[p]) = In(p, {"wait"})
    BY DEF SlotsInv, QueueOK
  <2> DEFINE queue == Append(slotQueue[p], r)
  <2>2. ASSUME NEW q \in Seq(Caller), Once(q), r \notin ToSet(q)
        PROVE  Append(q, r) \in Seq(Caller) /\ Once(Append(q, r)) /\ ToSet(Append(q, r)) = ToSet(q) \cup {r}
    BY <2>2, AppendKeeps
  <2>3. queue \in Seq(Caller) /\ Once(queue) /\ ToSet(queue) = ToSet(slotQueue[p]) \cup {r}
    BY <1>3, <2>1, <2>2
  <2> HIDE DEF queue
  <2>4. slotQueue'[p] = queue
    BY <1>4 DEF queue
  <2> QED BY <1>3, <2>1, <2>3, <2>4 DEF QueueOK
<1>6. /\ free' = [free EXCEPT ![p] = free'[p]] /\ slotQueue' = [slotQueue EXCEPT ![p] = slotQueue'[p]]
      /\ waiting' = [waiting EXCEPT ![p] = waiting'[p]]
  BY <1>1, <1>4 DEF SlotsInv
<1> QED BY <1>0, <1>1, <1>2, <1>5, <1>6, OwnPool

LEMMA GrantSlots ==
    ASSUME SlotsInv, ClaimInv', NEW r \in Caller, Grant(r) PROVE SlotsInv'
<1>0. PICK p \in Pool : p = caller[r].pool
  BY DEF SlotsInv, ClaimInv, CallerOK, CallerState
<1>1. /\ caller[r].pc = "wait" /\ Move(r, "granted") /\ UNCHANGED waiting
      /\ Head(slotQueue[p]) = r /\ free[p] > 0
      /\ free' = [free EXCEPT ![p] = free[p] - 1]
      /\ slotQueue' = [slotQueue EXCEPT ![p] = Tail(slotQueue[p])]
  BY <1>0 DEF Grant
<1>2. CountOK(p)'
  BY <1>1, CountKeeps DEF Counted, Queued
<1>3. In(p, {"wait"})' = In(p, {"wait"}) \ {r} /\ r \in In(p, {"wait"})
  BY <1>0, <1>1, MoveIn DEF SlotsInv
<1>4. slotQueue'[p] = Tail(slotQueue[p])
  BY <1>1 DEF SlotsInv
<1>5. QueueOK(p)'
  <2>1. slotQueue[p] # <<>>
    BY <1>3 DEF SlotsInv, QueueOK, ToSet
  <2> QED BY <1>1, <1>3, <1>4, <2>1, TailKeeps DEF SlotsInv, QueueOK
<1>6. /\ IsFiniteSet(In(p, WithPermit)') /\ Cardinality(In(p, WithPermit)) \in Nat
      /\ Cardinality(In(p, WithPermit)') = Cardinality(In(p, WithPermit)) + 1
  BY <1>0, <1>1, EntersIn DEF SlotsInv, PermitsOK, WithPermit
<1>7. free'[p] = free[p] - 1 /\ free[p] \in Nat
  BY <1>1 DEF SlotsInv, PermitsOK
<1>8. PermitsOK(p)'
  BY <1>1, <1>6, <1>7 DEF SlotsInv, PermitsOK
<1>9. /\ free' = [free EXCEPT ![p] = free'[p]] /\ slotQueue' = [slotQueue EXCEPT ![p] = slotQueue'[p]]
      /\ waiting' = [waiting EXCEPT ![p] = waiting'[p]]
  BY <1>1, <1>4, <1>7 DEF SlotsInv
<1> QED BY <1>0, <1>1, <1>2, <1>5, <1>8, <1>9, OwnPool

LEMMA LeaveQueueSlots ==
    ASSUME SlotsInv, ClaimInv', NEW r \in Caller, LeaveQueue(r) PROVE SlotsInv'
<1>0. PICK p \in Pool : p = caller[r].pool
  BY DEF SlotsInv, ClaimInv, CallerOK, CallerState
<1>1. /\ caller[r].pc = "wait" /\ Move(r, "timedOut") /\ UNCHANGED <<free, waiting>>
      /\ slotQueue' = [slotQueue EXCEPT ![p] = RemoveFirst(slotQueue[p], r)]
  BY <1>0 DEF LeaveQueue
<1>2. PermitsOK(p)' /\ CountOK(p)'
  BY <1>1, PermitsKeep, CountKeeps DEF WithPermit, Counted, Queued
<1>3. In(p, {"wait"})' = In(p, {"wait"}) \ {r}
  BY <1>0, <1>1, MoveIn DEF SlotsInv
<1>4. slotQueue'[p] = RemoveFirst(slotQueue[p], r)
  BY <1>1 DEF SlotsInv
<1>5. QueueOK(p)'
  <2>1. /\ slotQueue[p] \in Seq(Caller) /\ Once(slotQueue[p])
        /\ ToSet(slotQueue[p]) = In(p, {"wait"})
    BY DEF SlotsInv, QueueOK
  <2> DEFINE queue == RemoveFirst(slotQueue[p], r)
  <2>2. ASSUME NEW q \in Seq(Caller), Once(q)
        PROVE  RemoveFirst(q, r) \in Seq(Caller) /\ Once(RemoveFirst(q, r)) /\ ToSet(RemoveFirst(q, r)) = ToSet(q) \ {r}
    BY <2>2, RemoveFirstKeeps
  <2>3. queue \in Seq(Caller) /\ Once(queue) /\ ToSet(queue) = ToSet(slotQueue[p]) \ {r}
    BY <1>3, <2>1, <2>2
  <2> HIDE DEF queue
  <2>4. slotQueue'[p] = queue
    BY <1>4 DEF queue
  <2> QED BY <1>3, <2>1, <2>3, <2>4 DEF QueueOK
<1>6. /\ free' = [free EXCEPT ![p] = free'[p]] /\ slotQueue' = [slotQueue EXCEPT ![p] = slotQueue'[p]]
      /\ waiting' = [waiting EXCEPT ![p] = waiting'[p]]
  BY <1>1, <1>4 DEF SlotsInv
<1> QED BY <1>0, <1>1, <1>2, <1>5, <1>6, OwnPool

LEMMA UncountSlots ==
    ASSUME SlotsInv, ClaimInv', NEW r \in Caller, Uncount(r) PROVE SlotsInv'
<1>0. PICK p \in Pool : p = caller[r].pool
  BY DEF SlotsInv, ClaimInv, CallerOK, CallerState
<1>1. PICK pc \in {"record", "lease", "unclaim", "done"} :
          Move(r, pc) /\ (caller[r].pc = "granted" <=> pc \in {"record", "lease"})
  BY DEF Uncount, Admitted, End
<1>2. /\ caller[r].pc \in {"granted", "timedOut", "refused"} /\ UNCHANGED <<free, slotQueue>>
      /\ waiting' = [waiting EXCEPT ![p] = waiting[p] - 1]
  BY <1>0 DEF Uncount
<1>3. PermitsOK(p)' /\ QueueOK(p)'
  BY <1>1, <1>2, PermitsKeep, QueueKeeps DEF WithPermit
<1>4. /\ IsFiniteSet(In(p, Counted)') /\ Cardinality(In(p, Counted)) \in Nat
      /\ Cardinality(In(p, Counted)') = Cardinality(In(p, Counted)) - 1
  BY <1>0, <1>1, <1>2, LeavesIn DEF SlotsInv, CountOK, Counted
<1>5. waiting'[p] = waiting[p] - 1 /\ waiting[p] = Cardinality(In(p, Counted))
  BY <1>2 DEF SlotsInv, CountOK
<1>6. In(p, Queued)' = In(p, Queued)
  BY <1>0, <1>1, <1>2, StaysIn DEF SlotsInv, Queued
<1>7. CountOK(p)'
  BY <1>4, <1>5, <1>6 DEF SlotsInv, CountOK
<1>8. /\ free' = [free EXCEPT ![p] = free'[p]] /\ slotQueue' = [slotQueue EXCEPT ![p] = slotQueue'[p]]
      /\ waiting' = [waiting EXCEPT ![p] = waiting'[p]]
  BY <1>2, <1>5 DEF SlotsInv
<1> QED BY <1>0, <1>1, <1>3, <1>7, <1>8, OwnPool

LEMMA ReleasePermitSlots ==
    ASSUME SlotsInv, ClaimInv', NEW r \in Caller, ReleasePermit(r) PROVE SlotsInv'
<1>0. PICK p \in Pool : p = caller[r].pool
  BY DEF SlotsInv, ClaimInv, CallerOK, CallerState
<1>1. PICK pc \in {"unclaim", "done"} : Move(r, pc)
  BY DEF ReleasePermit, End
<1>2. /\ caller[r].pc = "lease" /\ UNCHANGED <<slotQueue, waiting>>
      /\ free' = [free EXCEPT ![p] = free[p] + 1]
  BY <1>0 DEF ReleasePermit
<1>3. QueueOK(p)' /\ CountOK(p)'
  BY <1>1, <1>2, QueueKeeps, CountKeeps DEF Counted, Queued
<1>4. /\ IsFiniteSet(In(p, WithPermit)') /\ Cardinality(In(p, WithPermit)) \in Nat
      /\ Cardinality(In(p, WithPermit)') = Cardinality(In(p, WithPermit)) - 1
  BY <1>0, <1>1, <1>2, LeavesIn DEF SlotsInv, PermitsOK, WithPermit
<1>5. free'[p] = free[p] + 1 /\ free[p] \in Nat
  BY <1>2 DEF SlotsInv, PermitsOK
<1>6. PermitsOK(p)'
  BY <1>4, <1>5 DEF SlotsInv, PermitsOK
<1>7. /\ free' = [free EXCEPT ![p] = free'[p]] /\ slotQueue' = [slotQueue EXCEPT ![p] = slotQueue'[p]]
      /\ waiting' = [waiting EXCEPT ![p] = waiting'[p]]
  BY <1>2, <1>5 DEF SlotsInv
<1> QED BY <1>0, <1>1, <1>3, <1>6, <1>7, OwnPool

LEMMA SlotsStep == SlotsInv /\ [AdmissionNext]_admissionVars => SlotsInv'
<1> SUFFICES ASSUME SlotsInv, [AdmissionNext]_admissionVars PROVE SlotsInv'
  OBVIOUS
<1>1. ClaimInv'
  BY AdmissionStep DEF SlotsInv
<1>2. ASSUME NEW r \in Caller, Ask(r) \/ Proceed(r) \/ LeaveQueue(r)
      PROVE  SlotsInv'
  BY <1>1, <1>2, AskSlots, AsideSlots, TryAcquireSlots, CountSlots, JoinQueueSlots, GrantSlots,
     LeaveQueueSlots, UncountSlots, ReleasePermitSlots DEF Proceed
<1>3. CASE Tick \/ UNCHANGED admissionVars
  <2>1. UNCHANGED <<free, slotQueue, waiting, caller>>
    BY <1>3 DEF Tick, admissionVars
  <2>2. \A p \in Pool : (PermitsOK(p) /\ QueueOK(p) /\ CountOK(p))'
    BY <2>1 DEF SlotsInv, PermitsOK, QueueOK, CountOK, In
  <2> QED BY <1>1, <2>1, <2>2 DEF SlotsInv
<1> QED BY <1>2, <1>3 DEF AdmissionNext

LEMMA SlotsInvImplies == SlotsInv => SlotsAddUp
<1> SUFFICES ASSUME SlotsInv, NEW p \in Pool
             PROVE  /\ free[p] + Cardinality(In(p, WithPermit)) = Slots[p]
                    /\ Len(slotQueue[p]) = Cardinality(In(p, {"wait"}))
                    /\ ToSet(slotQueue[p]) = In(p, {"wait"})
                    /\ waiting[p] = Cardinality(In(p, Counted))
                    /\ Cardinality(In(p, {"enqueue", "wait"})) <= MaxWaiting[p]
  BY DEF SlotsAddUp
<1>1. PermitsOK(p) /\ QueueOK(p) /\ CountOK(p)
  BY DEF SlotsInv
<1>2. Len(slotQueue[p]) = Cardinality(In(p, {"wait"}))
  BY <1>1, OnceCounts DEF QueueOK
<1> QED BY <1>1, <1>2 DEF PermitsOK, QueueOK, CountOK, Queued

(* No slot is lost or leased twice, the queue holds each waiting call once *)
(* and never more than max_waiting, whoever gives up or times out while it *)
(* is granted (the counter and the semaphore of a pool).                   *)
THEOREM SlotsAreNeverLost == AdmissionSpec => []SlotsAddUp
BY SlotsInitInv, SlotsStep, SlotsInvImplies, PTL DEF AdmissionSpec

-----------------------------------------------------------------------------
(* Sliding windows: what is live are the stamps from the first one that is *)
(* not expired.                                                            *)
LEMMA SinceIs ==
    ASSUME NEW stamp \in Int, NEW time \in Int, NEW span \in Nat \ {0}
    PROVE  /\ Since(stamp, time) \in Nat
           /\ Since(stamp, time) >= span <=> time - stamp >= span
BY DEF Since

ExpiresAt(stamps, time, span, n) ==
    /\ \A i \in 1..n : time - stamps[i] >= span
    /\ n < Len(stamps) => time - stamps[n + 1] < span

LEMMA ExpiredIs ==
    ASSUME NEW stamps \in Seq(Int), NEW time \in Int, NEW span \in Nat \ {0}
    PROVE  /\ Expired(stamps, time, span) \in 0..Len(stamps)
           /\ ExpiresAt(stamps, time, span, Expired(stamps, time, span))
<1> DEFINE Good(n) == /\ \A i \in 1..n : Since(stamps[i], time) >= span
                      /\ n < Len(stamps) => Since(stamps[n + 1], time) < span
           T == {n \in 0..Len(stamps) : n < Len(stamps) => Since(stamps[n + 1], time) < span}
<1>1. Len(stamps) \in Nat /\ \A i \in 1..Len(stamps) : stamps[i] \in Int
  OBVIOUS
<1>2. T \in SUBSET Nat /\ T # {}
  <2>1. Len(stamps) \in T
    BY <1>1
  <2> QED BY <1>1, <2>1
<1>3. PICK n \in T : \A m \in T : n <= m
  <2> HIDE DEF T
  <2> QED BY <1>2, LeastNatural
<1>4. n \in 0..Len(stamps)
  OBVIOUS
<1>5. Good(n)
  <2> SUFFICES ASSUME NEW i \in 1..n PROVE Since(stamps[i], time) >= span
    OBVIOUS
  <2> DEFINE k == i - 1
  <2>1. k \in 0..Len(stamps) /\ k < Len(stamps) /\ k + 1 = i /\ ~(n <= k)
    BY <1>1, <1>4
  <2> HIDE DEF k
  <2>2. k \notin T
    <3> HIDE DEF T
    <3> QED BY <1>3, <2>1
  <2>3. ~(Since(stamps[i], time) < span)
    BY <2>1, <2>2
  <2>4. stamps[i] \in Int
    BY <1>1, <1>4
  <2>5. Since(stamps[i], time) \in Nat
    BY <2>4, SinceIs
  <2> QED BY <2>3, <2>5
<1>6. Expired(stamps, time, span) = CHOOSE m \in 0..Len(stamps) : Good(m)
  BY DEF Expired
<1> DEFINE m == Expired(stamps, time, span)
<1>7. m \in 0..Len(stamps) /\ Good(m)
  <2> HIDE DEF Good
  <2> QED BY <1>4, <1>5, <1>6
<1> HIDE DEF m
<1>8. \A i \in 1..m : time - stamps[i] >= span
  <2> SUFFICES ASSUME NEW i \in 1..m PROVE time - stamps[i] >= span
    OBVIOUS
  <2>1. stamps[i] \in Int
    BY <1>1, <1>7
  <2> QED BY <1>7, <2>1, SinceIs
<1>9. m < Len(stamps) => time - stamps[m + 1] < span
  <2> SUFFICES ASSUME m < Len(stamps) PROVE time - stamps[m + 1] < span
    OBVIOUS
  <2>1. stamps[m + 1] \in Int
    BY <1>1, <1>7
  <2>2. Since(stamps[m + 1], time) < span
    BY <1>7
  <2>3. /\ Since(stamps[m + 1], time) \in Nat
        /\ Since(stamps[m + 1], time) >= span <=> time - stamps[m + 1] >= span
    BY <2>1, SinceIs
  <2> QED BY <2>1, <2>2, <2>3
<1> QED BY <1>7, <1>8, <1>9 DEF ExpiresAt, m

(* A sequence without its first n entries.                                 *)
Rest(s, n, t) ==
    /\ n \in 0..Len(s) /\ t \in Seq(Int) /\ Len(t) = Len(s) - n
    /\ \A i \in 1..Len(t) : t[i] = s[n + i]

LEMMA SubSeqIsRest ==
    ASSUME NEW s \in Seq(Int), NEW n \in 0..Len(s)
    PROVE  Rest(s, n, SubSeq(s, n + 1, Len(s)))
<1> DEFINE t == SubSeq(s, n + 1, Len(s))
           l == Len(s)
<1>1. l \in Nat /\ n \in Nat /\ n <= l /\ n + 1 \in Int
  OBVIOUS
<1>2. \A i \in (n + 1)..l : s[i] \in Int
  OBVIOUS
<1>3. /\ t \in Seq(Int) /\ Len(t) = IF n + 1 <= l THEN l - (n + 1) + 1 ELSE 0
      /\ \A i \in 1..(l - (n + 1) + 1) : t[i] = s[(n + 1) + i - 1]
  BY <1>1, <1>2, SubSeqProperties
<1> HIDE DEF t, l
<1>4. Len(t) = l - n
  BY <1>1, <1>3
<1>5. \A i \in 1..(l - n) : t[i] = s[n + i]
  <2> SUFFICES ASSUME NEW i \in 1..(l - n) PROVE t[i] = s[n + i]
    OBVIOUS
  <2>1. i \in 1..(l - (n + 1) + 1) /\ (n + 1) + i - 1 = n + i
    BY <1>1
  <2> QED BY <1>3, <2>1
<1> QED BY <1>1, <1>3, <1>4, <1>5 DEF Rest, t, l

LEMMA RestIs ==
    ASSUME NEW s \in Seq(Int), NEW n, NEW t, Rest(s, n, t)
    PROVE  t = SubSeq(s, n + 1, Len(s))
<1> DEFINE u == SubSeq(s, n + 1, Len(s))
<1>1. Rest(s, n, u)
  BY SubSeqIsRest DEF Rest
<1> HIDE DEF u
<1>2. Len(t) = Len(u) /\ \A i \in 1..Len(t) : t[i] = u[i]
  BY <1>1 DEF Rest
<1>3. t = [i \in 1..Len(t) |-> t[i]] /\ u = [i \in 1..Len(u) |-> u[i]]
  BY <1>1 DEF Rest
<1>4. t = u
  BY <1>2, <1>3
<1> QED BY <1>4 DEF u

LEMMA LiveIs ==
    ASSUME NEW stamps \in Seq(Int), NEW time \in Int, NEW span \in Nat \ {0}
    PROVE  \E n \in 0..Len(stamps) :
               /\ ExpiresAt(stamps, time, span, n)
               /\ Rest(stamps, n, Live(stamps, time, span))
BY ExpiredIs, SubSeqIsRest DEF Live

(* What remains of all stamps, when those forgotten were long ago.         *)
Forgets(all, n, t, clock, span) ==
    Rest(all, n, t) /\ \A i \in 1..n : clock - all[i] >= span

LEMMA ForgetsExpired ==
    ASSUME NEW all \in Seq(Int), NEW n, NEW t, NEW clock \in Int, NEW span \in Nat \ {0},
           Forgets(all, n, t, clock, span), NEW time \in Int, time <= clock
    PROVE  \E m \in 0..Len(all) :
               /\ Forgets(all, m, Live(t, time, span), clock, span)
               /\ m < Len(all) => time - Live(t, time, span)[1] < span
<1> DEFINE live == Live(t, time, span)
<1>1. t \in Seq(Int)
  BY DEF Forgets, Rest
<1>2. PICK k \in 0..Len(t) : ExpiresAt(t, time, span, k) /\ Rest(t, k, live)
  BY <1>1, LiveIs
<1> HIDE DEF live
<1> DEFINE m == n + k
<1>3. /\ Len(all) \in Nat /\ n \in 0..Len(all) /\ Len(t) = Len(all) - n
      /\ \A i \in 1..Len(t) : t[i] = all[n + i]
      /\ \A i \in 1..Len(all) : all[i] \in Int
  BY DEF Forgets, Rest
<1>4. m \in 0..Len(all) /\ Len(live) = Len(all) - m /\ live \in Seq(Int)
  BY <1>2, <1>3 DEF Rest
<1>5. ASSUME NEW i \in 1..Len(live) PROVE live[i] = all[m + i]
  <2>1. k + i \in 1..Len(t) /\ n + (k + i) = m + i
    BY <1>2, <1>3, <1>4
  <2>2. live[i] = t[k + i]
    BY <1>2 DEF Rest
  <2> QED BY <1>3, <2>1, <2>2
<1>6. ASSUME NEW i \in 1..m PROVE clock - all[i] >= span
  <2>1. CASE i <= n
    BY <1>3, <2>1 DEF Forgets
  <2>2. CASE i > n
    <3> DEFINE j == i - n
    <3>1. j \in 1..k /\ j \in 1..Len(t) /\ n + j = i /\ i \in 1..Len(all)
      BY <1>2, <1>3, <1>4, <2>2
    <3> HIDE DEF j
    <3>2. time - t[j] >= span
      BY <1>2, <3>1 DEF ExpiresAt
    <3>3. t[j] = all[i] /\ all[i] \in Int
      BY <1>3, <3>1
    <3> QED BY <3>2, <3>3
  <2> QED BY <1>3, <2>1, <2>2
<1>7. ASSUME m < Len(all) PROVE time - live[1] < span
  <2>1. k < Len(t) /\ 1 \in 1..Len(live)
    BY <1>2, <1>3, <1>4, <1>7
  <2>2. live[1] = t[k + 1]
    BY <1>2, <2>1 DEF Rest
  <2> QED BY <1>2, <2>1, <2>2 DEF ExpiresAt
<1>8. Forgets(all, m, live, clock, span)
  <2> HIDE DEF m
  <2> QED BY <1>4, <1>5, <1>6 DEF Forgets, Rest
<1> HIDE DEF m
<1> QED BY <1>4, <1>7, <1>8 DEF live

LEMMA ForgetsAppended ==
    ASSUME NEW all \in Seq(Int), NEW n, NEW t, NEW clock \in Int, NEW span \in Nat \ {0},
           Forgets(all, n, t, clock, span), NEW x \in Int
    PROVE  Forgets(Append(all, x), n, Append(t, x), clock, span)
<1> DEFINE more == Append(all, x)
           u == Append(t, x)
<1>1. /\ Len(all) \in Nat /\ n \in 0..Len(all) /\ t \in Seq(Int) /\ Len(t) = Len(all) - n
      /\ \A i \in 1..Len(t) : t[i] = all[n + i]
      /\ \A i \in 1..n : clock - all[i] >= span
  BY DEF Forgets, Rest
<1>2. /\ more \in Seq(Int) /\ Len(more) = Len(all) + 1 /\ more[Len(all) + 1] = x
      /\ \A i \in 1..Len(all) : more[i] = all[i]
  OBVIOUS
<1>3. /\ u \in Seq(Int) /\ Len(u) = Len(t) + 1 /\ u[Len(t) + 1] = x
      /\ \A i \in 1..Len(t) : u[i] = t[i]
  BY <1>1
<1> HIDE DEF more, u
<1>4. ASSUME NEW i \in 1..Len(u) PROVE u[i] = more[n + i]
  <2>1. CASE i \in 1..Len(t)
    <3>1. n + i \in 1..Len(all)
      BY <1>1, <2>1
    <3> QED BY <1>1, <1>2, <1>3, <2>1, <3>1
  <2>2. CASE i = Len(t) + 1
    <3>1. n + i = Len(all) + 1
      BY <1>1, <2>2
    <3> QED BY <1>2, <1>3, <2>2, <3>1
  <2> QED BY <1>1, <1>3, <2>1, <2>2
<1>5. ASSUME NEW i \in 1..n PROVE clock - more[i] >= span
  <2>1. i \in 1..Len(all)
    BY <1>1
  <2>2. more[i] = all[i]
    BY <1>2, <2>1
  <2> QED BY <1>1, <2>2
<1>6. n \in 0..Len(more) /\ Len(u) = Len(more) - n
  BY <1>1, <1>2, <1>3
<1>7. Forgets(more, n, u, clock, span)
  BY <1>3, <1>4, <1>5, <1>6 DEF Forgets, Rest
<1> QED BY <1>7 DEF more, u

-----------------------------------------------------------------------------
(* The ceiling's meter: what it was given, in the order of the lock.       *)
MeterInv ==
    /\ now \in Nat /\ recorded \in Seq(Int)
    /\ \A i \in 1..Len(recorded) : recorded[i] <= now
    /\ \A i, j \in 1..Len(recorded) : i <= j => recorded[i] <= recorded[j] + MaxDelay
    /\ \E n \in 0..Len(recorded) : Forgets(recorded, n, admitted, now, Window)

LEMMA MeterInitInv == AdmissionInit => MeterInv
<1> SUFFICES ASSUME AdmissionInit PROVE MeterInv
  OBVIOUS
<1>1. Len(recorded) = 0 /\ recorded \in Seq(Int) /\ admitted \in Seq(Int) /\ Len(admitted) = 0
  BY DEF AdmissionInit
<1>2. Forgets(recorded, 0, admitted, now, Window)
  BY <1>1 DEF Forgets, Rest
<1> QED BY <1>1, <1>2 DEF MeterInv, AdmissionInit

(* An expiry with a time that has passed forgets only what is old by now.  *)
LEMMA MeterExpires ==
    ASSUME MeterInv, NEW time \in ReadTime
    PROVE  \E n \in 0..Len(recorded) :
               /\ Forgets(recorded, n, Live(admitted, time, Window), now, Window)
               /\ n < Len(recorded) => time - Live(admitted, time, Window)[1] < Window
<1>1. time \in Int /\ now \in Int /\ time <= now /\ Window \in Nat \ {0}
  BY AdmissionAssumption DEF MeterInv, ReadTime
<1>2. PICK n : Forgets(recorded, n, admitted, now, Window)
  BY DEF MeterInv
<1> QED BY <1>1, <1>2, ForgetsExpired DEF MeterInv

LEMMA TickMeters == ASSUME MeterInv, Tick PROVE MeterInv'
<1>1. /\ now \in Nat /\ now' = now + 1 /\ UNCHANGED <<admitted, recorded>>
      /\ \A i \in 1..Len(recorded) : recorded[i] \in Int
  BY DEF Tick, MeterInv, meter
<1>2. PICK n \in 0..Len(recorded) : Forgets(recorded, n, admitted, now, Window)
  BY DEF MeterInv
<1>3. \A i \in 1..n : now' - recorded[i] >= Window
  <2> SUFFICES ASSUME NEW i \in 1..n PROVE now' - recorded[i] >= Window
    OBVIOUS
  <2>1. now - recorded[i] >= Window /\ recorded[i] \in Int /\ Window \in Nat
    BY <1>1, <1>2, AdmissionAssumption DEF Forgets
  <2> QED BY <1>1, <2>1
<1>4. Forgets(recorded, n, admitted, now', Window)
  BY <1>2, <1>3 DEF Forgets
<1>5. \A i \in 1..Len(recorded) : recorded[i] <= now'
  BY <1>1 DEF MeterInv
<1> QED BY <1>1, <1>4, <1>5 DEF MeterInv

LEMMA CheckMeters == ASSUME MeterInv, NEW r \in Caller, CheckCeiling(r) PROVE MeterInv'
<1>1. PICK time \in ReadTime : admitted' = Live(admitted, time, Window)
  BY DEF CheckCeiling
<1>2. UNCHANGED <<now, recorded>>
  BY DEF CheckCeiling
<1>3. \E n \in 0..Len(recorded) : Forgets(recorded, n, admitted', now, Window)
  BY <1>1, MeterExpires
<1> QED BY <1>2, <1>3 DEF MeterInv

(* The stamp of a caller is not older than its delay.                      *)
LEMMA RecordMeters == ASSUME MeterInv, NEW r \in Caller, Record(r) PROVE MeterInv'
<1>1. PICK time \in ReadTime : /\ admitted' = Append(Live(admitted, time, Window), time)
                               /\ recorded' = Append(recorded, time)
  BY DEF Record
<1>2. now' = now /\ now \in Nat /\ time \in Nat /\ time <= now /\ now <= time + MaxDelay
      /\ MaxDelay \in Nat
  BY AdmissionAssumption DEF Record, MeterInv, ReadTime
<1>3. PICK n \in 0..Len(recorded) :
          Forgets(recorded, n, Live(admitted, time, Window), now, Window)
  BY MeterExpires
<1>4. Forgets(recorded', n, admitted', now, Window)
  BY <1>1, <1>2, <1>3, ForgetsAppended, AdmissionAssumption DEF MeterInv
<1>5. /\ recorded' \in Seq(Int) /\ Len(recorded') = Len(recorded) + 1
      /\ recorded'[Len(recorded) + 1] = time /\ Len(recorded) \in Nat
      /\ \A i \in 1..Len(recorded) : recorded'[i] = recorded[i] /\ recorded[i] \in Int
  BY <1>1, <1>2 DEF MeterInv
<1>6. \A i \in 1..Len(recorded') : recorded'[i] <= now
  BY <1>2, <1>5 DEF MeterInv
<1>7. ASSUME NEW i \in 1..Len(recorded'), NEW j \in 1..Len(recorded'), i <= j
      PROVE  recorded'[i] <= recorded'[j] + MaxDelay
  <2>1. CASE j \in 1..Len(recorded)
    <3>1. i \in 1..Len(recorded)
      BY <1>5, <1>7, <2>1
    <3>2. recorded[i] <= recorded[j] + MaxDelay
      BY <1>7, <2>1, <3>1 DEF MeterInv
    <3> QED BY <1>5, <2>1, <3>1, <3>2
  <2>2. CASE j = Len(recorded) + 1
    <3>1. recorded'[j] = time /\ recorded'[i] <= now /\ recorded'[i] \in Int
      BY <1>5, <1>6, <2>2
    <3> QED BY <1>2, <3>1
  <2> QED BY <1>5, <2>1, <2>2
<1>8. n \in 0..Len(recorded')
  BY <1>5
<1> QED BY <1>2, <1>4, <1>5, <1>6, <1>7, <1>8 DEF MeterInv

LEMMA MeterStep == MeterInv /\ [AdmissionNext]_admissionVars => MeterInv'
<1> SUFFICES ASSUME MeterInv, [AdmissionNext]_admissionVars PROVE MeterInv'
  OBVIOUS
<1>1. CASE UNCHANGED <<now, meter>>
  BY <1>1 DEF MeterInv, meter
<1>2. ASSUME NEW r \in Caller, Ask(r) \/ Proceed(r) \/ LeaveQueue(r)
      PROVE  CheckCeiling(r) \/ Record(r) \/ UNCHANGED <<now, meter>>
  BY <1>2 DEF Ask, Proceed, LeaveQueue, Claim, TryAcquire, Count, JoinQueue, Grant, Uncount,
              ReleasePermit, DropClaim
<1> QED BY <1>1, <1>2, TickMeters, CheckMeters, RecordMeters DEF AdmissionNext, admissionVars

LEMMA MeterInvImplies == MeterInv => MeterKeepsWindow
<1> SUFFICES ASSUME MeterInv PROVE MeterKeepsWindow
  OBVIOUS
<1> DEFINE live == Live(admitted, now, Window)
           forgotten == Len(recorded) - Len(live)
<1>1. now \in ReadTime /\ now \in Nat /\ MaxDelay \in Nat /\ Window \in Nat
  BY AdmissionAssumption DEF MeterInv, ReadTime
<1>2. PICK n \in 0..Len(recorded) :
          /\ Forgets(recorded, n, live, now, Window)
          /\ n < Len(recorded) => now - live[1] < Window
  BY <1>1, MeterExpires
<1> HIDE DEF live
<1>3. /\ live \in Seq(Int) /\ Len(live) = Len(recorded) - n
      /\ \A i \in 1..Len(live) : live[i] = recorded[n + i] /\ live[i] \in Int
  BY <1>2 DEF Forgets, Rest
<1>4. forgotten = n /\ Len(recorded) \in Nat
  BY <1>2, <1>3 DEF MeterInv
<1> HIDE DEF forgotten
<1>5. live = SubSeq(recorded, forgotten + 1, Len(recorded))
  BY <1>2, <1>4, RestIs DEF Forgets, MeterInv
<1>6. \A i \in 1..forgotten : now - recorded[i] >= Window
  BY <1>2, <1>4 DEF Forgets
<1>7. ASSUME NEW i \in 1..Len(live) PROVE now - live[i] < Window + MaxDelay
  <2>1. 1 \in 1..Len(live) /\ n < Len(recorded) /\ n + 1 \in 1..Len(recorded)
        /\ n + i \in 1..Len(recorded) /\ n + 1 <= n + i
    BY <1>3, <1>4
  <2>2. live[1] <= live[i] + MaxDelay
    BY <1>3, <2>1 DEF MeterInv
  <2>3. now - live[1] < Window /\ live[1] \in Int /\ live[i] \in Int
    BY <1>2, <1>3, <2>1
  <2> QED BY <1>1, <2>2, <2>3
<1> QED BY <1>5, <1>6, <1>7 DEF MeterKeepsWindow, live, forgotten

(* The deployment ceiling forgets no lease of its window, and holds none   *)
(* against new ones for longer than callers are late, although stamps are  *)
(* out of order and only the front expires (DeploymentCeiling).            *)
THEOREM CeilingMetersTheWindow == AdmissionSpec => []MeterKeepsWindow
BY MeterInitInv, MeterStep, MeterInvImplies, PTL DEF AdmissionSpec

-----------------------------------------------------------------------------
(* What was admitted and what the windows still know of it.                *)
Made(entry, p, c) == entry.call.player = p /\ entry.call.class = c
Admission == [call : Call, at : Int]
WindowState ==
    [stamps : [TrafficClass -> Seq(Int)],
     accepted : SUBSET [operation : Operation \cup {NoOperation}, at : Int]]

(* Each stamp is of an admission, and the admissions without one are old.  *)
Traces(index, stamps, entries, p, c, clock) ==
    /\ index \in [1..Len(stamps) -> 1..Len(entries)]
    /\ \A m \in 1..Len(stamps) : entries[index[m]].at = stamps[m]
    /\ \A i \in 1..Len(entries) : Made(entries[i], p, c) =>
           (\E m \in 1..Len(stamps) : index[m] = i) \/ clock - entries[i].at >= WindowOf[c]
Traced(stamps, entries, p, c, clock) ==
    \E index : Traces(index, stamps, entries, p, c, clock)

Known(players, entry, clock) ==
    \/ Remembered(entry.call, entry.at) \in players[entry.call.player].accepted
    \/ clock - entry.at >= WindowOf["import"]

WindowsOK(players, entries, clock) ==
    /\ players \in [Player -> WindowState]
    /\ \A p \in Player, c \in TrafficClass :
           /\ Len(players[p].stamps[c]) <= LimitOf[c]
           /\ Traced(players[p].stamps[c], entries, p, c, clock)
    /\ \A i \in 1..Len(entries) :
           entries[i].call.class = "import" => Known(players, entries[i], clock)

LEMMA TrafficConstants ==
    /\ \A c \in TrafficClass : WindowOf[c] \in Nat \ {0} /\ LimitOf[c] \in Nat \ {0}
    /\ "import" \in TrafficClass /\ MaxLag \in Nat /\ PerSecond \in Nat \ {0}
BY TrafficAssumption DEF TrafficClass

LEMMA CallIs ==
    ASSUME NEW call \in Call
    PROVE  /\ call.player \in Player /\ call.class \in TrafficClass
           /\ call.operation \in Operation \cup {NoOperation}
BY DEF Call, TrafficClass

LEMMA TracedLater ==
    ASSUME NEW stamps, NEW entries \in Seq(Admission), NEW p, NEW c \in TrafficClass,
           NEW clock \in Int, Traced(stamps, entries, p, c, clock), NEW later \in Int,
           clock <= later
    PROVE  Traced(stamps, entries, p, c, later)
<1>1. PICK index : Traces(index, stamps, entries, p, c, clock)
  BY DEF Traced
<1>2. ASSUME NEW i \in 1..Len(entries), clock - entries[i].at >= WindowOf[c]
      PROVE  later - entries[i].at >= WindowOf[c]
  <2>1. entries[i] \in Admission /\ WindowOf[c] \in Nat
    BY TrafficConstants
  <2>2. entries[i].at \in Int
    BY <2>1 DEF Admission
  <2> QED BY <1>2, <2>1, <2>2
<1>3. Traces(index, stamps, entries, p, c, later)
  BY <1>1, <1>2 DEF Traces
<1> QED BY <1>3 DEF Traced

LEMMA TracedExpired ==
    ASSUME NEW stamps \in Seq(Int), NEW entries \in Seq(Admission), NEW p,
           NEW c \in TrafficClass, NEW clock \in Int, Traced(stamps, entries, p, c, clock),
           NEW time \in Int, time <= clock
    PROVE  /\ Traced(Live(stamps, time, WindowOf[c]), entries, p, c, clock)
           /\ Live(stamps, time, WindowOf[c]) \in Seq(Int)
           /\ Len(Live(stamps, time, WindowOf[c])) <= Len(stamps)
           /\ 0 < Len(Live(stamps, time, WindowOf[c])) =>
                  time - Live(stamps, time, WindowOf[c])[1] < WindowOf[c]
<1> DEFINE live == Live(stamps, time, WindowOf[c])
<1>1. PICK n \in 0..Len(stamps) : ExpiresAt(stamps, time, WindowOf[c], n) /\ Rest(stamps, n, live)
  BY LiveIs, TrafficConstants
<1>2. PICK index : Traces(index, stamps, entries, p, c, clock)
  BY DEF Traced
<1> HIDE DEF live
<1> DEFINE shifted == [m \in 1..Len(live) |-> index[n + m]]
<1>3. /\ live \in Seq(Int) /\ Len(live) = Len(stamps) - n /\ Len(stamps) \in Nat
      /\ \A i \in 1..Len(live) : live[i] = stamps[n + i] /\ n + i \in 1..Len(stamps)
  BY <1>1 DEF Rest
<1>4. shifted \in [1..Len(live) -> 1..Len(entries)]
  BY <1>2, <1>3 DEF Traces
<1>5. \A m \in 1..Len(live) : entries[shifted[m]].at = live[m]
  BY <1>2, <1>3 DEF Traces
<1>6. ASSUME NEW i \in 1..Len(entries), Made(entries[i], p, c),
             ~(clock - entries[i].at >= WindowOf[c])
      PROVE  \E m \in 1..Len(live) : shifted[m] = i
  <2>1. PICK k \in 1..Len(stamps) : index[k] = i
    BY <1>2, <1>6 DEF Traces
  <2>2. entries[i].at = stamps[k] /\ stamps[k] \in Int /\ WindowOf[c] \in Nat
    BY <1>2, <2>1, TrafficConstants DEF Traces
  <2>3. ~(k <= n)
    BY <1>1, <1>6, <2>2 DEF ExpiresAt
  <2> DEFINE m == k - n
  <2>4. m \in 1..Len(live) /\ n + m = k
    BY <1>3, <2>3
  <2> HIDE DEF m
  <2>5. shifted[m] = i
    BY <2>1, <2>4
  <2> QED BY <2>4, <2>5
<1>7. Traces(shifted, live, entries, p, c, clock)
  <2> HIDE DEF shifted
  <2> QED BY <1>4, <1>5, <1>6 DEF Traces
<1>8. Len(live) <= Len(stamps)
  BY <1>1, <1>3
<1>9. 0 < Len(live) => time - live[1] < WindowOf[c]
  <2> SUFFICES ASSUME 0 < Len(live) PROVE time - live[1] < WindowOf[c]
    OBVIOUS
  <2>1. n < Len(stamps) /\ 1 \in 1..Len(live)
    BY <1>3
  <2>2. live[1] = stamps[n + 1]
    BY <1>3, <2>1
  <2> QED BY <1>1, <2>1, <2>2 DEF ExpiresAt
<1> QED BY <1>3, <1>7, <1>8, <1>9 DEF Traced, live

LEMMA AppendIs ==
    ASSUME NEW X, NEW s \in Seq(X), NEW x \in X
    PROVE  /\ Append(s, x) \in Seq(X) /\ Len(s) \in Nat /\ Len(Append(s, x)) = Len(s) + 1
           /\ Append(s, x)[Len(s) + 1] = x
           /\ \A i \in 1..Len(s) : Append(s, x)[i] = s[i] /\ s[i] \in X
OBVIOUS

(* An admission of another Player or class.                                *)
LEMMA TracedBeside ==
    ASSUME NEW stamps \in Seq(Int), NEW entries \in Seq(Admission), NEW p, NEW c, NEW clock,
           Traced(stamps, entries, p, c, clock), NEW entry \in Admission, ~Made(entry, p, c)
    PROVE  Traced(stamps, Append(entries, entry), p, c, clock)
<1> DEFINE more == Append(entries, entry)
<1>1. PICK index : Traces(index, stamps, entries, p, c, clock)
  BY DEF Traced
<1>2. /\ Len(entries) \in Nat /\ Len(more) = Len(entries) + 1
      /\ more[Len(entries) + 1] = entry /\ \A i \in 1..Len(entries) : more[i] = entries[i]
  BY AppendIs
<1> HIDE DEF more
<1>3. index \in [1..Len(stamps) -> 1..Len(more)]
  BY <1>1, <1>2 DEF Traces
<1>4. \A m \in 1..Len(stamps) : more[index[m]].at = stamps[m]
  BY <1>1, <1>2 DEF Traces
<1>5. \A i \in 1..Len(more) : Made(more[i], p, c) => i \in 1..Len(entries)
  BY <1>2
<1>6. Traces(index, stamps, more, p, c, clock)
  BY <1>1, <1>2, <1>3, <1>4, <1>5 DEF Traces
<1> QED BY <1>6 DEF Traced, more

LEMMA TracedAppended ==
    ASSUME NEW stamps \in Seq(Int), NEW entries \in Seq(Admission), NEW p, NEW c, NEW clock,
           Traced(stamps, entries, p, c, clock), NEW entry \in Admission
    PROVE  Traced(Append(stamps, entry.at), Append(entries, entry), p, c, clock)
<1> DEFINE more == Append(entries, entry)
           longer == Append(stamps, entry.at)
<1>1. PICK index : Traces(index, stamps, entries, p, c, clock)
  BY DEF Traced
<1>2. /\ Len(entries) \in Nat /\ Len(more) = Len(entries) + 1
      /\ more[Len(entries) + 1] = entry /\ \A i \in 1..Len(entries) : more[i] = entries[i]
  BY AppendIs
<1>3. /\ Len(stamps) \in Nat /\ Len(longer) = Len(stamps) + 1
      /\ longer[Len(stamps) + 1] = entry.at /\ \A m \in 1..Len(stamps) : longer[m] = stamps[m]
  <2>1. entry.at \in Int
    BY DEF Admission
  <2> QED BY <2>1, AppendIs
<1> HIDE DEF more, longer
<1> DEFINE extended == [m \in 1..Len(longer) |->
               IF m = Len(stamps) + 1 THEN Len(entries) + 1 ELSE index[m]]
<1>4. /\ extended[Len(stamps) + 1] = Len(entries) + 1
      /\ \A m \in 1..Len(stamps) : extended[m] = index[m] /\ index[m] \in 1..Len(entries)
  <2>1. Len(stamps) + 1 \in 1..Len(longer)
    BY <1>3
  <2>2. \A m \in 1..Len(stamps) : m \in 1..Len(longer) /\ m # Len(stamps) + 1
    BY <1>3
  <2>3. \A m \in 1..Len(stamps) : index[m] \in 1..Len(entries)
    BY <1>1 DEF Traces
  <2> QED BY <2>1, <2>2, <2>3
<1>5. extended \in [1..Len(longer) -> 1..Len(more)]
  BY <1>1, <1>2, <1>3 DEF Traces
<1> HIDE DEF extended
<1>6. ASSUME NEW m \in 1..Len(longer) PROVE more[extended[m]].at = longer[m]
  <2>1. CASE m = Len(stamps) + 1
    BY <1>2, <1>3, <1>4, <2>1
  <2>2. CASE m \in 1..Len(stamps)
    BY <1>1, <1>2, <1>3, <1>4, <2>2 DEF Traces
  <2> QED BY <1>3, <2>1, <2>2
<1>7. ASSUME NEW i \in 1..Len(more), Made(more[i], p, c)
      PROVE  (\E m \in 1..Len(longer) : extended[m] = i) \/ clock - more[i].at >= WindowOf[c]
  <2>1. CASE i = Len(entries) + 1
    <3>1. Len(stamps) + 1 \in 1..Len(longer)
      BY <1>3
    <3> QED BY <1>4, <2>1, <3>1
  <2>2. CASE i \in 1..Len(entries)
    <3>1. (\E m \in 1..Len(stamps) : index[m] = i) \/ clock - more[i].at >= WindowOf[c]
      BY <1>1, <1>2, <1>7, <2>2 DEF Traces
    <3>2. 1..Len(stamps) \subseteq 1..Len(longer)
      BY <1>3
    <3> QED BY <1>4, <3>1, <3>2
  <2> QED BY <1>2, <2>1, <2>2
<1>8. Traces(extended, longer, more, p, c, clock)
  BY <1>5, <1>6, <1>7 DEF Traces
<1> QED BY <1>8 DEF Traced, more, longer

-----------------------------------------------------------------------------
(* The windows as a call finds them, once what has expired is removed.     *)
Pruned(players, time) == [p \in Player |-> ExpiredWindows(players[p], time)]

LEMMA PrunedIs ==
    ASSUME NEW players \in [Player -> WindowState], NEW time \in Int
    PROVE  \A p \in Player :
               /\ \A c \in TrafficClass : Pruned(players, time)[p].stamps[c] =
                      Live(players[p].stamps[c], time, WindowOf[c])
               /\ Pruned(players, time)[p].accepted =
                      {a \in players[p].accepted : Since(a.at, time) < WindowOf["import"]}
BY DEF Pruned, ExpiredWindows

LEMMA WindowsExpire ==
    ASSUME NEW players, NEW entries \in Seq(Admission), NEW clock \in Int,
           WindowsOK(players, entries, clock), NEW time \in Int, time <= clock
    PROVE  WindowsOK(Pruned(players, time), entries, clock)
<1> DEFINE left == Pruned(players, time)
<1>1. players \in [Player -> WindowState]
  BY DEF WindowsOK
<1>2. \A p \in Player :
          /\ \A c \in TrafficClass :
                 left[p].stamps[c] = Live(players[p].stamps[c], time, WindowOf[c])
          /\ left[p].accepted =
                 {a \in players[p].accepted : Since(a.at, time) < WindowOf["import"]}
  BY <1>1, PrunedIs
<1>3. ASSUME NEW p \in Player, NEW c \in TrafficClass
      PROVE  /\ left[p].stamps[c] \in Seq(Int) /\ Len(left[p].stamps[c]) <= LimitOf[c]
             /\ Traced(left[p].stamps[c], entries, p, c, clock)
  <2>1. /\ players[p].stamps[c] \in Seq(Int) /\ Len(players[p].stamps[c]) <= LimitOf[c]
        /\ Traced(players[p].stamps[c], entries, p, c, clock)
    BY <1>1 DEF WindowsOK, WindowState
  <2> DEFINE stamps == players[p].stamps[c]
             live == Live(stamps, time, WindowOf[c])
  <2>2. live \in Seq(Int) /\ Len(live) <= Len(stamps) /\ Traced(live, entries, p, c, clock)
    BY <2>1, TracedExpired
  <2>3. left[p].stamps[c] = live
    BY <1>2
  <2>4. Len(live) \in Nat /\ Len(stamps) \in Nat /\ LimitOf[c] \in Nat
    BY <2>1, <2>2, TrafficConstants
  <2> HIDE DEF stamps, live, left
  <2>5. Len(stamps) <= LimitOf[c]
    BY <2>1 DEF stamps
  <2>6. Len(live) <= LimitOf[c]
    BY <2>2, <2>4, <2>5
  <2> QED BY <2>2, <2>3, <2>6
<1>4. left \in [Player -> WindowState]
  <2>1. ASSUME NEW p \in Player PROVE ExpiredWindows(players[p], time) \in WindowState
    <3>1. [c \in TrafficClass |-> Live(players[p].stamps[c], time, WindowOf[c])]
              \in [TrafficClass -> Seq(Int)]
      BY <1>2, <1>3
    <3>2. {a \in players[p].accepted : Since(a.at, time) < WindowOf["import"]}
              \in SUBSET [operation : Operation \cup {NoOperation}, at : Int]
      BY <1>1 DEF WindowState
    <3> QED BY <3>1, <3>2 DEF ExpiredWindows, WindowState
  <2> QED BY <2>1 DEF Pruned
<1>5. ASSUME NEW i \in 1..Len(entries), entries[i].call.class = "import"
      PROVE  Known(left, entries[i], clock)
  <2> DEFINE entry == entries[i]
             kept == Remembered(entry.call, entry.at)
  <2>1. entry \in Admission
    OBVIOUS
  <2>2. entry.at \in Int /\ entry.call.player \in Player
    BY <2>1, CallIs DEF Admission
  <2>3. Known(players, entry, clock)
    BY <1>5 DEF WindowsOK
  <2>4. kept.at = entry.at
    BY DEF Remembered
  <2> HIDE DEF entry, kept, left
  <2>5. CASE kept \in players[entry.call.player].accepted
    <3>1. CASE Since(kept.at, time) < WindowOf["import"]
      <4>1. kept \in left[entry.call.player].accepted
        BY <1>2, <2>2, <2>5, <3>1
      <4> QED BY <4>1 DEF Known, kept, entry
    <3>2. CASE ~(Since(kept.at, time) < WindowOf["import"])
      <4>1. /\ Since(entry.at, time) \in Nat /\ WindowOf["import"] \in Nat \ {0}
            /\ Since(entry.at, time) >= WindowOf["import"] <=>
                   time - entry.at >= WindowOf["import"]
        BY <2>2, TrafficConstants, SinceIs
      <4>2. clock - entry.at >= WindowOf["import"]
        BY <2>2, <2>4, <3>2, <4>1
      <4> QED BY <4>2 DEF Known, entry
    <3> QED BY <3>1, <3>2
  <2>6. CASE clock - entry.at >= WindowOf["import"]
    BY <2>6 DEF Known, entry
  <2> QED BY <2>3, <2>5, <2>6 DEF Known, kept
<1> HIDE DEF left
<1>6. WindowsOK(left, entries, clock)
  BY <1>3, <1>4, <1>5 DEF WindowsOK
<1> QED BY <1>6 DEF left

(* The windows after an admission.                                         *)
LetThrough(players, call, time) ==
    [players EXCEPT
        ![call.player].stamps[call.class] = Append(@, time),
        ![call.player].accepted =
            IF call.class = "import" THEN @ \cup {Remembered(call, time)} ELSE @]

LEMMA LetThroughIs ==
    ASSUME NEW players \in [Player -> WindowState], NEW call \in Call, NEW time \in Int
    PROVE  LET after == LetThrough(players, call, time)
           IN  /\ after \in [Player -> WindowState]
               /\ \A p \in Player, c \in TrafficClass :
                      after[p].stamps[c] = IF p = call.player /\ c = call.class
                          THEN Append(players[p].stamps[c], time) ELSE players[p].stamps[c]
               /\ \A p \in Player : players[p].accepted \subseteq after[p].accepted
               /\ call.class = "import" =>
                      Remembered(call, time) \in after[call.player].accepted
<1> DEFINE after == LetThrough(players, call, time)
           player == call.player
           class == call.class
           was == players[player]
           is == after[player]
           accepted == IF class = "import" THEN was.accepted \cup {Remembered(call, time)}
                       ELSE was.accepted
<1>1. /\ player \in Player /\ class \in TrafficClass
      /\ call.operation \in Operation \cup {NoOperation}
  BY CallIs
<1>2. was \in WindowState /\ was.stamps \in [TrafficClass -> Seq(Int)]
  BY <1>1 DEF WindowState
<1>3. was.stamps[class] \in Seq(Int) /\ Append(was.stamps[class], time) \in Seq(Int)
  BY <1>1, <1>2
<1> DEFINE stamps == [was.stamps EXCEPT ![class] = Append(was.stamps[class], time)]
<1>4. after = [players EXCEPT ![player] =
                   [was EXCEPT !.stamps = stamps, !.accepted = accepted]]
  BY <1>1, <1>2 DEF LetThrough, WindowState
<1>5. stamps \in [TrafficClass -> Seq(Int)]
  BY <1>1, <1>2, <1>3
<1>6. accepted \in SUBSET [operation : Operation \cup {NoOperation}, at : Int]
  BY <1>1, <1>2 DEF WindowState, Remembered
<1>7. was.accepted \subseteq accepted /\ (class = "import" => Remembered(call, time) \in accepted)
  OBVIOUS
<1>8. \A c \in TrafficClass : stamps[c] = IF c = class THEN Append(was.stamps[c], time)
                                          ELSE was.stamps[c]
  BY <1>1, <1>2
<1> DEFINE state == [was EXCEPT !.stamps = stamps, !.accepted = accepted]
<1> HIDE DEF stamps, accepted
<1>9. state \in WindowState /\ state.stamps = stamps /\ state.accepted = accepted
  BY <1>2, <1>5, <1>6 DEF WindowState
<1> HIDE DEF state
<1>10. after = [players EXCEPT ![player] = state]
  BY <1>4 DEF state
<1> HIDE DEF after
<1>11. after[player] = state /\ \A p \in Player : p # player => after[p] = players[p]
  BY <1>1, <1>10
<1>12. after \in [Player -> WindowState]
  BY <1>1, <1>9, <1>10
<1>13. ASSUME NEW p \in Player, NEW c \in TrafficClass
       PROVE  after[p].stamps[c] = IF p = player /\ c = class
                  THEN Append(players[p].stamps[c], time) ELSE players[p].stamps[c]
  <2>1. CASE p = player
    BY <1>8, <1>9, <1>11, <2>1
  <2>2. CASE p # player
    BY <1>11, <2>2
  <2> QED BY <2>1, <2>2
<1>14. ASSUME NEW p \in Player PROVE players[p].accepted \subseteq after[p].accepted
  BY <1>7, <1>9, <1>11
<1>15. class = "import" => Remembered(call, time) \in after[player].accepted
  BY <1>7, <1>9, <1>11
<1> QED BY <1>12, <1>13, <1>14, <1>15 DEF after

LEMMA WindowsAdmit ==
    ASSUME NEW players, NEW entries \in Seq(Admission), NEW clock \in Int,
           WindowsOK(players, entries, clock), NEW call \in Call, NEW time \in Int,
           ~AtLimit(players, call)
    PROVE  WindowsOK(LetThrough(players, call, time), Append(entries, [call |-> call, at |-> time]), clock)
<1> DEFINE after == LetThrough(players, call, time)
           entry == [call |-> call, at |-> time]
           more == Append(entries, entry)
<1>1. players \in [Player -> WindowState]
  BY DEF WindowsOK
<1>2. /\ after \in [Player -> WindowState]
      /\ \A p \in Player, c \in TrafficClass :
             after[p].stamps[c] = IF p = call.player /\ c = call.class
                 THEN Append(players[p].stamps[c], time) ELSE players[p].stamps[c]
      /\ \A p \in Player : players[p].accepted \subseteq after[p].accepted
      /\ call.class = "import" => Remembered(call, time) \in after[call.player].accepted
  BY <1>1, LetThroughIs
<1>3. entry \in Admission /\ entry.at = time /\ entry.call = call
      /\ call.player \in Player /\ call.class \in TrafficClass
  BY CallIs DEF Admission
<1> HIDE DEF after, entry
<1>4. ASSUME NEW p \in Player, NEW c \in TrafficClass
      PROVE  /\ Len(after[p].stamps[c]) <= LimitOf[c]
             /\ Traced(after[p].stamps[c], more, p, c, clock)
  <2> DEFINE stamps == players[p].stamps[c]
  <2>1. stamps \in Seq(Int) /\ Len(stamps) <= LimitOf[c] /\ Traced(stamps, entries, p, c, clock)
    BY <1>1 DEF WindowsOK, WindowState
  <2>2. CASE p = call.player /\ c = call.class
    <3>1. after[p].stamps[c] = Append(stamps, entry.at)
      BY <1>2, <1>3, <2>2
    <3>2. Traced(Append(stamps, entry.at), more, p, c, clock)
      <4> HIDE DEF stamps
      <4> QED BY <1>3, <2>1, TracedAppended
    <3>3. ~(Len(stamps) >= LimitOf[c])
      BY <2>2 DEF AtLimit
    <3> HIDE DEF stamps
    <3>4. Len(Append(stamps, entry.at)) = Len(stamps) + 1 /\ Len(stamps) \in Nat
      BY <1>3, <2>1, AppendIs
    <3>5. Len(Append(stamps, entry.at)) <= LimitOf[c]
      BY <3>3, <3>4, TrafficConstants
    <3> QED BY <3>1, <3>2, <3>5
  <2>3. CASE ~(p = call.player /\ c = call.class)
    <3>1. after[p].stamps[c] = stamps
      BY <1>2, <2>3
    <3>2. ~Made(entry, p, c)
      BY <1>3, <2>3 DEF Made
    <3>3. Traced(stamps, more, p, c, clock)
      <4> HIDE DEF stamps
      <4> QED BY <1>3, <2>1, <3>2, TracedBeside
    <3> QED BY <2>1, <3>1, <3>3
  <2> QED BY <2>2, <2>3
<1>5. ASSUME NEW i \in 1..Len(more), more[i].call.class = "import"
      PROVE  Known(after, more[i], clock)
  <2>1. /\ Len(entries) \in Nat /\ Len(more) = Len(entries) + 1
        /\ more[Len(entries) + 1] = entry
        /\ \A j \in 1..Len(entries) : more[j] = entries[j] /\ entries[j] \in Admission
    BY <1>3, AppendIs
  <2>2. CASE i = Len(entries) + 1
    <3>1. more[i] = entry
      BY <2>1, <2>2
    <3> QED BY <1>2, <1>3, <1>5, <3>1 DEF Known
  <2>3. CASE i \in 1..Len(entries)
    <3>1. Known(players, entries[i], clock)
      BY <1>5, <2>1, <2>3 DEF WindowsOK
    <3>2. entries[i].call.player \in Player
      BY <2>1, <2>3, CallIs DEF Admission
    <3>3. Known(after, entries[i], clock)
      BY <1>2, <3>1, <3>2 DEF Known
    <3> QED BY <2>1, <2>3, <3>3
  <2> QED BY <2>1, <2>2, <2>3
<1> HIDE DEF more
<1>6. WindowsOK(after, more, clock)
  BY <1>2, <1>4, <1>5 DEF WindowsOK
<1> QED BY <1>6 DEF after, more, entry

LEMMA WindowsLater ==
    ASSUME NEW players, NEW entries \in Seq(Admission), NEW clock \in Int,
           WindowsOK(players, entries, clock), NEW later \in Int, clock <= later
    PROVE  WindowsOK(players, entries, later)
<1>1. ASSUME NEW p \in Player, NEW c \in TrafficClass
      PROVE  Traced(players[p].stamps[c], entries, p, c, later)
  <2>1. Traced(players[p].stamps[c], entries, p, c, clock)
    BY DEF WindowsOK
  <2> QED BY <2>1, TracedLater
<1>2. ASSUME NEW i \in 1..Len(entries), entries[i].call.class = "import"
      PROVE  Known(players, entries[i], later)
  <2>1. Known(players, entries[i], clock) /\ entries[i] \in Admission
    BY <1>2 DEF WindowsOK
  <2>2. entries[i].at \in Int
    BY <2>1 DEF Admission
  <2>3. clock - entries[i].at >= WindowOf["import"] => later - entries[i].at >= WindowOf["import"]
    BY <2>2, TrafficConstants
  <2> QED BY <2>1, <2>3 DEF Known
<1> QED BY <1>1, <1>2 DEF WindowsOK

-----------------------------------------------------------------------------
(* Who a pattern of indices covers is not more than the pattern is long.   *)
LEMMA CoveredBound ==
    ASSUME NEW n \in Nat, NEW index, NEW I, \A i \in I : \E m \in 1..n : index[m] = i
    PROVE  IsFiniteSet(I) /\ Cardinality(I) \in Nat /\ Cardinality(I) <= n
<1> DEFINE M == {m \in 1..n : index[m] \in I}
           f == [m \in M |-> index[m]]
<1>1. IsFiniteSet(M) /\ Cardinality(M) <= n /\ Cardinality(M) \in Nat
  <2>1. M \in SUBSET (1..n)
    OBVIOUS
  <2> HIDE DEF M
  <2>2. IsFiniteSet(1..n) /\ Cardinality(1..n) = n
    BY CountsUpTo
  <2>3. IsFiniteSet(M) /\ Cardinality(M) <= Cardinality(1..n)
    BY <2>1, <2>2, FS_Subset
  <2> QED BY <2>2, <2>3, FS_CardinalityType
<1>2. f \in Surjection(M, I)
  BY DEF Surjection
<1>3. IsFiniteSet(I) /\ Cardinality(I) <= Cardinality(M)
  <2> HIDE DEF M, f
  <2> QED BY <1>1, <1>2, FS_Surjection
<1>4. Cardinality(I) \in Nat
  BY <1>3, FS_CardinalityType
<1> HIDE DEF M
<1> QED BY <1>1, <1>3, <1>4

Stretch(entries, p, c, first) ==
    {i \in 1..Len(entries) :
        Made(entries[i], p, c) /\ entries[i].at \in first..(first + (WindowOf[c] - MaxLag) - 1)}
WithinLimit(entries, p, c) ==
    \A first \in Int : Cardinality(Stretch(entries, p, c, first)) <= LimitOf[c]

(* A stretch that ends with an admission has the stamps still in the       *)
(* window, and fewer than the limit.                                       *)
LEMMA AdmitsWithin ==
    ASSUME NEW players, NEW entries \in Seq(Admission), NEW clock \in Int,
           WindowsOK(players, entries, clock), NEW call \in Call, NEW time \in Int,
           ~AtLimit(players, call), clock - time <= MaxLag,
           NEW p \in Player, NEW c \in TrafficClass, WithinLimit(entries, p, c)
    PROVE  WithinLimit(Append(entries, [call |-> call, at |-> time]), p, c)
<1> DEFINE entry == [call |-> call, at |-> time]
           more == Append(entries, entry)
           span == WindowOf[c] - MaxLag
<1>1. entry \in Admission /\ entry.at = time /\ entry.call = call
  BY DEF Admission
<1>2. /\ Len(entries) \in Nat /\ Len(more) = Len(entries) + 1
      /\ more[Len(entries) + 1] = entry
      /\ \A i \in 1..Len(entries) : more[i] = entries[i] /\ entries[i] \in Admission
  BY <1>1, AppendIs
<1> HIDE DEF entry, more
<1> SUFFICES ASSUME NEW first \in Int
             PROVE  Cardinality(Stretch(more, p, c, first)) <= LimitOf[c]
  BY DEF WithinLimit, more, entry
<1> DEFINE I == Stretch(entries, p, c, first)
           J == Stretch(more, p, c, first)
<1>3. Cardinality(I) <= LimitOf[c]
  BY DEF WithinLimit
<1>4. CASE ~(Made(entry, p, c) /\ time \in first..(first + span - 1))
  <2>1. J = I
    BY <1>1, <1>2, <1>4 DEF Stretch
  <2> QED BY <1>3, <2>1
<1>5. CASE Made(entry, p, c) /\ time \in first..(first + span - 1)
  <2>1. J = I \cup {Len(entries) + 1} /\ Len(entries) + 1 \notin I
    BY <1>1, <1>2, <1>5 DEF Stretch
  <2> DEFINE stamps == players[p].stamps[c]
  <2>2. PICK index : Traces(index, stamps, entries, p, c, clock)
    BY DEF WindowsOK, Traced
  <2>3. Len(stamps) \in Nat /\ Len(stamps) < LimitOf[c] /\ LimitOf[c] \in Nat
    <3>1. p = call.player /\ c = call.class
      BY <1>1, <1>5 DEF Made
    <3>2. stamps \in Seq(Int)
      BY DEF WindowsOK, WindowState
    <3>3. Len(stamps) \in Nat /\ LimitOf[c] \in Nat
      BY <3>2, TrafficConstants
    <3> QED BY <3>1, <3>3 DEF AtLimit
  <2> HIDE DEF stamps
  <2>4. ASSUME NEW i \in I PROVE \E m \in 1..Len(stamps) : index[m] = i
    <3>1. /\ i \in 1..Len(entries) /\ Made(entries[i], p, c)
          /\ entries[i].at \in first..(first + span - 1)
      BY DEF Stretch
    <3>2. /\ entries[i].at \in Int /\ WindowOf[c] \in Nat /\ MaxLag \in Nat
          /\ entries[i].at >= first /\ time <= first + span - 1
      BY <1>2, <1>5, <3>1, TrafficConstants DEF Admission
    <3>3. ~(clock - entries[i].at >= WindowOf[c])
      BY <3>2
    <3> QED BY <2>2, <3>1, <3>3 DEF Traces
  <2> HIDE DEF I
  <2>5. IsFiniteSet(I) /\ Cardinality(I) \in Nat /\ Cardinality(I) <= Len(stamps)
    BY <2>3, <2>4, CoveredBound
  <2>6. Cardinality(J) = Cardinality(I) + 1
    BY <2>1, <2>5, FS_AddElement
  <2> QED BY <2>3, <2>5, <2>6
<1> QED BY <1>4, <1>5

(* The id of an import is known for its window.                            *)
ImportedOnce(entries) ==
    \A i, j \in 1..Len(entries) :
        /\ i < j /\ entries[i].call = entries[j].call /\ entries[i].call.class = "import"
        => entries[j].at - entries[i].at >= WindowOf["import"] - MaxLag

LEMMA AdmitsOnce ==
    ASSUME NEW players, NEW entries \in Seq(Admission), NEW clock \in Int,
           WindowsOK(players, entries, clock), NEW call \in Call, NEW time \in Int,
           ~Accepted(players, call), clock - time <= MaxLag, ImportedOnce(entries)
    PROVE  ImportedOnce(Append(entries, [call |-> call, at |-> time]))
<1> DEFINE entry == [call |-> call, at |-> time]
           more == Append(entries, entry)
<1>1. entry \in Admission /\ entry.at = time /\ entry.call = call
  BY DEF Admission
<1>2. /\ Len(entries) \in Nat /\ Len(more) = Len(entries) + 1
      /\ more[Len(entries) + 1] = entry
      /\ \A i \in 1..Len(entries) : more[i] = entries[i] /\ entries[i] \in Admission
  BY <1>1, AppendIs
<1> HIDE DEF entry, more
<1> SUFFICES ASSUME NEW i \in 1..Len(more), NEW j \in 1..Len(more), i < j,
                    more[i].call = more[j].call, more[i].call.class = "import"
             PROVE  more[j].at - more[i].at >= WindowOf["import"] - MaxLag
  BY DEF ImportedOnce, more, entry
<1>3. i \in 1..Len(entries)
  BY <1>2
<1>4. CASE j \in 1..Len(entries)
  BY <1>2, <1>3, <1>4 DEF ImportedOnce
<1>5. CASE j = Len(entries) + 1
  <2>1. more[j] = entry /\ entries[i].call = call /\ call.class = "import" /\ more[i] = entries[i]
    BY <1>1, <1>2, <1>3, <1>5
  <2>2. Known(players, entries[i], clock)
    BY <1>3, <2>1 DEF WindowsOK
  <2>3. Remembered(call, entries[i].at) \notin players[call.player].accepted
    BY <2>1 DEF Accepted, Remembered
  <2>4. clock - entries[i].at >= WindowOf["import"]
    BY <2>1, <2>2, <2>3 DEF Known
  <2>5. entries[i].at \in Int /\ WindowOf["import"] \in Nat /\ MaxLag \in Nat
    BY <1>2, <1>3, TrafficConstants DEF Admission
  <2> QED BY <1>1, <2>1, <2>4, <2>5
<1> QED BY <1>2, <1>4, <1>5

-----------------------------------------------------------------------------
(* The seconds that a refusal names are over when its oldest stamp is.     *)
LEMMA MaxOfTwo ==
    ASSUME NEW m \in Int, NEW n \in Int
    PROVE  Max({m, n}) \in {m, n} /\ Max({m, n}) >= m /\ Max({m, n}) >= n
<1> DEFINE T == {m, n}
<1>1. \E x \in T : \A y \in T : x >= y
  <2>1. CASE m >= n
    BY <2>1
  <2>2. CASE n >= m
    BY <2>2
  <2> QED BY <2>1, <2>2
<1>2. Max(T) \in T /\ \A y \in T : Max(T) >= y
  BY <1>1 DEF Max
<1> QED BY <1>2

LEMMA RoundedUp ==
    ASSUME NEW remaining \in Nat, NEW unit \in Nat \ {0}
    PROVE  /\ (remaining + unit - 1) \div unit \in Int
           /\ unit * ((remaining + unit - 1) \div unit) >= remaining
<1> DEFINE n == remaining + unit - 1
           q == n \div unit
<1>1. n \in Int
  OBVIOUS
<1>2. q \in Int /\ n - (unit - 1) <= unit * q
  <2> HIDE DEF n
  <2> QED BY <1>1
<1>3. unit * q \in Int /\ n - (unit - 1) = remaining
  BY <1>2
<1> HIDE DEF q, n
<1> QED BY <1>2, <1>3 DEF q, n

LEMMA RetryOutlasts ==
    ASSUME NEW oldest \in Int, NEW span \in Nat, NEW time \in Int, time - oldest < span
    PROVE  /\ PerSecond * RetryAfter(oldest, span, time) \in Int
           /\ time + PerSecond * RetryAfter(oldest, span, time) - oldest >= span
<1> DEFINE remaining == oldest + span - time
           unit == PerSecond
           q == (remaining + unit - 1) \div unit
           retry == Max({1, q})
<1>1. remaining \in Nat /\ unit \in Nat \ {0} /\ oldest + span > time
  BY TrafficConstants
<1>2. RetryAfter(oldest, span, time) = retry
  BY <1>1 DEF RetryAfter, SecondsUntil
<1> HIDE DEF remaining, unit
<1>3. q \in Int /\ unit * q >= remaining
  BY <1>1, RoundedUp
<1> HIDE DEF q
<1>4. retry \in {1, q} /\ retry >= 1 /\ retry >= q
  BY <1>3, MaxOfTwo
<1> HIDE DEF retry
<1>5. unit * retry \in Int /\ unit * retry >= remaining
  <2>1. CASE retry = q
    BY <1>1, <1>3, <2>1
  <2>2. CASE retry = 1
    <3>1. q <= 1
      BY <1>3, <1>4, <2>2
    <3>2. unit * q <= unit
      BY <1>1, <1>3, <3>1
    <3> QED BY <1>1, <1>3, <2>2, <3>2
  <2> QED BY <1>4, <2>1, <2>2
<1>6. remaining = oldest + span - time
  BY DEF remaining
<1>7. /\ PerSecond * retry \in Int /\ time + PerSecond * retry - oldest >= span
  BY <1>5, <1>6 DEF unit
<1> QED BY <1>2, <1>7

LEMMA RetryIsLetThrough ==
    ASSUME NEW stamps \in Seq(Int), NEW c \in TrafficClass, NEW time \in Int,
           Len(stamps) >= LimitOf[c], Len(stamps) <= LimitOf[c],
           time - stamps[1] < WindowOf[c], NEW later \in Int,
           later - stamps[1] >= WindowOf[c]
    PROVE  Len(Live(stamps, later, WindowOf[c])) < LimitOf[c]
<1> DEFINE live == Live(stamps, later, WindowOf[c])
<1>1. WindowOf[c] \in Nat \ {0} /\ LimitOf[c] \in Nat \ {0} /\ Len(stamps) \in Nat
  BY TrafficConstants
<1>2. PICK n \in 0..Len(stamps) : ExpiresAt(stamps, later, WindowOf[c], n) /\ Rest(stamps, n, live)
  BY <1>1, LiveIs
<1> HIDE DEF live
<1>3. stamps[1] \in Int /\ Len(live) = Len(stamps) - n
  BY <1>1, <1>2 DEF Rest
<1>4. n # 0
  BY <1>1, <1>2, <1>3 DEF ExpiresAt
<1>5. Len(live) < LimitOf[c]
  BY <1>1, <1>3, <1>4
<1> QED BY <1>5 DEF live

-----------------------------------------------------------------------------
TrafficInv ==
    /\ tick \in Nat /\ admissions \in Seq(Admission)
    /\ WindowsOK(windows, admissions, tick)
    /\ \A p \in Player, c \in TrafficClass : WithinLimit(admissions, p, c)
    /\ ImportedOnce(admissions)
    /\ RefusalsNameARetry

LEMMA TrafficInitInv == TrafficInit => TrafficInv
<1> SUFFICES ASSUME TrafficInit PROVE TrafficInv
  OBVIOUS
<1>1. admissions = <<>> /\ Len(admissions) = 0 /\ admissions \in Seq(Admission) /\ tick = 0
  BY DEF TrafficInit
<1>2. WindowsOK(windows, admissions, tick)
  <2>1. Idle \in WindowState
    BY DEF Idle, WindowState
  <2>2. ASSUME NEW p \in Player, NEW c \in TrafficClass
        PROVE  windows[p].stamps[c] = <<>>
    BY DEF TrafficInit, Idle
  <2>3. \A p \in Player, c \in TrafficClass : Traced(<<>>, admissions, p, c, tick)
    <3>1. ASSUME NEW p, NEW c PROVE Traces(<<>>, <<>>, admissions, p, c, tick)
      BY <1>1 DEF Traces
    <3> QED BY <3>1 DEF Traced
  <2>4. \A c \in TrafficClass : Len(<<>>) <= LimitOf[c]
    BY TrafficConstants
  <2> QED BY <1>1, <2>1, <2>2, <2>3, <2>4 DEF WindowsOK, TrafficInit
<1>3. ASSUME NEW p \in Player, NEW c \in TrafficClass PROVE WithinLimit(admissions, p, c)
  <2>1. \A first \in Int : Stretch(admissions, p, c, first) = {}
    BY <1>1 DEF Stretch
  <2> QED BY <2>1, FS_EmptySet, TrafficConstants DEF WithinLimit
<1>4. ImportedOnce(admissions) /\ RefusalsNameARetry
  BY <1>1 DEF ImportedOnce, RefusalsNameARetry, TrafficInit
<1> QED BY <1>1, <1>2, <1>3, <1>4 DEF TrafficInv

(* The windows are pruned and nothing is admitted.                         *)
LEMMA RefusedTraffic ==
    ASSUME TrafficInv, NEW time \in Int, time <= tick, windows' = Pruned(windows, time),
           UNCHANGED <<tick, admissions>>, RefusalsNameARetry'
    PROVE  TrafficInv'
<1>1. WindowsOK(Pruned(windows, time), admissions, tick)
  BY WindowsExpire DEF TrafficInv
<1> QED BY <1>1 DEF TrafficInv

LEMMA RefuseAtLimitTraffic ==
    ASSUME TrafficInv, NEW call \in Call, NEW time \in Int, time <= tick,
           RefuseAtLimit(call, Pruned(windows, time), time)
    PROVE  TrafficInv'
<1> DEFINE left == Pruned(windows, time)
           player == call.player
           c == call.class
           stamps == left[player].stamps[c]
           retry == RetryAfter(Head(stamps), WindowOf[c], time)
<1>1. player \in Player /\ c \in TrafficClass
  BY CallIs
<1>2. /\ windows' = left /\ UNCHANGED <<tick, admissions>>
      /\ refusal' = [call |-> call, at |-> time, retry |-> retry]
      /\ Len(stamps) >= LimitOf[c]
  BY DEF RefuseAtLimit, AtLimit
<1>3. WindowsOK(left, admissions, tick)
  BY WindowsExpire DEF TrafficInv
<1>4. stamps \in Seq(Int) /\ Len(stamps) <= LimitOf[c] /\ Len(stamps) \in Nat
  BY <1>1, <1>3 DEF WindowsOK, WindowState
<1>5. stamps = Live(windows[player].stamps[c], time, WindowOf[c])
  BY <1>1, PrunedIs DEF TrafficInv, WindowsOK
<1>6. windows[player].stamps[c] \in Seq(Int)
      /\ Traced(windows[player].stamps[c], admissions, player, c, tick)
  BY <1>1 DEF TrafficInv, WindowsOK, WindowState
<1>7. LimitOf[c] \in Nat \ {0} /\ WindowOf[c] \in Nat \ {0}
  BY <1>1, TrafficConstants
<1>8. Len(stamps) > 0 /\ Head(stamps) = stamps[1] /\ stamps[1] \in Int
  <2> HIDE DEF stamps
  <2>1. Len(stamps) > 0
    BY <1>2, <1>4, <1>7
  <2> QED BY <1>4, <2>1
<1>9. time - stamps[1] < WindowOf[c]
  <2>1. ASSUME NEW old \in Seq(Int), Traced(old, admissions, player, c, tick),
               0 < Len(Live(old, time, WindowOf[c]))
        PROVE  time - Live(old, time, WindowOf[c])[1] < WindowOf[c]
    <3>1. admissions \in Seq(Admission) /\ tick \in Int
      BY DEF TrafficInv
    <3> HIDE DEF c, player
    <3> QED BY <1>1, <2>1, <3>1, TracedExpired
  <2> QED BY <1>5, <1>6, <1>8, <2>1
<1> DEFINE later == time + PerSecond * retry
<1>10. later \in Int /\ later - stamps[1] >= WindowOf[c]
  <2> HIDE DEF stamps, c
  <2>1. PerSecond * retry \in Int /\ time + PerSecond * retry - stamps[1] >= WindowOf[c]
    <3>1. Head(stamps) \in Int /\ time - Head(stamps) < WindowOf[c]
      BY <1>8, <1>9
    <3> QED BY <1>7, <1>8, <3>1, RetryOutlasts
  <2> DEFINE wait == PerSecond * retry
  <2>2. wait \in Int /\ time + wait - stamps[1] >= WindowOf[c]
    BY <2>1
  <2> HIDE DEF wait
  <2>3. time + wait \in Int /\ (time + wait) - stamps[1] >= WindowOf[c]
    BY <1>8, <2>2
  <2> QED BY <2>3 DEF wait
<1>11. Len(Live(stamps, later, WindowOf[c])) < LimitOf[c]
  <2> HIDE DEF stamps, later, c
  <2> QED BY <1>1, <1>2, <1>4, <1>9, <1>10, RetryIsLetThrough
<1>12. RefusalsNameARetry'
  <2>1. /\ refusal'.call = call /\ refusal'.at = time /\ refusal'.retry = retry
        /\ windows'[player].stamps[c] = stamps
    BY <1>2
  <2> HIDE DEF stamps, retry
  <2> QED BY <1>11, <2>1 DEF RefusalsNameARetry
<1> QED BY <1>2, <1>12, RefusedTraffic

LEMMA AdmitTraffic ==
    ASSUME TrafficInv, NEW call \in Call, NEW time \in Int, time <= tick, tick - time <= MaxLag,
           Admit(call, Pruned(windows, time), time)
    PROVE  TrafficInv'
<1> DEFINE left == Pruned(windows, time)
           entry == [call |-> call, at |-> time]
<1>1. WindowsOK(left, admissions, tick) /\ admissions \in Seq(Admission) /\ tick \in Int
  BY WindowsExpire DEF TrafficInv
<1>2. /\ ~Accepted(left, call) /\ ~AtLimit(left, call) /\ UNCHANGED tick
      /\ windows' = LetThrough(left, call, time) /\ admissions' = Append(admissions, entry)
      /\ refusal' = NoRefusal
  BY DEF Admit, LetThrough
<1> HIDE DEF left
<1>3. entry \in Admission
  BY DEF Admission
<1>4. WindowsOK(LetThrough(left, call, time), Append(admissions, entry), tick)
  BY <1>1, <1>2, WindowsAdmit
<1>5. \A p \in Player, c \in TrafficClass : WithinLimit(Append(admissions, entry), p, c)
  <2> SUFFICES ASSUME NEW p \in Player, NEW c \in TrafficClass
               PROVE  WithinLimit(Append(admissions, entry), p, c)
    OBVIOUS
  <2>1. WithinLimit(admissions, p, c)
    BY DEF TrafficInv
  <2> QED BY <1>1, <1>2, <2>1, AdmitsWithin
<1>6. ImportedOnce(Append(admissions, entry))
  BY <1>1, <1>2, AdmitsOnce DEF TrafficInv
<1>7. RefusalsNameARetry'
  BY <1>2 DEF RefusalsNameARetry, NoRefusal
<1>8. Append(admissions, entry) \in Seq(Admission)
  BY <1>1, <1>3
<1> HIDE DEF entry
<1> QED BY <1>2, <1>4, <1>5, <1>6, <1>7, <1>8 DEF TrafficInv

LEMMA TrafficStep == TrafficInv /\ [TrafficNext]_trafficVars => TrafficInv'
<1> SUFFICES ASSUME TrafficInv, [TrafficNext]_trafficVars PROVE TrafficInv'
  OBVIOUS
<1>1. CASE TrafficTick
  <2>1. tick' = tick + 1 /\ tick' \in Nat /\ tick \in Nat
        /\ UNCHANGED <<windows, admissions, refusal>>
    BY <1>1 DEF TrafficTick, TrafficInv
  <2>2. WindowsOK(windows, admissions, tick')
    BY <2>1, WindowsLater DEF TrafficInv
  <2> QED BY <2>1, <2>2 DEF TrafficInv, RefusalsNameARetry
<1>2. CASE TrafficCall
  <2>1. PICK call \in Call, time \in {t \in 0..tick : tick - t <= MaxLag} :
            LET players == [p \in Player |-> ExpiredWindows(windows[p], time)]
            IN  \/ Repeat(call, players, time) \/ RefuseForRoom(call, players, time)
                \/ RefuseAtLimit(call, players, time) \/ Admit(call, players, time)
    BY <1>2 DEF TrafficCall
  <2>2. \/ Repeat(call, Pruned(windows, time), time)
        \/ RefuseForRoom(call, Pruned(windows, time), time)
        \/ RefuseAtLimit(call, Pruned(windows, time), time)
        \/ Admit(call, Pruned(windows, time), time)
    BY <2>1 DEF Pruned
  <2>3. time \in Int /\ time <= tick /\ tick - time <= MaxLag
    BY DEF TrafficInv
  <2>4. CASE \/ Repeat(call, Pruned(windows, time), time)
             \/ RefuseForRoom(call, Pruned(windows, time), time)
    <3>1. /\ windows' = Pruned(windows, time) /\ refusal' = NoRefusal
          /\ UNCHANGED <<tick, admissions>>
      BY <2>4 DEF Repeat, RefuseForRoom
    <3>2. RefusalsNameARetry'
      BY <3>1 DEF RefusalsNameARetry, NoRefusal
    <3> QED BY <2>3, <3>1, <3>2, RefusedTraffic
  <2> QED BY <2>2, <2>3, <2>4, RefuseAtLimitTraffic, AdmitTraffic
<1>3. CASE UNCHANGED trafficVars
  BY <1>3 DEF TrafficInv, RefusalsNameARetry, trafficVars
<1> QED BY <1>1, <1>2, <1>3 DEF TrafficNext

LEMMA TrafficInvImplies ==
    TrafficInv => TrafficWithinLimit /\ ImportsCountedOnce /\ RefusalsNameARetry
<1> SUFFICES ASSUME TrafficInv
             PROVE  TrafficWithinLimit /\ ImportsCountedOnce /\ RefusalsNameARetry
  OBVIOUS
<1>1. ASSUME NEW p \in Player, NEW c \in TrafficClass, NEW first \in 0..tick
      PROVE  Cardinality({i \in DOMAIN StampsOf(p, c) : StampsOf(p, c)[i] \in
                 first..(first + (WindowOf[c] - MaxLag) - 1)}) <= LimitOf[c]
  <2>1. DOMAIN StampsOf(p, c) = 1..Len(admissions) /\ first \in Int /\ first >= 0
    BY DEF StampsOf, TrafficInv
  <2>2. ASSUME NEW i \in 1..Len(admissions)
        PROVE  StampsOf(p, c)[i] = IF Made(admissions[i], p, c) THEN admissions[i].at ELSE -1
    BY DEF StampsOf, Made
  <2>3. {i \in DOMAIN StampsOf(p, c) : StampsOf(p, c)[i] \in
                 first..(first + (WindowOf[c] - MaxLag) - 1)} = Stretch(admissions, p, c, first)
    <3>1. ASSUME NEW i \in 1..Len(admissions) PROVE admissions[i].at \in Int
      <4>1. admissions[i] \in Admission
        BY DEF TrafficInv
      <4> QED BY <4>1 DEF Admission
    <3> QED BY <2>1, <2>2, <3>1, TrafficConstants DEF Stretch
  <2> QED BY <2>1, <2>3 DEF TrafficInv, WithinLimit
<1>2. TrafficWithinLimit
  BY <1>1 DEF TrafficWithinLimit
<1>3. ImportsCountedOnce
  BY DEF TrafficInv, ImportedOnce, ImportsCountedOnce
<1> QED BY <1>2, <1>3 DEF TrafficInv

LEMMA TrafficInvHolds == TrafficSpec => []TrafficInv
BY TrafficInitInv, TrafficStep, PTL DEF TrafficSpec

(* No Player is let through more often than the limit in any stretch as    *)
(* long as a window, less the lag of callers, however calls of others      *)
(* expire its stamps and however these are out of order (player_traffic).  *)
THEOREM TrafficStaysWithinLimits == TrafficSpec => []TrafficWithinLimit
BY TrafficInvHolds, TrafficInvImplies, PTL

(* A retried import is not counted again within its window, less the lag.  *)
THEOREM RetriedImportsCountOnce == TrafficSpec => []ImportsCountedOnce
BY TrafficInvHolds, TrafficInvImplies, PTL

(* The seconds that a refusal names suffice: `retry_after` is rounded up   *)
(* and names the expiry of the stamp that is first to go.                  *)
THEOREM RefusedPlayersMayRetry == TrafficSpec => []RefusalsNameARetry
BY TrafficInvHolds, TrafficInvImplies, PTL

===============================================================================
