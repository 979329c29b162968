---------------------------- MODULE EngineAdmission ----------------------------
(***************************************************************************)
(* CoachAdmission and EngineAdmission: pools of slots with a bounded queue *)
(* and a deadline, one claim per Player and engine class, a deployment     *)
(* ceiling that all engine leases draw on, and prefetches that take idle   *)
(* batch slots only.  A caller may be cancelled where it awaits a slot.    *)
(*                                                                         *)
(* One action is what happens between two points where another thread may  *)
(* interfere: one lock, one operation on the atomic counter, one operation *)
(* of Tokio's semaphore (first in, first out).                             *)
(***************************************************************************)
EXTENDS Players, SlidingWindow, FiniteSets

CONSTANTS
    Caller,        \* calls of acquire, acquire_until and try_acquire_prefetch
    LocalCoach,    \* the principal without a Player
    Slots,         \* Slots[p]: permits of pool p
    MaxWaiting,    \* MaxWaiting[p]: max_waiting of pool p
    Ceiling,       \* the ceiling, in leases per window
    Window,        \* its window
    LastTime,      \* bound on the clock
    MaxDelay,      \* bound: how long ago a caller that locks the meter read its clock
    SlotCalls      \* the calls made: [pool, principal, prefetch]

Pool == {"interactive", "batch", "web", "local"}
EnginePool == {"interactive", "batch"}

ASSUME AdmissionAssumption ==
    /\ LocalCoach \notin Player
    /\ Slots \in [Pool -> Nat \ {0}] /\ MaxWaiting \in [Pool -> Nat]
    /\ Ceiling \in Nat /\ Window \in Nat \ {0} /\ LastTime \in Nat /\ MaxDelay \in Nat
    /\ SlotCalls \subseteq [pool : Pool, principal : Player \cup {LocalCoach}, prefetch : BOOLEAN]

VARIABLES
    now,        \* the clock
    admitted,   \* the DeploymentCeiling's stamps
    recorded,   \* history: every stamp it was given
    free,       \* free[p]: permits that nobody holds or was handed
    slotQueue,  \* queue[p]: requests that wait for a permit
    waiting,    \* waiting[p]: the counter
    active,     \* active[p]: active_players
    caller      \* caller[r]: where call r is

meter == <<admitted, recorded>>
admissionVars == <<now, meter, free, slotQueue, waiting, active, caller>>

(* What a caller holds at each stage.                                      *)
Counted == {"enqueue", "wait", "granted", "timedOut", "refused"}
WithPermit == {"granted", "record", "lease"}
Claiming == {"try", "count", "record", "lease", "unclaim"} \cup Counted
CallerPC == {"idle", "check", "claim", "done"} \cup Claiming

NotAsked == [pc |-> "idle", pool |-> "batch", principal |-> LocalCoach, prefetch |-> FALSE]
CallerState ==
    [pc : CallerPC, pool : Pool, principal : Player \cup {LocalCoach}, prefetch : BOOLEAN]

AdmissionTypeOK ==
    /\ now \in 0..LastTime
    /\ admitted \in Seq(0..LastTime) /\ recorded \in Seq(0..LastTime)
    /\ \A p \in Pool : free[p] \in 0..Slots[p]
    /\ slotQueue \in [Pool -> Seq(Caller)]
    /\ waiting \in [Pool -> Nat]
    /\ active \in [Pool -> SUBSET Player]
    /\ caller \in [Caller -> CallerState]

AdmissionInit ==
    /\ now = 0
    /\ admitted = <<>> /\ recorded = <<>>
    /\ free = Slots
    /\ slotQueue = [p \in Pool |-> <<>>]
    /\ waiting = [p \in Pool |-> 0]
    /\ active = [p \in Pool |-> {}]
    /\ caller = [r \in Caller |-> NotAsked]

-----------------------------------------------------------------------------
Tick ==
    /\ now < LastTime /\ now' = now + 1
    /\ UNCHANGED <<meter, free, slotQueue, waiting, active, caller>>

(* What a caller read from the clock before it locked the meter.           *)
ReadTime == {t \in 0..now : now - t <= MaxDelay}

Move(r, pc) ==
    caller' = [caller EXCEPT ![r] =
        IF pc = "done" THEN [NotAsked EXCEPT !.pc = "done"] ELSE [@ EXCEPT !.pc = pc]]

(* A caller with a claim drops it when it ends; others just end.           *)
OfEngine(r) == caller[r].pool \in EnginePool
End(r) == Move(r, IF OfEngine(r) /\ ~caller[r].prefetch THEN "unclaim" ELSE "done")

Ask(r) ==
    /\ caller[r].pc = "idle"
    /\ \E call \in SlotCalls :
           caller' = [caller EXCEPT ![r] =
               [pc |-> IF call.pool \in EnginePool THEN "check" ELSE "try",
                pool |-> call.pool, principal |-> call.principal,
                prefetch |-> call.prefetch]]
    /\ UNCHANGED <<now, meter, free, slotQueue, waiting, active>>

CheckCeiling(r) ==
    /\ caller[r].pc = "check"
    /\ \E time \in ReadTime :
           /\ admitted' = Live(admitted, time, Window)
           /\ Move(r, IF Len(admitted') >= Ceiling THEN "done"
                      ELSE IF caller[r].prefetch THEN "try" ELSE "claim")
    /\ UNCHANGED <<now, recorded, free, slotQueue, waiting, active>>

ClaimAndDrop(r) ==       \* mutant: a refused claim is dropped like one that was taken
    LET player == caller[r].principal
        p == caller[r].pool
    IN  /\ caller[r].pc = "claim"
        /\ IF player \in active[p] THEN Move(r, "unclaim") ELSE Move(r, "try")
        /\ active' = IF player = LocalCoach THEN active
                     ELSE [active EXCEPT ![p] = @ \cup {player}]
        /\ UNCHANGED <<now, meter, free, slotQueue, waiting>>
Claim(r) ==              \* one workload of a Player in each class
    LET player == caller[r].principal
        p == caller[r].pool
    IN  /\ caller[r].pc = "claim"
        /\ IF player \in active[p] THEN Move(r, "done") ELSE Move(r, "try")
        /\ active' = IF player = LocalCoach THEN active
                     ELSE [active EXCEPT ![p] = @ \cup {player}]
        /\ UNCHANGED <<now, meter, free, slotQueue, waiting>>

Admitted(r) == IF OfEngine(r) THEN "record" ELSE "lease"

TryAcquire(r) ==         \* a released permit goes to the queue first
    LET p == caller[r].pool
    IN  /\ caller[r].pc = "try"
        /\ \/ /\ free[p] > 0 /\ slotQueue[p] = <<>>
              /\ free' = [free EXCEPT ![p] = @ - 1]
              /\ Move(r, Admitted(r))
           \/ /\ free[p] = 0 \/ slotQueue[p] # <<>>
              /\ Move(r, IF caller[r].prefetch THEN "done" ELSE "count")
              /\ UNCHANGED free
        /\ UNCHANGED <<now, meter, slotQueue, waiting, active>>

CountLate(r) ==          \* mutant: the counter is read first, and written when queueing
    LET p == caller[r].pool
    IN  /\ caller[r].pc = "count"
        /\ IF waiting[p] >= MaxWaiting[p] THEN End(r) ELSE Move(r, "enqueue")
        /\ UNCHANGED <<now, meter, free, slotQueue, waiting, active>>
Count(r) ==              \* fetch_add, and a decision on the old value
    LET p == caller[r].pool
    IN  /\ caller[r].pc = "count"
        /\ waiting' = [waiting EXCEPT ![p] = @ + 1]
        /\ Move(r, IF waiting[p] >= MaxWaiting[p] THEN "refused" ELSE "enqueue")
        /\ UNCHANGED <<now, meter, free, slotQueue, active>>

JoinQueue(r) ==
    LET p == caller[r].pool
    IN  /\ caller[r].pc = "enqueue"
        /\ slotQueue' = [slotQueue EXCEPT ![p] = Append(@, r)]
        /\ Move(r, "wait")
        /\ UNCHANGED <<now, meter, free, waiting, active>>

Grant(r) ==
    LET p == caller[r].pool
    IN  /\ caller[r].pc = "wait" /\ Head(slotQueue[p]) = r /\ free[p] > 0
        /\ free' = [free EXCEPT ![p] = @ - 1]
        /\ slotQueue' = [slotQueue EXCEPT ![p] = Tail(@)]
        /\ Move(r, "granted")
        /\ UNCHANGED <<now, meter, waiting, active>>

(* The queue deadline passes, or the caller drops its future: either way   *)
(* the caller leaves the queue and drops its guards.                       *)
LeaveInPlace(r) ==       \* mutant: its place in the queue stays, and is granted to nobody
    /\ caller[r].pc = "wait"
    /\ Move(r, "timedOut")
    /\ UNCHANGED <<now, meter, free, slotQueue, waiting, active>>
LeaveQueue(r) ==
    LET p == caller[r].pool
    IN  /\ caller[r].pc = "wait"
        /\ slotQueue' = [slotQueue EXCEPT ![p] = RemoveFirst(@, r)]
        /\ Move(r, "timedOut")
        /\ UNCHANGED <<now, meter, free, waiting, active>>

UncountAdmittedOnly(r) ==    \* mutant: one that times out stays counted
    LET p == caller[r].pool
    IN  /\ caller[r].pc \in {"granted", "timedOut", "refused"}
        /\ waiting' = IF caller[r].pc = "timedOut" THEN waiting
                      ELSE [waiting EXCEPT ![p] = @ - 1]
        /\ IF caller[r].pc = "granted" THEN Move(r, Admitted(r)) ELSE End(r)
        /\ UNCHANGED <<now, meter, free, slotQueue, active>>
Uncount(r) ==            \* fetch_sub, by the guard or by the refusal itself
    LET p == caller[r].pool
    IN  /\ caller[r].pc \in {"granted", "timedOut", "refused"}
        /\ waiting' = [waiting EXCEPT ![p] = @ - 1]
        /\ IF caller[r].pc = "granted" THEN Move(r, Admitted(r)) ELSE End(r)
        /\ UNCHANGED <<now, meter, free, slotQueue, active>>

Record(r) ==
    /\ caller[r].pc = "record"
    /\ \E time \in ReadTime :
           /\ admitted' = Append(Live(admitted, time, Window), time)
           /\ recorded' = Append(recorded, time)
    /\ Move(r, "lease")
    /\ UNCHANGED <<now, free, slotQueue, waiting, active>>

(* The lease drops its permit, and then its claim.                         *)
ReleasePermit(r) ==
    LET p == caller[r].pool
    IN  /\ caller[r].pc = "lease"
        /\ free' = [free EXCEPT ![p] = @ + 1]
        /\ End(r)
        /\ UNCHANGED <<now, meter, slotQueue, waiting, active>>

DropClaim(r) ==
    LET p == caller[r].pool
    IN  /\ caller[r].pc = "unclaim"
        /\ active' = [active EXCEPT ![p] = @ \ {caller[r].principal}]
        /\ Move(r, "done")
        /\ UNCHANGED <<now, meter, free, slotQueue, waiting>>

-----------------------------------------------------------------------------
Proceed(r) ==
    \/ CheckCeiling(r) \/ Claim(r) \/ TryAcquire(r) \/ Count(r) \/ JoinQueue(r)
    \/ Grant(r) \/ Uncount(r) \/ Record(r) \/ ReleasePermit(r) \/ DropClaim(r)

AdmissionNext == Tick \/ \E r \in Caller : Ask(r) \/ Proceed(r) \/ LeaveQueue(r)

AdmissionSpec == AdmissionInit /\ [][AdmissionNext]_admissionVars

(* The runtime polls every caller that can go on, and a lease ends with    *)
(* its workload.  Nobody needs a deadline to be served.                    *)
AdmissionFairness == \A r \in Caller : WF_admissionVars(Proceed(r))

-----------------------------------------------------------------------------
In(p, stages) == {r \in Caller : caller[r].pool = p /\ caller[r].pc \in stages}
Claims(r) ==
    /\ OfEngine(r) /\ ~caller[r].prefetch
    /\ caller[r].principal \in Player /\ caller[r].pc \in Claiming

(* A Player has one workload in an engine class, from the claim to the end *)
(* of the lease, and no claim outlives its caller: a refusal, a deadline   *)
(* and a dropped call all give back what PlayerClaim::acquire took, and a  *)
(* refused claim takes nothing from its owner.                             *)
OneWorkloadPerPlayer ==
    /\ \A q, r \in Caller :
           /\ Claims(q) /\ Claims(r)
           /\ caller[q].pool = caller[r].pool
           /\ caller[q].principal = caller[r].principal
           => q = r
    /\ \A p \in Pool :
           active[p] = {caller[r].principal : r \in {q \in In(p, CallerPC) : Claims(q)}}

(* Every slot is free or leased, once, whatever races for it; the queue    *)
(* holds each waiting caller once; and max_waiting bounds it although the  *)
(* counter and the semaphore are separate: the counter is of the requests  *)
(* that passed it or are about to give it back.                            *)
SlotsAddUp ==
    \A p \in Pool :
        /\ free[p] + Cardinality(In(p, WithPermit)) = Slots[p]
        /\ Len(slotQueue[p]) = Cardinality(In(p, {"wait"}))
        /\ ToSet(slotQueue[p]) = In(p, {"wait"})
        /\ waiting[p] = Cardinality(In(p, Counted))
        /\ Cardinality(In(p, {"enqueue", "wait"})) <= MaxWaiting[p]

(* The ceiling meters what the deployment did: no lease of the last Window *)
(* is forgotten by DeploymentCeiling, and none is held against new ones    *)
(* for longer than the delay with which callers stamp it, although the     *)
(* stamps are out of order and only the front expires.                     *)
MeterKeepsWindow ==
    LET live == Live(admitted, now, Window)
        forgotten == Len(recorded) - Len(live)
    IN  /\ live = SubSeq(recorded, forgotten + 1, Len(recorded))
        /\ \A i \in 1..forgotten : now - recorded[i] >= Window
        /\ \A i \in 1..Len(live) : now - live[i] < Window + MaxDelay

(* Every call for a slot ends, served or refused, and gives back what it   *)
(* took, even if no deadline ever passes: the queue is first in, first     *)
(* out, and those who left it do not hold up those behind them.            *)
CallersReturn == <>[](\A r \in Caller : caller[r].pc \in {"idle", "done"})

===============================================================================
