-------------------------- MODULE LanguageLayerSpend --------------------------
(***************************************************************************)
(* What hosted generation costs: the spend of a Review Session, kept in    *)
(* the process, and the ledger of Players and of the month, kept in the    *)
(* database.  A comment is one attempt, admitted on its own; a host turn   *)
(* reserves an envelope first, makes several attempts within it, and       *)
(* settles them together.  One action is what happens between two awaits.  *)
(***************************************************************************)
EXTENDS Players, Integers, FiniteSets, Functions

CONSTANTS
    Session, PlayerOf,
    Hosted,                \* comments and host turns
    WorstCase,             \* OPERATION_WORST_CASE_MICROS
    OperationCeiling,      \* OPERATION_CEILING_MICROS
    MaxSteps,              \* HOST_TURN_MAX_STEPS
    SessionCeiling, PlayerCeiling, GlobalCeiling,
    ProviderSlots          \* max_concurrent_provider_calls

Envelope == (MaxSteps + 1) * OperationCeiling

ASSUME SpendAssumption ==
    /\ IsFiniteSet(Player) /\ IsFiniteSet(Hosted)
    /\ PlayerOf \in [Session -> Player]
    /\ WorstCase \in Nat \ {0} /\ OperationCeiling \in Nat /\ WorstCase <= OperationCeiling
    /\ MaxSteps \in Nat \ {0} /\ ProviderSlots \in Nat \ {0}
    /\ SessionCeiling \in Nat /\ PlayerCeiling \in Nat /\ GlobalCeiling \in Nat
    /\ SessionCeiling < 2 * Envelope

VARIABLES
    spend,         \* spend[s]: SpendState of session s
    playerSpend,   \* the ledger: spend of each Player in thirty days
    globalSpend,   \* the ledger: spend of the month
    freeSlots,     \* ProviderConcurrency
    cooldown,      \* the provider asked to wait
    hosted,        \* hosted[h]: where comment or turn h is
    billed, lost,  \* history: what the provider charged, and what never reached the ledger
    leaked         \* history: sessions whose envelope was given up unread

ledger == <<playerSpend, globalSpend>>
provider == <<freeSlots, cooldown>>
history == <<billed, lost, leaked>>
spendVars == <<spend, ledger, provider, hosted, history>>

NotStarted ==
    [pc |-> "idle", turn |-> FALSE, session |-> CHOOSE s \in Session : TRUE, cost |-> 0,
     total |-> 0, calls |-> 0, retried |-> FALSE, denied |-> FALSE]
NoSpend == [s \in Session |-> [committed |-> 0, reserved |-> 0]]

SpendInit ==
    /\ spend = NoSpend
    /\ playerSpend = [p \in Player |-> 0] /\ globalSpend = 0
    /\ freeSlots = ProviderSlots /\ cooldown = FALSE
    /\ hosted = [h \in Hosted |-> NotStarted]
    /\ billed = 0 /\ lost = 0 /\ leaked = {}

-----------------------------------------------------------------------------
At(h, pc) == hosted[h].pc = pc
Go(h, pc) == hosted' = [hosted EXCEPT ![h].pc = pc]
Finish(h) == hosted' = [hosted EXCEPT ![h] = [NotStarted EXCEPT !.pc = "done"]]

(* A comment that is refused or fails ends; a turn settles what it spent.  *)
Refuse(h, denied) ==
    IF hosted[h].turn
    THEN hosted' = [hosted EXCEPT ![h].pc = "settle", ![h].denied = denied]
    ELSE Finish(h)

Spent(s) == spend[s].committed + spend[s].reserved
Smaller(m, n) == IF m < n THEN m ELSE n
Owner(h) == PlayerOf[hosted[h].session]

Charged(state, cost) ==          \* record: consumes the reservation first
    [committed |-> state.committed + cost,
     reserved |-> state.reserved - Smaller(state.reserved, cost)]
Released(state) ==               \* release_reservation
    [state EXCEPT !.reserved = @ - Smaller(@, Envelope)]
EndTurnDenied(h) ==      \* mutant: a turn that was denied a step keeps its reservation
    /\ spend' = IF hosted[h].denied THEN spend
                ELSE [spend EXCEPT ![hosted[h].session] = Released(@)]
    /\ Finish(h)
EndTurn(h) ==
    /\ spend' = [spend EXCEPT ![hosted[h].session] = Released(@)]
    /\ Finish(h)

Start(h) ==
    /\ At(h, "idle")
    /\ \E s \in Session, turn \in BOOLEAN :
           hosted' = [hosted EXCEPT ![h] = [NotStarted EXCEPT
               !.pc = IF turn THEN "reserve" ELSE "check", !.session = s, !.turn = turn]]
    /\ UNCHANGED <<spend, ledger, provider, history>>

FitsCommitted(s) ==      \* mutant: what is reserved is not counted
    spend[s].committed + Envelope <= SessionCeiling
Fits(s) == Spent(s) + Envelope <= SessionCeiling
Reserve(h) ==
    LET s == hosted[h].session
    IN  /\ At(h, "reserve")
        /\ \/ /\ ~Fits(s) /\ Finish(h) /\ UNCHANGED spend
           \/ /\ Fits(s) /\ Go(h, "envelopePlayer")
              /\ spend' = [spend EXCEPT ![s].reserved = @ + Envelope]
        /\ UNCHANGED <<ledger, provider, history>>

(* A read of the ledger may fail, and the error leaves by `?`.             *)
Unread(h) ==
    /\ Finish(h)
    /\ leaked' = leaked \cup {hosted[h].session}
    /\ UNCHANGED spend

EnvelopePlayer(h) ==
    /\ At(h, "envelopePlayer")
    /\ \/ Unread(h)
       \/ playerSpend[Owner(h)] + Envelope > PlayerCeiling /\ EndTurn(h) /\ UNCHANGED leaked
       \/ /\ playerSpend[Owner(h)] + Envelope <= PlayerCeiling
          /\ Go(h, "envelopeGlobal") /\ UNCHANGED <<spend, leaked>>
    /\ UNCHANGED <<ledger, provider, billed, lost>>

EnvelopeGlobal(h) ==
    LET open == globalSpend + Envelope <= GlobalCeiling /\ ~cooldown
    IN  /\ At(h, "envelopeGlobal")
        /\ \/ Unread(h)
           \/ ~open /\ EndTurn(h) /\ UNCHANGED leaked
           \/ open /\ Go(h, "begin") /\ UNCHANGED <<spend, leaked>>
        /\ UNCHANGED <<ledger, provider, billed, lost>>

(* Another turn is active, or the operation id is live: the turn gives up. *)
Begin(h) ==
    /\ At(h, "begin")
    /\ \/ EndTurn(h)
       \/ Go(h, "check") /\ UNCHANGED spend
    /\ UNCHANGED <<ledger, provider, history>>

(* admit, and admit_host_turn_step at the top of the loop.                 *)
OutOfSession(h) ==
    LET s == hosted[h].session
    IN  IF hosted[h].turn
        THEN \/ spend[s].reserved < WorstCase
             \/ spend[s].committed + WorstCase > SessionCeiling
        ELSE Spent(s) + WorstCase > SessionCeiling
CheckSession(h) ==
    /\ At(h, "check")
    /\ \/ /\ hosted[h].turn      \* cancelled, out of time or out of steps
          /\ Refuse(h, FALSE)
       \/ OutOfSession(h) /\ Refuse(h, TRUE)
       \/ ~OutOfSession(h) /\ hosted[h].calls < MaxSteps /\ Go(h, "player")
    /\ UNCHANGED <<spend, ledger, provider, history>>

CheckPlayer(h) ==
    /\ At(h, "player")
    /\ \/ Refuse(h, FALSE)
       \/ playerSpend[Owner(h)] + WorstCase > PlayerCeiling /\ Refuse(h, TRUE)
       \/ playerSpend[Owner(h)] + WorstCase <= PlayerCeiling /\ Go(h, "global")
    /\ UNCHANGED <<spend, ledger, provider, history>>

CheckGlobal(h) ==
    LET open == globalSpend + WorstCase <= GlobalCeiling /\ ~cooldown
    IN  /\ At(h, "global")
        /\ \/ Refuse(h, FALSE)
           \/ ~open /\ Refuse(h, TRUE)
           \/ open /\ Go(h, "slot")
        /\ UNCHANGED <<spend, ledger, provider, history>>

AcquireSlot(h) ==
    /\ At(h, "slot")
    /\ \/ Refuse(h, TRUE) /\ UNCHANGED freeSlots
       \/ freeSlots > 0 /\ freeSlots' = freeSlots - 1 /\ Go(h, "provider")
    /\ UNCHANGED <<spend, ledger, cooldown, history>>

(* The provider answers, and bills; the slot is free while the pin of the  *)
(* answer is verified.                                                     *)
ProviderAnswers(h) ==
    /\ At(h, "provider")
    /\ \E cost \in 0..WorstCase, limited \in BOOLEAN :
           /\ limited => cost = 0
           /\ hosted' = [hosted EXCEPT ![h].pc = "open", ![h].cost = cost]
           /\ billed' = billed + cost
           /\ cooldown' = (cooldown \/ limited)
    /\ freeSlots' = freeSlots + 1
    /\ UNCHANGED <<spend, ledger, lost, leaked>>

CooldownEnds ==
    /\ cooldown /\ cooldown' = FALSE
    /\ UNCHANGED <<spend, ledger, freeSlots, hosted, history>>

TotalOfCompleted(h, retry) ==    \* mutant: an attempt that is retried is not added up
    IF retry THEN hosted[h].total ELSE hosted[h].total + hosted[h].cost
Total(h, retry) == hosted[h].total + hosted[h].cost

RecordAttempt(h) ==
    /\ At(h, "open")
    /\ spend' = [spend EXCEPT ![hosted[h].session] = Charged(@, hosted[h].cost)]
    /\ \E next \in {"check", "settle"}, retry \in BOOLEAN :
           /\ ~hosted[h].turn => next = "settle"
           /\ retry => next = "check" /\ ~hosted[h].retried
           /\ hosted' = [hosted EXCEPT ![h].pc = next, ![h].cost = 0,
                  ![h].total = Total(h, retry),
                  ![h].retried = @ \/ retry, ![h].calls = IF retry THEN @ ELSE @ + 1]
    /\ UNCHANGED <<ledger, provider, history>>

(* One transaction adds to both counters, or it fails.                     *)
Settle(h) ==
    /\ At(h, "settle")
    /\ \/ /\ playerSpend' = [playerSpend EXCEPT ![Owner(h)] = @ + hosted[h].total]
          /\ globalSpend' = globalSpend + hosted[h].total
          /\ UNCHANGED lost
       \/ lost' = lost + hosted[h].total /\ UNCHANGED ledger
    /\ IF hosted[h].turn
       THEN hosted' = [hosted EXCEPT ![h].pc = "release", ![h].total = 0]
       ELSE Finish(h)
    /\ UNCHANGED <<spend, provider, billed, leaked>>

ReleaseEnvelope(h) ==
    /\ At(h, "release") /\ EndTurn(h)
    /\ UNCHANGED <<ledger, provider, history>>

Unsettled(h) == hosted[h].cost + hosted[h].total

(* The process dies: sessions meter from zero again.                       *)
Restart ==
    /\ spend' = NoSpend
    /\ freeSlots' = ProviderSlots /\ cooldown' = FALSE
    /\ hosted' = [h \in Hosted |->
           IF At(h, "idle") THEN NotStarted ELSE [NotStarted EXCEPT !.pc = "done"]]
    /\ lost' = lost + SumFunction([h \in Hosted |-> Unsettled(h)])
    /\ leaked' = {}
    /\ UNCHANGED <<ledger, billed>>

SpendNext ==
    \/ \E h \in Hosted :
          \/ Start(h) \/ Reserve(h) \/ EnvelopePlayer(h) \/ EnvelopeGlobal(h) \/ Begin(h)
          \/ CheckSession(h) \/ CheckPlayer(h) \/ CheckGlobal(h) \/ AcquireSlot(h)
          \/ ProviderAnswers(h) \/ RecordAttempt(h) \/ Settle(h) \/ ReleaseEnvelope(h)
    \/ CooldownEnds
    \/ Restart

SpendSpec == SpendInit /\ [][SpendNext]_spendVars

-----------------------------------------------------------------------------
HoldingEnvelope(h) ==
    hosted[h].turn /\ hosted[h].pc \notin {"idle", "reserve", "done"}

(* A session never has two host turns under an envelope: what comments     *)
(* consume of a reservation they commit, so that its room is not free for  *)
(* a second turn before the first released what is left.                   *)
EnvelopeExclusive ==
    \A g, h \in Hosted :
        /\ HoldingEnvelope(g) /\ HoldingEnvelope(h)
        /\ hosted[g].session = hosted[h].session
        => g = h

(* Whatever the provider billed is in the ledger once, is on its way       *)
(* there, or was lost with a crash or a failed settlement: attempts that   *)
(* are retried, and turns denied after billed steps, count too.            *)
BilledOnce ==
    /\ globalSpend = SumFunction(playerSpend)
    /\ billed = globalSpend + lost + SumFunction([h \in Hosted |-> Unsettled(h)])

(* A reservation does not outlive its turn, by whichever of the exits the  *)
(* turn leaves and whatever comments consumed of it ("Unused reservation   *)
(* is released at end", HOST_TURN_ENVELOPE_MICROS), except where the       *)
(* ledger could not be read: `?` then leaves before an envelope exists     *)
(* that would release it.                                                  *)
ReservationsAreReleased ==
    \A s \in Session \ leaked : spend[s].reserved > 0 =>
        \E h \in Hosted : HoldingEnvelope(h) /\ hosted[h].session = s

===============================================================================
