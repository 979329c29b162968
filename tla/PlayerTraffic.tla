----------------------------- MODULE PlayerTraffic -----------------------------
(***************************************************************************)
(* PlayerTrafficPolicy: what each Player sends the Coach Engine, metered   *)
(* per class in sliding windows of one process.  A repeated import is let  *)
(* through without being counted.  Callers read the clock before they lock *)
(* the state, so a call may be up to MaxLag late and stamp out of order.   *)
(***************************************************************************)
EXTENDS Players, SlidingWindow, FiniteSets

CONSTANTS
    Operation, NoOperation,
    WindowOf, LimitOf,     \* of each class
    MaxPlayers,            \* PLAYER_TRAFFIC_MAX_PLAYERS
    PerSecond,             \* ticks of the clock in a second
    LastTick, MaxLag,      \* bounds: the clock, and how late a call may be
    MaxAdmissions          \* bound: admissions

TrafficClass == {"command", "import", "openingAnalysis"}

ASSUME TrafficAssumption ==
    /\ WindowOf \in [TrafficClass -> Nat \ {0}] /\ LimitOf \in [TrafficClass -> Nat \ {0}]
    /\ MaxPlayers \in Nat \ {0} /\ PerSecond \in Nat \ {0}
    /\ LastTick \in Nat /\ MaxLag \in Nat /\ MaxAdmissions \in Nat

VARIABLES
    tick,         \* the clock
    windows,      \* state: the windows of each Player; idle ones are not in the map
    admissions,   \* history: every admission, in order
    refusal       \* history: the last decision, when it was a refusal at the limit

trafficVars == <<tick, windows, admissions, refusal>>

Call ==
    [player : Player, class : {"import"}, operation : Operation]
    \cup [player : Player, class : TrafficClass \ {"import"}, operation : {NoOperation}]
Idle == [stamps |-> [c \in TrafficClass |-> <<>>], accepted |-> {}]
NoRefusal == [retry |-> 0]

TrafficInit ==
    /\ tick = 0
    /\ windows = [p \in Player |-> Idle]
    /\ admissions = <<>>
    /\ refusal = NoRefusal

-----------------------------------------------------------------------------
ExpiredWindows(w, now) ==
    [stamps |-> [c \in TrafficClass |-> Live(w.stamps[c], now, WindowOf[c])],
     accepted |-> {a \in w.accepted : Since(a.at, now) < WindowOf["import"]}]

RoundedDown(remaining) ==       \* mutant: a started second is not counted
    Max({1, remaining \div PerSecond})
SecondsUntil(remaining) ==
    Max({1, (remaining + PerSecond - 1) \div PerSecond})

RetryAfter(oldest, window, now) ==
    SecondsUntil(IF oldest + window > now THEN oldest + window - now ELSE 0)

TrafficTick == tick < LastTick /\ tick' = tick + 1 /\ UNCHANGED <<windows, admissions, refusal>>

Accepted(players, call) ==
    /\ call.class = "import"
    /\ \E a \in players[call.player].accepted : a.operation = call.operation
NoRoom(players, call) ==
    /\ players[call.player] = Idle
    /\ Cardinality({p \in Player : players[p] # Idle}) >= MaxPlayers
OverLimit(players, call) ==     \* mutant: one more than the limit
    Len(players[call.player].stamps[call.class]) > LimitOf[call.class]
AtLimit(players, call) ==
    Len(players[call.player].stamps[call.class]) >= LimitOf[call.class]

Repeat(call, players, now) ==
    /\ Accepted(players, call)
    /\ windows' = players
    /\ refusal' = NoRefusal
    /\ UNCHANGED <<tick, admissions>>

RefuseForRoom(call, players, now) ==
    /\ ~Accepted(players, call) /\ NoRoom(players, call)
    /\ windows' = players
    /\ refusal' = NoRefusal
    /\ UNCHANGED <<tick, admissions>>

RefuseAtLimit(call, players, now) ==
    /\ ~Accepted(players, call) /\ ~NoRoom(players, call) /\ AtLimit(players, call)
    /\ windows' = players
    /\ refusal' = [call |-> call, at |-> now, retry |->
           RetryAfter(Head(players[call.player].stamps[call.class]), WindowOf[call.class], now)]
    /\ UNCHANGED <<tick, admissions>>

Remembered(call, now) == [operation |-> call.operation, at |-> now]
AdmitForgetful(call, players, now) ==   \* mutant: the operation id is not remembered
    /\ ~Accepted(players, call) /\ ~NoRoom(players, call) /\ ~AtLimit(players, call)
    /\ Len(admissions) < MaxAdmissions
    /\ windows' = [players EXCEPT ![call.player].stamps[call.class] = Append(@, now)]
    /\ admissions' = Append(admissions, [call |-> call, at |-> now])
    /\ refusal' = NoRefusal
    /\ UNCHANGED tick
Admit(call, players, now) ==
    /\ ~Accepted(players, call) /\ ~NoRoom(players, call) /\ ~AtLimit(players, call)
    /\ Len(admissions) < MaxAdmissions
    /\ windows' = [players EXCEPT
           ![call.player].stamps[call.class] = Append(@, now),
           ![call.player].accepted =
               IF call.class = "import" THEN @ \cup {Remembered(call, now)} ELSE @]
    /\ admissions' = Append(admissions, [call |-> call, at |-> now])
    /\ refusal' = NoRefusal
    /\ UNCHANGED tick

TrafficCall ==
    \E call \in Call, now \in {t \in 0..tick : tick - t <= MaxLag} :
        LET players == [p \in Player |-> ExpiredWindows(windows[p], now)]
        IN  \/ Repeat(call, players, now)
            \/ RefuseForRoom(call, players, now)
            \/ RefuseAtLimit(call, players, now)
            \/ Admit(call, players, now)

TrafficNext == TrafficTick \/ TrafficCall
TrafficSpec == TrafficInit /\ [][TrafficNext]_trafficVars

-----------------------------------------------------------------------------
StampsOf(p, c) ==
    [i \in 1..Len(admissions) |->
        IF admissions[i].call.player = p /\ admissions[i].call.class = c
        THEN admissions[i].at ELSE -1]

(* No Player is let through more often than the limit of the class in any  *)
(* stretch as long as its window, less the lag of callers, whatever other  *)
(* Players' calls expire in between and however stamps are out of order.   *)
TrafficWithinLimit ==
    \A p \in Player, c \in TrafficClass, first \in 0..tick :
        LET stamps == StampsOf(p, c)
            span == WindowOf[c] - MaxLag
        IN  Cardinality({i \in DOMAIN stamps : stamps[i] \in first..(first + span - 1)})
                <= LimitOf[c]

(* A retried import is not counted again within its window, less the lag:  *)
(* its id and its stamp expire apart, the stamp from the front only.       *)
ImportsCountedOnce ==
    \A i, j \in 1..Len(admissions) :
        /\ i < j /\ admissions[i].call = admissions[j].call
        /\ admissions[i].call.class = "import"
        => admissions[j].at - admissions[i].at >= WindowOf["import"] - MaxLag

(* A Player refused at the limit who comes back after the seconds the      *)
(* refusal named, without calls in between, is let through.                *)
RefusalsNameARetry ==
    refusal # NoRefusal =>
        LET c == refusal.call.class
            later == refusal.at + PerSecond * refusal.retry
        IN  Len(Live(windows[refusal.call.player].stamps[c], later, WindowOf[c])) < LimitOf[c]

===============================================================================
