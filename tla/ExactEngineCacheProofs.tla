------------------------ MODULE ExactEngineCacheProofs ------------------------
(***************************************************************************)
(* Proofs about ExactEngineCache, for any set of requests, calls, worker   *)
(* permits and cache: a flight is analysed by one request at a time, no    *)
(* waiter misses its wake-up, no permit is lost or made up, and the cache  *)
(* keeps its bounds and implements LruCache.                               *)
(***************************************************************************)
EXTENDS ExactEngineCache, EngineCacheStoreProofs

LEMMA InitHolds == Init => IInv
BY RequestAssumption
   DEF Init, IInv, Shapes, FlightStages, OneFlightPerName, WaitersKnowTheirLeader,
       NoFlight, NotCalled, FlightState, RequestState, PC, Leading, Position, Waiting

-----------------------------------------------------------------------------
(* A request's own state, whatever the flights are.                        *)
WellFormed(state) ==
    /\ state \in RequestState
    /\ state.pc # "idle" => state.positions # <<>>
    /\ state.pc = "lookup" => state.at \in 1..Len(state.positions)

(* Steps of r that touch no flight, and keep the name of an active one.    *)
Quiet(r, state) ==
    /\ WellFormed(state)
    /\ flight[r].active => /\ state.pc \in LeadsFlight
                           /\ state.batch = request[r].batch
                           /\ state.missing = request[r].missing
    /\ state.pc # "notify"
    /\ request[r].pc \notin {"complete", "notify"}
    /\ state.pc \in Waiting =>
           state.on \in Request /\ WillNotify(state.on)
    /\ state.pc = "recheck" /\ state.missed => flight[state.on].notified
    /\ state.pc = "await" => ~state.missed

Waiter(s) ==
    /\ request[s].pc \in Waiting =>
           request[s].on \in Request /\ WillNotify(request[s].on)
    /\ request[s].pc = "recheck" /\ request[s].missed => flight[request[s].on].notified
    /\ request[s].pc = "await" => ~request[s].missed

LEMMA RequestFacts ==
    ASSUME IInv, NEW r \in Request
    PROVE  /\ request[r] \in RequestState /\ WellFormed(request[r])
           /\ flight[r] \in FlightState
           /\ flight = [flight EXCEPT ![r] = flight[r]]
BY DEF IInv, Shapes, WellFormed

LEMMA QuietKeeps ==
    ASSUME IInv, NEW r \in Request, NEW state,
           Quiet(r, state), request' = [request EXCEPT ![r] = state], flight' = flight
    PROVE  IInv'
<1>1. /\ request'[r] = state /\ \A s \in Request : s # r => request'[s] = request[s]
      /\ request' \in [Request -> RequestState]
  BY DEF IInv, Shapes, Quiet, WellFormed
<1>2. Shapes'
  BY <1>1 DEF IInv, Shapes, Quiet, WellFormed
<1>3. FlightStages'
  BY <1>1 DEF IInv, FlightStages, Quiet
<1>4. ASSUME NEW l \in Request, WillNotify(l)
      PROVE  WillNotify(l)'
  BY <1>1, <1>4 DEF WillNotify, Quiet
<1>5. OneFlightPerName'
  <2> SUFFICES ASSUME NEW p \in Request, NEW q \in Request,
                      flight[p].active, flight[q].active, SameFlight(p, q)'
               PROVE  p = q
    BY DEF OneFlightPerName
  <2>1. SameFlight(p, q)
    BY <1>1 DEF SameFlight, Quiet
  <2> QED BY <2>1 DEF IInv, OneFlightPerName
<1>6. WaitersKnowTheirLeader'
  <2> SUFFICES ASSUME NEW s \in Request PROVE Waiter(s)'
    BY DEF WaitersKnowTheirLeader, Waiter
  <2>1. CASE s = r
    BY <1>1, <1>4, <2>1 DEF Quiet, Waiter, WillNotify
  <2>2. CASE s # r
    <3>1. Waiter(s)
      BY DEF IInv, WaitersKnowTheirLeader, Waiter
    <3> QED BY <1>1, <1>4, <2>2, <3>1 DEF Waiter, WillNotify
  <2> QED BY <2>1, <2>2
<1> QED BY <1>2, <1>3, <1>5, <1>6 DEF IInv

(* The moves between the stages of one request: only the stage changes.    *)
LEMMA MoveIsWellFormed ==
    ASSUME IInv, NEW r \in Request, NEW pc \in PC \ {"idle", "lookup"},
           request[r].pc # "idle"
    PROVE  LET moved == [request[r] EXCEPT !.pc = pc]
           IN  /\ WellFormed(moved) /\ moved.pc = pc
               /\ moved.batch = request[r].batch /\ moved.missing = request[r].missing
               /\ moved.on = request[r].on /\ moved.missed = request[r].missed
BY RequestFacts DEF WellFormed, RequestState

LEMMA StartOverIsQuiet ==
    ASSUME IInv, NEW r \in Request, request[r].pc \in {"check", "recheck"}, StartOver(r),
           flight' = flight
    PROVE  IInv'
<1> DEFINE again == [request[r] EXCEPT !.pc = "lookup", !.at = 1, !.missing = <<>>,
                                       !.on = NoRequest, !.missed = FALSE]
<1>1. again \in RequestState /\ again.pc = "lookup" /\ again.at = 1
      /\ again.positions = request[r].positions
  <2>1. <<>> \in Seq(Position) /\ "lookup" \in PC /\ 1 \in Nat
    BY DEF PC
  <2> QED BY <2>1, RequestFacts DEF RequestState
<1>2. request[r].positions # <<>> /\ request[r].positions \in Seq(Position)
  BY RequestFacts DEF WellFormed, RequestState
<1>3. 1 \in 1..Len(request[r].positions)
  BY <1>2
<1>4. ~flight[r].active
  BY DEF IInv, FlightStages, LeadsFlight
<1> HIDE DEF again
<1>5. Quiet(r, again)
  BY <1>1, <1>2, <1>3, <1>4 DEF Quiet, WellFormed, Waiting
<1>6. request' = [request EXCEPT ![r] = again]
  BY DEF StartOver, Set, again
<1> QED BY <1>5, <1>6, QuietKeeps

-----------------------------------------------------------------------------
(* One lemma for each kind of step.                                        *)

LEMMA StateUpdate ==
    ASSUME NEW old \in RequestState, NEW pc \in PC, NEW at \in Nat,
           NEW missing \in Seq(Position)
    PROVE  LET new == [old EXCEPT !.missing = missing, !.at = at, !.pc = pc]
           IN  /\ new \in RequestState /\ new.pc = pc /\ new.at = at
               /\ new.positions = old.positions
<1> DEFINE S == Seq(Position)
<1>1. missing \in S /\ RequestState =
        [pc : PC, batch : BOOLEAN, positions : S, at : Nat, missing : S,
         on : Request \cup {NoRequest}, missed : BOOLEAN]
  BY DEF RequestState
<1> HIDE DEF S
<1> QED BY <1>1

LEMMA CallKeeps ==
    ASSUME IInv, NEW r \in Request, Call(r)
    PROVE  IInv'
<1>1. PICK call \in Calls :
        request' = [request EXCEPT ![r] =
            [NotCalled EXCEPT !.pc = "lookup", !.batch = call.batch,
                              !.positions = call.positions]]
  BY DEF Call, Set
<1> DEFINE called == [NotCalled EXCEPT !.pc = "lookup", !.batch = call.batch,
                                       !.positions = call.positions]
<1>2. call.batch \in BOOLEAN /\ call.positions \in Seq(Position) /\ call.positions # <<>>
  BY RequestAssumption DEF Position
<1>3. WellFormed(called) /\ called.pc = "lookup"
  <2>1. <<>> \in Seq(Position) /\ "lookup" \in PC /\ 1 \in Nat
        /\ 1 \in 1..Len(call.positions)
    BY <1>2 DEF PC
  <2> QED BY <1>2, <2>1 DEF WellFormed, RequestState, NotCalled
<1>4. ~flight[r].active /\ request[r].pc = "idle"
  BY DEF Call, IInv, FlightStages, LeadsFlight
<1> HIDE DEF called
<1>5. Quiet(r, called)
  BY <1>3, <1>4 DEF Quiet, Waiting
<1> QED BY <1>1, <1>5, QuietKeeps DEF Call, called

LEMMA LookupKeeps ==
    ASSUME IInv, NEW r \in Request, Lookup(r)
    PROVE  IInv'
<1> DEFINE old == request[r]
           p == old.positions[old.at]
           coalesced == p \in Key /\ \E i \in DOMAIN old.missing : old.missing[i] = p
           missing == IF p \in Entries(cache) \/ coalesced
                      THEN old.missing ELSE Append(old.missing, p)
           pc == IF old.at < Len(old.positions) THEN "lookup" ELSE AfterLookup(r, missing)
           new == [old EXCEPT !.missing = missing, !.at = old.at + 1, !.pc = pc]
<1>1. request' = [request EXCEPT ![r] = new] /\ flight' = flight /\ old.pc = "lookup"
  BY DEF Lookup, Set
<1>2. /\ old \in RequestState /\ old.positions # <<>>
      /\ old.at \in 1..Len(old.positions) /\ old.positions \in Seq(Position)
      /\ old.missing \in Seq(Position) /\ old.at \in Nat
  BY <1>1, RequestFacts DEF WellFormed, RequestState
<1>3. p \in Position /\ missing \in Seq(Position)
  BY <1>2
<1>4. pc \in {"lookup", "done", "queue", "register"} /\ pc \in PC
  BY DEF AfterLookup, PC, Leading
<1>5. pc = "lookup" => old.at + 1 \in 1..Len(old.positions)
  BY <1>2 DEF AfterLookup
<1>6. ~flight[r].active
  BY <1>1 DEF IInv, FlightStages, LeadsFlight
<1> HIDE DEF pc, missing
<1>7. /\ new \in RequestState /\ new.pc = pc /\ new.positions = old.positions
      /\ new.at = old.at + 1
  <2> DEFINE at == old.at + 1
  <2>1. at \in Nat
    BY <1>2
  <2> HIDE DEF old, p, at
  <2>2. [old EXCEPT !.missing = missing, !.at = at, !.pc = pc] \in RequestState
    BY <1>2, <1>3, <1>4, <2>1, StateUpdate
  <2>3. /\ [old EXCEPT !.missing = missing, !.at = at, !.pc = pc].pc = pc
        /\ [old EXCEPT !.missing = missing, !.at = at, !.pc = pc].positions = old.positions
        /\ [old EXCEPT !.missing = missing, !.at = at, !.pc = pc].at = at
    BY <1>2 DEF RequestState
  <2> QED BY <2>2, <2>3 DEF at
<1> HIDE DEF new
<1>8. Quiet(r, new)
  BY <1>1, <1>2, <1>4, <1>5, <1>6, <1>7 DEF Quiet, WellFormed, Waiting
<1> QED BY <1>1, <1>8, QuietKeeps

LEMMA RegisterKeeps ==
    ASSUME IInv, NEW r \in Request, Register(r)
    PROVE  IInv'
<1>1. request[r].pc = "register" /\ ~flight[r].active
  BY DEF Register, IInv, FlightStages, LeadsFlight
<1>2. ASSUME NEW l \in Request, flight[l].active, flight' = flight,
             request' = [request EXCEPT ![r] = [request[r] EXCEPT !.pc = "check", !.on = l]]
      PROVE  IInv'
  <2> DEFINE new == [request[r] EXCEPT !.pc = "check", !.on = l]
  <2>1. WellFormed(new) /\ new.pc = "check" /\ new.on = l
    BY <1>1, RequestFacts DEF WellFormed, RequestState, PC
  <2> HIDE DEF new
  <2>2. Quiet(r, new)
    BY <1>1, <1>2, <2>1 DEF Quiet, WillNotify
  <2> QED BY <1>2, <2>2, QuietKeeps DEF new
<1>3. ASSUME \A l \in Request : flight[l].active => ~SameFlight(r, l),
             flight' = [flight EXCEPT ![r].active = TRUE],
             request' = [request EXCEPT ![r] = [request[r] EXCEPT !.pc = "queue", !.at = 1]]
      PROVE  IInv'
  <2> DEFINE new == [request[r] EXCEPT !.pc = "queue", !.at = 1]
  <2>10. /\ new \in RequestState /\ new.pc = "queue" /\ new.batch = request[r].batch
        /\ new.missing = request[r].missing /\ new.positions = request[r].positions
    <3>1. "queue" \in PC /\ 1 \in Nat
      BY DEF PC, Leading
    <3> QED BY <3>1, RequestFacts DEF RequestState
  <2> HIDE DEF new
  <2>11. request' = [request EXCEPT ![r] = new]
    BY <1>3 DEF new
  <2>1. /\ WellFormed(request'[r]) /\ request'[r].pc = "queue"
        /\ request'[r].batch = request[r].batch
        /\ request'[r].missing = request[r].missing
        /\ \A s \in Request : s # r => request'[s] = request[s]
        /\ request' \in [Request -> RequestState]
    BY <1>1, <2>10, <2>11, RequestFacts DEF WellFormed, IInv, Shapes
  <2>2. /\ flight'[r].active /\ flight'[r].complete = flight[r].complete
        /\ flight'[r].notified = flight[r].notified
        /\ \A l \in Request : l # r => flight'[l] = flight[l]
        /\ flight' \in [Request -> FlightState]
    BY <1>3, RequestFacts DEF FlightState, IInv, Shapes
  <2>3. Shapes'
    BY <2>1, <2>2 DEF Shapes, IInv, WellFormed
  <2>4. FlightStages'
    BY <2>1, <2>2 DEF FlightStages, IInv, LeadsFlight
  <2>5. OneFlightPerName'
    <3> SUFFICES ASSUME NEW p \in Request, NEW q \in Request, flight'[p].active,
                        flight'[q].active, SameFlight(p, q)'
                 PROVE  p = q
      BY DEF OneFlightPerName
    <3>1. SameFlight(p, q) /\ SameFlight(q, p)
      BY <2>1 DEF SameFlight
    <3> QED BY <1>3, <2>2, <3>1 DEF IInv, OneFlightPerName
  <2>6. WaitersKnowTheirLeader'
    <3> SUFFICES ASSUME NEW s \in Request PROVE Waiter(s)'
      BY DEF WaitersKnowTheirLeader, Waiter
    <3>1. Waiter(s)
      BY DEF IInv, WaitersKnowTheirLeader, Waiter
    <3>2. CASE s = r
      BY <2>1, <3>2 DEF Waiter, Waiting
    <3>3. CASE s # r
      BY <1>1, <2>1, <2>2, <3>1, <3>3 DEF Waiter, WillNotify, Waiting
    <3> QED BY <3>2, <3>3
  <2> QED BY <2>3, <2>4, <2>5, <2>6 DEF IInv
<1> QED BY <1>2, <1>3 DEF Register, Set

LEMMA WaiterKeeps ==
    ASSUME IInv, NEW r \in Request, Check(r) \/ Subscribe(r) \/ Recheck(r) \/ Awake(r)
    PROVE  IInv'
<1>1. /\ request[r].pc \in Waiting /\ ~flight[r].active /\ flight' = flight
      /\ request[r].on \in Request /\ WillNotify(request[r].on)
  BY DEF Check, Subscribe, Recheck, Awake, Waiting, LeadsFlight, IInv, FlightStages,
         WaitersKnowTheirLeader
<1>2. flight[request[r].on].notified => flight[request[r].on].complete
  BY <1>1 DEF IInv, FlightStages
<1>3. CASE request[r].pc \in {"check", "recheck"} /\ StartOver(r)
  BY <1>1, <1>3, StartOverIsQuiet
<1>4. ASSUME NEW pc \in {"subscribe", "await", "check"}, Goto(r, pc),
             pc = "await" => request[r].pc = "recheck" /\ ~flight[request[r].on].complete
      PROVE  IInv'
  <2> DEFINE new == [request[r] EXCEPT !.pc = pc]
  <2>1. /\ WellFormed(new) /\ new.pc = pc /\ new.on = request[r].on
        /\ new.missed = request[r].missed
    BY <1>1, MoveIsWellFormed DEF PC, Waiting
  <2> HIDE DEF new
  <2>2. pc = "await" => ~new.missed
    BY <1>2, <1>4, <2>1 DEF IInv, WaitersKnowTheirLeader
  <2>3. Quiet(r, new)
    BY <1>1, <2>1, <2>2 DEF Quiet, Waiting
  <2> QED BY <1>1, <1>4, <2>3, QuietKeeps DEF Goto, Set, new
<1>5. CASE Subscribe(r)
  <2> DEFINE heard == flight[request[r].on].notified
             new == [request[r] EXCEPT !.pc = "recheck", !.missed = heard]
  <2>1. heard \in BOOLEAN /\ "recheck" \in PC
    BY <1>1, RequestFacts DEF FlightState, PC
  <2> HIDE DEF heard
  <2>2. /\ new \in RequestState /\ new.pc = "recheck" /\ new.on = request[r].on
        /\ new.missed = heard /\ new.positions = request[r].positions
    BY <2>1, RequestFacts DEF RequestState
  <2>3. request[r].positions # <<>>
    BY <1>1, RequestFacts DEF WellFormed, Waiting
  <2> HIDE DEF new
  <2>4. WellFormed(new)
    BY <2>2, <2>3 DEF WellFormed
  <2>5. Quiet(r, new)
    BY <1>1, <2>2, <2>4 DEF Quiet, Waiting, heard
  <2> QED BY <1>1, <1>5, <2>5, QuietKeeps DEF Subscribe, Set, new, heard
<1> QED BY <1>3, <1>4, <1>5 DEF Check, Recheck, Awake

(* The steps of a leader, or of a request that passes through, that leave  *)
(* its flight alone: it moves along, fails or is cancelled.                *)
LEMMA MoveKeeps ==
    ASSUME IInv, NEW r \in Request, NEW pc \in LeadsFlight \cup {"done"}, Goto(r, pc),
           flight' = flight, flight[r].active => pc \in LeadsFlight,
           request[r].pc \notin {"idle", "complete", "notify"}
    PROVE  IInv'
<1> DEFINE new == [request[r] EXCEPT !.pc = pc]
<1>1. /\ WellFormed(new) /\ new.pc = pc /\ new.batch = request[r].batch
      /\ new.missing = request[r].missing
  BY MoveIsWellFormed DEF PC, Leading, LeadsFlight
<1> HIDE DEF new
<1>2. Quiet(r, new)
  BY <1>1 DEF Quiet, Waiting, LeadsFlight
<1> QED BY <1>2, QuietKeeps DEF Goto, Set, new

LEMMA LeaderKeeps ==
    ASSUME IInv, NEW r \in Request,
           Enqueue(r) \/ Granted(r) \/ EngineAnswers(r) \/ Cancel(r)
    PROVE  IInv'
<1>1. flight' = flight /\ request[r].pc \in {"queue", "wait", "engine", "await"}
  BY DEF Enqueue, Granted, EngineAnswers, Cancel
<1>2. \E pc \in LeadsFlight \cup {"done"} :
          Goto(r, pc) /\ (flight[r].active => pc \in LeadsFlight)
  BY DEF Enqueue, Granted, EngineAnswers, Cancel, Abandon, LeadsFlight
<1> QED BY <1>1, <1>2, MoveKeeps

LEMMA InsertKeeps ==
    ASSUME IInv, NEW r \in Request, Insert(r)
    PROVE  IInv'
<1> DEFINE pc == IF request[r].at < Len(request[r].missing) THEN "insert" ELSE "drop"
           at == request[r].at + 1
           new == [request[r] EXCEPT !.at = at, !.pc = pc]
<1>1. request' = [request EXCEPT ![r] = new] /\ flight' = flight
      /\ request[r].pc = "insert"
  BY DEF Insert, Set
<1>2. pc \in PC /\ pc \in LeadsFlight /\ pc \notin Waiting /\ pc \notin {"idle", "lookup", "notify"}
  BY DEF PC, Leading, LeadsFlight, Waiting
<1>3. at \in Nat /\ request[r].positions # <<>>
  BY <1>1, RequestFacts DEF RequestState, WellFormed
<1> HIDE DEF pc, at
<1>4. /\ new \in RequestState /\ new.pc = pc /\ new.batch = request[r].batch
      /\ new.missing = request[r].missing /\ new.positions = request[r].positions
  BY <1>2, <1>3, RequestFacts DEF RequestState
<1> HIDE DEF new
<1>5. Quiet(r, new)
  BY <1>1, <1>2, <1>3, <1>4 DEF Quiet, WellFormed, Waiting
<1> QED BY <1>1, <1>5, QuietKeeps

(* The three steps of a FlightLeader's Drop: the flight leaves the map, is  *)
(* completed and notifies; from the first to the last it will notify.      *)
LEMMA DropKeeps ==
    ASSUME IInv, NEW r \in Request, NEW pc \in {"complete", "notify", "done"},
           NEW led \in FlightState, Goto(r, pc), flight' = [flight EXCEPT ![r] = led],
           request[r].pc \in {"drop", "complete", "notify"},
           ~led.active, pc = "done" => led.notified,
           led.notified \/ pc = "notify" => led.complete,
           flight[r].notified => led.notified
    PROVE  IInv'
<1> DEFINE new == [request[r] EXCEPT !.pc = pc]
<1>1. WellFormed(new) /\ new.pc = pc
  BY MoveIsWellFormed DEF PC, Leading
<1> HIDE DEF new
<1>2. /\ request'[r] = new /\ \A s \in Request : s # r => request'[s] = request[s]
      /\ request' \in [Request -> RequestState]
  <2>1. request' = [request EXCEPT ![r] = new]
    BY DEF Goto, Set, new
  <2> QED BY <1>1, <2>1 DEF WellFormed, IInv, Shapes
<1>3. /\ flight'[r] = led /\ \A l \in Request : l # r => flight'[l] = flight[l]
      /\ flight' \in [Request -> FlightState]
  BY DEF IInv, Shapes
<1>4. Shapes'
  BY <1>1, <1>2, <1>3 DEF Shapes, IInv, WellFormed
<1>5. FlightStages'
  BY <1>1, <1>2, <1>3 DEF FlightStages, IInv
<1>6. OneFlightPerName'
  <2> SUFFICES ASSUME NEW p \in Request, NEW q \in Request, flight'[p].active,
                      flight'[q].active, SameFlight(p, q)'
               PROVE  p = q
    BY DEF OneFlightPerName
  <2>1. p # r /\ q # r
    BY <1>3
  <2>2. SameFlight(p, q) /\ flight[p].active /\ flight[q].active
    BY <1>2, <1>3, <2>1 DEF SameFlight
  <2> QED BY <2>2 DEF IInv, OneFlightPerName
<1>7. WaitersKnowTheirLeader'
  <2> SUFFICES ASSUME NEW s \in Request PROVE Waiter(s)'
    BY DEF WaitersKnowTheirLeader, Waiter
  <2>1. CASE s = r
    BY <1>1, <1>2, <2>1 DEF Waiter, Waiting
  <2>2. ASSUME NEW l \in Request, WillNotify(l)
        PROVE  WillNotify(l)'
    <3>1. CASE l = r
      BY <1>1, <1>2, <1>3, <3>1 DEF WillNotify
    <3>2. CASE l # r
      BY <1>2, <1>3, <2>2, <3>2 DEF WillNotify
    <3> QED BY <3>1, <3>2
  <2>3. CASE s # r
    <3>1. Waiter(s) /\ request'[s] = request[s]
      BY <1>2, <2>3 DEF IInv, WaitersKnowTheirLeader, Waiter
    <3>2. request[s].on \in Request /\ flight[request[s].on].notified =>
              flight'[request[s].on].notified
      BY <1>3
    <3> QED BY <2>2, <3>1, <3>2 DEF Waiter, Waiting
  <2> QED BY <2>1, <2>3
<1> QED BY <1>4, <1>5, <1>6, <1>7 DEF IInv

LEMMA LeaderDropKeeps ==
    ASSUME IInv, NEW r \in Request,
           RemoveFlight(r) \/ CompleteFlight(r) \/ NotifyWaiters(r)
    PROVE  IInv'
<1>1. /\ flight[r] \in FlightState /\ flight \in [Request -> FlightState]
      /\ flight[r].notified \/ request[r].pc = "notify" => flight[r].complete
      /\ flight[r].active => request[r].pc \in LeadsFlight
  BY RequestFacts DEF IInv, Shapes, FlightStages
<1>2. CASE RemoveFlight(r)
  <2> DEFINE led == [flight[r] EXCEPT !.active = FALSE]
  <2>1. /\ led \in FlightState /\ ~led.active /\ led.complete = flight[r].complete
        /\ led.notified = flight[r].notified
    BY <1>1 DEF FlightState
  <2>2. flight' = [flight EXCEPT ![r] = led] /\ Goto(r, "complete")
        /\ request[r].pc = "drop"
    BY <1>2 DEF RemoveFlight
  <2> HIDE DEF led
  <2> QED BY <1>1, <2>1, <2>2, DropKeeps
<1>3. CASE CompleteFlight(r)
  <2> DEFINE led == [flight[r] EXCEPT !.complete = TRUE]
  <2>1. /\ led \in FlightState /\ led.active = flight[r].active /\ led.complete
        /\ led.notified = flight[r].notified
    BY <1>1 DEF FlightState
  <2>2. flight' = [flight EXCEPT ![r] = led] /\ Goto(r, "notify")
        /\ request[r].pc = "complete"
    BY <1>3 DEF CompleteFlight
  <2>3. ~led.active
    BY <1>1, <2>1, <2>2 DEF LeadsFlight
  <2> HIDE DEF led
  <2> QED BY <2>1, <2>2, <2>3, DropKeeps
<1>4. CASE NotifyWaiters(r)
  <2> DEFINE led == [flight[r] EXCEPT !.notified = TRUE]
  <2>1. /\ led \in FlightState /\ led.active = flight[r].active /\ led.notified
        /\ led.complete = flight[r].complete
    BY <1>1 DEF FlightState
  <2>2. flight' = [flight EXCEPT ![r] = led] /\ Goto(r, "done")
        /\ request[r].pc = "notify"
    BY <1>4 DEF NotifyWaiters
  <2>3. ~led.active /\ led.complete
    BY <1>1, <2>1, <2>2 DEF LeadsFlight
  <2> HIDE DEF led
  <2> QED BY <2>1, <2>2, <2>3, DropKeeps
<1> QED BY <1>2, <1>3, <1>4

LEMMA StutterKeeps ==
    ASSUME IInv, UNCHANGED vars
    PROVE  IInv'
BY DEF vars, IInv, Shapes, FlightStages, OneFlightPerName, SameFlight,
       WaitersKnowTheirLeader, WillNotify

LEMMA NextKeeps == IInv /\ [Next]_vars => IInv'
<1> SUFFICES ASSUME IInv, [Next]_vars PROVE IInv'
  OBVIOUS
<1>1. ASSUME NEW r \in Request, Call(r) \/ RequestStep(r) \/ Cancel(r)
      PROVE  IInv'
  BY <1>1, CallKeeps, LookupKeeps, RegisterKeeps, WaiterKeeps, LeaderKeeps, InsertKeeps,
     LeaderDropKeeps DEF RequestStep
<1> QED BY <1>1, StutterKeeps DEF Next

-----------------------------------------------------------------------------
(* The theorems.                                                           *)

(* Whatever is looked up, registered, awaited, cancelled or dropped in     *)
(* which order, a flight in the map has a living leader, no two have the   *)
(* same name, and a waiter's leader still has to notify it or has done so. *)
THEOREM Invariance == Spec => []IInv
<1>1. Init => IInv
  BY InitHolds
<1> QED BY <1>1, NextKeeps, PTL DEF Spec

(* The engine never analyses a position, or a list of missing positions,   *)
(* for two requests of one flight at once (request_single_flight.rs        *)
(* register): a request that leads a flight has it in the map until its    *)
(* Drop, and the map has one flight for each name.                         *)
THEOREM FlightCorrect == Spec => []OneAnalysisPerFlight
<1>1. IInv => OneAnalysisPerFlight
  BY DEF IInv, OneFlightPerName, OneAnalysisPerFlight, AtEngine
<1> QED BY <1>1, Invariance, PTL

(* A request that awaits a flight subscribed before the notification, and  *)
(* the notification is sent, also by a leader that fails or is cancelled   *)
(* (request_single_flight.rs FlightWaiter::wait, FlightLeader::drop).      *)
THEOREM WakeupCorrect == Spec => []NoLostWakeup
<1>1. IInv => NoLostWakeup
  BY DEF IInv, WaitersKnowTheirLeader, NoLostWakeup, Waiting
<1> QED BY <1>1, Invariance, PTL

-----------------------------------------------------------------------------
(* The permits and their queue: who waits is in the queue, once, and the   *)
(* running analyses are finitely many, so that their permits can be added. *)
Stage(pc) == {r \in Request : request[r].pc = pc}
Needs == [r \in Request |-> Needed(r)]
QueueInv == queue \in Seq(Request) /\ Once(queue) /\ ToSet(queue) = Stage("wait")
PermitsInv ==
    /\ IsFiniteSet(Stage("engine")) /\ available \in Nat
    /\ available + SumFunctionOnSet(Needs, Stage("engine")) = Workers
ResourcesInv == IInv /\ CacheInv(cache) /\ QueueInv /\ PermitsInv

LEMMA ResourcesInit == Init => ResourcesInv
<1> SUFFICES ASSUME Init PROVE ResourcesInv
  OBVIOUS
<1>1. Stage("wait") = {} /\ Stage("engine") = {}
  BY DEF Init, Stage, NotCalled
<1>2. QueueInv
  <2>1. <<>> \in Seq(Request) /\ Len(<<>>) = 0
    OBVIOUS
  <2> QED BY <1>1, <2>1 DEF Init, QueueInv, Once, ToSet
<1>3. PermitsInv
  <2>1. available = Workers /\ Workers \in Nat
    BY RequestAssumption DEF Init
  <2>2. IsFiniteSet(Stage("engine")) /\ SumFunctionOnSet(Needs, Stage("engine")) = 0
    BY <1>1, FS_EmptySet, SumOfNone
  <2> QED BY <2>1, <2>2 DEF PermitsInv
<1> QED BY <1>2, <1>3, InitHolds, EmptyCacheHolds DEF Init, ResourcesInv

LEMMA NeededIsNat ==
    ASSUME IInv, NEW r \in Request
    PROVE  Needed(r) \in Nat
<1>1. Len(request[r].missing) \in Nat
  BY RequestFacts DEF RequestState
<1> QED BY <1>1, RequestAssumption DEF Needed, Smaller

LEMMA NeedsAre ==
    ASSUME IInv
    PROVE  \A r \in Request : Needs[r] = Needed(r) /\ Needs[r] \in Nat
BY NeededIsNat DEF Needs

(* A step of r changes only its own state.                                 *)
Alone(r) == \A s \in Request : s # r => request'[s] = request[s]

LEMMA OthersNeedTheSame ==
    ASSUME NEW r \in Request, Alone(r)
    PROVE  \A s \in Request : s # r => Needs'[s] = Needs[s]
BY DEF Alone, Needs, Needed

LEMMA OffEngine ==
    ASSUME IInv, PermitsInv, NEW r \in Request, Alone(r), available' = available,
           request[r].pc # "engine", request'[r].pc # "engine"
    PROVE  PermitsInv'
<1>1. Stage("engine")' = Stage("engine") /\ r \notin Stage("engine")
      /\ Stage("engine") \subseteq Request
  BY DEF Stage, Alone
<1>2. \A s \in Stage("engine") : Needs[s] = Needs'[s] /\ Needs[s] \in Int
  BY <1>1, OthersNeedTheSame, NeedsAre
<1>3. IntegersOn(Needs, Stage("engine")) /\ IsFiniteSet(Stage("engine"))
  BY <1>2 DEF IntegersOn, PermitsInv
<1> DEFINE engine == Stage("engine")
<1> HIDE DEF engine
<1>4. ASSUME NEW f, NEW e, IsFiniteSet(engine), IntegersOn(f, engine),
             \A s \in engine : f[s] = e[s]
      PROVE  SumFunctionOnSet(f, engine) = SumFunctionOnSet(e, engine)
  BY <1>4, SumOfEquals
<1>5. SumFunctionOnSet(Needs, Stage("engine")) = SumFunctionOnSet(Needs', Stage("engine"))
  BY <1>2, <1>3, <1>4 DEF engine
<1> QED BY <1>1, <1>5 DEF PermitsInv

LEMMA ToEngine ==
    ASSUME IInv, PermitsInv, NEW r \in Request, Alone(r), request[r].pc # "engine",
           request'[r].pc = "engine", Needed(r)' = Needed(r), Needed(r) <= available,
           available' = available - Needed(r)
    PROVE  PermitsInv'
<1> DEFINE engine == Stage("engine")
<1>1. /\ Stage("engine")' = engine \cup {r} /\ r \notin engine /\ engine \subseteq Request
      /\ IsFiniteSet(engine)
  BY DEF Stage, Alone, PermitsInv
<1>2. \A s \in engine \cup {r} : Needs'[s] = Needs[s] /\ Needs[s] \in Int
  BY <1>1, OthersNeedTheSame, NeedsAre DEF Needs
<1>3. IntegersOn(Needs, engine \cup {r}) /\ IsFiniteSet(engine \cup {r})
  BY <1>1, <1>2, FS_AddElement DEF IntegersOn
<1> HIDE DEF engine
<1>4. ASSUME NEW f, NEW e, NEW S, IsFiniteSet(S), IntegersOn(f, S),
             \A s \in S : f[s] = e[s]
      PROVE  SumFunctionOnSet(f, S) = SumFunctionOnSet(e, S)
  BY <1>4, SumOfEquals
<1>5. SumFunctionOnSet(Needs, engine \cup {r}) = SumFunctionOnSet(Needs', engine \cup {r})
  BY <1>2, <1>3, <1>4
<1>6. SumFunctionOnSet(Needs, engine \cup {r}) = SumFunctionOnSet(Needs, engine) + Needs[r]
  BY <1>1, <1>3, SumWith
<1>7. Needs[r] = Needed(r) /\ Needed(r) \in Nat
  BY NeedsAre
<1>8. SumFunctionOnSet(Needs, engine) \in Int
  <2>1. IntegersOn(Needs, engine)
    BY <1>2 DEF IntegersOn
  <2> QED BY <1>1, <2>1, SumIsInteger
<1>9. available \in Nat /\ available + SumFunctionOnSet(Needs, engine) = Workers
  BY DEF PermitsInv, engine
<1>10. available' \in Nat /\ available' + SumFunctionOnSet(Needs', engine \cup {r}) = Workers
  BY <1>5, <1>6, <1>7, <1>8, <1>9
<1> QED BY <1>1, <1>3, <1>10 DEF PermitsInv

LEMMA FromEngine ==
    ASSUME IInv, PermitsInv, NEW r \in Request, Alone(r), request[r].pc = "engine",
           request'[r].pc # "engine", available' = available + Needed(r)
    PROVE  PermitsInv'
<1> DEFINE engine == Stage("engine")
<1>1. /\ Stage("engine")' = engine \ {r} /\ r \in engine /\ engine \subseteq Request
      /\ IsFiniteSet(engine)
  BY DEF Stage, Alone, PermitsInv
<1>2. /\ \A s \in engine \ {r} : Needs'[s] = Needs[s]
      /\ \A s \in engine : Needs[s] \in Int
  BY <1>1, OthersNeedTheSame, NeedsAre DEF Needs
<1>3. /\ IntegersOn(Needs, engine) /\ IntegersOn(Needs, engine \ {r})
      /\ IsFiniteSet(engine \ {r})
  BY <1>1, <1>2, FS_RemoveElement DEF IntegersOn
<1> HIDE DEF engine
<1>4. ASSUME NEW f, NEW e, NEW S, IsFiniteSet(S), IntegersOn(f, S),
             \A s \in S : f[s] = e[s]
      PROVE  SumFunctionOnSet(f, S) = SumFunctionOnSet(e, S)
  BY <1>4, SumOfEquals
<1>5. SumFunctionOnSet(Needs, engine \ {r}) = SumFunctionOnSet(Needs', engine \ {r})
  BY <1>2, <1>3, <1>4
<1>6. SumFunctionOnSet(Needs, engine) = Needs[r] + SumFunctionOnSet(Needs, engine \ {r})
  BY <1>1, <1>3, SumWithout
<1>7. Needs[r] = Needed(r) /\ Needed(r) \in Nat
  BY NeedsAre
<1>8. SumFunctionOnSet(Needs, engine \ {r}) \in Int
  BY <1>3, SumIsInteger
<1>9. available \in Nat /\ available + SumFunctionOnSet(Needs, engine) = Workers
  BY DEF PermitsInv, engine
<1>10. available' \in Nat /\ available' + SumFunctionOnSet(Needs', engine \ {r}) = Workers
  BY <1>5, <1>6, <1>7, <1>8, <1>9
<1> QED BY <1>1, <1>3, <1>10 DEF PermitsInv

LEMMA OffQueue ==
    ASSUME QueueInv, NEW r \in Request, Alone(r), queue' = queue,
           request[r].pc # "wait", request'[r].pc # "wait"
    PROVE  QueueInv'
<1>1. Stage("wait")' = Stage("wait")
  BY DEF Stage, Alone
<1> QED BY <1>1 DEF QueueInv

LEMMA OutOfQueue ==
    ASSUME QueueInv, NEW r \in Request, Alone(r), queue' = RemoveFirst(queue, r),
           request'[r].pc # "wait"
    PROVE  QueueInv'
<1>1. Stage("wait")' = Stage("wait") \ {r}
  BY DEF Stage, Alone
<1>2. queue \in Seq(Request) /\ Once(queue) /\ ToSet(queue) = Stage("wait")
  BY DEF QueueInv
<1>3. /\ RemoveFirst(queue, r) \in Seq(Request) /\ Once(RemoveFirst(queue, r))
      /\ ToSet(RemoveFirst(queue, r)) = ToSet(queue) \ {r}
  BY <1>2, RemoveFirstKeeps
<1> QED BY <1>1, <1>2, <1>3 DEF QueueInv

LEMMA EnqueueKeeps ==
    ASSUME QueueInv, NEW r \in Request, Alone(r), queue' = Append(queue, r),
           request[r].pc # "wait", request'[r].pc = "wait"
    PROVE  QueueInv'
<1>1. Stage("wait")' = Stage("wait") \cup {r} /\ r \notin Stage("wait")
  BY DEF Stage, Alone
<1>2. queue \in Seq(Request) /\ Once(queue) /\ ToSet(queue) = Stage("wait")
  BY DEF QueueInv
<1>3. /\ Append(queue, r) \in Seq(Request) /\ Once(Append(queue, r))
      /\ ToSet(Append(queue, r)) = ToSet(queue) \cup {r}
  BY <1>1, <1>2, AppendKeeps
<1> QED BY <1>1, <1>2, <1>3 DEF QueueInv

LEMMA DequeueKeeps ==
    ASSUME QueueInv, NEW r \in Request, Alone(r), queue' = Tail(queue), Head(queue) = r,
           request[r].pc = "wait", request'[r].pc # "wait"
    PROVE  QueueInv'
<1>1. Stage("wait")' = Stage("wait") \ {r} /\ r \in Stage("wait")
  BY DEF Stage, Alone
<1>2. queue \in Seq(Request) /\ Once(queue) /\ ToSet(queue) = Stage("wait")
  BY DEF QueueInv
<1>3. queue # <<>>
  BY <1>1, <1>2 DEF ToSet
<1>4. /\ Tail(queue) \in Seq(Request) /\ Once(Tail(queue))
      /\ ToSet(Tail(queue)) = ToSet(queue) \ {Head(queue)}
  BY <1>2, <1>3, TailKeeps
<1> QED BY <1>1, <1>2, <1>4 DEF QueueInv

(* What a step leaves of the request that takes it.                        *)
LEMMA SetIs ==
    ASSUME IInv, NEW r \in Request, NEW state, Set(r, state)
    PROVE  Alone(r) /\ request'[r] = state
BY DEF IInv, Shapes, Set, Alone

LEMMA GotoIs ==
    ASSUME IInv, NEW r \in Request, NEW pc, Goto(r, pc)
    PROVE  /\ Alone(r) /\ request'[r].pc = pc
           /\ request'[r].batch = request[r].batch
           /\ request'[r].missing = request[r].missing
<1>1. Alone(r) /\ request'[r] = [request[r] EXCEPT !.pc = pc]
  BY SetIs DEF Goto
<1>2. request[r] \in RequestState
  BY RequestFacts
<1> QED BY <1>1, <1>2 DEF RequestState

(* The steps at which a request neither waits for permits nor has any.     *)
LEMMA AsideKeeps ==
    ASSUME IInv, QueueInv, PermitsInv, NEW r \in Request,
           Call(r) \/ Lookup(r) \/ Register(r) \/ Check(r) \/ Subscribe(r) \/ Recheck(r)
               \/ Awake(r) \/ Insert(r) \/ RemoveFlight(r) \/ CompleteFlight(r)
               \/ NotifyWaiters(r)
    PROVE  QueueInv' /\ PermitsInv'
<1>1. queue' = queue /\ available' = available /\ request[r].pc \notin {"wait", "engine"}
  BY DEF Call, Lookup, Register, Check, Subscribe, Recheck, Awake, Insert, RemoveFlight,
         CompleteFlight, NotifyWaiters
<1>2. request[r] \in RequestState
  BY RequestFacts
<1>3. Alone(r) /\ request'[r].pc \notin {"wait", "engine"}
  <2>1. CASE Call(r)
    <3>1. PICK call \in Calls :
              Set(r, [NotCalled EXCEPT !.pc = "lookup", !.batch = call.batch,
                                       !.positions = call.positions])
      BY <2>1 DEF Call
    <3> DEFINE new == [NotCalled EXCEPT !.pc = "lookup", !.batch = call.batch,
                                        !.positions = call.positions]
    <3>2. new.pc = "lookup"
      BY DEF NotCalled
    <3> HIDE DEF new
    <3>3. Set(r, new)
      BY <3>1 DEF new
    <3> QED BY <3>2, <3>3, SetIs
  <2>2. CASE Lookup(r)
    <3>1. PICK missing, at :
              Set(r, [request[r] EXCEPT
                  !.missing = missing, !.at = at,
                  !.pc = IF request[r].at < Len(request[r].positions) THEN "lookup"
                         ELSE AfterLookup(r, missing)])
      BY <2>2 DEF Lookup
    <3> DEFINE pc == IF request[r].at < Len(request[r].positions) THEN "lookup"
                     ELSE AfterLookup(r, missing)
               new == [request[r] EXCEPT !.missing = missing, !.at = at, !.pc = pc]
    <3>2. pc \notin {"wait", "engine"}
      BY DEF AfterLookup
    <3>3. Set(r, new)
      BY <3>1
    <3> HIDE DEF pc
    <3>4. new.pc = pc
      BY <1>2 DEF RequestState
    <3> HIDE DEF new
    <3> QED BY <3>2, <3>3, <3>4, SetIs
  <2>3. CASE Register(r)
    <3>1. ASSUME NEW l \in Request, Set(r, [request[r] EXCEPT !.pc = "check", !.on = l])
          PROVE  Alone(r) /\ request'[r].pc = "check"
      <4> DEFINE new == [request[r] EXCEPT !.pc = "check", !.on = l]
      <4>1. Set(r, new) /\ new.pc = "check"
        BY <1>2, <3>1 DEF RequestState
      <4> HIDE DEF new
      <4> QED BY <4>1, SetIs
    <3>2. ASSUME Set(r, [request[r] EXCEPT !.pc = "queue", !.at = 1])
          PROVE  Alone(r) /\ request'[r].pc = "queue"
      <4> DEFINE new == [request[r] EXCEPT !.pc = "queue", !.at = 1]
      <4>1. Set(r, new) /\ new.pc = "queue"
        BY <1>2, <3>2 DEF RequestState
      <4> HIDE DEF new
      <4> QED BY <4>1, SetIs
    <3> QED BY <2>3, <3>1, <3>2 DEF Register
  <2>4. CASE Subscribe(r)
    <3> DEFINE new == [request[r] EXCEPT !.pc = "recheck",
                                         !.missed = flight[request[r].on].notified]
    <3>1. Set(r, new) /\ new.pc = "recheck"
      BY <1>2, <2>4 DEF Subscribe, RequestState
    <3> HIDE DEF new
    <3> QED BY <3>1, SetIs
  <2>5. CASE Insert(r)
    <3> DEFINE new == [request[r] EXCEPT
                           !.at = request[r].at + 1,
                           !.pc = IF request[r].at < Len(request[r].missing) THEN "insert"
                                  ELSE "drop"]
    <3>1. Set(r, new) /\ new.pc \in {"insert", "drop"}
      BY <1>2, <2>5 DEF Insert, RequestState
    <3> HIDE DEF new
    <3> QED BY <3>1, SetIs
  <2>6. CASE StartOver(r)
    <3> DEFINE new == [request[r] EXCEPT !.pc = "lookup", !.at = 1, !.missing = <<>>,
                                         !.on = NoRequest, !.missed = FALSE]
    <3>1. Set(r, new) /\ new.pc = "lookup"
      BY <1>2, <2>6 DEF StartOver, RequestState
    <3> HIDE DEF new
    <3> QED BY <3>1, SetIs
  <2>7. ASSUME NEW pc \in {"subscribe", "await", "check", "complete", "notify", "done"},
               Goto(r, pc)
        PROVE  Alone(r) /\ request'[r].pc \notin {"wait", "engine"}
    BY <2>7, GotoIs
  <2> QED BY <2>1, <2>2, <2>3, <2>4, <2>5, <2>6, <2>7
          DEF Check, Recheck, Awake, RemoveFlight, CompleteFlight, NotifyWaiters
<1> QED BY <1>1, <1>3, OffQueue, OffEngine

LEMMA PermitStepsKeep ==
    ASSUME IInv, QueueInv, PermitsInv, NEW r \in Request,
           Enqueue(r) \/ Granted(r) \/ EngineAnswers(r) \/ Cancel(r)
    PROVE  QueueInv' /\ PermitsInv'
<1>1. CASE Enqueue(r)
  BY <1>1, GotoIs, EnqueueKeeps, OffEngine DEF Enqueue
<1>2. CASE Granted(r)
  <2>1. /\ Alone(r) /\ request'[r].pc = "engine" /\ Needed(r)' = Needed(r)
    BY <1>2, GotoIs DEF Granted, Needed
  <2> QED BY <1>2, <2>1, DequeueKeeps, ToEngine DEF Granted
<1>3. CASE EngineAnswers(r)
  <2>1. Alone(r) /\ request'[r].pc \in {"insert", "drop", "done"}
    BY <1>3, GotoIs DEF EngineAnswers, Abandon
  <2> QED BY <1>3, <2>1, OffQueue, FromEngine DEF EngineAnswers
<1>4. CASE Cancel(r)
  <2>1. Alone(r) /\ request'[r].pc \in {"drop", "done"}
    BY <1>4, GotoIs DEF Cancel, Abandon
  <2>2. QueueInv'
    BY <1>4, <2>1, OutOfQueue DEF Cancel
  <2>3. PermitsInv'
    <3>1. CASE request[r].pc = "engine"
      BY <1>4, <2>1, <3>1, FromEngine DEF Cancel
    <3>2. CASE request[r].pc # "engine"
      BY <1>4, <2>1, <3>2, OffEngine DEF Cancel
    <3> QED BY <3>1, <3>2
  <2> QED BY <2>2, <2>3
<1> QED BY <1>1, <1>2, <1>3, <1>4

LEMMA CacheStepsKeep ==
    ASSUME CacheInv(cache), NEW r \in Request, Call(r) \/ RequestStep(r) \/ Cancel(r)
    PROVE  CacheInv(cache')
<1>1. CASE Lookup(r)
  BY <1>1, GotKeeps DEF Lookup
<1>2. CASE Insert(r)
  <2>1. cache' = cache \/ \E p \in Key : cache' \in Inserted(cache, p)
    BY <1>2 DEF Insert
  <2> QED BY <2>1, InsertedKeeps
<1>3. CASE ~Lookup(r) /\ ~Insert(r)
  <2>1. cache' = cache
    BY <1>3 DEF RequestStep, Call, Register, Check, Subscribe, Recheck, Awake, Enqueue,
           Granted, EngineAnswers, RemoveFlight, CompleteFlight, NotifyWaiters, Cancel
  <2> QED BY <2>1
<1> QED BY <1>1, <1>2, <1>3

LEMMA ResourcesStep == ResourcesInv /\ [Next]_vars => ResourcesInv'
<1> SUFFICES ASSUME ResourcesInv, [Next]_vars PROVE ResourcesInv'
  OBVIOUS
<1>1. IInv'
  BY NextKeeps DEF ResourcesInv
<1>2. ASSUME NEW r \in Request, Call(r) \/ RequestStep(r) \/ Cancel(r)
      PROVE  CacheInv(cache') /\ QueueInv' /\ PermitsInv'
  <2>1. CacheInv(cache')
    BY <1>2, CacheStepsKeep DEF ResourcesInv
  <2> QED BY <1>2, <2>1, AsideKeeps, PermitStepsKeep DEF ResourcesInv, RequestStep
<1>3. CASE UNCHANGED vars
  <2>1. QueueInv'
    BY <1>3 DEF vars, ResourcesInv, QueueInv, Stage
  <2>2. Stage("engine")' = Stage("engine") /\ Needs' = Needs
    BY <1>3 DEF vars, Stage, Needs, Needed
  <2>3. PermitsInv'
    BY <1>3, <2>2 DEF vars, ResourcesInv, PermitsInv
  <2> QED BY <1>1, <1>3, <2>1, <2>3 DEF vars, ResourcesInv
<1> QED BY <1>1, <1>2, <1>3 DEF Next, ResourcesInv

LEMMA ResourcesInvIs ==
    ResourcesInv => TypeOK /\ PermitsAddUp /\ CacheFitsBudget /\ RecencyIsBounded
<1> SUFFICES ASSUME ResourcesInv
             PROVE  TypeOK /\ PermitsAddUp /\ CacheFitsBudget /\ RecencyIsBounded
  OBVIOUS
<1>1. CacheInv(cache) /\ CacheShape(cache)
  BY DEF ResourcesInv, CacheInv, CacheSound
<1>2. CacheFitsBudget /\ RecencyIsBounded
  BY <1>1 DEF CacheFitsBudget, RecencyIsBounded, CacheInv, CacheSound, Compacted
<1>3. PermitsAddUp
  BY DEF ResourcesInv, PermitsInv, PermitsAddUp, Needs, Stage
<1>4. available \in 0..Workers
  <2>1. SumFunctionOnSet(Needs, Stage("engine")) \in Nat
    <3>1. IsFiniteSet(Stage("engine")) /\ \A r \in Stage("engine") : Needs[r] \in Nat
      BY NeedsAre DEF ResourcesInv, PermitsInv, Stage
    <3> QED BY <3>1, SumIsNatural
  <2> QED BY <2>1, RequestAssumption DEF ResourcesInv, PermitsInv
<1>5. Entries(cache) \subseteq Key /\ cache.used \in Nat /\ cache.clock \in Nat
  BY <1>1, AccessesAre, WeightsAre DEF CacheInv, CacheSound
<1> QED BY <1>2, <1>3, <1>4, <1>5 DEF ResourcesInv, IInv, Shapes, QueueInv, TypeOK

LEMMA ResourcesHold == Spec => []ResourcesInv
<1>1. Init => ResourcesInv
  BY ResourcesInit
<1> QED BY <1>1, ResourcesStep, PTL DEF Spec

(* The cache, the flights, the permits, their queue and the calls keep     *)
(* their types: no permit beyond the configured workers is ever free       *)
(* (worker_limit.rs), and the bytes in use are never negative (store.rs).  *)
THEOREM EngineTypesHold == Spec => []TypeOK
BY ResourcesInvIs, ResourcesHold, PTL

(* Whoever is cancelled while it waits for permits or has them, and        *)
(* whichever analysis fails, the free permits and those of the running     *)
(* analyses are all the workers (worker_limit.rs analyze_positions): who   *)
(* waits has none, and is in the queue once, so no grant is lost on it.    *)
THEOREM PermitsNeverLeak == Spec => []PermitsAddUp
BY ResourcesInvIs, ResourcesHold, PTL

(* The byte count is that of the entries and within the budget, for any    *)
(* weights (store.rs insert, evict_to_budget): the last access of every    *)
(* entry has its record in the queue, so that the queue does not run empty *)
(* before the budget is met.                                               *)
THEOREM CacheStaysInBudget == Spec => []CacheFitsBudget
BY ResourcesInvIs, ResourcesHold, PTL

(* The recency queue has at most its factor of records for each entry and  *)
(* its slack (store.rs compact_recency): accesses have generations of      *)
(* their own, so that one record of each entry is current.                 *)
THEOREM RecencyStaysCompact == Spec => []RecencyIsBounded
BY ResourcesInvIs, ResourcesHold, PTL

-----------------------------------------------------------------------------
(* The cache implements LruCache.                                          *)

LEMMA LruLatest ==
    ASSUME NEW s, NEW k
    PROVE  Lru!Latest(s, k) = Append(RemoveFirst(s, k), k)
<1>1. Lru!RemoveFirst(s, k) = RemoveFirst(s, k)
  BY DEF Lru!RemoveFirst, RemoveFirst, Lru!RemoveAt, RemoveAt, Lru!SelectInSeq, SelectInSeq,
         Lru!Min, Min
<1> QED BY <1>1 DEF Lru!Latest

LEMMA LruBytes ==
    ASSUME NEW s
    PROVE  Lru!Bytes(s) = TotalWeight(ToSet(s)) /\ Lru!Kept(s) = ToSet(s)
<1>1. \A S : Lru!SumFunctionOnSet(Weight, S) = SumFunctionOnSet(Weight, S)
  BY DEF Lru!SumFunctionOnSet, SumFunctionOnSet, Lru!FoldFunctionOnSet, FoldFunctionOnSet,
         Lru!MapThenFoldSet, MapThenFoldSet
<1>2. Lru!Kept(s) = ToSet(s)
  BY DEF Lru!Kept, ToSet
<1> QED BY <1>1, <1>2 DEF Lru!Bytes, TotalWeight

LEMMA UseOrderIs ==
    ASSUME NEW c, CacheSound(c)
    PROVE  /\ ByUse(UseOrder(c), Entries(c), c.lastAccess)
           /\ UsedOn(c.lastAccess, Entries(c))
BY CurrentByUse, AccessesAre DEF UseOrder, CacheSound, UsedOn

LEMMA UseOrderOnly ==
    ASSUME NEW c, CacheSound(c), NEW s, ByUse(s, Entries(c), c.lastAccess)
    PROVE  UseOrder(c) = s
BY UseOrderIs, ByUseUnique

(* The order depends on the accesses alone.                                *)
LEMMA UseOrderSame ==
    ASSUME NEW c, NEW d, CacheSound(c), CacheSound(d), c.lastAccess = d.lastAccess
    PROVE  UseOrder(c) = UseOrder(d)
<1>1. ByUse(UseOrder(d), Entries(c), c.lastAccess)
  BY UseOrderIs DEF Entries
<1> QED BY <1>1, UseOrderOnly

LEMMA LruInitHolds == UseOrder(EmptyCache) = <<>>
<1>1. /\ CacheSound(EmptyCache) /\ Entries(EmptyCache) = {}
  BY EmptyCacheHolds DEF CacheInv, EmptyCache, Entries
<1>2. <<>> \in Seq(Key) /\ Len(<<>>) = 0
  OBVIOUS
<1>3. ByUse(<<>>, Entries(EmptyCache), EmptyCache.lastAccess)
  BY <1>1, <1>2 DEF ByUse, ToSet
<1> QED BY <1>1, <1>3, UseOrderOnly

LEMMA AccessedLater ==
    ASSUME NEW c, CacheSound(c), NEW k \in Key, NEW d, CacheSound(d),
           Entries(d) = Entries(c) \cup {k},
           \A j \in Entries(d) :
               d.lastAccess[j] = IF j = k THEN c.clock + 1 ELSE c.lastAccess[j]
    PROVE  UseOrder(d) = Append(RemoveFirst(UseOrder(c), k), k)
<1> DEFINE s == UseOrder(c)
           last == c.lastAccess
           new == d.lastAccess
<1>1. ByUse(s, Entries(c), last) /\ UsedOn(last, Entries(c))
  BY UseOrderIs
<1>2. c.clock \in Nat /\ c.recency \in Seq(Record)
  BY AccessesAre DEF CacheSound
<1>3. ASSUME NEW j \in Entries(c)
      PROVE  last[j] \in Nat /\ last[j] <= c.clock
  <2>1. PICK i \in 1..Len(c.recency) : c.recency[i].generation = last[j]
    BY DEF CacheSound, QueueIsAHistory
  <2> QED BY <1>1, <2>1 DEF CacheSound, QueueIsAHistory, UsedOn
<1>4. new[k] \in Nat /\ new[k] = c.clock + 1
  BY <1>2
<1>5. \A j \in Entries(c) \ {k} : new[j] = last[j] /\ new[j] < new[k]
  BY <1>2, <1>3, <1>4
<1> HIDE DEF s, last, new
<1>6. ByUse(Append(RemoveFirst(s, k), k), Entries(c) \cup {k}, new)
  BY <1>1, <1>4, <1>5, LatestByUse
<1> QED BY <1>6, UseOrderOnly DEF s, new

LEMMA GotIsUse ==
    ASSUME NEW c, CacheInv(c), NEW p
    PROVE  \/ UseOrder(Got(c, p)) = UseOrder(c)
           \/ /\ p \in Key /\ p \in ToSet(UseOrder(c))
              /\ UseOrder(Got(c, p)) = Append(RemoveFirst(UseOrder(c), p), p)
<1>1. CASE p \notin Entries(c)
  BY <1>1 DEF Got
<1>2. CASE p \in Entries(c)
  <2> DEFINE d == Accessed(c, p)
             e == CompactRecency(d)
  <2>1. p \in Key /\ Entries(c) \cup {p} = Entries(c) /\ CacheSound(c)
    BY <1>2, AccessesAre DEF CacheInv, CacheSound
  <2>2. /\ CacheShape(d) /\ QueueIsAHistory(d) /\ Entries(d) = Entries(c) \cup {p}
        /\ d.used = c.used
        /\ \A j \in Entries(d) :
               d.lastAccess[j] = IF j = p THEN c.clock + 1 ELSE c.lastAccess[j]
    BY <2>1, AccessedIs DEF CacheSound
  <2>3. Got(c, p) = e
    BY <1>2 DEF Got
  <2> HIDE DEF d
  <2>4. CacheSound(d)
    BY <2>1, <2>2 DEF CacheSound
  <2>5. CacheSound(e) /\ e.lastAccess = d.lastAccess
    BY <2>4, CompactKeeps
  <2> HIDE DEF e
  <2>6. UseOrder(e) = UseOrder(d)
    BY <2>4, <2>5, UseOrderSame
  <2>7. UseOrder(d) = Append(RemoveFirst(UseOrder(c), p), p)
    BY <2>1, <2>2, <2>4, AccessedLater
  <2>8. ToSet(UseOrder(c)) = Entries(c)
    BY <2>1, UseOrderIs DEF ByUse
  <2> QED BY <1>2, <2>1, <2>3, <2>6, <2>7, <2>8
<1> QED BY <1>1, <1>2

LEMMA InsertedIsStore ==
    ASSUME NEW c, CacheInv(c), NEW k \in Key, NEW d \in Inserted(c, k)
    PROVE  \/ UseOrder(d) = UseOrder(c)
           \/ /\ Weight[k] <= MaxBytes
              /\ LET latest == Append(RemoveFirst(UseOrder(c), k), k)
                 IN  \E n \in 0..Len(UseOrder(c)) :
                         /\ UseOrder(d) = SubSeq(latest, n + 1, Len(latest))
                         /\ TotalWeight(ToSet(SubSeq(latest, n + 1, Len(latest)))) <= MaxBytes
                         /\ n > 0 => TotalWeight(ToSet(SubSeq(latest, n, Len(latest)))) > MaxBytes
<1>1. CASE Weight[k] > MaxBytes
  BY <1>1 DEF Inserted
<1>2. CASE ~(Weight[k] > MaxBytes)
  <2> DEFINE stored == Stored(c, k)
             e == EvictToBudget(stored)
             s == UseOrder(c)
             latest == Append(RemoveFirst(s, k), k)
             after(n) == SubSeq(latest, n, Len(latest))
  <2>1. d = CompactRecency(e)
    BY <1>2 DEF Inserted
  <2>2. /\ CacheSound(stored) /\ Entries(stored) = Entries(c) \cup {k}
        /\ \A j \in Entries(stored) :
               stored.lastAccess[j] = IF j = k THEN c.clock + 1 ELSE c.lastAccess[j]
    BY StoredIs DEF CacheInv
  <2>3. CacheSound(e)
    BY <2>2, EvictIs
  <2> HIDE DEF stored
  <2>4. UseOrder(stored) = latest
    BY <2>2, AccessedLater DEF CacheInv
  <2>5. ByUse(latest, Entries(stored), stored.lastAccess)
    <3> HIDE DEF latest
    <3> QED BY <2>2, <2>4, UseOrderIs
  <2>6. PICK m \in 0..Len(latest) :
            /\ ByUse(after(m + 1), Entries(e), e.lastAccess)
            /\ TotalWeight(ToSet(after(m + 1))) <= MaxBytes
            /\ m > 0 => TotalWeight(ToSet(after(m))) > MaxBytes
    <3> HIDE DEF latest
    <3> QED BY <2>2, <2>5, EvictedByUse
  <2>7. CacheSound(d) /\ d.lastAccess = e.lastAccess
    BY <2>1, <2>3, CompactKeeps
  <2> HIDE DEF e
  <2>8. UseOrder(d) = after(m + 1)
    <3>1. UseOrder(d) = UseOrder(e)
      BY <2>3, <2>7, UseOrderSame
    <3>2. UseOrder(e) = after(m + 1)
      <4> HIDE DEF after
      <4> QED BY <2>3, <2>6, UseOrderOnly
    <3> QED BY <3>1, <3>2
  <2>9. ByUse(s, Entries(c), c.lastAccess) /\ Once(s) /\ s \in Seq(Key)
    <3>1. ByUse(s, Entries(c), c.lastAccess) /\ UsedOn(c.lastAccess, Entries(c))
      BY UseOrderIs DEF CacheInv
    <3> HIDE DEF s
    <3> QED BY <3>1, ByUseOnce DEF ByUse
  <2>10. /\ latest \in Seq(Key) /\ Len(latest) \in Nat \ {0} /\ Len(latest) <= Len(s) + 1
         /\ latest[Len(latest)] = k /\ Len(s) \in Nat
    <3> HIDE DEF s
    <3>1. RemoveFirst(s, k) \in Seq(Key) /\ Len(RemoveFirst(s, k)) <= Len(s)
      BY <2>9, RemoveFirstKeeps, RemoveFirstShrinks
    <3> QED BY <2>9, <3>1
  <2>11. m <= Len(s)
    <3>4. m \in 0..Len(latest)
      OBVIOUS
    <3> HIDE DEF latest, s
    <3> SUFFICES ASSUME m > Len(s) PROVE FALSE
      BY <2>10, <3>4
    <3>1. m = Len(latest) /\ m > 0 /\ m \in Nat
      BY <2>10, <3>4
    <3>2. ToSet(after(m)) = {k}
      <4> HIDE DEF latest
      <4>1. SubSeq(latest, m, Len(latest)) = <<latest[m]>>
        <5> DEFINE t == SubSeq(latest, m, Len(latest))
        <5>1. t \in Seq(Key) /\ Len(t) = 1 /\ t[1] = latest[m]
          BY <2>10, <3>1, SubSeqProperties
        <5> HIDE DEF t
        <5>2. t = <<latest[m]>>
          BY <5>1
        <5> QED BY <5>2 DEF t
      <4>2. ToSet(<<k>>) = {k}
        BY DEF ToSet
      <4> QED BY <2>10, <3>1, <4>1, <4>2
    <3>3. TotalWeight({k}) = Weight[k]
      <4>1. IsFiniteSet({k}) /\ IsFiniteSet({}) /\ {k} \in SUBSET Key /\ {} \cup {k} = {k}
        BY FS_EmptySet, FS_Singleton
      <4>2. IntegersOn(Weight, {} \cup {k})
        BY <4>1, WeightsAre
      <4>3. SumFunctionOnSet(Weight, {} \cup {k}) = SumFunctionOnSet(Weight, {}) + Weight[k]
        BY <4>1, <4>2, SumWith
      <4> QED BY <4>1, <4>3, SumOfNone, CacheAssumption DEF TotalWeight
    <3> QED BY <1>2, <2>6, <3>1, <3>2, <3>3
  <2>12. m \in 0..Len(s)
    BY <2>6, <2>10, <2>11
  <2>13. Weight[k] <= MaxBytes
    BY <1>2, CacheAssumption
  <2> QED BY <2>6, <2>8, <2>12, <2>13
<1> QED BY <1>1, <1>2

LEMMA LruStep == ResourcesInv /\ [Next]_vars => [Lru!Next]_(UseOrder(cache))
<1> SUFFICES ASSUME ResourcesInv, [Next]_vars
             PROVE  Lru!Next \/ UseOrder(cache') = UseOrder(cache)
  OBVIOUS
<1>1. CacheInv(cache)
  BY DEF ResourcesInv
<1>2. ASSUME NEW p, cache' = Got(cache, p)
      PROVE  Lru!Next \/ UseOrder(cache') = UseOrder(cache)
  <2>1. CASE UseOrder(cache') = UseOrder(cache)
    BY <2>1
  <2>2. CASE UseOrder(cache') # UseOrder(cache)
    <3>1. /\ p \in Key /\ p \in ToSet(UseOrder(cache))
          /\ UseOrder(cache') = Append(RemoveFirst(UseOrder(cache), p), p)
      BY <1>1, <1>2, <2>2, GotIsUse
    <3>2. Lru!Use(p)
      BY <3>1, LruLatest, LruBytes DEF Lru!Use
    <3> QED BY <3>1, <3>2 DEF Lru!Next
  <2> QED BY <2>1, <2>2
<1>3. ASSUME NEW k \in Key, cache' \in Inserted(cache, k)
      PROVE  Lru!Next \/ UseOrder(cache') = UseOrder(cache)
  <2>1. CASE UseOrder(cache') = UseOrder(cache)
    BY <2>1
  <2>2. CASE UseOrder(cache') # UseOrder(cache)
    <3> DEFINE s == UseOrder(cache)
               latest == Append(RemoveFirst(s, k), k)
    <3>1. Weight[k] <= MaxBytes
      BY <1>1, <1>3, <2>2, InsertedIsStore
    <3>2. PICK n \in 0..Len(s) :
              /\ UseOrder(cache') = SubSeq(latest, n + 1, Len(latest))
              /\ TotalWeight(ToSet(SubSeq(latest, n + 1, Len(latest)))) <= MaxBytes
              /\ n > 0 => TotalWeight(ToSet(SubSeq(latest, n, Len(latest)))) > MaxBytes
      BY <1>1, <1>3, <2>2, InsertedIsStore
    <3>3. Lru!Latest(s, k) = latest /\ (n - 1) + 1 = n
      BY LruLatest
    <3>4. /\ Lru!Bytes(SubSeq(latest, n + 1, Len(latest))) <= MaxBytes
          /\ n > 0 => Lru!Bytes(SubSeq(latest, (n - 1) + 1, Len(latest))) > MaxBytes
      BY <3>2, <3>3, LruBytes
    <3> HIDE DEF latest
    <3>5. Lru!Store(k)
      BY <3>1, <3>2, <3>3, <3>4 DEF Lru!Store, s
    <3> QED BY <3>5 DEF Lru!Next
  <2> QED BY <2>1, <2>2
<1>4. CASE cache' = cache
  BY <1>4
<1>5. \/ \E p : cache' = Got(cache, p)
      \/ \E k \in Key : cache' \in Inserted(cache, k)
      \/ cache' = cache
  BY DEF Next, vars, RequestStep, Call, Lookup, Register, Check, Subscribe, Recheck, Awake,
         Enqueue, Granted, EngineAnswers, Insert, RemoveFlight, CompleteFlight,
         NotifyWaiters, Cancel
<1> QED BY <1>2, <1>3, <1>4, <1>5

(* Every behaviour of the engine cache is one of an ideal cache without a  *)
(* clock or a queue (store.rs get, insert, evict_to_budget,                *)
(* compact_recency): a hit makes its entry the most recently used, an      *)
(* insert drops the least recently used and no more than the budget asks   *)
(* for, and nothing else changes what is kept or its order.                *)
THEOREM CacheImplementsLru == Spec => ImplementsLru
<1>1. Init => Lru!Init
  BY LruInitHolds DEF Init, Lru!Init
<1>2. Spec => [][Lru!Next]_(UseOrder(cache))
  BY ResourcesHold, LruStep, PTL DEF Spec
<1> QED BY <1>1, <1>2, PTL DEF Spec, ImplementsLru, Lru!Spec

===============================================================================
