--------------------------- MODULE ExactEngineCache ---------------------------
(***************************************************************************)
(* Analyses through ExactEngineCache over EngineWorkerLimit: a request     *)
(* looks its positions up, registers a flight for what is missing, and     *)
(* either leads it - waits for worker permits, analyses, files the results *)
(* - or waits for its leader and starts over.  A request may be cancelled  *)
(* at every await.  Single positions and batches have flights of their own.*)
(*                                                                         *)
(* Each request is one call, so a flight is named by the request that      *)
(* leads it.  Tokio's semaphore is first-in first-out; its Notify wakes    *)
(* whoever subscribed before notify_waiters was called.                    *)
(***************************************************************************)
EXTENDS EngineCacheStore, SequencesExt

CONSTANTS
    Request,       \* calls of analyze_with_provenance and analyze_positions
    Uncacheable,   \* positions without a content identity
    Calls,         \* the calls made: [batch, positions]
    Workers,       \* configured workers
    Concurrency,   \* concurrency that a batch requests
    NoRequest

ASSUME RequestAssumption ==
    /\ NoRequest \notin Request
    /\ Workers \in Nat \ {0} /\ Concurrency \in Nat \ {0}
    /\ Calls \subseteq [batch : BOOLEAN, positions : Seq(Key \cup Uncacheable)]
    /\ \A call \in Calls : call.positions # <<>> /\ (~call.batch => Len(call.positions) = 1)

VARIABLES
    cache,       \* the EngineCache
    flight,      \* flight[r]: the Flight that r leads
    available,   \* free worker permits
    queue,       \* requests that wait for permits
    request      \* request[r]: where the call of r is

vars == <<cache, flight, available, queue, request>>

Position == Key \cup Uncacheable
NoFlight == [active |-> FALSE, complete |-> FALSE, notified |-> FALSE]
NotCalled == [pc |-> "idle", batch |-> FALSE, positions |-> <<>>, at |-> 1,
              missing |-> <<>>, on |-> NoRequest, missed |-> FALSE]

(* Leading: from register to the Drop of the FlightLeader.                 *)
Leading == {"queue", "wait", "engine", "insert", "drop", "complete", "notify"}
PC == Leading \cup {"idle", "lookup", "register", "check", "subscribe", "recheck",
                    "await", "done"}

FlightState == [active : BOOLEAN, complete : BOOLEAN, notified : BOOLEAN]
RequestState ==
    [pc : PC, batch : BOOLEAN, positions : Seq(Position), at : Nat,
     missing : Seq(Position), on : Request \cup {NoRequest}, missed : BOOLEAN]

TypeOK ==
    /\ Entries(cache) \subseteq Key /\ cache.used \in Nat /\ cache.clock \in Nat
    /\ flight \in [Request -> FlightState]
    /\ available \in 0..Workers
    /\ queue \in Seq(Request)
    /\ request \in [Request -> RequestState]

Init ==
    /\ cache = EmptyCache
    /\ flight = [r \in Request |-> NoFlight]
    /\ available = Workers
    /\ queue = <<>>
    /\ request = [r \in Request |-> NotCalled]

-----------------------------------------------------------------------------
(* Lookup and register.                                                    *)

Set(r, state) == request' = [request EXCEPT ![r] = state]
Goto(r, pc) == Set(r, [request[r] EXCEPT !.pc = pc])
StartOver(r) ==
    Set(r, [request[r] EXCEPT !.pc = "lookup", !.at = 1, !.missing = <<>>,
                              !.on = NoRequest, !.missed = FALSE])

Call(r) ==
    /\ request[r].pc = "idle"
    /\ \E call \in Calls :
           Set(r, [NotCalled EXCEPT !.pc = "lookup", !.batch = call.batch,
                                    !.positions = call.positions])
    /\ UNCHANGED <<cache, flight, available, queue>>

AfterLookup(r, missing) ==
    IF missing = <<>> THEN "done"
    ELSE IF ~request[r].batch /\ Head(missing) \in Uncacheable THEN "queue"
    ELSE "register"

Lookup(r) ==             \* one lock of the cache for each position
    LET state == request[r]
        p == state.positions[state.at]
        hit == p \in Entries(cache)
        coalesced == p \in Key /\ \E i \in DOMAIN state.missing : state.missing[i] = p
        missing == IF hit \/ coalesced THEN state.missing ELSE Append(state.missing, p)
    IN  /\ state.pc = "lookup"
        /\ cache' = Got(cache, p)
        /\ Set(r, [state EXCEPT
               !.missing = missing, !.at = state.at + 1,
               !.pc = IF state.at < Len(state.positions) THEN "lookup"
                      ELSE AfterLookup(r, missing)])
        /\ UNCHANGED <<flight, available, queue>>

(* The mutex of r's kind of active flights, held by a leader's whole Drop. *)
Locked(r) ==
    \E l \in Request :
        request[l].batch = request[r].batch /\ request[l].pc \in {"complete", "notify"}

SameFlight(r, l) ==
    request[l].batch = request[r].batch /\ request[l].missing = request[r].missing

RegisterAlways(r) ==     \* mutant: a flight in the map is replaced
    /\ request[r].pc = "register" /\ ~Locked(r)
    /\ flight' = [flight EXCEPT ![r].active = TRUE]
    /\ Set(r, [request[r] EXCEPT !.pc = "queue", !.at = 1])
    /\ UNCHANGED <<cache, available, queue>>
Register(r) ==
    /\ request[r].pc = "register" /\ ~Locked(r)
    /\ \/ \E l \in Request :
              /\ flight[l].active /\ SameFlight(r, l)
              /\ Set(r, [request[r] EXCEPT !.pc = "check", !.on = l])
              /\ UNCHANGED flight
       \/ /\ \A l \in Request : flight[l].active => ~SameFlight(r, l)
          /\ flight' = [flight EXCEPT ![r].active = TRUE]
          /\ Set(r, [request[r] EXCEPT !.pc = "queue", !.at = 1])
    /\ UNCHANGED <<cache, available, queue>>

-----------------------------------------------------------------------------
(* FlightWaiter::wait.                                                     *)

Check(r) ==
    /\ request[r].pc = "check"
    /\ IF flight[request[r].on].complete THEN StartOver(r) ELSE Goto(r, "subscribe")
    /\ UNCHANGED <<cache, flight, available, queue>>

Subscribe(r) ==          \* notified(): only later notifications wake it
    /\ request[r].pc = "subscribe"
    /\ Set(r, [request[r] EXCEPT !.pc = "recheck",
                                 !.missed = flight[request[r].on].notified])
    /\ UNCHANGED <<cache, flight, available, queue>>

RecheckNothing(r) ==     \* mutant: complete is not looked at again
    /\ request[r].pc = "recheck"
    /\ Goto(r, "await")
    /\ UNCHANGED <<cache, flight, available, queue>>
Recheck(r) ==
    /\ request[r].pc = "recheck"
    /\ IF flight[request[r].on].complete THEN StartOver(r) ELSE Goto(r, "await")
    /\ UNCHANGED <<cache, flight, available, queue>>

Awake(r) ==
    /\ request[r].pc = "await"
    /\ flight[request[r].on].notified /\ ~request[r].missed
    /\ Goto(r, "check")
    /\ UNCHANGED <<cache, flight, available, queue>>

-----------------------------------------------------------------------------
(* The leader, and the request that passes through.                        *)

Smaller(m, n) == IF m < n THEN m ELSE n
Needed(r) ==
    IF request[r].batch
    THEN Smaller(Concurrency, Smaller(Workers, Len(request[r].missing)))
    ELSE 1

Enqueue(r) ==
    /\ request[r].pc = "queue"
    /\ queue' = Append(queue, r)
    /\ Goto(r, "wait")
    /\ UNCHANGED <<cache, flight, available>>

Granted(r) ==
    /\ request[r].pc = "wait" /\ Head(queue) = r /\ Needed(r) <= available
    /\ queue' = Tail(queue)
    /\ available' = available - Needed(r)
    /\ Goto(r, "engine")
    /\ UNCHANGED <<cache, flight>>

(* What a request does when its analysis fails or is cancelled.            *)
Abandon(r) == Goto(r, IF flight[r].active THEN "drop" ELSE "done")

EngineAnswers(r) ==      \* before its timeout, or an error at the timeout
    /\ request[r].pc = "engine"
    /\ available' = available + Needed(r)
    /\ \/ flight[r].active /\ Goto(r, "insert")
       \/ Abandon(r)
    /\ UNCHANGED <<cache, flight, queue>>

Insert(r) ==             \* unless its provenance does not match
    LET state == request[r]
        p == state.missing[state.at]
    IN  /\ state.pc = "insert"
        /\ \/ p \in Key /\ cache' \in Inserted(cache, p)
           \/ UNCHANGED cache
        /\ Set(r, [state EXCEPT !.at = state.at + 1,
                                !.pc = IF state.at < Len(state.missing) THEN "insert"
                                       ELSE "drop"])
        /\ UNCHANGED <<flight, available, queue>>

RemoveFlight(r) ==       \* the Drop takes the lock
    /\ request[r].pc = "drop" /\ ~Locked(r)
    /\ flight' = [flight EXCEPT ![r].active = FALSE]
    /\ Goto(r, "complete")
    /\ UNCHANGED <<cache, available, queue>>

CompleteFlight(r) ==
    /\ request[r].pc = "complete"
    /\ flight' = [flight EXCEPT ![r].complete = TRUE]
    /\ Goto(r, "notify")
    /\ UNCHANGED <<cache, available, queue>>

NotifyWaiters(r) ==
    /\ request[r].pc = "notify"
    /\ flight' = [flight EXCEPT ![r].notified = TRUE]
    /\ Goto(r, "done")
    /\ UNCHANGED <<cache, available, queue>>

CancelKeepingPermits(r) ==   \* mutant: cancelled analyses keep their permits
    /\ request[r].pc \in {"await", "wait", "engine"}
    /\ queue' = RemoveFirst(queue, r)
    /\ Abandon(r)
    /\ UNCHANGED <<cache, flight, available>>
CancelReleasingAlways(r) ==  \* mutant: one that still waits releases permits
    /\ request[r].pc \in {"await", "wait", "engine"}
    /\ queue' = RemoveFirst(queue, r)
    /\ available' = IF request[r].pc # "await" THEN available + Needed(r) ELSE available
    /\ Abandon(r)
    /\ UNCHANGED <<cache, flight>>
Cancel(r) ==             \* the request's future is dropped at an await
    /\ request[r].pc \in {"await", "wait", "engine"}
    /\ queue' = RemoveFirst(queue, r)
    /\ available' = IF request[r].pc = "engine" THEN available + Needed(r) ELSE available
    /\ Abandon(r)
    /\ UNCHANGED <<cache, flight>>

-----------------------------------------------------------------------------
RequestStep(r) ==
    \/ Lookup(r) \/ Register(r) \/ Check(r) \/ Subscribe(r) \/ Recheck(r) \/ Awake(r)
    \/ Enqueue(r) \/ Granted(r) \/ EngineAnswers(r) \/ Insert(r)
    \/ RemoveFlight(r) \/ CompleteFlight(r) \/ NotifyWaiters(r)

Next == \E r \in Request : Call(r) \/ RequestStep(r) \/ Cancel(r)

Spec == Init /\ [][Next]_vars

(* The runtime polls every request that can go on, and an analysis answers *)
(* or times out.  Nobody has to call, or to cancel.                        *)
FairSpec == Spec /\ \A r \in Request : WF_vars(RequestStep(r))

-----------------------------------------------------------------------------
(* Properties.                                                             *)

(* The engine works on a single position for one request at a time, and    *)
(* on one list of missing positions for one batch at a time; whoever asks  *)
(* meanwhile waits for that analysis (request_single_flight.rs register;   *)
(* tests concurrent_equivalent_batches_collapse_to_one_provider_request).  *)
AtEngine(r) == request[r].pc = "engine" /\ flight[r].active
OneAnalysisPerFlight ==
    \A r, l \in Request : AtEngine(r) /\ AtEngine(l) /\ SameFlight(r, l) => r = l

(* No wake-up is lost: whoever awaits a flight subscribed in time, and its  *)
(* leader is still to notify it, or has done so (request_single_flight.rs  *)
(* FlightWaiter::wait, FlightLeader::drop).                                *)
WillNotify(l) ==
    flight[l].active \/ request[l].pc \in {"complete", "notify"} \/ flight[l].notified
NoLostWakeup ==
    \A r \in Request : request[r].pc = "await" =>
        ~request[r].missed /\ WillNotify(request[r].on)

(* Worker permits are never lost or made up: the free ones and those of    *)
(* the running analyses add up, whatever was cancelled (worker_limit.rs).  *)
PermitsAddUp ==
    LET needs == [r \in Request |-> Needed(r)]
        running == {r \in Request : request[r].pc = "engine"}
    IN  available + SumFunctionOnSet(needs, running) = Workers

(* The bytes in use are those of the entries, and they fit the budget      *)
(* (store.rs insert, evict_to_budget): the recency queue never runs empty  *)
(* before the budget is met.                                               *)
CacheFitsBudget ==
    cache.used = TotalWeight(Entries(cache)) /\ cache.used <= MaxBytes

(* The recency queue is compacted: it holds at most RecencyFactor records  *)
(* for each entry, and RecencySlack more (store.rs compact_recency).       *)
RecencyIsBounded ==
    Len(cache.recency) <= RecencyFactor * Cardinality(Entries(cache)) + RecencySlack

(* The cache evicts the least recently used entries and no others          *)
(* (store.rs evict_to_budget, compact_recency; test                        *)
(* cache_evicts_the_least_recently_used_entry_to_its_byte_budget).         *)
UseOrder(c) ==
    LET records == CurrentRecords(c)
    IN  [i \in DOMAIN records |-> records[i].key]
Lru == INSTANCE LruCache WITH order <- UseOrder(cache)
ImplementsLru == Lru!Spec

(* Every request returns, whoever was cancelled, failed or evicted what it *)
(* waited for (request_single_flight.rs wait; test                         *)
(* cancelled_leader_releases_waiters_to_retry).                            *)
RequestsReturn == \A r \in Request : request[r].pc # "idle" ~> request[r].pc = "done"

-----------------------------------------------------------------------------
(* The inductive invariant behind OneAnalysisPerFlight and NoLostWakeup.   *)

LeadsFlight == {"queue", "wait", "engine", "insert", "drop"}
Waiting == {"check", "subscribe", "recheck", "await"}

FlightStages ==
    \A l \in Request :
        /\ flight[l].active => request[l].pc \in LeadsFlight
        /\ flight[l].notified \/ request[l].pc = "notify" => flight[l].complete

(* The map of active flights has one flight for each name.                 *)
OneFlightPerName ==
    \A r, l \in Request :
        flight[r].active /\ flight[l].active /\ SameFlight(r, l) => r = l

WaitersKnowTheirLeader ==
    \A r \in Request :
        /\ request[r].pc \in Waiting =>
               request[r].on \in Request /\ WillNotify(request[r].on)
        /\ request[r].pc = "recheck" /\ request[r].missed =>
               flight[request[r].on].notified
        /\ request[r].pc = "await" => ~request[r].missed

Shapes ==
    /\ flight \in [Request -> FlightState]
    /\ request \in [Request -> RequestState]
    /\ \A r \in Request :
           /\ request[r].pc # "idle" => request[r].positions # <<>>
           /\ request[r].pc = "lookup" => request[r].at \in 1..Len(request[r].positions)

IInv == Shapes /\ FlightStages /\ OneFlightPerName /\ WaitersKnowTheirLeader

===============================================================================
