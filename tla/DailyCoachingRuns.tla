-------------------------- MODULE DailyCoachingRuns --------------------------
(***************************************************************************)
(* The Daily Coaching Runs of one Player: the state document that says     *)
(* whether coaching is enabled and which Daily Window is next, one Run     *)
(* document per window, the Coaching Digests and the digested-game cards,  *)
(* and the lifecycle tasks that claim, execute, take over and regenerate   *)
(* Runs.  Every store operation is one Firestore transaction; a task may   *)
(* stall or die between any two of them.                                   *)
(*                                                                         *)
(* Windows are numbered by coverage date.  Time is the Player's local day  *)
(* and the stage that the window of the day before has reached; a lease    *)
(* "expires" when its next_attempt_at has passed, which happens to any     *)
(* lease that nobody renewed in time.                                      *)
(***************************************************************************)
EXTENDS Integers, FiniteSets

CONSTANTS
    Task,              \* lifecycle tasks: ticks, promotions, regenerations
    Holder,            \* cells; every task of one cell shares its holder_id
    HolderOf,          \* HolderOf[t]: the cell task t runs on
    Profile,           \* playing-profile identities
    Provider,          \* Lichess, Chess.com
    ProviderOf,        \* ProviderOf[p]: the provider of identity p
    Game,              \* profile games (source identities)
    LastWindow,        \* bound: windows 1..LastWindow become due
    MaxAttempts,       \* MaxAttempts[h]: game_max_attempts configured on cell h
    MaxFence,          \* bound on run_fence
    MaxTakeovers,      \* bound on the failures and stalls of one Run's holders
    MaxRegenerations,  \* bound on regeneration_count
    NoHolder

ASSUME TaskAssumption == HolderOf \in [Task -> Holder] /\ NoHolder \notin Holder
ASSUME ProfileAssumption == ProviderOf \in [Profile -> Provider]
ASSUME BoundAssumption ==
    /\ LastWindow \in Nat \ {0}
    /\ MaxAttempts \in [Holder -> Nat \ {0}]
    /\ MaxFence \in Nat /\ MaxTakeovers \in Nat /\ MaxRegenerations \in Nat

Window == 1..LastWindow
NoDate == 0                       \* next_daily_window = None; no card

VARIABLES
    enabled, connections, nextDailyWindow, runFence,   \* the state document
    since,    \* history: the date coaching was last switched on, or NoDate
    day,      \* local_date(now)
    stage,    \* what window day - 1 has reached: "grace", "due" or "missed"
    run,      \* run[w]: the Run document of window w
    digest,   \* digest[w]: games of the digest of w, {} when there is none
    card,     \* card[g]: digest_id on the card of game g, or NoDate
    task      \* task[t]: where lifecycle task t is, and what it remembers

ownerVars == <<enabled, connections, nextDailyWindow, runFence, since>>
clockVars == <<day, stage>>
archiveVars == <<digest, card>>
vars == <<ownerVars, clockVars, run, archiveVars, task>>

Progress == {"none", "pending", "reviewed", "terminal", "exhausted", "unfinished"}
GameEntry == [progress : Progress, attempts : Nat]
NoSelection == [g \in Game |-> [progress |-> "none", attempts |-> 0]]

Completed == {"published", "noDigest", "fenced", "abandoned", "skipped"}
RunDocument ==
    [status : {"absent", "active"} \cup Completed,
     holder : Holder \cup {NoHolder}, token : Nat, expired : BOOLEAN,
     runFence : Nat, connections : SUBSET Profile,
     games : [Game -> GameEntry],
     regenerations : Nat, takeovers : Nat, late : BOOLEAN]

NoRun ==
    [status |-> "absent", holder |-> NoHolder, token |-> 0, expired |-> FALSE,
     runFence |-> 0, connections |-> {}, games |-> NoSelection,
     regenerations |-> 0, takeovers |-> 0, late |-> FALSE]

(* What process_player keeps of the state document while its loop runs.    *)
Snapshot == [runFence : Nat, connections : SUBSET Profile, next : Nat]
NoSnapshot == [runFence |-> 0, connections |-> {}, next |-> NoDate]

PC == {"idle", "claim", "skip", "advance", "check", "select", "freeze",
       "review", "terminalize", "publish", "complete", "reopen"}
Executing == {"check", "select", "freeze", "review", "terminalize",
              "publish", "complete"}
TaskState ==
    [pc : PC, window : 0..LastWindow, token : Nat,
     outcome : {"none", "noDigest", "abandoned"},
     games : [Game -> GameEntry], snapshot : Snapshot]
Idle ==
    [pc |-> "idle", window |-> 0, token |-> 0,
     outcome |-> "none", games |-> NoSelection, snapshot |-> NoSnapshot]

TypeOK ==
    /\ enabled \in BOOLEAN
    /\ connections \subseteq Profile
    /\ nextDailyWindow \in 0..(LastWindow + 1)
    /\ runFence \in Nat
    /\ since \in 0..(LastWindow + 1)
    /\ day \in 1..(LastWindow + 1)
    /\ stage \in {"grace", "due", "missed"}
    /\ run \in [Window -> RunDocument]
    /\ digest \in [Window -> SUBSET Game]
    /\ card \in [Game -> 0..LastWindow]
    /\ task \in [Task -> TaskState]

Init ==
    /\ enabled = FALSE
    /\ connections = {}
    /\ nextDailyWindow = NoDate
    /\ runFence = 0
    /\ since = NoDate
    /\ day = 1
    /\ stage = "missed"
    /\ run = [w \in Window |-> NoRun]
    /\ digest = [w \in Window |-> {}]
    /\ card = [g \in Game |-> NoDate]
    /\ task = [t \in Task |-> Idle]

-----------------------------------------------------------------------------
(* Time.                                                                   *)

Due(w) == w = day - 1 /\ stage = "due"
Missed(w) == w < day - 1 \/ (w = day - 1 /\ stage = "missed")

(* A window's deadline never falls after the local midnight that ends the  *)
(* following day, so window day - 1 is missed before the day ends.         *)
ClockAdvances ==
    /\ \/ stage = "grace" /\ stage' = "due" /\ day' = day
       \/ stage = "due" /\ stage' = "missed" /\ day' = day
       \/ stage = "missed" /\ day <= LastWindow /\ stage' = "grace" /\ day' = day + 1
    /\ UNCHANGED <<ownerVars, run, archiveVars, task>>

(* A Run keeps its window's deadline until it is reopened with its own.    *)
Late(w) == IF run[w].regenerations = 0 THEN Missed(w) ELSE run[w].late

ReopenedDeadlinePasses(w) ==
    /\ run[w].status = "active" /\ run[w].regenerations > 0 /\ ~run[w].late
    /\ run' = [run EXCEPT ![w].late = TRUE]
    /\ UNCHANGED <<ownerVars, clockVars, archiveVars, task>>

HoldsLease(t, w) ==
    /\ task[t].pc \in Executing /\ task[t].window = w
    /\ run[w].status = "active"
    /\ run[w].holder = HolderOf[t] /\ run[w].token = task[t].token

(* The bound of the model on stalls and failures: they are free until the  *)
(* Run has been taken over MaxTakeovers times.                             *)
MayStall(w) == run[w].takeovers < MaxTakeovers

LeaseExpires(w) ==
    /\ run[w].status = "active" /\ ~run[w].expired
    /\ MayStall(w) \/ \A t \in Task : ~HoldsLease(t, w)
    /\ run' = [run EXCEPT ![w].expired = TRUE]
    /\ UNCHANGED <<ownerVars, clockVars, archiveVars, task>>

-----------------------------------------------------------------------------
(* The Player edits the Daily Coaching setup.                              *)

ProviderTaken(p) == \E q \in connections : ProviderOf[q] = ProviderOf[p]

Connect(p) ==
    /\ ~ProviderTaken(p)
    /\ connections' = connections \cup {p}
    /\ IF connections = {}
       THEN enabled' = TRUE /\ nextDailyWindow' = day /\ since' = day
       ELSE UNCHANGED <<enabled, nextDailyWindow, since>>
    /\ UNCHANGED <<runFence, clockVars, run, archiveVars, task>>

ReplaceUnfenced(p, q) == \* mutant: replacing leaves run_fence alone
    /\ p \in connections /\ q # p /\ ProviderOf[q] = ProviderOf[p]
    /\ connections' = (connections \ {p}) \cup {q}
    /\ UNCHANGED <<enabled, nextDailyWindow, runFence, since, clockVars, run,
                   archiveVars, task>>
Replace(p, q) ==
    /\ p \in connections /\ q # p /\ ProviderOf[q] = ProviderOf[p]
    /\ enabled => runFence < MaxFence
    /\ connections' = (connections \ {p}) \cup {q}
    /\ runFence' = IF enabled THEN runFence + 1 ELSE runFence
    /\ UNCHANGED <<enabled, nextDailyWindow, since, clockVars, run, archiveVars, task>>

Remove(p) ==
    /\ p \in connections
    /\ enabled => runFence < MaxFence
    /\ connections' = connections \ {p}
    /\ runFence' = IF enabled THEN runFence + 1 ELSE runFence
    /\ IF connections' = {}
       THEN enabled' = FALSE /\ nextDailyWindow' = NoDate /\ since' = NoDate
       ELSE UNCHANGED <<enabled, nextDailyWindow, since>>
    /\ UNCHANGED <<clockVars, run, archiveVars, task>>

Resume ==
    /\ ~enabled /\ connections # {}
    /\ enabled' = TRUE /\ nextDailyWindow' = day /\ since' = day
    /\ UNCHANGED <<connections, runFence, clockVars, run, archiveVars, task>>

Pause ==
    /\ enabled /\ runFence < MaxFence
    /\ enabled' = FALSE /\ nextDailyWindow' = NoDate /\ since' = NoDate
    /\ runFence' = runFence + 1
    /\ UNCHANGED <<connections, clockVars, run, archiveVars, task>>

OwnerEdits ==
    \/ \E p \in Profile : Connect(p) \/ Remove(p)
    \/ \E p, q \in Profile : Replace(p, q)
    \/ Resume
    \/ Pause

-----------------------------------------------------------------------------
(* process_player: claim the next window, advance, execute, and go round.  *)

Set(t, s) == task' = [task EXCEPT ![t] = s]

LoopState(snap) ==       \* the head of the while loop with document snap
    IF snap.next \in Window /\ (Due(snap.next) \/ Missed(snap.next))
    THEN [Idle EXCEPT !.pc = IF Missed(snap.next) THEN "skip" ELSE "claim",
                      !.window = snap.next, !.snapshot = snap]
    ELSE Idle

Finish(t) == Set(t, LoopState(task[t].snapshot))  \* execute returned Ok
Abort(t) == Set(t, Idle)                                   \* ... or Err

(* The task dies with its cell, its request fails, or a provider feed does *)
(* and leaves no candidate: whatever it held is left as it is.             *)
Fail(t) ==
    /\ task[t].pc # "idle"
    /\ task[t].pc \in Executing => MayStall(task[t].window)
    /\ Abort(t)
    /\ UNCHANGED <<ownerVars, clockVars, run, archiveVars>>

ReadState(t) ==          \* tick's list(), or promote's bind_player
    /\ task[t].pc = "idle" /\ enabled
    /\ nextDailyWindow \in Window /\ (Due(nextDailyWindow) \/ Missed(nextDailyWindow))
    /\ Set(t, LoopState([runFence |-> runFence, connections |-> connections,
                         next |-> nextDailyWindow]))
    /\ UNCHANGED <<ownerVars, clockVars, run, archiveVars>>

ClaimedRun(t, snap) ==
    [NoRun EXCEPT !.status = "active", !.holder = HolderOf[t], !.token = 1,
                  !.runFence = snap.runFence, !.connections = snap.connections]
SkippedRun(snap) ==
    [NoRun EXCEPT !.status = "skipped", !.runFence = snap.runFence,
                  !.connections = snap.connections]

ClaimReplacing(t) ==     \* mutant: create() overwrites the stored Run
    LET w == task[t].window
    IN  /\ task[t].pc \in {"claim", "skip"}
        /\ run' = [run EXCEPT ![w] = ClaimedRun(t, task[t].snapshot)]
        /\ Set(t, [task[t] EXCEPT !.pc = "advance", !.token = 1])
        /\ UNCHANGED <<ownerVars, clockVars, archiveVars>>
ClaimLeavingMissed(t) == \* mutant: no skipped Run for a missed window
    LET w == task[t].window
        created == run[w].status = "absent" /\ task[t].pc = "claim"
    IN  /\ task[t].pc \in {"claim", "skip"}
        /\ run' = IF created THEN [run EXCEPT ![w] = ClaimedRun(t, task[t].snapshot)]
                             ELSE run
        /\ Set(t, [task[t] EXCEPT !.pc = "advance", !.token = IF created THEN 1 ELSE 0])
        /\ UNCHANGED <<ownerVars, clockVars, archiveVars>>
Claim(t) ==              \* create(): an existing Run is returned as it is
    LET w == task[t].window
        document == IF task[t].pc = "skip" THEN SkippedRun(task[t].snapshot)
                                           ELSE ClaimedRun(t, task[t].snapshot)
        granted == run[w].status = "absent" /\ task[t].pc = "claim"
    IN  /\ task[t].pc \in {"claim", "skip"}
        /\ run' = IF run[w].status = "absent" THEN [run EXCEPT ![w] = document] ELSE run
        /\ Set(t, [task[t] EXCEPT !.pc = "advance", !.token = IF granted THEN 1 ELSE 0])
        /\ UNCHANGED <<ownerVars, clockVars, archiveVars>>

Advance(t) ==
    LET w == task[t].window
        snap == [runFence |-> runFence, connections |-> connections, next |-> w + 1]
    IN  /\ task[t].pc = "advance"
        /\ IF nextDailyWindow \in {w, w + 1}      \* Some(_), so enabled
           THEN /\ nextDailyWindow' = w + 1
                /\ Set(t, IF task[t].token # 0     \* Created, and not missed
                          THEN [task[t] EXCEPT !.pc = "check", !.snapshot = snap]
                          ELSE LoopState(snap))
           ELSE UNCHANGED nextDailyWindow /\ Abort(t)
        /\ UNCHANGED <<enabled, connections, runFence, since, clockVars, run, archiveVars>>

TakeOverSameToken(t, w) ==   \* mutant: takeover keeps the fencing token
    /\ task[t].pc = "idle"
    /\ run[w].status = "active" /\ run[w].expired
    /\ run' = [run EXCEPT ![w].holder = HolderOf[t],
                          ![w].expired = FALSE, ![w].takeovers = @ + 1]
    /\ Set(t, [Idle EXCEPT !.pc = "check", !.window = w, !.token = run[w].token])
    /\ UNCHANGED <<ownerVars, clockVars, archiveVars>>
TakeOverOnce(t, w) ==        \* mutant: only the first holder is taken over
    /\ task[t].pc = "idle"
    /\ run[w].status = "active" /\ run[w].expired /\ run[w].takeovers = 0
    /\ run' = [run EXCEPT ![w].holder = HolderOf[t], ![w].token = @ + 1,
                          ![w].expired = FALSE, ![w].takeovers = @ + 1]
    /\ Set(t, [Idle EXCEPT !.pc = "check", !.window = w, !.token = run[w].token + 1])
    /\ UNCHANGED <<ownerVars, clockVars, archiveVars>>
TakeOver(t, w) ==        \* the expired() pass of tick
    /\ task[t].pc = "idle"
    /\ run[w].status = "active" /\ run[w].expired
    /\ run' = [run EXCEPT ![w].holder = HolderOf[t], ![w].token = @ + 1,
                          ![w].expired = FALSE, ![w].takeovers = @ + 1]
    /\ Set(t, [Idle EXCEPT !.pc = "check", !.window = w, !.token = run[w].token + 1])
    /\ UNCHANGED <<ownerVars, clockVars, archiveVars>>

-----------------------------------------------------------------------------
(* execute.  Each lease-guarded operation reads the state document in its  *)
(* transaction: without the lease it is refused, and with it a Run whose   *)
(* fence is out of date is completed as fenced instead.                    *)

FencedByPauseOnly(w) == ~enabled     \* mutant: run_fence is not compared
Fenced(w) == ~enabled \/ runFence # run[w].runFence

CompletedRun(w, outcome) ==
    [run[w] EXCEPT !.status = outcome, !.holder = NoHolder, !.token = 0,
                   !.expired = FALSE, !.late = FALSE]

Pending(games) == {g \in Game : games[g].progress = "pending"}
Reviewed(games) == {g \in Game : games[g].progress = "reviewed"}

AtStateFence(t, WhenFenced, Mutation) ==
    LET w == task[t].window
    IN  \/ ~HoldsLease(t, w) /\ Abort(t) /\ UNCHANGED <<run, archiveVars>>
        \/ /\ HoldsLease(t, w) /\ Fenced(w)
           /\ run' = [run EXCEPT ![w] = CompletedRun(w, "fenced")]
           /\ WhenFenced
           /\ UNCHANGED archiveVars
        \/ HoldsLease(t, w) /\ ~Fenced(w) /\ Mutation

AfterCheck(w, s) ==
    CASE Late(w) /\ run[w].games = NoSelection ->
             [s EXCEPT !.pc = "complete", !.outcome = "abandoned"]
      [] Late(w) /\ run[w].games # NoSelection ->
             [s EXCEPT !.pc = "terminalize", !.games = run[w].games]
      [] ~Late(w) /\ run[w].games = NoSelection ->
             [s EXCEPT !.pc = "select"]
      [] OTHER ->
             [s EXCEPT !.pc = "review", !.games = run[w].games]

CheckFence(t) ==         \* stop_if_fenced, then the branch on the deadline
    /\ task[t].pc = "check"
    /\ AtStateFence(t, Finish(t),
           /\ Set(t, AfterCheck(task[t].window, task[t]))
           /\ UNCHANGED <<run, archiveVars>>)
    /\ UNCHANGED <<ownerVars, clockVars>>

Heartbeat(t) ==          \* await_work renews before the deadline only
    /\ task[t].pc \in {"select", "review"} /\ ~Late(task[t].window)
    /\ AtStateFence(t, Finish(t),
           /\ run' = [run EXCEPT ![task[t].window].expired = FALSE]
           /\ UNCHANGED <<archiveVars, task>>)
    /\ UNCHANGED <<ownerVars, clockVars>>

DeadlineWithoutOutcome(t) ==   \* mutant: the Run is completed as it stands
    /\ task[t].pc \in {"select", "review"} /\ Late(task[t].window)
    /\ Set(t, [task[t] EXCEPT !.pc = IF task[t].pc = "review" THEN "terminalize"
                                                             ELSE "complete"])
    /\ UNCHANGED <<ownerVars, clockVars, run, archiveVars>>
DeadlineReached(t) ==    \* await_work stops the work at the deadline
    /\ task[t].pc \in {"select", "review"} /\ Late(task[t].window)
    /\ Set(t, IF task[t].pc = "review"
              THEN [task[t] EXCEPT !.pc = "terminalize"]
              ELSE [task[t] EXCEPT !.pc = "complete", !.outcome = "abandoned"])
    /\ UNCHANGED <<ownerVars, clockVars, run, archiveVars>>

Digested(w) ==           \* digested_sources: a rebuild may reuse its own games
    {g \in Game : card[g] # NoDate
                  /\ ~(run[w].regenerations > 0 /\ card[g] = w)}

Select(t) ==             \* the candidates come from the profile feeds
    /\ task[t].pc = "select"
    /\ \E candidates \in SUBSET Game :
           LET chosen == candidates \ Digested(task[t].window)
           IN  Set(t, IF chosen = {}
                      THEN [task[t] EXCEPT !.pc = "complete", !.outcome = "noDigest"]
                      ELSE [task[t] EXCEPT !.pc = "freeze",
                                !.games = [g \in Game |->
                                    [progress |-> IF g \in chosen THEN "pending" ELSE "none",
                                     attempts |-> 0]]])
    /\ UNCHANGED <<ownerVars, clockVars, run, archiveVars>>

SameSelection(games, other) ==
    \A g \in Game : (games[g].progress = "none") <=> (other[g].progress = "none")

FreezeSelection(t) ==
    LET w == task[t].window
        frozen == [task[t] EXCEPT !.pc = "review"]
    IN  /\ task[t].pc = "freeze"
        /\ AtStateFence(t, Finish(t),
               /\ UNCHANGED archiveVars
               /\ \/ /\ run[w].games = NoSelection
                     /\ run' = [run EXCEPT ![w].games = task[t].games]
                     /\ Set(t, frozen)
                  \/ /\ run[w].games # NoSelection
                     /\ Set(t, IF SameSelection(run[w].games, task[t].games)
                               THEN [frozen EXCEPT !.games = run[w].games]
                               ELSE Idle)
                     /\ UNCHANGED run)
        /\ UNCHANGED <<ownerVars, clockVars>>

CompleteRun(t) ==        \* complete_and_record
    LET w == task[t].window
    IN  /\ task[t].pc = "complete"
        /\ AtStateFence(t, Finish(t),
               /\ UNCHANGED archiveVars
               /\ IF task[t].outcome = "noDigest" /\ Pending(run[w].games) # {}
                  THEN UNCHANGED run /\ Abort(t)          \* fails validate()
                  ELSE /\ run' = [run EXCEPT ![w] = CompletedRun(w, task[t].outcome)]
                       /\ Finish(t))
        /\ UNCHANGED <<ownerVars, clockVars>>

(* record_game: the entry must still be pending in the stored Run, and the *)
(* result must pass validate().  The task goes on with the document the    *)
(* transaction returned.                                                   *)
ValidEntry(entry) ==
    entry.progress \in {"reviewed", "terminal", "exhausted"} => entry.attempts > 0

RecordGame(t, g, entry, WhenFenced, next) ==
    LET w == task[t].window
        games == [run[w].games EXCEPT ![g] = entry]
    IN  /\ g \in Pending(task[t].games)
        /\ AtStateFence(t, WhenFenced,
               /\ UNCHANGED archiveVars
               /\ IF g \in Pending(run[w].games) /\ ValidEntry(entry)
                  THEN /\ run' = [run EXCEPT ![w].games = games]
                       /\ Set(t, [task[t] EXCEPT !.pc = next, !.games = games])
                  ELSE UNCHANGED run /\ Abort(t))
        /\ UNCHANGED <<ownerVars, clockVars>>

AttemptLimit(t) == MaxAttempts[HolderOf[t]]

RecordReviewed(t) ==     \* Reviewed, Terminal, or the last retry exhausted
    /\ task[t].pc = "review"
    /\ \E g \in Game :
           LET tried == task[t].games[g].attempts + 1
           IN  /\ tried <= AttemptLimit(t)
               /\ \E outcome \in {"reviewed", "terminal"} \cup
                          (IF tried >= AttemptLimit(t) THEN {"exhausted"} ELSE {}) :
                      RecordGame(t, g, [progress |-> outcome,
                                        attempts |-> run[task[t].window].games[g].attempts + 1],
                                 Finish(t), "review")

ExhaustUnattempted(t) == \* the budget was already spent: the loop goes on
    /\ task[t].pc = "review"                     \* even when it was fenced
    /\ \E g \in Game :
           /\ task[t].games[g].attempts >= AttemptLimit(t)
           /\ RecordGame(t, g, [progress |-> "exhausted",
                                attempts |-> run[task[t].window].games[g].attempts],
                         UNCHANGED task, "review")

RecordRetryableUnlimited(t) ==   \* mutant: the attempt budget is not compared
    LET w == task[t].window
    IN  /\ task[t].pc = "review"
        /\ \E g \in Pending(task[t].games) :
               AtStateFence(t, Finish(t),
                  /\ g \in Pending(run[w].games) /\ ~Late(w)
                  /\ run' = [run EXCEPT ![w].games[g].attempts = @ + 1]
                  /\ Finish(t) /\ UNCHANGED archiveVars)
        /\ UNCHANGED <<ownerVars, clockVars>>
RecordRetryable(t) ==    \* deferred: the lease is kept until retry_at
    LET w == task[t].window
    IN  /\ task[t].pc = "review"
        /\ \E g \in Pending(task[t].games) :
               /\ task[t].games[g].attempts + 1 < AttemptLimit(t)
               /\ AtStateFence(t, Finish(t),
                      /\ UNCHANGED archiveVars
                      /\ IF g \in Pending(run[w].games) /\ ~Late(w)
                         THEN /\ run' = [run EXCEPT ![w].games[g].attempts = @ + 1,
                                                    ![w].expired = FALSE]
                              /\ Finish(t)
                         ELSE UNCHANGED run /\ Abort(t))
        /\ UNCHANGED <<ownerVars, clockVars>>

TerminalizeUnfinished(t) ==
    /\ task[t].pc = "terminalize"
    /\ \E g \in Game :
           RecordGame(t, g, [progress |-> "unfinished",
                             attempts |-> run[task[t].window].games[g].attempts],
                      Finish(t), "terminalize")

FinishReviewingEarly(t) ==   \* mutant: games may still be pending
    /\ task[t].pc \in {"review", "terminalize"}
    /\ Set(t, [task[t] EXCEPT !.pc = "publish"])
    /\ UNCHANGED <<ownerVars, clockVars, run, archiveVars>>
FinishReviewing(t) ==    \* next_pending_game() = None
    /\ task[t].pc \in {"review", "terminalize"} /\ Pending(task[t].games) = {}
    /\ Set(t, [task[t] EXCEPT !.pc = "publish"])
    /\ UNCHANGED <<ownerVars, clockVars, run, archiveVars>>

(* The reviewed games that no other digest holds, and the cards when they  *)
(* alone make up the digest of w.                                          *)
KeptAnyCard(w) ==        \* mutant: other digests' cards are not looked at
    Reviewed(run[w].games)
Kept(w) == {g \in Reviewed(run[w].games) : card[g] \in {NoDate, w}}

RecardedKeepingOrphans(w) ==   \* mutant: a rebuild leaves its old cards
    [g \in Game |-> IF g \in Kept(w) THEN w ELSE card[g]]
Recarded(w) ==
    [g \in Game |-> IF g \in Kept(w) THEN w
                    ELSE IF g \in digest[w] THEN NoDate ELSE card[g]]

Publish(t) ==
    LET w == task[t].window
    IN  /\ task[t].pc = "publish"
        /\ IF run[w].status = "published" /\ run[w].regenerations = 0
           THEN Finish(t) /\ UNCHANGED <<run, archiveVars>>
           ELSE AtStateFence(t, Finish(t),
                  \/ /\ Kept(w) = {}
                     /\ run' = [run EXCEPT ![w] = CompletedRun(w, "noDigest")]
                     /\ Finish(t)
                     /\ UNCHANGED archiveVars
                  \/ /\ Kept(w) # {} /\ Pending(run[w].games) = {}
                     /\ run' = [run EXCEPT ![w] = CompletedRun(w, "published")]
                     /\ digest' = [digest EXCEPT ![w] = Kept(w)]
                     /\ card' = Recarded(w)
                     /\ Finish(t)
                  \/ /\ Kept(w) # {} /\ Pending(run[w].games) # {}
                     /\ Abort(t)
                     /\ UNCHANGED <<run, archiveVars>>)
        /\ UNCHANGED <<ownerVars, clockVars>>

-----------------------------------------------------------------------------
(* An Administrator rebuilds the latest window that shows an outcome.      *)

VisibleAbandoned(w) ==       \* mutant: an abandoned Run can be rebuilt
    run[w].status \in {"published", "noDigest", "abandoned"}
Visible(w) == run[w].status \in {"published", "noDigest"}

(* validate() on the outcome and the selection of a stored Run.            *)
Readable(w) ==
    /\ run[w].status = "published" =>
           Reviewed(run[w].games) # {} /\ Pending(run[w].games) = {}
    /\ run[w].status = "noDigest" => Pending(run[w].games) = {}

RequestRegeneration(t) ==     \* latest_visible reads every Run document
    /\ task[t].pc = "idle" /\ enabled /\ \A w \in Window : Readable(w)
    /\ \E w \in Window :
           /\ Visible(w) /\ \A v \in Window : Visible(v) => v <= w
           /\ run[w].regenerations < MaxRegenerations
           /\ Set(t, [Idle EXCEPT !.pc = "reopen", !.window = w])
    /\ UNCHANGED <<ownerVars, clockVars, run, archiveVars>>

ReopenForRegeneration(t) ==
    LET w == task[t].window
    IN  /\ task[t].pc = "reopen"
        /\ IF Visible(w) /\ Readable(w) /\ run[w].regenerations < MaxRegenerations
           THEN /\ run' = [run EXCEPT
                      ![w].status = "active", ![w].holder = HolderOf[t], ![w].token = 1,
                      ![w].games = NoSelection, ![w].regenerations = @ + 1]
                /\ Set(t, [task[t] EXCEPT !.pc = "check", !.token = 1])
           ELSE UNCHANGED run /\ Abort(t)
        /\ UNCHANGED <<ownerVars, clockVars, archiveVars>>

-----------------------------------------------------------------------------
ExecuteStep(t) ==
    \/ CheckFence(t) \/ DeadlineReached(t) \/ Select(t) \/ FreezeSelection(t)
    \/ RecordReviewed(t) \/ ExhaustUnattempted(t) \/ RecordRetryable(t)
    \/ TerminalizeUnfinished(t) \/ FinishReviewing(t)
    \/ CompleteRun(t) \/ Publish(t)

TaskStep(t) ==
    \/ ReadState(t) \/ Claim(t) \/ Advance(t)
    \/ ExecuteStep(t) \/ Heartbeat(t) \/ Fail(t)
    \/ RequestRegeneration(t) \/ ReopenForRegeneration(t)
    \/ \E w \in Window : TakeOver(t, w)

Next ==
    \/ OwnerEdits
    \/ ClockAdvances
    \/ \E w \in Window : LeaseExpires(w) \/ ReopenedDeadlinePasses(w)
    \/ \E t \in Task : TaskStep(t)

Spec == Init /\ [][Next]_vars

(* A tick runs at every interval and starts with the expired() pass; a     *)
(* task that runs makes its next step; clocks and leases run out.          *)
Fairness ==
    /\ WF_vars(ClockAdvances)
    /\ \A w \in Window :
           WF_vars(LeaseExpires(w)) /\ WF_vars(ReopenedDeadlinePasses(w))
    /\ \A t \in Task :
           /\ WF_vars(Claim(t) \/ Advance(t) \/ ReopenForRegeneration(t))
           /\ WF_vars(ExecuteStep(t))
           /\ \A w \in Window : SF_vars(TakeOver(t, w))

FairSpec == Spec /\ Fairness

-----------------------------------------------------------------------------
(* Properties.                                                             *)

(* At any moment at most one lifecycle task passes require_lease for a     *)
(* window, however often holders stalled, died and were taken over (runs.rs*)
(* require_lease, lease.rs takeover).  Two tasks of one cell share their   *)
(* holder_id, so it is the token that must tell them apart.                *)
LeaseExclusive ==
    \A w \in Window : \A t, u \in Task :
        HoldsLease(t, w) /\ HoldsLease(u, w) => t = u

(* The same, of the windows that no Administrator ever reopened.           *)
UnregeneratedLeaseExclusive ==
    \A w \in Window : run[w].regenerations = 0 =>
        \A t, u \in Task : HoldsLease(t, w) /\ HoldsLease(u, w) => t = u

(* A holder whose Run was taken over or finished never gets its lease back *)
(* by itself: a task that fails require_lease keeps failing it until it    *)
(* starts another execution (runs.rs take_over, complete, mark_published), *)
(* on a window that nobody reopened.                                       *)
RegainsLease(t, w) ==
    /\ task[t].pc \in Executing /\ task[t].window = w /\ ~HoldsLease(t, w)
    /\ task'[t].pc \in Executing /\ task'[t].window = w /\ HoldsLease(t, w)'
    /\ run'[w].regenerations = 0
LostLeaseStaysLost == [][\A t \in Task, w \in Window : ~RegainsLease(t, w)]_vars

(* Every stored Run passes validate(), until an Administrator reopens its  *)
(* window: a published Run reviewed a game and left none pending, and a Run*)
(* that ended without a digest left none pending either, although          *)
(* prepare_publication does not look for pending games before it writes    *)
(* NoDigest (runs.rs selection_is_valid).                                  *)
UnregeneratedRunsReadable ==
    \A w \in Window : run[w].regenerations = 0 => Readable(w)

(* The digested-game cards and the digests name each other: no game is in  *)
(* two digests, a digest's cards exist, and a rebuild orphans no card      *)
(* (publication.rs prepare_publication).                                   *)
CardsMatchDigests ==
    /\ \A w \in Window : \A g \in digest[w] : card[g] = w
    /\ \A g \in Game : card[g] # NoDate => g \in digest[card[g]]

(* run_fence identifies one stretch of enabled coaching: a Run or loop     *)
(* snapshot taken under the current fence was taken from profiles that are *)
(* all still connected, and coaching is still on (state.rs replace, remove,*)
(* set_enabled; lifecycle.rs process_player works from a stale document).  *)
Current(fence, profiles) ==
    fence = runFence => enabled /\ profiles \subseteq connections
FenceMarksEnabledStretch ==
    /\ \A w \in Window :
           run[w].status # "absent" => Current(run[w].runFence, run[w].connections)
    /\ \A t \in Task :
           task[t].snapshot.next # NoDate =>
               Current(task[t].snapshot.runFence, task[t].snapshot.connections)

(* A digest is only ever written while coaching is on, and for games of    *)
(* profiles that are connected at that moment: pausing, replacing or       *)
(* removing a profile stops every Run in flight (state.rs run_fence).    *)
PublishedFromConnectedProfiles ==
    [][\A w \in Window : digest'[w] # digest[w] =>
          enabled /\ run[w].connections \subseteq connections]_vars

(* A finished Run is final: no stalled holder, late claim or takeover      *)
(* touches it, only an Administrator's regeneration, which counts itself.  *)
FinishedRunsAreFinal ==
    [][\A w \in Window : run[w].status \in Completed /\ run'[w] # run[w] =>
          run'[w].regenerations = run[w].regenerations + 1]_vars

(* No due window is passed over: from the date coaching was switched on to *)
(* the next window, every window has a Run, if only a skipped one          *)
(* (lifecycle.rs process_player creates before it advances).               *)
NoWindowPassedOver ==
    /\ enabled <=> since # NoDate
    /\ enabled => /\ since <= nextDailyWindow /\ nextDailyWindow <= day
                  /\ \A w \in since..(nextDailyWindow - 1) : run[w].status # "absent"

(* A game is attempted no more often than the most patient cell allows, in *)
(* a window that no Administrator reopened: record_game counts from the    *)
(* stored attempts and the budget is compared with the attempts the task   *)
(* remembers (lifecycle.rs execute, game_max_attempts; runs.rs).           *)
Budgeted(attempts) == attempts > 0 => \E h \in Holder : attempts <= MaxAttempts[h]
AttemptsWithinBudget ==
    \A w \in Window : run[w].regenerations = 0 =>
        \A g \in Game : Budgeted(run[w].games[g].attempts)

(* At most one rebuild of a Player is in flight (ADR 0048; lifecycle.rs:   *)
(* "a second request finds it no longer terminal and is refused").         *)
OneRegenerationInFlight ==
    \A v, w \in Window :
        /\ run[v].status = "active" /\ run[v].regenerations > 0
        /\ run[w].status = "active" /\ run[w].regenerations > 0
        => v = w

(* Every claimed Run finishes, whatever cells died or stalled on the way   *)
(* (lifecycle.rs tick takes expired Runs over; the deadline ends the rest).*)
ClaimedRunsFinish ==
    \A w \in Window : run[w].status = "active" ~> run[w].status \in Completed

(* The store's transactions implement the archive the product promises:    *)
(* the cards alone say which digest holds a game, and every transaction is *)
(* one step of one window's lifecycle or leaves the archive alone          *)
(* (publication.rs prepare_publication; runs.rs DailyCoachingRunState).    *)
Archive == INSTANCE CoachingArchive WITH
    status <- [w \in Window |-> run[w].status],
    shelf <- card
ImplementsArchive == Archive!Spec

-----------------------------------------------------------------------------
(* The inductive invariant behind the safety properties.                   *)

OwnerWellFormed ==       \* validate(): enabled exactly when a window is next
    /\ enabled <=> nextDailyWindow # NoDate
    /\ enabled <=> since # NoDate

TaskWellFormed ==
    \A t \in Task :
        LET s == task[t]
        IN  /\ s.pc # "idle" => s.window \in Window
            /\ s.pc \in {"claim", "skip", "advance"} =>
                   s.snapshot.next # NoDate /\ s.window < day
            /\ s.pc = "advance" => run[s.window].status # "absent"
            /\ s.pc = "complete" => s.outcome # "none"
            /\ s.token # 0 => s.pc \in Executing \cup {"advance"}
            /\ s.pc \in Executing => s.token # 0

(* A fence in a Run or snapshot was read from the state document earlier.  *)
PastFence(fence, profiles) == fence <= runFence /\ Current(fence, profiles)
FenceInvariant ==
    /\ \A w \in Window :
           run[w].status # "absent" => PastFence(run[w].runFence, run[w].connections)
    /\ \A t \in Task :
           task[t].snapshot.next # NoDate =>
               PastFence(task[t].snapshot.runFence, task[t].snapshot.connections)

(* Until a window is reopened every grant of its lease has its own token,  *)
(* the stored one being the latest.                                        *)
LeaseInvariant ==
    \A w \in Window : \A t \in Task :
        task[t].window = w /\ task[t].token # 0 =>
            /\ run[w].status # "absent"
            /\ run[w].status = "active" /\ run[w].regenerations = 0 =>
                   /\ task[t].token <= run[w].token
                   /\ \A u \in Task :
                          task[u].window = w /\ task[u].token = task[t].token => u = t

IInv ==
    /\ TypeOK
    /\ OwnerWellFormed
    /\ TaskWellFormed
    /\ FenceInvariant
    /\ LeaseInvariant
    /\ NoWindowPassedOver

(* The task that holds the lease of a window remembers the selection that  *)
(* is stored, while it reviews and publishes; a choice that is not frozen  *)
(* yet has no attempts.                                                    *)
InSync(t, w) ==
    /\ task[t].pc \in {"review", "terminalize", "publish"} =>
           task[t].games = run[w].games
    /\ task[t].pc = "publish" => Pending(run[w].games) = {}
SelectionInvariant ==
    /\ \A t \in Task, w \in Window :
           HoldsLease(t, w) /\ run[w].regenerations = 0 => InSync(t, w)
    /\ \A t \in Task : task[t].pc = "freeze" =>
           \A g \in Game : task[t].games[g].attempts = 0

(* A digest is that of a published window, or of one an Administrator      *)
(* reopened: publishing finds no digest it did not expect.                 *)
DigestsAreOfPublishedRuns ==
    \A w \in Window : digest[w] # {} =>
        \/ run[w].status = "published"
        \/ run[w].status # "absent" /\ run[w].regenerations > 0

=============================================================================
