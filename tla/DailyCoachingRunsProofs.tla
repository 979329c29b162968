----------------------- MODULE DailyCoachingRunsProofs -----------------------
(***************************************************************************)
(* Proofs about DailyCoachingRuns for every number of cells, tasks,        *)
(* windows, games and profiles.  The argument: every step of an execution  *)
(* has one shape (ExecuteEffect), so each part of the inductive invariant  *)
(* is shown against that shape and against the few actions that claim,     *)
(* advance, take over, reopen, or edit the state document.                 *)
(***************************************************************************)
EXTENDS DailyCoachingRuns, TLAPS

Base == TypeOK /\ OwnerWellFormed /\ TaskWellFormed

(* What a step of the task at an execution may make of the task itself...  *)
Continues(t, s) ==
    /\ s \in TaskState
    /\ s.pc # "idle" => s.window \in Window
    /\ s.pc \notin {"advance", "reopen"}
    /\ s.pc \in {"claim", "skip"} => s.snapshot.next # NoDate /\ s.window < day
    /\ s.pc = "complete" => s.outcome # "none"
    /\ s.token # 0 => /\ s.pc \in Executing
                      /\ s.token = task[t].token /\ s.window = task[t].window
    /\ s.pc \in Executing => s.token # 0
    /\ s.snapshot \in {task[t].snapshot, NoSnapshot}

(* ... and of the Run it executes.                                         *)
Evolves(old, new) ==
    /\ new \in RunDocument
    /\ new.runFence = old.runFence /\ new.connections = old.connections
    /\ new.regenerations = old.regenerations
    /\ new.status = "absent" <=> old.status = "absent"
    /\ new.status = "active" => /\ old.status = "active"
                                /\ new.token = old.token /\ new.holder = old.holder
    /\ old.status # "active" => new = old

ExecuteEffect(t) ==
    /\ UNCHANGED <<ownerVars, clockVars>>
    /\ \E s \in TaskState : task' = [task EXCEPT ![t] = s] /\ Continues(t, s)
    /\ \E w \in Window : \E r \in RunDocument :
           run' = [run EXCEPT ![w] = r] /\ Evolves(run[w], r)
    /\ digest' \in [Window -> SUBSET Game]
    /\ card' \in [Game -> 0..LastWindow]

LEMMA WindowFacts == 0 \notin Window /\ Window \subseteq 0..LastWindow /\ Window # {}
  BY BoundAssumption DEF Window

(* The constant values of the module have their types.                     *)
LEMMA ConstantTypes ==
    /\ NoSelection \in [Game -> GameEntry]
    /\ NoRun \in RunDocument
    /\ Idle \in TaskState
    /\ NoSnapshot \in Snapshot
<1>1. NoSelection \in [Game -> GameEntry]
  BY DEF NoSelection, GameEntry, Progress
<1>2. NoRun \in RunDocument
  BY <1>1 DEF NoRun, RunDocument
<1>3. NoSnapshot \in Snapshot
  BY DEF NoSnapshot, Snapshot, NoDate
<1>4. 0 \in 0..LastWindow
  BY BoundAssumption
<1>5. Idle \in TaskState
  BY <1>1, <1>3, <1>4 DEF Idle, TaskState, PC
<1> QED BY <1>1, <1>2, <1>3, <1>5

(* The head of process_player's loop is a well-formed claiming task or an  *)
(* idle one.                                                               *)
LEMMA LoopStateShape ==
    ASSUME TypeOK, NEW snap \in Snapshot
    PROVE  LET s == LoopState(snap)
           IN  /\ s \in TaskState
               /\ s.token = 0
               /\ s.pc \in {"idle", "claim", "skip"}
               /\ s.pc \in {"claim", "skip"} => /\ s.window \in Window /\ s.window < day
                                    /\ snap.next # NoDate /\ s.snapshot = snap
               /\ s.snapshot \in {snap, NoSnapshot}
               /\ s.outcome = "none"
<1> DEFINE pc == IF Missed(snap.next) THEN "skip" ELSE "claim"
           claiming == [Idle EXCEPT !.pc = pc, !.window = snap.next, !.snapshot = snap]
<1>1. CASE snap.next \in Window /\ (Due(snap.next) \/ Missed(snap.next))
  <2>1. LoopState(snap) = claiming
    BY <1>1 DEF LoopState
  <2>2. snap.next \in 0..LastWindow /\ snap.next # NoDate
    BY <1>1, WindowFacts DEF NoDate
  <2>3. snap.next < day
    BY <1>1, BoundAssumption DEF Due, Missed, TypeOK, Window
  <2>4. claiming \in TaskState
    BY <2>2, ConstantTypes DEF TaskState, PC
  <2>5. /\ claiming.pc = pc /\ claiming.window = snap.next /\ claiming.token = 0
        /\ claiming.snapshot = snap /\ claiming.outcome = "none"
    BY ConstantTypes DEF Idle
  <2> QED BY <1>1, <2>1, <2>2, <2>3, <2>4, <2>5
<1>2. CASE ~(snap.next \in Window /\ (Due(snap.next) \/ Missed(snap.next)))
  <2>1. LoopState(snap) = Idle
    BY <1>2 DEF LoopState
  <2> QED BY <2>1, ConstantTypes DEF Idle
<1> QED BY <1>1, <1>2

LEMMA FinishContinues ==
    ASSUME Base, NEW t \in Task
    PROVE  Continues(t, LoopState(task[t].snapshot))
<1>1. task[t] \in TaskState /\ task[t].snapshot \in Snapshot
  BY DEF Base, TypeOK, TaskState
<1> QED BY <1>1, LoopStateShape DEF Base, Continues, Executing

LEMMA IdleContinues ==
    ASSUME NEW t \in Task
    PROVE  Continues(t, Idle)
BY ConstantTypes DEF Continues, Idle, Executing

(* Leaving the Run alone, ending it, and rewriting its games all evolve it.*)
LEMMA EndingEvolves ==
    ASSUME TypeOK, NEW w \in Window, NEW outcome \in Completed,
           run[w].status = "active"
    PROVE  Evolves(run[w], CompletedRun(w, outcome))
<1>1. run[w] \in RunDocument
  BY DEF TypeOK
<1> QED BY <1>1 DEF Evolves, CompletedRun, RunDocument, Completed

LEMMA GamesEvolve ==
    ASSUME TypeOK, NEW w \in Window, NEW games \in [Game -> GameEntry],
           run[w].status = "active"
    PROVE  Evolves(run[w], [run[w] EXCEPT !.games = games])
BY DEF Evolves, RunDocument, TypeOK

LEMMA StandingEvolves ==
    ASSUME TypeOK, NEW w \in Window
    PROVE  Evolves(run[w], run[w]) /\ run = [run EXCEPT ![w] = run[w]]
BY DEF Evolves, TypeOK

(* A step that moves only the task.                                        *)
LEMMA TaskOnlyEffect ==
    ASSUME Base, NEW t \in Task, NEW s, Continues(t, s),
           task' = [task EXCEPT ![t] = s],
           UNCHANGED <<ownerVars, clockVars, run, archiveVars>>
    PROVE  ExecuteEffect(t)
<1>1. PICK w \in Window : TRUE
  BY WindowFacts
<1>2. run' = [run EXCEPT ![w] = run[w]] /\ Evolves(run[w], run[w])
  BY <1>1, StandingEvolves DEF Base
<1>3. run[w] \in RunDocument
  BY <1>1 DEF Base, TypeOK
<1>4. s \in TaskState
  BY DEF Continues
<1>5. digest' \in [Window -> SUBSET Game] /\ card' \in [Game -> 0..LastWindow]
  BY DEF Base, TypeOK, archiveVars
<1> QED BY <1>1, <1>2, <1>3, <1>4, <1>5 DEF ExecuteEffect

(* A step that moves the task and evolves its Run.                         *)
LEMMA RunEffect ==
    ASSUME Base, NEW t \in Task, NEW s, Continues(t, s),
           task' = [task EXCEPT ![t] = s],
           NEW w \in Window, NEW r, Evolves(run[w], r), run' = [run EXCEPT ![w] = r],
           UNCHANGED <<ownerVars, clockVars>>,
           digest' \in [Window -> SUBSET Game], card' \in [Game -> 0..LastWindow]
    PROVE  ExecuteEffect(t)
<1>1. s \in TaskState /\ r \in RunDocument
  BY DEF Continues, Evolves
<1> QED BY <1>1 DEF ExecuteEffect

LEMMA RefusedEffect ==
    ASSUME Base, NEW t \in Task, Abort(t),
           UNCHANGED <<ownerVars, clockVars, run, archiveVars>>
    PROVE  ExecuteEffect(t)
BY TaskOnlyEffect, IdleContinues DEF Abort, Set

LEMMA FinishedEffect ==
    ASSUME Base, NEW t \in Task, Finish(t),
           UNCHANGED <<ownerVars, clockVars, run, archiveVars>>
    PROVE  ExecuteEffect(t)
BY TaskOnlyEffect, FinishContinues DEF Finish, Set

LEMMA EndedEffect ==
    ASSUME Base, NEW t \in Task, NEW w \in Window, HoldsLease(t, w),
           NEW outcome \in Completed, Finish(t),
           run' = [run EXCEPT ![w] = CompletedRun(w, outcome)],
           UNCHANGED <<ownerVars, clockVars>>,
           digest' \in [Window -> SUBSET Game], card' \in [Game -> 0..LastWindow]
    PROVE  ExecuteEffect(t)
<1>1. run[w].status = "active"
  BY DEF HoldsLease
<1>2. Evolves(run[w], CompletedRun(w, outcome))
  BY <1>1, EndingEvolves DEF Base
<1>3. Continues(t, LoopState(task[t].snapshot))
  BY FinishContinues
<1>4. task' = [task EXCEPT ![t] = LoopState(task[t].snapshot)]
  BY DEF Finish, Set
<1> QED BY <1>2, <1>3, <1>4, RunEffect

(* An executing task that goes on to another stage of the same execution.  *)
LEMMA StageContinues ==
    ASSUME Base, NEW t \in Task, task[t].pc \in Executing,
           NEW stageName \in Executing, NEW games \in [Game -> GameEntry],
           NEW outcome \in {"none", "noDigest", "abandoned"},
           stageName = "complete" => outcome # "none",
           NEW s, s = [task[t] EXCEPT !.pc = stageName, !.games = games, !.outcome = outcome]
    PROVE  Continues(t, s)
<1>1. task[t] \in TaskState /\ task[t].window \in Window
  BY DEF Base, TypeOK, TaskWellFormed, Executing
<1>2. s \in TaskState
  BY <1>1 DEF TaskState, Executing, PC
<1>3. /\ s.pc = stageName /\ s.window = task[t].window /\ s.token = task[t].token
      /\ s.outcome = outcome /\ s.snapshot = task[t].snapshot
  BY <1>1 DEF TaskState
<1>4. task[t].token # 0
  BY DEF Base, TaskWellFormed
<1> QED BY <1>1, <1>2, <1>3, <1>4 DEF Continues, Executing

(* Each operation of an execution has the shape ExecuteEffect: it is       *)
(* refused, it ends the Run as fenced, or it does its own work.            *)
LEMMA GuardedEffect ==
    ASSUME Base, NEW t \in Task, task[t].pc \in Executing,
           UNCHANGED <<ownerVars, clockVars>>,
           \/ ~HoldsLease(t, task[t].window) /\ Abort(t) /\ UNCHANGED <<run, archiveVars>>
           \/ /\ HoldsLease(t, task[t].window)
              /\ run' = [run EXCEPT ![task[t].window] = CompletedRun(task[t].window, "fenced")]
              /\ Finish(t)
              /\ UNCHANGED archiveVars
    PROVE  ExecuteEffect(t)
<1>1. task[t].window \in Window
  BY DEF Base, TaskWellFormed, Executing
<1>2. CASE ~HoldsLease(t, task[t].window) /\ Abort(t) /\ UNCHANGED <<run, archiveVars>>
  BY <1>2, RefusedEffect
<1>3. CASE /\ HoldsLease(t, task[t].window)
           /\ run' = [run EXCEPT ![task[t].window] = CompletedRun(task[t].window, "fenced")]
           /\ Finish(t)
           /\ UNCHANGED archiveVars
  <2>1. digest' \in [Window -> SUBSET Game] /\ card' \in [Game -> 0..LastWindow]
    BY <1>3 DEF Base, TypeOK, archiveVars
  <2>2. "fenced" \in Completed
    BY DEF Completed
  <2> QED BY <1>1, <1>3, <2>1, <2>2, EndedEffect
<1> QED BY <1>2, <1>3

(* Facts about an executing task that every operation below starts from.   *)
LEMMA ExecutingFacts ==
    ASSUME Base, NEW t \in Task, task[t].pc \in Executing
    PROVE  /\ task[t] \in TaskState /\ task[t].window \in Window
           /\ task[t].games \in [Game -> GameEntry]
           /\ run[task[t].window] \in RunDocument
           /\ run[task[t].window].games \in [Game -> GameEntry]
           /\ task[t].outcome \in {"none", "noDigest", "abandoned"}
           /\ task[t].snapshot \in Snapshot
<1>1. task[t] \in TaskState /\ task[t].window \in Window
  BY DEF Base, TypeOK, TaskWellFormed, Executing
<1>2. run[task[t].window] \in RunDocument
  BY <1>1 DEF Base, TypeOK
<1> QED BY <1>1, <1>2 DEF TaskState, RunDocument

LEMMA CheckFenceEffect ==
    ASSUME Base, NEW t \in Task, CheckFence(t)
    PROVE  ExecuteEffect(t)
<1> DEFINE w == task[t].window
<1>1. task[t].pc \in Executing /\ UNCHANGED <<ownerVars, clockVars>>
  BY DEF CheckFence, Executing
<1>2. CASE ~HoldsLease(t, w) \/ Fenced(w)
  BY <1>1, <1>2, GuardedEffect DEF CheckFence, AtStateFence
<1>3. CASE HoldsLease(t, w) /\ ~Fenced(w)
  <2>1. Set(t, AfterCheck(w, task[t])) /\ UNCHANGED <<run, archiveVars>>
    BY <1>3 DEF CheckFence, AtStateFence
  <2>2. \E stageName \in Executing, games \in [Game -> GameEntry],
            outcome \in {"none", "noDigest", "abandoned"} :
            /\ stageName = "complete" => outcome # "none"
            /\ AfterCheck(w, task[t]) =
                   [task[t] EXCEPT !.pc = stageName, !.games = games, !.outcome = outcome]
    <3>1. CASE Late(w) /\ run[w].games = NoSelection
      <4>1. AfterCheck(w, task[t]) =
              [task[t] EXCEPT !.pc = "complete", !.games = task[t].games, !.outcome = "abandoned"]
        BY <1>1, <3>1, ExecutingFacts DEF AfterCheck, TaskState
      <4> QED BY <1>1, <4>1, ExecutingFacts DEF Executing
    <3>2. CASE Late(w) /\ run[w].games # NoSelection
      <4>1. AfterCheck(w, task[t]) =
              [task[t] EXCEPT !.pc = "terminalize", !.games = run[w].games, !.outcome = task[t].outcome]
        BY <1>1, <3>2, ExecutingFacts DEF AfterCheck, TaskState
      <4> QED BY <1>1, <4>1, ExecutingFacts DEF Executing
    <3>3. CASE ~Late(w) /\ run[w].games = NoSelection
      <4>1. AfterCheck(w, task[t]) =
              [task[t] EXCEPT !.pc = "select", !.games = task[t].games, !.outcome = task[t].outcome]
        BY <1>1, <3>3, ExecutingFacts DEF AfterCheck, TaskState
      <4> QED BY <1>1, <4>1, ExecutingFacts DEF Executing
    <3>4. CASE ~Late(w) /\ run[w].games # NoSelection
      <4>1. AfterCheck(w, task[t]) =
              [task[t] EXCEPT !.pc = "review", !.games = run[w].games, !.outcome = task[t].outcome]
        BY <1>1, <3>4, ExecutingFacts DEF AfterCheck, TaskState
      <4> QED BY <1>1, <4>1, ExecutingFacts DEF Executing
    <3> QED BY <3>1, <3>2, <3>3, <3>4
  <2>3. Continues(t, AfterCheck(w, task[t]))
    BY <1>1, <2>2, StageContinues
  <2> QED BY <1>1, <2>1, <2>3, TaskOnlyEffect DEF Set
<1> QED BY <1>2, <1>3

LEMMA HeartbeatEffect ==
    ASSUME Base, NEW t \in Task, Heartbeat(t)
    PROVE  ExecuteEffect(t)
<1> DEFINE w == task[t].window
           r == [run[w] EXCEPT !.expired = FALSE]
<1>1. task[t].pc \in Executing /\ UNCHANGED <<ownerVars, clockVars>>
  BY DEF Heartbeat, Executing
<1>2. CASE ~HoldsLease(t, w) \/ Fenced(w)
  BY <1>1, <1>2, GuardedEffect DEF Heartbeat, AtStateFence
<1>3. CASE HoldsLease(t, w) /\ ~Fenced(w)
  <2>1. run' = [run EXCEPT ![w] = r] /\ UNCHANGED <<archiveVars, task>>
    BY <1>3 DEF Heartbeat, AtStateFence
  <2>2. Evolves(run[w], r)
    BY <1>1, <1>3, ExecutingFacts DEF Evolves, RunDocument, HoldsLease
  <2>3. Continues(t, task[t])
    <3>1. task[t].pc \in {"select", "review"} /\ task[t].token # 0
      BY <1>1 DEF Heartbeat, Base, TaskWellFormed
    <3> QED BY <1>1, <3>1, ExecutingFacts DEF Continues, Executing
  <2>4. task' = [task EXCEPT ![t] = task[t]]
    BY <2>1 DEF Base, TypeOK
  <2>5. digest' \in [Window -> SUBSET Game] /\ card' \in [Game -> 0..LastWindow]
    BY <2>1 DEF Base, TypeOK, archiveVars
  <2> QED BY <1>1, <2>1, <2>2, <2>3, <2>4, <2>5, RunEffect, ExecutingFacts
<1> QED BY <1>2, <1>3

(* The operations that only move the task to another stage.                *)
LEMMA StageEffect ==
    ASSUME Base, NEW t \in Task, DeadlineReached(t) \/ Select(t) \/ FinishReviewing(t)
    PROVE  ExecuteEffect(t)
<1>1. task[t].pc \in Executing /\ UNCHANGED <<ownerVars, clockVars, run, archiveVars>>
  BY DEF DeadlineReached, Select, FinishReviewing, Executing
<1>2. SUFFICES \E stageName \in Executing, games \in [Game -> GameEntry],
                  outcome \in {"none", "noDigest", "abandoned"} :
                  /\ stageName = "complete" => outcome # "none"
                  /\ task' = [task EXCEPT ![t] =
                         [task[t] EXCEPT !.pc = stageName, !.games = games, !.outcome = outcome]]
  BY <1>1, StageContinues, TaskOnlyEffect
<1>3. CASE DeadlineReached(t)
  <2>1. CASE task[t].pc = "review"
    <3>1. task' = [task EXCEPT ![t] = [task[t] EXCEPT !.pc = "terminalize",
                       !.games = task[t].games, !.outcome = task[t].outcome]]
      BY <1>1, <1>3, <2>1, ExecutingFacts DEF DeadlineReached, Set, TaskState
    <3> QED BY <1>1, <3>1, ExecutingFacts DEF Executing
  <2>2. CASE task[t].pc # "review"
    <3>1. task' = [task EXCEPT ![t] = [task[t] EXCEPT !.pc = "complete",
                       !.games = task[t].games, !.outcome = "abandoned"]]
      BY <1>1, <1>3, <2>2, ExecutingFacts DEF DeadlineReached, Set, TaskState
    <3> QED BY <1>1, <3>1, ExecutingFacts DEF Executing
  <2> QED BY <2>1, <2>2
<1>4. CASE Select(t)
  <2>1. PICK candidates \in SUBSET Game :
          LET chosen == candidates \ Digested(task[t].window)
          IN  Set(t, IF chosen = {}
                     THEN [task[t] EXCEPT !.pc = "complete", !.outcome = "noDigest"]
                     ELSE [task[t] EXCEPT !.pc = "freeze",
                              !.games = [g \in Game |->
                                  [progress |-> IF g \in chosen THEN "pending" ELSE "none",
                                   attempts |-> 0]]])
    BY <1>4 DEF Select
  <2> DEFINE chosen == candidates \ Digested(task[t].window)
             games == [g \in Game |-> [progress |-> IF g \in chosen THEN "pending" ELSE "none",
                                       attempts |-> 0]]
  <2>2. CASE chosen = {}
    <3>1. task' = [task EXCEPT ![t] = [task[t] EXCEPT !.pc = "complete",
                       !.games = task[t].games, !.outcome = "noDigest"]]
      BY <1>1, <2>1, <2>2, ExecutingFacts DEF Set, TaskState
    <3> QED BY <1>1, <3>1, ExecutingFacts DEF Executing
  <2>3. CASE chosen # {}
    <3>1. games \in [Game -> GameEntry]
      BY DEF GameEntry, Progress
    <3>2. task' = [task EXCEPT ![t] = [task[t] EXCEPT !.pc = "freeze", !.games = games]]
      BY <2>1, <2>3 DEF Set
    <3>3. [task[t] EXCEPT !.pc = "freeze", !.games = games] =
            [task[t] EXCEPT !.pc = "freeze", !.games = games, !.outcome = task[t].outcome]
      <4> HIDE DEF games
      <4> QED BY <1>1, ExecutingFacts DEF TaskState
    <3>4. task' = [task EXCEPT ![t] = [task[t] EXCEPT !.pc = "freeze", !.games = games,
                                                      !.outcome = task[t].outcome]]
      BY <3>2, <3>3
    <3>5. "freeze" \in Executing /\ task[t].outcome \in {"none", "noDigest", "abandoned"}
      BY <1>1, ExecutingFacts DEF Executing
    <3> HIDE DEF games
    <3> QED BY <3>1, <3>4, <3>5
  <2> QED BY <2>2, <2>3
<1>5. CASE FinishReviewing(t)
  <2>1. task' = [task EXCEPT ![t] = [task[t] EXCEPT !.pc = "publish",
                     !.games = task[t].games, !.outcome = task[t].outcome]]
    BY <1>1, <1>5, ExecutingFacts DEF FinishReviewing, Set, TaskState
  <2> QED BY <1>1, <2>1, ExecutingFacts DEF Executing
<1> QED BY <1>3, <1>4, <1>5

(* An operation that stores the Run it held and goes on to another stage.  *)
LEMMA AdvanceEffect ==
    ASSUME Base, NEW t \in Task, HoldsLease(t, task[t].window),
           NEW stageName \in Executing \ {"complete"},
           NEW games \in [Game -> GameEntry], NEW stored \in [Game -> GameEntry],
           run' = [run EXCEPT ![task[t].window].games = stored],
           Set(t, [task[t] EXCEPT !.pc = stageName, !.games = games]),
           UNCHANGED <<ownerVars, clockVars, archiveVars>>
    PROVE  ExecuteEffect(t)
<1> DEFINE w == task[t].window
           r == [run[w] EXCEPT !.games = stored]
           s == [task[t] EXCEPT !.pc = stageName, !.games = games,
                                !.outcome = task[t].outcome]
<1>0. task[t].pc \in Executing /\ run[w].status = "active"
  BY DEF HoldsLease
<1>1. s = [task[t] EXCEPT !.pc = stageName, !.games = games]
  BY <1>0, ExecutingFacts DEF TaskState
<1>2. Continues(t, s)
  BY <1>0, ExecutingFacts, StageContinues
<1>3. Evolves(run[w], r)
  BY <1>0, ExecutingFacts, GamesEvolve DEF Base
<1>4. run' = [run EXCEPT ![w] = r] /\ task' = [task EXCEPT ![t] = s]
  BY <1>1 DEF Set
<1>5. digest' \in [Window -> SUBSET Game] /\ card' \in [Game -> 0..LastWindow]
  BY DEF Base, TypeOK, archiveVars
<1> HIDE DEF r, s
<1> QED BY <1>0, <1>2, <1>3, <1>4, <1>5, ExecutingFacts, RunEffect DEF w

LEMMA FreezeSelectionEffect ==
    ASSUME Base, NEW t \in Task, FreezeSelection(t)
    PROVE  ExecuteEffect(t)
<1> DEFINE w == task[t].window
           frozen == [task[t] EXCEPT !.pc = "review"]
<1>1. task[t].pc \in Executing /\ UNCHANGED <<ownerVars, clockVars>>
  BY DEF FreezeSelection, Executing
<1>2. "review" \in Executing \ {"complete"}
  BY DEF Executing
<1>3. CASE ~HoldsLease(t, w) \/ Fenced(w)
  BY <1>1, <1>3, GuardedEffect DEF FreezeSelection, AtStateFence
<1>4. CASE HoldsLease(t, w) /\ ~Fenced(w) /\ run[w].games = NoSelection
  <2>1. /\ run' = [run EXCEPT ![w].games = task[t].games]
        /\ Set(t, frozen) /\ UNCHANGED archiveVars
    BY <1>4 DEF FreezeSelection, AtStateFence
  <2>2. frozen = [task[t] EXCEPT !.pc = "review", !.games = task[t].games]
    BY <1>1, ExecutingFacts DEF TaskState
  <2> QED BY <1>1, <1>2, <1>4, <2>1, <2>2, ExecutingFacts, AdvanceEffect
<1>5. CASE /\ HoldsLease(t, w) /\ ~Fenced(w) /\ run[w].games # NoSelection
           /\ SameSelection(run[w].games, task[t].games)
  <2>1. /\ UNCHANGED run /\ UNCHANGED archiveVars
        /\ Set(t, [frozen EXCEPT !.games = run[w].games])
    BY <1>5 DEF FreezeSelection, AtStateFence
  <2>2. [frozen EXCEPT !.games = run[w].games] =
          [task[t] EXCEPT !.pc = "review", !.games = run[w].games]
    BY <1>1, ExecutingFacts DEF TaskState
  <2>3. run' = [run EXCEPT ![w].games = run[w].games]
    BY <1>1, <2>1, ExecutingFacts DEF Base, TypeOK, RunDocument
  <2> QED BY <1>1, <1>2, <1>5, <2>1, <2>2, <2>3, ExecutingFacts, AdvanceEffect
<1>6. CASE /\ HoldsLease(t, w) /\ ~Fenced(w) /\ run[w].games # NoSelection
           /\ ~SameSelection(run[w].games, task[t].games)
  BY <1>1, <1>6, RefusedEffect DEF FreezeSelection, AtStateFence, Abort
<1> QED BY <1>3, <1>4, <1>5, <1>6

LEMMA CompleteRunEffect ==
    ASSUME Base, NEW t \in Task, CompleteRun(t)
    PROVE  ExecuteEffect(t)
<1> DEFINE w == task[t].window
<1>1. task[t].pc \in Executing /\ UNCHANGED <<ownerVars, clockVars>>
  BY DEF CompleteRun, Executing
<1>2. CASE ~HoldsLease(t, w) \/ Fenced(w)
  BY <1>1, <1>2, GuardedEffect DEF CompleteRun, AtStateFence
<1>3. CASE HoldsLease(t, w) /\ ~Fenced(w)
  <2>1. UNCHANGED archiveVars
    BY <1>3 DEF CompleteRun, AtStateFence
  <2>2. CASE UNCHANGED run /\ Abort(t)
    BY <1>1, <2>1, <2>2, RefusedEffect
  <2>3. CASE run' = [run EXCEPT ![w] = CompletedRun(w, task[t].outcome)] /\ Finish(t)
    <3>1. task[t].outcome \in Completed
      BY <1>1, ExecutingFacts DEF Base, TaskWellFormed, CompleteRun, Completed
    <3>2. digest' \in [Window -> SUBSET Game] /\ card' \in [Game -> 0..LastWindow]
      BY <2>1 DEF Base, TypeOK, archiveVars
    <3> QED BY <1>1, <1>3, <2>3, <3>1, <3>2, ExecutingFacts, EndedEffect
  <2> QED BY <1>3, <2>2, <2>3 DEF CompleteRun, AtStateFence
<1> QED BY <1>2, <1>3

(* record_game, whatever its caller does of a Run that turns out fenced.   *)
LEMMA RecordGameEffect ==
    ASSUME Base, NEW t \in Task, task[t].pc \in Executing,
           NEW g \in Game, NEW entry \in GameEntry,
           NEW stageName \in Executing \ {"complete"},
           RecordGame(t, g, entry, Finish(t), stageName)
    PROVE  ExecuteEffect(t)
<1> DEFINE w == task[t].window
           games == [run[w].games EXCEPT ![g] = entry]
<1>1. UNCHANGED <<ownerVars, clockVars>>
  BY DEF RecordGame
<1>2. CASE ~HoldsLease(t, w) \/ Fenced(w)
  BY <1>1, <1>2, GuardedEffect DEF RecordGame, AtStateFence
<1>3. CASE /\ HoldsLease(t, w) /\ ~Fenced(w)
           /\ g \in Pending(run[w].games) /\ ValidEntry(entry)
  <2>1. games \in [Game -> GameEntry]
    BY ExecutingFacts
  <2>2. /\ run' = [run EXCEPT ![w].games = games]
        /\ Set(t, [task[t] EXCEPT !.pc = stageName, !.games = games])
        /\ UNCHANGED archiveVars
    BY <1>3 DEF RecordGame, AtStateFence
  <2> HIDE DEF games
  <2> QED BY <1>1, <1>3, <2>1, <2>2, AdvanceEffect
<1>4. CASE /\ HoldsLease(t, w) /\ ~Fenced(w)
           /\ ~(g \in Pending(run[w].games) /\ ValidEntry(entry))
  BY <1>1, <1>4, RefusedEffect DEF RecordGame, AtStateFence
<1> QED BY <1>2, <1>3, <1>4

(* The entry that record_game stores counts from the stored attempts.      *)
LEMMA EntryTypes ==
    ASSUME Base, NEW t \in Task, task[t].pc \in Executing, NEW g \in Game,
           NEW progress \in Progress
    PROVE  LET a == run[task[t].window].games[g].attempts
           IN  /\ [progress |-> progress, attempts |-> a] \in GameEntry
               /\ [progress |-> progress, attempts |-> a + 1] \in GameEntry
<1>1. run[task[t].window].games[g].attempts \in Nat
  BY ExecutingFacts DEF GameEntry
<1> QED BY <1>1 DEF GameEntry

LEMMA RecordReviewedEffect ==
    ASSUME Base, NEW t \in Task, RecordReviewed(t)
    PROVE  ExecuteEffect(t)
<1>1. task[t].pc \in Executing /\ "review" \in Executing \ {"complete"}
  BY DEF RecordReviewed, Executing
<1>2. PICK g \in Game, outcome \in {"reviewed", "terminal", "exhausted"} :
        RecordGame(t, g, [progress |-> outcome,
                          attempts |-> run[task[t].window].games[g].attempts + 1],
                   Finish(t), "review")
  BY DEF RecordReviewed
<1>3. outcome \in Progress
  BY DEF Progress
<1> QED BY <1>1, <1>2, <1>3, EntryTypes, RecordGameEffect

LEMMA TerminalizeUnfinishedEffect ==
    ASSUME Base, NEW t \in Task, TerminalizeUnfinished(t)
    PROVE  ExecuteEffect(t)
<1>1. task[t].pc \in Executing /\ "terminalize" \in Executing \ {"complete"}
  BY DEF TerminalizeUnfinished, Executing
<1>2. PICK g \in Game :
        RecordGame(t, g, [progress |-> "unfinished",
                          attempts |-> run[task[t].window].games[g].attempts],
                   Finish(t), "terminalize")
  BY DEF TerminalizeUnfinished
<1>3. "unfinished" \in Progress
  BY DEF Progress
<1> QED BY <1>1, <1>2, <1>3, EntryTypes, RecordGameEffect

LEMMA ExhaustUnattemptedEffect ==
    ASSUME Base, NEW t \in Task, ExhaustUnattempted(t)
    PROVE  ExecuteEffect(t)
<1> DEFINE w == task[t].window
           entry(g) == [progress |-> "exhausted", attempts |-> run[w].games[g].attempts]
<1>1. /\ task[t].pc = "review" /\ task[t].pc \in Executing
      /\ "review" \in Executing \ {"complete"} /\ "exhausted" \in Progress
  BY DEF ExhaustUnattempted, Executing, Progress
<1>2. PICK g \in Game : RecordGame(t, g, entry(g), UNCHANGED task, "review")
  BY DEF ExhaustUnattempted
<1>3. CASE HoldsLease(t, w) /\ Fenced(w)
  <2>1. /\ run' = [run EXCEPT ![w] = CompletedRun(w, "fenced")]
        /\ UNCHANGED <<ownerVars, clockVars, archiveVars, task>>
    BY <1>2, <1>3 DEF RecordGame, AtStateFence
  <2>2. Evolves(run[w], CompletedRun(w, "fenced"))
    BY <1>1, <1>3, ExecutingFacts, EndingEvolves DEF Base, HoldsLease, Completed
  <2>3. Continues(t, task[t])
    <3>1. task[t].token # 0
      BY <1>1 DEF Base, TaskWellFormed
    <3> QED BY <1>1, <3>1, ExecutingFacts DEF Continues, Executing
  <2>4. task' = [task EXCEPT ![t] = task[t]]
    BY <2>1 DEF Base, TypeOK
  <2>5. digest' \in [Window -> SUBSET Game] /\ card' \in [Game -> 0..LastWindow]
    BY <2>1 DEF Base, TypeOK, archiveVars
  <2> QED BY <1>1, <2>1, <2>2, <2>3, <2>4, <2>5, ExecutingFacts, RunEffect
<1>4. CASE ~(HoldsLease(t, w) /\ Fenced(w))
  <2>1. RecordGame(t, g, entry(g), Finish(t), "review")
    BY <1>2, <1>4 DEF RecordGame, AtStateFence
  <2>2. entry(g) \in GameEntry
    BY <1>1, EntryTypes
  <2> QED BY <1>1, <2>1, <2>2, RecordGameEffect
<1> QED BY <1>3, <1>4

LEMMA RecordRetryableEffect ==
    ASSUME Base, NEW t \in Task, RecordRetryable(t)
    PROVE  ExecuteEffect(t)
<1> DEFINE w == task[t].window
           deferred(g) == [run[w] EXCEPT !.games[g].attempts = @ + 1, !.expired = FALSE]
<1>1. task[t].pc \in Executing /\ UNCHANGED <<ownerVars, clockVars>>
  BY DEF RecordRetryable, Executing
<1>2. PICK g \in Game :
        AtStateFence(t, Finish(t),
          /\ UNCHANGED archiveVars
          /\ IF g \in Pending(run[w].games) /\ ~Late(w)
             THEN /\ run' = [run EXCEPT ![w].games[g].attempts = @ + 1,
                                        ![w].expired = FALSE]
                  /\ Finish(t)
             ELSE UNCHANGED run /\ Abort(t))
  BY DEF RecordRetryable, Pending
<1>3. CASE ~HoldsLease(t, w) \/ Fenced(w)
  BY <1>1, <1>2, <1>3, GuardedEffect DEF AtStateFence
<1>4. CASE HoldsLease(t, w) /\ ~Fenced(w) /\ g \in Pending(run[w].games) /\ ~Late(w)
  <2>1. /\ run' = [run EXCEPT ![w].games[g].attempts = @ + 1, ![w].expired = FALSE]
        /\ Finish(t) /\ UNCHANGED archiveVars
    BY <1>2, <1>4 DEF AtStateFence
  <2>2. run' = [run EXCEPT ![w] = deferred(g)]
    BY <1>1, <2>1, ExecutingFacts DEF Base, TypeOK
  <2> DEFINE entry == [run[w].games[g] EXCEPT !.attempts = @ + 1]
             games == [run[w].games EXCEPT ![g] = entry]
  <2>3. Evolves(run[w], deferred(g))
    <3>1. entry \in GameEntry
      BY <1>1, ExecutingFacts DEF GameEntry
    <3>2. games \in [Game -> GameEntry]
      BY <1>1, <3>1, ExecutingFacts
    <3>3. deferred(g) = [run[w] EXCEPT !.games = games, !.expired = FALSE]
      OBVIOUS
    <3> HIDE DEF games
    <3>4. Evolves(run[w], [run[w] EXCEPT !.games = games, !.expired = FALSE])
      BY <1>1, <1>4, <3>2, ExecutingFacts DEF Evolves, RunDocument, HoldsLease
    <3> QED BY <3>3, <3>4
  <2>4. Continues(t, LoopState(task[t].snapshot))
    BY FinishContinues
  <2>5. digest' \in [Window -> SUBSET Game] /\ card' \in [Game -> 0..LastWindow]
    BY <2>1 DEF Base, TypeOK, archiveVars
  <2> QED BY <1>1, <2>1, <2>2, <2>3, <2>4, <2>5, ExecutingFacts, RunEffect DEF Finish, Set
<1>5. CASE /\ HoldsLease(t, w) /\ ~Fenced(w)
           /\ ~(g \in Pending(run[w].games) /\ ~Late(w))
  BY <1>1, <1>2, <1>5, RefusedEffect DEF AtStateFence
<1> QED BY <1>3, <1>4, <1>5

LEMMA PublishEffect ==
    ASSUME Base, NEW t \in Task, Publish(t)
    PROVE  ExecuteEffect(t)
<1> DEFINE w == task[t].window
<1>1. task[t].pc \in Executing /\ UNCHANGED <<ownerVars, clockVars>>
  BY DEF Publish, Executing
<1>2. CASE run[w].status = "published" /\ run[w].regenerations = 0
  BY <1>1, <1>2, FinishedEffect DEF Publish
<1> DEFINE published ==
             /\ run' = [run EXCEPT ![w] = CompletedRun(w, "published")]
             /\ digest' = [digest EXCEPT ![w] = Kept(w)] /\ card' = Recarded(w)
             /\ Finish(t)
           withoutDigest ==
             /\ run' = [run EXCEPT ![w] = CompletedRun(w, "noDigest")]
             /\ Finish(t) /\ UNCHANGED archiveVars
<1>3. ASSUME ~(run[w].status = "published" /\ run[w].regenerations = 0)
      PROVE  \/ ~HoldsLease(t, w) /\ Abort(t) /\ UNCHANGED <<run, archiveVars>>
             \/ /\ HoldsLease(t, w)
                /\ run' = [run EXCEPT ![w] = CompletedRun(w, "fenced")]
                /\ Finish(t) /\ UNCHANGED archiveVars
             \/ HoldsLease(t, w) /\ withoutDigest
             \/ HoldsLease(t, w) /\ published
             \/ Abort(t) /\ UNCHANGED <<run, archiveVars>>
  BY <1>3 DEF Publish, AtStateFence
<1>4. CASE HoldsLease(t, w) /\ published
  <2>1. Kept(w) \in SUBSET Game
    BY DEF Kept, Reviewed
  <2>2. digest' \in [Window -> SUBSET Game]
    BY <1>4, <2>1 DEF Base, TypeOK
  <2>3. w \in 0..LastWindow /\ NoDate \in 0..LastWindow
    <3>1. w \in Window
      BY <1>1, ExecutingFacts
    <3> HIDE DEF w, published, withoutDigest
    <3> QED BY <3>1, BoundAssumption DEF NoDate, Window
  <2>4. card' \in [Game -> 0..LastWindow]
    <3> HIDE DEF w
    <3> QED BY <1>4, <2>3 DEF Base, TypeOK, Recarded
  <2>5. "published" \in Completed
    BY DEF Completed
  <2> QED BY <1>1, <1>4, <2>2, <2>4, <2>5, ExecutingFacts, EndedEffect
<1>5. CASE HoldsLease(t, w) /\ withoutDigest
  <2>1. digest' \in [Window -> SUBSET Game] /\ card' \in [Game -> 0..LastWindow]
    BY <1>5 DEF Base, TypeOK, archiveVars
  <2>2. "noDigest" \in Completed
    BY DEF Completed
  <2> QED BY <1>1, <1>5, <2>1, <2>2, ExecutingFacts, EndedEffect
<1> QED BY <1>1, <1>2, <1>3, <1>4, <1>5, GuardedEffect, RefusedEffect

LEMMA FailEffect ==
    ASSUME Base, NEW t \in Task, Fail(t)
    PROVE  ExecuteEffect(t)
BY RefusedEffect DEF Fail, archiveVars, ownerVars, clockVars

LEMMA ExecuteStepEffect ==
    ASSUME Base, NEW t \in Task, ExecuteStep(t) \/ Heartbeat(t) \/ Fail(t)
    PROVE  ExecuteEffect(t)
BY CheckFenceEffect, StageEffect, FreezeSelectionEffect, RecordReviewedEffect,
   ExhaustUnattemptedEffect, RecordRetryableEffect, TerminalizeUnfinishedEffect,
   CompleteRunEffect, PublishEffect, HeartbeatEffect, FailEffect DEF ExecuteStep

-----------------------------------------------------------------------------
(* The inductive invariant, one lemma for each kind of step.               *)

LEMMA InitIInv ==
    ASSUME Init
    PROVE  IInv
<1>1. TypeOK
  <2>1. 0 \in 0..LastWindow /\ 0 \in 0..(LastWindow + 1) /\ 1 \in 1..(LastWindow + 1)
    BY BoundAssumption
  <2>2. run \in [Window -> RunDocument] /\ task \in [Task -> TaskState]
    BY ConstantTypes DEF Init
  <2> QED BY <2>1, <2>2 DEF Init, TypeOK, NoDate
<1>2. OwnerWellFormed /\ NoWindowPassedOver
  BY DEF Init, OwnerWellFormed, NoWindowPassedOver
<1>3. TaskWellFormed
  BY DEF Init, TaskWellFormed, Idle, Executing
<1>4. FenceInvariant
  BY DEF Init, FenceInvariant, NoRun, Idle, NoSnapshot
<1>5. LeaseInvariant
  BY DEF Init, LeaseInvariant, Idle
<1> QED BY <1>1, <1>2, <1>3, <1>4, <1>5 DEF IInv

(* Steps of an execution.                                                  *)
LEMMA ExecuteKeepsIInv ==
    ASSUME IInv, NEW t \in Task, ExecuteEffect(t)
    PROVE  IInv'
<1>1. UNCHANGED <<enabled, connections, nextDailyWindow, runFence, since, day, stage>>
  BY DEF ExecuteEffect, ownerVars, clockVars
<1>2. PICK s \in TaskState : task' = [task EXCEPT ![t] = s] /\ Continues(t, s)
  BY DEF ExecuteEffect
<1>3. PICK v \in Window, r \in RunDocument :
        run' = [run EXCEPT ![v] = r] /\ Evolves(run[v], r)
  BY DEF ExecuteEffect
<1>4. /\ task \in [Task -> TaskState] /\ run \in [Window -> RunDocument]
      /\ task'[t] = s /\ \A u \in Task : u # t => task'[u] = task[u]
      /\ run'[v] = r /\ \A w \in Window : w # v => run'[w] = run[w]
  BY <1>2, <1>3 DEF IInv, TypeOK
<1>5. /\ \A w \in Window :
            /\ run'[w].runFence = run[w].runFence
            /\ run'[w].connections = run[w].connections
            /\ run'[w].regenerations = run[w].regenerations
            /\ run'[w].status = "absent" <=> run[w].status = "absent"
            /\ run'[w].status = "active" =>
                   run[w].status = "active" /\ run'[w].token = run[w].token
  BY <1>3, <1>4 DEF Evolves
<1>6. TypeOK'
  BY <1>1, <1>2, <1>3 DEF IInv, TypeOK, ExecuteEffect
<1>7. OwnerWellFormed' /\ NoWindowPassedOver'
  <2>1. \A w \in since..(nextDailyWindow - 1) :
          enabled => w \in Window
    BY BoundAssumption DEF IInv, TypeOK, OwnerWellFormed, Window, NoDate
  <2> QED BY <1>1, <1>5, <2>1 DEF IInv, OwnerWellFormed, NoWindowPassedOver
<1>8. TaskWellFormed'
  <2> SUFFICES ASSUME NEW u \in Task
               PROVE  LET x == task'[u]
                      IN  /\ x.pc # "idle" => x.window \in Window
                          /\ x.pc \in {"claim", "skip", "advance"} =>
                                 x.snapshot.next # NoDate /\ x.window < day
                          /\ x.pc = "advance" => run'[x.window].status # "absent"
                          /\ x.pc = "complete" => x.outcome # "none"
                          /\ x.token # 0 => x.pc \in Executing \cup {"advance"}
                          /\ x.pc \in Executing => x.token # 0
    BY <1>1 DEF TaskWellFormed
  <2>1. CASE u = t
    BY <1>2, <1>4, <2>1 DEF Continues
  <2>2. CASE u # t
    BY <1>4, <1>5, <2>2 DEF IInv, TaskWellFormed
  <2> QED BY <2>1, <2>2
<1>9. FenceInvariant'
  <2>1. \A w \in Window :
          run'[w].status # "absent" => PastFence(run'[w].runFence, run'[w].connections)
    BY <1>5 DEF IInv, FenceInvariant
  <2>2. \A u \in Task :
          task'[u].snapshot.next # NoDate =>
              PastFence(task'[u].snapshot.runFence, task'[u].snapshot.connections)
    BY <1>2, <1>4 DEF IInv, FenceInvariant, Continues, NoSnapshot
  <2> QED BY <1>1, <2>1, <2>2 DEF FenceInvariant, PastFence, Current
<1>10. LeaseInvariant'
  <2>1. \A u \in Task :
          task'[u].token # 0 =>
              task'[u].token = task[u].token /\ task'[u].window = task[u].window
    BY <1>2, <1>4 DEF Continues
  <2>2. \A u \in Task : task'[u].token # 0 => task'[u].window \in Window
    BY <1>2, <1>4 DEF Continues, IInv, TaskWellFormed, Executing
  <2> QED BY <1>5, <2>1, <2>2 DEF IInv, LeaseInvariant
<1> QED BY <1>6, <1>7, <1>8, <1>9, <1>10 DEF IInv

(* The Player's edits: whatever ends an enabled stretch moves run_fence.   *)
LEMMA OwnerKeepsIInv ==
    ASSUME IInv, OwnerEdits
    PROVE  IInv'
<1>1. UNCHANGED <<day, stage, run, digest, card, task>>
  BY DEF OwnerEdits, Connect, Replace, Remove, Resume, Pause, clockVars, archiveVars
<1>2. day \in 1..(LastWindow + 1) /\ NoDate \in 0..(LastWindow + 1)
  BY BoundAssumption DEF IInv, TypeOK, NoDate
<1>3. enabled' \in BOOLEAN
  BY Zenon DEF IInv, TypeOK, OwnerEdits, Connect, Replace, Remove, Resume, Pause
<1>4. connections' \subseteq Profile /\ runFence' \in Nat
  BY DEF IInv, TypeOK, OwnerEdits, Connect, Replace, Remove, Resume, Pause
<1>5. /\ nextDailyWindow' \in {nextDailyWindow, day, NoDate}
      /\ since' \in {since, day, NoDate}
  BY DEF OwnerEdits, Connect, Replace, Remove, Resume, Pause
<1>6. TypeOK'
  BY <1>1, <1>2, <1>3, <1>4, <1>5 DEF IInv, TypeOK
<1>7. OwnerWellFormed'
  BY <1>2 DEF IInv, OwnerWellFormed, OwnerEdits, Connect, Replace, Remove, Resume,
              Pause, NoDate
<1>8. TaskWellFormed' /\ LeaseInvariant'
  BY <1>1 DEF IInv, TaskWellFormed, LeaseInvariant, HoldsLease
<1>9. NoWindowPassedOver'
  <2>1. CASE UNCHANGED <<enabled, nextDailyWindow, since>>
    BY <1>1, <2>1 DEF IInv, NoWindowPassedOver
  <2>2. CASE enabled' = TRUE /\ nextDailyWindow' = day /\ since' = day
    BY <1>1, <1>2, <2>2 DEF NoWindowPassedOver, NoDate
  <2>3. CASE enabled' = FALSE /\ since' = NoDate
    BY <2>3 DEF NoWindowPassedOver
  <2> QED BY <2>1, <2>2, <2>3 DEF OwnerEdits, Connect, Replace, Remove, Resume, Pause
<1>10. ASSUME NEW fence \in Nat, NEW profiles, PastFence(fence, profiles)
      PROVE  PastFence(fence, profiles)'
  <2>1. runFence \in Nat
    BY DEF IInv, TypeOK
  <2>2. CASE \E p \in Profile : Connect(p)
    BY <1>10, <2>1, <2>2 DEF Connect, PastFence, Current
  <2>3. CASE Resume
    BY <1>10, <2>1, <2>3 DEF Resume, PastFence, Current
  <2>4. CASE Pause \/ \E p \in Profile : Remove(p) \/ \E q \in Profile : Replace(p, q)
    BY <1>10, <2>1, <2>4 DEF Pause, Remove, Replace, PastFence, Current
  <2> QED BY <2>2, <2>3, <2>4 DEF OwnerEdits
<1>11. FenceInvariant'
  <2>1. \A w \in Window : run[w].runFence \in Nat
    BY DEF IInv, TypeOK, RunDocument
  <2>2. \A t \in Task : task[t].snapshot.runFence \in Nat
    BY DEF IInv, TypeOK, TaskState, Snapshot
  <2>3. \A w \in Window : run'[w].status # "absent" =>
          PastFence(run[w].runFence, run[w].connections)'
    BY <1>1, <1>10, <2>1 DEF IInv, FenceInvariant
  <2>4. \A t \in Task : task'[t].snapshot.next # NoDate =>
          PastFence(task[t].snapshot.runFence, task[t].snapshot.connections)'
    BY <1>1, <1>10, <2>2 DEF IInv, FenceInvariant
  <2> QED BY <1>1, <2>3, <2>4 DEF FenceInvariant
<1> QED BY <1>6, <1>7, <1>8, <1>9, <1>11 DEF IInv

(* Time, and leases and deadlines that run out.                            *)
LEMMA TimeKeepsIInv ==
    ASSUME IInv,
           ClockAdvances \/ \E w \in Window : LeaseExpires(w) \/ ReopenedDeadlinePasses(w)
    PROVE  IInv'
<1>1. CASE ClockAdvances
  <2>1. UNCHANGED <<enabled, connections, nextDailyWindow, runFence, since,
                    run, digest, card, task>>
    BY <1>1 DEF ClockAdvances, ownerVars, archiveVars
  <2>2. day' \in 1..(LastWindow + 1) /\ stage' \in {"grace", "due", "missed"} /\ day <= day'
    BY <1>1, BoundAssumption DEF ClockAdvances, IInv, TypeOK
  <2>3. TypeOK' /\ OwnerWellFormed' /\ LeaseInvariant' /\ FenceInvariant'
    BY <2>1, <2>2 DEF IInv, TypeOK, OwnerWellFormed, LeaseInvariant, FenceInvariant,
                      PastFence, Current
  <2>4. TaskWellFormed'
    <3>1. \A t \in Task : task[t].window \in 0..LastWindow
      BY DEF IInv, TypeOK, TaskState
    <3> QED BY <2>1, <2>2, <3>1, BoundAssumption DEF IInv, TypeOK, TaskWellFormed
  <2>5. NoWindowPassedOver'
    BY <2>1, <2>2, BoundAssumption DEF IInv, TypeOK, NoWindowPassedOver
  <2> QED BY <2>3, <2>4, <2>5 DEF IInv
<1>2. ASSUME NEW v \in Window, LeaseExpires(v) \/ ReopenedDeadlinePasses(v)
      PROVE  IInv'
  <2>1. UNCHANGED <<enabled, connections, nextDailyWindow, runFence, since, day, stage,
                    digest, card, task>>
    BY <1>2 DEF LeaseExpires, ReopenedDeadlinePasses, ownerVars, clockVars, archiveVars
  <2> DEFINE expired == [run[v] EXCEPT !.expired = TRUE]
             late == [run[v] EXCEPT !.late = TRUE]
  <2>2. run' \in [Window -> RunDocument]
    <3>1. expired \in RunDocument /\ late \in RunDocument
      BY DEF IInv, TypeOK, RunDocument
    <3>2. run' = [run EXCEPT ![v] = expired] \/ run' = [run EXCEPT ![v] = late]
      BY <1>2 DEF LeaseExpires, ReopenedDeadlinePasses
    <3> HIDE DEF expired, late
    <3> QED BY <3>1, <3>2 DEF IInv, TypeOK
  <2>3. \A w \in Window : /\ run'[w].status = run[w].status
                          /\ run'[w].token = run[w].token
                          /\ run'[w].runFence = run[w].runFence
                          /\ run'[w].connections = run[w].connections
                          /\ run'[w].regenerations = run[w].regenerations
    BY <1>2 DEF LeaseExpires, ReopenedDeadlinePasses, IInv, TypeOK, RunDocument
  <2>4. TypeOK' /\ OwnerWellFormed'
    BY <2>1, <2>2 DEF IInv, TypeOK, OwnerWellFormed
  <2>5. TaskWellFormed'
    BY <2>1, <2>3 DEF IInv, TaskWellFormed, Executing
  <2>6. FenceInvariant'
    BY <2>1, <2>3 DEF IInv, FenceInvariant, PastFence, Current
  <2>7. LeaseInvariant'
    BY <2>1, <2>3 DEF IInv, LeaseInvariant
  <2>8. NoWindowPassedOver'
    <3>1. \A w \in since..(nextDailyWindow - 1) : enabled => w \in Window
      BY BoundAssumption DEF IInv, TypeOK, OwnerWellFormed, Window, NoDate
    <3> QED BY <2>1, <2>3, <3>1 DEF IInv, NoWindowPassedOver
  <2> QED BY <2>4, <2>5, <2>6, <2>7, <2>8 DEF IInv
<1> QED BY <1>1, <1>2

(* Steps that leave every Run alone and start, or end, a task's loop.      *)
LEMMA ReadKeepsIInv ==
    ASSUME IInv, NEW t \in Task, ReadState(t) \/ RequestRegeneration(t)
    PROVE  IInv'
<1>1. UNCHANGED <<enabled, connections, nextDailyWindow, runFence, since, day, stage,
                  run, digest, card>>
  BY DEF ReadState, RequestRegeneration, ownerVars, clockVars, archiveVars
<1> DEFINE snap == [runFence |-> runFence, connections |-> connections,
                    next |-> nextDailyWindow]
<1>2. /\ snap \in Snapshot
      /\ enabled => PastFence(snap.runFence, snap.connections)
  BY DEF IInv, TypeOK, Snapshot, PastFence, Current
<1>3. PICK s \in TaskState :
        /\ task' = [task EXCEPT ![t] = s]
        /\ s.pc # "idle" => s.window \in Window
        /\ s.pc \in {"idle", "claim", "skip", "reopen"} /\ s.token = 0
        /\ s.pc \in {"claim", "skip"} => s.snapshot.next # NoDate /\ s.window < day
        /\ s.snapshot.next # NoDate =>
               PastFence(s.snapshot.runFence, s.snapshot.connections)
  <2>1. CASE ReadState(t)
    <3>1. enabled /\ task' = [task EXCEPT ![t] = LoopState(snap)]
      BY <2>1 DEF ReadState, Set
    <3>2. NoSnapshot.next = NoDate
      BY DEF NoSnapshot
    <3>3. LoopState(snap).snapshot.next # NoDate => LoopState(snap).snapshot = snap
      BY <1>2, <3>1, <3>2, LoopStateShape DEF IInv
    <3> QED BY <1>2, <3>1, <3>3, LoopStateShape DEF IInv
  <2>2. CASE RequestRegeneration(t)
    <3>1. PICK w \in Window :
            task' = [task EXCEPT ![t] = [Idle EXCEPT !.pc = "reopen", !.window = w]]
      BY <2>2 DEF RequestRegeneration, Set
    <3> DEFINE s == [Idle EXCEPT !.pc = "reopen", !.window = w]
    <3>2. s \in TaskState
      BY WindowFacts, ConstantTypes DEF TaskState, PC
    <3>3. s.pc = "reopen" /\ s.window = w /\ s.token = 0 /\ s.snapshot.next = NoDate
      BY DEF Idle, NoSnapshot
    <3> QED BY <3>1, <3>2, <3>3
  <2> QED BY <2>1, <2>2
<1>4. task'[t] = s /\ \A u \in Task : u # t => task'[u] = task[u]
  BY <1>3 DEF IInv, TypeOK
<1>5. TypeOK' /\ OwnerWellFormed' /\ NoWindowPassedOver'
  BY <1>1, <1>3 DEF IInv, TypeOK, OwnerWellFormed, NoWindowPassedOver
<1>6. TaskWellFormed'
  BY <1>1, <1>3, <1>4 DEF IInv, TaskWellFormed, Executing
<1>7. FenceInvariant'
  BY <1>1, <1>3, <1>4 DEF IInv, FenceInvariant, PastFence, Current
<1>8. LeaseInvariant'
  BY <1>1, <1>3, <1>4 DEF IInv, LeaseInvariant
<1> QED BY <1>5, <1>6, <1>7, <1>8 DEF IInv

(* create(): the first claim of a window is the only one.                  *)
LEMMA ClaimKeepsIInv ==
    ASSUME IInv, NEW t \in Task, Claim(t)
    PROVE  IInv'
<1> DEFINE w == task[t].window
           snap == task[t].snapshot
           created == run[w].status = "absent"
           granted == created /\ task[t].pc = "claim"
           s == [task[t] EXCEPT !.pc = "advance", !.token = IF granted THEN 1 ELSE 0]
<1>1. UNCHANGED <<enabled, connections, nextDailyWindow, runFence, since, day, stage,
                  digest, card>>
  BY DEF Claim, ownerVars, clockVars, archiveVars
<1>2. /\ w \in Window /\ task[t] \in TaskState /\ snap \in Snapshot
      /\ snap.next # NoDate /\ w < day
      /\ PastFence(snap.runFence, snap.connections)
  BY DEF IInv, TypeOK, TaskWellFormed, FenceInvariant, TaskState, Claim
<1>3. task' = [task EXCEPT ![t] = s]
  BY DEF Claim, Set
<1>4. /\ s \in TaskState /\ s.pc = "advance" /\ s.window = w /\ s.snapshot = snap
      /\ s.token = IF granted THEN 1 ELSE 0
  BY <1>2 DEF TaskState, PC
<1>5. task'[t] = s /\ \A u \in Task : u # t => task'[u] = task[u]
  BY <1>3 DEF IInv, TypeOK
<1>6. PICK r \in RunDocument :
        /\ run' = [run EXCEPT ![w] = r] /\ r.status # "absent"
        /\ ~created => r = run[w]
        /\ created => r.runFence = snap.runFence /\ r.connections = snap.connections
        /\ created /\ r.status = "active" => granted /\ r.token = 1
  <2>1. CASE created /\ task[t].pc = "skip"
    <3>1. run' = [run EXCEPT ![w] = SkippedRun(snap)]
      BY <2>1 DEF Claim
    <3>2. SkippedRun(snap) \in RunDocument
      BY <1>2, ConstantTypes DEF SkippedRun, RunDocument, Completed, Snapshot
    <3>3. /\ SkippedRun(snap).status = "skipped"
          /\ SkippedRun(snap).runFence = snap.runFence
          /\ SkippedRun(snap).connections = snap.connections
      BY DEF SkippedRun, NoRun
    <3> QED BY <2>1, <3>1, <3>2, <3>3
  <2>2. CASE granted
    <3>1. run' = [run EXCEPT ![w] = ClaimedRun(t, snap)]
      BY <2>2 DEF Claim
    <3>2. HolderOf[t] \in Holder
      BY TaskAssumption
    <3>3. ClaimedRun(t, snap) \in RunDocument
      BY <1>2, <3>2, ConstantTypes DEF ClaimedRun, RunDocument, Snapshot
    <3>4. /\ ClaimedRun(t, snap).status = "active" /\ ClaimedRun(t, snap).token = 1
          /\ ClaimedRun(t, snap).runFence = snap.runFence
          /\ ClaimedRun(t, snap).connections = snap.connections
      BY DEF ClaimedRun, NoRun
    <3> QED BY <2>2, <3>1, <3>3, <3>4
  <2>3. CASE ~created
    <3>1. run' = [run EXCEPT ![w] = run[w]] /\ run[w] \in RunDocument
      BY <1>2, <2>3 DEF Claim, IInv, TypeOK
    <3> QED BY <2>3, <3>1
  <2> QED BY <2>1, <2>2, <2>3 DEF Claim
<1>7. run'[w] = r /\ \A v \in Window : v # w => run'[v] = run[v]
  BY <1>2, <1>6 DEF IInv, TypeOK
<1>8. TypeOK' /\ OwnerWellFormed'
  BY <1>1, <1>3, <1>4, <1>6 DEF IInv, TypeOK, OwnerWellFormed
<1>9. TaskWellFormed'
  <2> SUFFICES ASSUME NEW u \in Task
               PROVE  LET x == task'[u]
                      IN  /\ x.pc # "idle" => x.window \in Window
                          /\ x.pc \in {"claim", "skip", "advance"} =>
                                 x.snapshot.next # NoDate /\ x.window < day
                          /\ x.pc = "advance" => run'[x.window].status # "absent"
                          /\ x.pc = "complete" => x.outcome # "none"
                          /\ x.token # 0 => x.pc \in Executing \cup {"advance"}
                          /\ x.pc \in Executing => x.token # 0
    BY <1>1 DEF TaskWellFormed
  <2> HIDE DEF s
  <2>1. CASE u = t
    BY <1>2, <1>4, <1>5, <1>6, <1>7, <2>1 DEF Executing
  <2>2. CASE u # t
    BY <1>2, <1>5, <1>6, <1>7, <2>2 DEF IInv, TaskWellFormed
  <2> QED BY <2>1, <2>2
<1>10. FenceInvariant'
  <2> HIDE DEF s
  <2>1. \A v \in Window : run'[v].status # "absent" =>
          PastFence(run'[v].runFence, run'[v].connections)
    BY <1>2, <1>6, <1>7 DEF IInv, FenceInvariant
  <2>2. \A u \in Task : task'[u].snapshot = task[u].snapshot
    BY <1>4, <1>5
  <2> QED BY <1>1, <2>1, <2>2 DEF IInv, FenceInvariant, PastFence, Current
<1>11. LeaseInvariant'
  <2> HIDE DEF s
  <2>1. CASE created
    <3>1. \A u \in Task : u # t /\ task'[u].window = w => task'[u].token = 0
      BY <1>2, <1>5, <2>1 DEF IInv, LeaseInvariant
    <3> QED BY <1>2, <1>4, <1>5, <1>6, <1>7, <2>1, <3>1 DEF IInv, LeaseInvariant
  <2>2. CASE ~created
    <3>1. task'[t].token = 0 /\ \A v \in Window : run'[v] = run[v]
      BY <1>4, <1>5, <1>6, <1>7, <2>2
    <3> QED BY <1>5, <3>1 DEF IInv, LeaseInvariant
  <2> QED BY <2>1, <2>2
<1>12. NoWindowPassedOver'
  <2>1. \A v \in since..(nextDailyWindow - 1) : enabled => v \in Window
    BY BoundAssumption DEF IInv, TypeOK, OwnerWellFormed, Window, NoDate
  <2>2. \A v \in Window : run[v].status # "absent" => run'[v].status # "absent"
    BY <1>6, <1>7
  <2> QED BY <1>1, <2>1, <2>2 DEF IInv, NoWindowPassedOver
<1> QED BY <1>8, <1>9, <1>10, <1>11, <1>12 DEF IInv

(* advance_daily_window: the window is passed only once it has a Run.      *)
LEMMA AdvanceKeepsIInv ==
    ASSUME IInv, NEW t \in Task, Advance(t)
    PROVE  IInv'
<1> DEFINE w == task[t].window
           snap == [runFence |-> runFence, connections |-> connections, next |-> w + 1]
<1>1. UNCHANGED <<enabled, connections, runFence, since, day, stage, run, digest, card>>
  BY DEF Advance, clockVars, archiveVars
<1>2. /\ w \in Window /\ w < day /\ task[t] \in TaskState
      /\ w \in 0..LastWindow /\ w # 0 /\ w + 1 \in 0..(LastWindow + 1) /\ w + 1 # NoDate
      /\ run[w].status # "absent" /\ day \in 1..(LastWindow + 1) /\ runFence \in Nat
  <2>1. /\ task[t] \in TaskState /\ day \in 1..(LastWindow + 1) /\ runFence \in Nat
        /\ w \in Window /\ w < day /\ run[w].status # "absent"
    BY DEF IInv, TypeOK, TaskWellFormed, Advance
  <2> HIDE DEF w
  <2> QED BY <2>1, BoundAssumption DEF Window, NoDate
<1>3. CASE nextDailyWindow \notin {w, w + 1}
  <2>1. UNCHANGED <<nextDailyWindow, enabled, connections, runFence, since>>
        /\ UNCHANGED <<day, stage, run, digest, card>>
        /\ task' = [task EXCEPT ![t] = Idle]
    BY <1>1, <1>3 DEF Advance, Abort, Set
  <2>2. ExecuteEffect(t)
    BY <2>1, IdleContinues, TaskOnlyEffect DEF IInv, Base, ownerVars, clockVars, archiveVars
  <2> QED BY <2>2, ExecuteKeepsIInv
<1>4. CASE nextDailyWindow \in {w, w + 1}
  <2>1. enabled /\ snap \in Snapshot /\ PastFence(snap.runFence, snap.connections)
    BY <1>2, <1>4 DEF IInv, TypeOK, OwnerWellFormed, NoDate, Snapshot, PastFence, Current
  <2>2. nextDailyWindow' = w + 1
    BY <1>4 DEF Advance
  <2> DEFINE onward == [task[t] EXCEPT !.pc = "check", !.snapshot = snap]
  <2>3. PICK s \in TaskState :
          /\ task' = [task EXCEPT ![t] = s]
          /\ s.pc # "idle" => s.window \in Window
          /\ s.pc \in {"idle", "claim", "skip", "check"}
          /\ s.pc \in {"claim", "skip"} => s.snapshot.next # NoDate /\ s.window < day
          /\ s.token # 0 => /\ s.pc = "check"
                            /\ s.token = task[t].token /\ s.window = w
          /\ s.pc = "check" => s.token # 0
          /\ s.snapshot.next # NoDate =>
                 PastFence(s.snapshot.runFence, s.snapshot.connections)
    <3>1. CASE task[t].token # 0
      <4>1. task' = [task EXCEPT ![t] = onward]
        BY <1>4, <3>1 DEF Advance, Set
      <4>2. /\ onward \in TaskState /\ onward.pc = "check" /\ onward.window = w
            /\ onward.token = task[t].token /\ onward.snapshot = snap
        BY <1>2, <2>1 DEF TaskState, PC
      <4> HIDE DEF onward
      <4> QED BY <1>2, <2>1, <3>1, <4>1, <4>2
    <3>2. CASE task[t].token = 0
      <4> DEFINE looped == LoopState(snap)
      <4>1. task' = [task EXCEPT ![t] = looped]
        BY <1>4, <3>2 DEF Advance, Set
      <4>2. looped.snapshot.next # NoDate => looped.snapshot = snap
        BY <2>1, LoopStateShape DEF IInv, NoSnapshot
      <4>3. /\ looped \in TaskState /\ looped.token = 0
            /\ looped.pc \in {"idle", "claim", "skip"}
            /\ looped.pc \in {"claim", "skip"} =>
                   /\ looped.window \in Window /\ looped.window < day
                   /\ looped.snapshot.next # NoDate
        BY <2>1, LoopStateShape DEF IInv
      <4> HIDE DEF looped, snap, onward
      <4> QED BY <2>1, <4>1, <4>2, <4>3
    <3> QED BY <3>1, <3>2
  <2>4. task'[t] = s /\ \A u \in Task : u # t => task'[u] = task[u]
    BY <2>3 DEF IInv, TypeOK
  <2>5. TypeOK' /\ OwnerWellFormed'
    BY <1>1, <1>2, <2>1, <2>2, <2>3 DEF IInv, TypeOK, OwnerWellFormed
  <2>6. TaskWellFormed'
    BY <1>1, <2>3, <2>4 DEF IInv, TaskWellFormed, Executing
  <2>7. FenceInvariant'
    BY <1>1, <2>3, <2>4 DEF IInv, FenceInvariant, PastFence, Current
  <2>8. LeaseInvariant'
    BY <1>1, <2>3, <2>4 DEF IInv, LeaseInvariant
  <2>9. NoWindowPassedOver'
    <3>1. since <= w + 1 /\ w + 1 <= day
      BY <1>2, <1>4, <2>1 DEF IInv, TypeOK, NoWindowPassedOver
    <3>2. ASSUME NEW v \in since..w
          PROVE  run[v].status # "absent"
      BY <1>2, <1>4, <2>1, <3>2 DEF IInv, TypeOK, NoWindowPassedOver
    <3>3. since..((w + 1) - 1) = since..w
      BY <1>2
    <3> QED BY <1>1, <2>1, <2>2, <3>1, <3>2, <3>3 DEF IInv, NoWindowPassedOver
  <2> QED BY <2>5, <2>6, <2>7, <2>8, <2>9 DEF IInv
<1> QED BY <1>3, <1>4

(* A grant of the lease to t, by a takeover or by an Administrator.        *)
LEMMA GrantKeepsIInv ==
    ASSUME IInv, NEW t \in Task,
           (\E w \in Window : TakeOver(t, w))
           \/ (ReopenForRegeneration(t) /\ run' # run)
    PROVE  IInv'
<1>1. UNCHANGED <<enabled, connections, nextDailyWindow, runFence, since, day, stage,
                  digest, card>>
  BY DEF TakeOver, ReopenForRegeneration, ownerVars, clockVars, archiveVars
<1>2. HolderOf[t] \in Holder
  BY TaskAssumption
<1>3. PICK w \in Window, s \in TaskState, r \in RunDocument :
        /\ task' = [task EXCEPT ![t] = s] /\ run' = [run EXCEPT ![w] = r]
        /\ s.pc = "check" /\ s.window = w /\ s.token = r.token /\ s.token # 0
        /\ s.snapshot \in {task[t].snapshot, NoSnapshot}
        /\ run[w].status # "absent" /\ r.status = "active"
        /\ r.runFence = run[w].runFence /\ r.connections = run[w].connections
        /\ \/ r.regenerations # 0
           \/ /\ run[w].status = "active" /\ run[w].regenerations = 0
              /\ r.token = run[w].token + 1
  <2>1. ASSUME NEW w \in Window, TakeOver(t, w)
        PROVE  \E s \in TaskState, r \in RunDocument :
                 /\ task' = [task EXCEPT ![t] = s] /\ run' = [run EXCEPT ![w] = r]
                 /\ s.pc = "check" /\ s.window = w /\ s.token = r.token /\ s.token # 0
                 /\ s.snapshot \in {task[t].snapshot, NoSnapshot}
                 /\ run[w].status # "absent" /\ r.status = "active"
                 /\ r.runFence = run[w].runFence /\ r.connections = run[w].connections
                 /\ \/ r.regenerations # 0
                    \/ /\ run[w].status = "active" /\ run[w].regenerations = 0
                       /\ r.token = run[w].token + 1
    <3> DEFINE r == [run[w] EXCEPT !.holder = HolderOf[t], !.token = run[w].token + 1,
                                   !.expired = FALSE, !.takeovers = run[w].takeovers + 1]
               s == [Idle EXCEPT !.pc = "check", !.window = w, !.token = run[w].token + 1]
    <3>1. /\ run[w] \in RunDocument /\ run[w].status = "active"
          /\ run[w].token + 1 \in Nat \ {0} /\ run[w].takeovers + 1 \in Nat
      <4>1. run[w] \in RunDocument /\ run[w].status = "active"
        BY <2>1 DEF TakeOver, IInv, TypeOK
      <4> QED BY <4>1 DEF RunDocument
    <3>2. r \in RunDocument
      BY <1>2, <3>1 DEF RunDocument
    <3>3. /\ r.status = "active" /\ r.token = run[w].token + 1
          /\ r.runFence = run[w].runFence /\ r.connections = run[w].connections
          /\ r.regenerations = run[w].regenerations
      BY <3>1 DEF RunDocument
    <3>4. s \in TaskState
      BY <3>1, WindowFacts, ConstantTypes DEF TaskState, PC
    <3>5. s.pc = "check" /\ s.window = w /\ s.token = r.token /\ s.snapshot = NoSnapshot
      BY <3>3 DEF Idle
    <3>6. task' = [task EXCEPT ![t] = s] /\ run' = [run EXCEPT ![w] = r]
      BY <2>1, <3>1 DEF TakeOver, Set, IInv, TypeOK
    <3> HIDE DEF r, s
    <3> QED BY <3>1, <3>2, <3>3, <3>4, <3>5, <3>6
  <2>2. ASSUME ReopenForRegeneration(t), run' # run
        PROVE  \E w \in Window, s \in TaskState, r \in RunDocument :
                 /\ task' = [task EXCEPT ![t] = s] /\ run' = [run EXCEPT ![w] = r]
                 /\ s.pc = "check" /\ s.window = w /\ s.token = r.token /\ s.token # 0
                 /\ s.snapshot \in {task[t].snapshot, NoSnapshot}
                 /\ run[w].status # "absent" /\ r.status = "active"
                 /\ r.runFence = run[w].runFence /\ r.connections = run[w].connections
                 /\ r.regenerations # 0
    <3> DEFINE w == task[t].window
               r == [run[w] EXCEPT !.status = "active", !.holder = HolderOf[t], !.token = 1,
                                   !.games = NoSelection,
                                   !.regenerations = run[w].regenerations + 1]
               s == [task[t] EXCEPT !.pc = "check", !.token = 1]
    <3>1. /\ w \in Window /\ task[t] \in TaskState /\ run[w] \in RunDocument
          /\ run[w].status # "absent"
      BY <2>2 DEF ReopenForRegeneration, IInv, TypeOK, TaskWellFormed, Visible
    <3>2. r \in RunDocument
      <4>1. run[w].regenerations + 1 \in Nat
        BY <3>1 DEF RunDocument
      <4> QED BY <1>2, <3>1, <4>1, ConstantTypes DEF RunDocument
    <3>3. /\ r.status = "active" /\ r.token = 1
          /\ r.runFence = run[w].runFence /\ r.connections = run[w].connections
          /\ r.regenerations # 0
      BY <3>1 DEF RunDocument
    <3>4. /\ s \in TaskState /\ s.pc = "check" /\ s.window = w /\ s.token = 1
          /\ s.snapshot = task[t].snapshot
      BY <3>1 DEF TaskState, PC
    <3>5. task' = [task EXCEPT ![t] = s] /\ run' = [run EXCEPT ![w] = r]
      <4>1. Visible(w) /\ Readable(w) /\ run[w].regenerations < MaxRegenerations
        BY <2>2 DEF ReopenForRegeneration
      <4> QED BY <2>2, <3>1, <4>1 DEF ReopenForRegeneration, Set, IInv, TypeOK
    <3>6. s.token # 0
      BY <3>4
    <3> HIDE DEF r, s
    <3> QED BY <3>1, <3>2, <3>3, <3>4, <3>5, <3>6
  <2> QED BY <2>1, <2>2
<1>4. /\ task'[t] = s /\ \A u \in Task : u # t => task'[u] = task[u]
      /\ run'[w] = r /\ \A v \in Window : v # w => run'[v] = run[v]
  BY <1>3 DEF IInv, TypeOK
<1>5. TypeOK' /\ OwnerWellFormed'
  BY <1>1, <1>3 DEF IInv, TypeOK, OwnerWellFormed
<1>6. TaskWellFormed'
  <2>1. \A v \in Window : run[v].status # "absent" => run'[v].status # "absent"
    BY <1>3, <1>4
  <2>2. \A u \in Task : u # t =>
          /\ task[u].pc # "idle" => task[u].window \in Window
          /\ task[u].pc \in {"claim", "skip", "advance"} =>
                 task[u].snapshot.next # NoDate /\ task[u].window < day
          /\ task[u].pc = "advance" => run'[task[u].window].status # "absent"
          /\ task[u].pc = "complete" => task[u].outcome # "none"
          /\ task[u].token # 0 => task[u].pc \in Executing \cup {"advance"}
          /\ task[u].pc \in Executing => task[u].token # 0
    BY <2>1 DEF IInv, TaskWellFormed
  <2> QED BY <1>1, <1>3, <1>4, <2>2 DEF TaskWellFormed, Executing
<1>7. FenceInvariant'
  BY <1>1, <1>3, <1>4 DEF IInv, FenceInvariant, PastFence, Current, NoSnapshot
<1>8. LeaseInvariant'
  <2>1. run[w].token \in Nat /\ \A u \in Task : task[u].token \in Nat
    BY DEF IInv, TypeOK, RunDocument, TaskState
  <2>2. CASE r.regenerations # 0
    BY <1>3, <1>4, <2>2 DEF IInv, LeaseInvariant
  <2>3. CASE /\ run[w].status = "active" /\ run[w].regenerations = 0
             /\ r.token = run[w].token + 1
    <3>1. \A u \in Task : task[u].window = w /\ task[u].token # 0 => task[u].token < r.token
      BY <2>1, <2>3 DEF IInv, LeaseInvariant
    <3>2. \A u \in Task : task'[u].window = w /\ task'[u].token # 0 =>
            /\ task'[u].token <= r.token
            /\ \A x \in Task : task'[x].window = w /\ task'[x].token = task'[u].token => x = u
      BY <1>3, <1>4, <2>1, <2>3, <3>1 DEF IInv, LeaseInvariant
    <3>3. \A v \in Window, u \in Task : v # w /\ task'[u].window = v =>
            u # t /\ task'[u] = task[u] /\ run'[v] = run[v]
      BY <1>3, <1>4
    <3>4. \A v \in Window, u \in Task : v # w /\ task'[u].window = v /\ task'[u].token # 0 =>
            /\ run'[v].status # "absent"
            /\ run'[v].status = "active" /\ run'[v].regenerations = 0 =>
                 /\ task'[u].token <= run'[v].token
                 /\ \A x \in Task : task'[x].window = v /\ task'[x].token = task'[u].token
                      => x = u
      BY <3>3 DEF IInv, LeaseInvariant
    <3> QED BY <1>3, <1>4, <3>2, <3>4 DEF LeaseInvariant
  <2> QED BY <1>3, <2>2, <2>3
<1>9. NoWindowPassedOver'
  <2>1. \A v \in since..(nextDailyWindow - 1) : enabled => v \in Window
    BY BoundAssumption DEF IInv, TypeOK, OwnerWellFormed, Window, NoDate
  <2>2. \A v \in Window : run[v].status # "absent" => run'[v].status # "absent"
    BY <1>3, <1>4
  <2> QED BY <1>1, <2>1, <2>2 DEF IInv, NoWindowPassedOver
<1> QED BY <1>5, <1>6, <1>7, <1>8, <1>9 DEF IInv

LEMMA NextKeepsIInv ==
    ASSUME IInv, [Next]_vars
    PROVE  IInv'
<1>1. ASSUME NEW t \in Task, TaskStep(t)
      PROVE  IInv'
  <2>1. CASE ExecuteStep(t) \/ Heartbeat(t) \/ Fail(t)
    BY <2>1, ExecuteStepEffect, ExecuteKeepsIInv DEF IInv, Base
  <2>2. CASE ReadState(t) \/ RequestRegeneration(t)
    BY <2>2, ReadKeepsIInv
  <2>3. CASE Claim(t)
    BY <2>3, ClaimKeepsIInv
  <2>4. CASE Advance(t)
    BY <2>4, AdvanceKeepsIInv
  <2>5. CASE \E w \in Window : TakeOver(t, w)
    BY <2>5, GrantKeepsIInv
  <2>6. CASE ReopenForRegeneration(t) /\ run' # run
    BY <2>6, GrantKeepsIInv
  <2>7. CASE ReopenForRegeneration(t) /\ run' = run
    <3>1. /\ run[task[t].window] \in RunDocument
          /\ run[task[t].window].regenerations + 1 # run[task[t].window].regenerations
      <4>1. run[task[t].window] \in RunDocument
        BY <2>7 DEF IInv, TypeOK, TaskWellFormed, ReopenForRegeneration
      <4> QED BY <4>1 DEF RunDocument
    <3>2. run'[task[t].window].regenerations # run[task[t].window].regenerations \/ Abort(t)
      BY <2>7, <3>1 DEF ReopenForRegeneration, IInv, TypeOK, TaskWellFormed, RunDocument
    <3>3. Abort(t) /\ UNCHANGED <<ownerVars, clockVars, run, archiveVars>>
      BY <2>7, <3>2 DEF ReopenForRegeneration
    <3> QED BY <3>3, RefusedEffect, ExecuteKeepsIInv DEF IInv, Base
  <2> QED BY <1>1, <2>1, <2>2, <2>3, <2>4, <2>5, <2>6, <2>7 DEF TaskStep
<1>2. CASE UNCHANGED vars
  BY <1>2 DEF vars, ownerVars, clockVars, archiveVars, IInv, TypeOK, OwnerWellFormed,
              TaskWellFormed, FenceInvariant, PastFence, Current, LeaseInvariant,
              NoWindowPassedOver
<1> QED BY <1>1, <1>2, OwnerKeepsIInv, TimeKeepsIInv DEF Next

-----------------------------------------------------------------------------
(* The theorems.                                                           *)

(* The inductive invariant holds throughout, and with it that every value  *)
(* has its type.                                                           *)
THEOREM Invariance == Spec => []IInv
<1>1. Init => IInv
  BY InitIInv
<1>2. IInv /\ [Next]_vars => IInv'
  BY NextKeepsIInv
<1> QED BY <1>1, <1>2, PTL DEF Spec

THEOREM TypeCorrect == Spec => []TypeOK
<1>1. IInv => TypeOK
  BY DEF IInv
<1> QED BY <1>1, Invariance, PTL

(* run_fence tells the enabled stretches apart: replacing, removing and    *)
(* pausing bump it whenever coaching is on (state.rs).                     *)
THEOREM FenceCorrect == Spec => []FenceMarksEnabledStretch
<1>1. IInv => FenceMarksEnabledStretch
  BY DEF IInv, FenceInvariant, PastFence, FenceMarksEnabledStretch
<1> QED BY <1>1, Invariance, PTL

(* Until an Administrator reopens a window, require_lease lets at most one *)
(* task through, even of tasks that share a holder_id (lease.rs).          *)
THEOREM LeaseCorrect == Spec => []UnregeneratedLeaseExclusive
<1>1. ASSUME IInv, NEW w \in Window, run[w].regenerations = 0,
             NEW t \in Task, NEW u \in Task, HoldsLease(t, w), HoldsLease(u, w)
      PROVE  t = u
  <2>1. /\ task[t].window = w /\ task[t].token # 0 /\ run[w].status = "active"
        /\ task[u].window = w /\ task[u].token = task[t].token
    BY <1>1 DEF IInv, TaskWellFormed, HoldsLease
  <2> QED BY <1>1, <2>1 DEF IInv, LeaseInvariant
<1>2. IInv => UnregeneratedLeaseExclusive
  BY <1>1 DEF UnregeneratedLeaseExclusive
<1> QED BY <1>2, Invariance, PTL

(* From the date coaching was switched on, every window that the state     *)
(* document has passed has a Run (lifecycle.rs process_player).            *)
THEOREM WindowsCorrect == Spec => []NoWindowPassedOver
<1>1. IInv => NoWindowPassedOver
  BY DEF IInv
<1> QED BY <1>1, Invariance, PTL

(* What each step may make of the Runs, for the action properties below:   *)
(* an execution only touches an active Run, and every grant of the lease   *)
(* has a later token.                                                      *)
LEMMA FinishedStays ==
    ASSUME IInv, [Next]_vars, NEW w \in Window,
           run[w].status \in Completed, run'[w] # run[w]
    PROVE  run'[w].regenerations = run[w].regenerations + 1
<1>1. run[w].status \notin {"active", "absent"}
  BY DEF Completed
<1>2. run \in [Window -> RunDocument]
  BY DEF IInv, TypeOK
<1>3. ASSUME NEW t \in Task, ExecuteStep(t) \/ Heartbeat(t) \/ Fail(t)
      PROVE  FALSE
  <2>1. PICK v \in Window, r \in RunDocument :
          run' = [run EXCEPT ![v] = r] /\ Evolves(run[v], r)
    BY <1>3, ExecuteStepEffect DEF ExecuteEffect, IInv, Base
  <2> QED BY <1>1, <1>2, <2>1 DEF Evolves
<1>4. ASSUME NEW t \in Task, ReadState(t) \/ RequestRegeneration(t) \/ Advance(t)
      PROVE  FALSE
  BY <1>4 DEF ReadState, RequestRegeneration, Advance
<1>5. ASSUME NEW t \in Task, Claim(t)
      PROVE  FALSE
  BY <1>1, <1>2, <1>5 DEF Claim, IInv, TaskWellFormed
<1>6. ASSUME NEW t \in Task, NEW v \in Window, TakeOver(t, v)
      PROVE  FALSE
  BY <1>1, <1>2, <1>6 DEF TakeOver
<1>7. ASSUME NEW t \in Task, ReopenForRegeneration(t)
      PROVE  run'[w].regenerations = run[w].regenerations + 1
  <2>1. task[t].window \in Window
    BY <1>7 DEF ReopenForRegeneration, IInv, TaskWellFormed
  <2> QED BY <1>2, <1>7, <2>1 DEF ReopenForRegeneration, RunDocument
<1>8. CASE ClockAdvances \/ OwnerEdits \/ UNCHANGED vars
  BY <1>8 DEF ClockAdvances, OwnerEdits, Connect, Replace, Remove, Resume, Pause, vars
<1>9. ASSUME NEW v \in Window, LeaseExpires(v) \/ ReopenedDeadlinePasses(v)
      PROVE  FALSE
  BY <1>1, <1>2, <1>9 DEF LeaseExpires, ReopenedDeadlinePasses
<1> QED BY <1>3, <1>4, <1>5, <1>6, <1>7, <1>8, <1>9 DEF Next, TaskStep

(* A finished Run is touched by nothing but an Administrator's             *)
(* regeneration, however late a stalled holder or a second claim arrives   *)
(* (runs.rs create, require_lease, reopen_for_regeneration).               *)
THEOREM FinalityCorrect == Spec => FinishedRunsAreFinal
<1>1. IInv /\ [Next]_vars =>
        [\A w \in Window : run[w].status \in Completed /\ run'[w] # run[w] =>
            run'[w].regenerations = run[w].regenerations + 1]_vars
  BY FinishedStays
<1> QED BY <1>1, Invariance, PTL DEF Spec, FinishedRunsAreFinal

(* Only publish_run writes a digest, with the lease and under the fence.   *)
LEMMA DigestWrittenUnfenced ==
    ASSUME IInv, [Next]_vars, NEW w \in Window, digest'[w] # digest[w]
    PROVE  \E t \in Task : HoldsLease(t, w) /\ ~Fenced(w)
<1>1. digest' # digest
  OBVIOUS
<1>2. ASSUME NEW t \in Task, Publish(t)
      PROVE  HoldsLease(t, w) /\ ~Fenced(w)
  <2>1. /\ digest' = [digest EXCEPT ![task[t].window] = Kept(task[t].window)]
        /\ HoldsLease(t, task[t].window) /\ ~Fenced(task[t].window)
    BY <1>1, <1>2 DEF Publish, AtStateFence, archiveVars
  <2>2. task[t].window = w
    BY <2>1 DEF IInv, TypeOK
  <2> QED BY <2>1, <2>2
<1>3. ASSUME NEW t \in Task, TaskStep(t), ~Publish(t)
      PROVE  FALSE
  BY <1>1, <1>3 DEF TaskStep, ExecuteStep, ReadState, Claim, Advance, Heartbeat, Fail,
     RequestRegeneration, ReopenForRegeneration, TakeOver, CheckFence, DeadlineReached,
     Select, FreezeSelection, RecordReviewed, ExhaustUnattempted, RecordRetryable,
     TerminalizeUnfinished, FinishReviewing, CompleteRun, RecordGame, AtStateFence,
     archiveVars
<1>4. CASE ClockAdvances \/ OwnerEdits \/ UNCHANGED vars
  BY <1>1, <1>4 DEF ClockAdvances, OwnerEdits, Connect, Replace, Remove, Resume, Pause,
                    vars, archiveVars
<1>5. ASSUME NEW v \in Window, LeaseExpires(v) \/ ReopenedDeadlinePasses(v)
      PROVE  FALSE
  BY <1>1, <1>5 DEF LeaseExpires, ReopenedDeadlinePasses, archiveVars
<1>6. PICK t \in Task : HoldsLease(t, w) /\ ~Fenced(w)
  BY <1>2, <1>3, <1>4, <1>5 DEF Next
<1> QED BY <1>6

(* Every digest is written while coaching is on and from profiles that are *)
(* connected at that moment: the fence check of publish_run and the        *)
(* invariant about the fence together (publication.rs, state.rs).          *)
THEOREM PublicationCorrect == Spec => PublishedFromConnectedProfiles
<1>1. ASSUME IInv, [Next]_vars, NEW w \in Window, digest'[w] # digest[w]
      PROVE  enabled /\ run[w].connections \subseteq connections
  <2>1. PICK t \in Task : HoldsLease(t, w) /\ ~Fenced(w)
    BY <1>1, DigestWrittenUnfenced
  <2> QED BY <1>1, <2>1 DEF IInv, FenceInvariant, PastFence, Current, Fenced, HoldsLease
<1>2. IInv /\ [Next]_vars =>
        [\A w \in Window : digest'[w] # digest[w] =>
            enabled /\ run[w].connections \subseteq connections]_vars
  BY <1>1
<1> QED BY <1>2, Invariance, PTL DEF Spec, PublishedFromConnectedProfiles

(* A task that lost its lease on a window fails require_lease for the rest *)
(* of its execution, unless the window is reopened (lease.rs, runs.rs).    *)
LEMMA LostStaysLost ==
    ASSUME IInv, [Next]_vars, NEW u \in Task, NEW w \in Window,
           task[u].pc \in Executing, task[u].window = w,
           task'[u].pc \in Executing, task'[u].window = w,
           run'[w].regenerations = 0, HoldsLease(u, w)'
    PROVE  HoldsLease(u, w)
<1>1. /\ run \in [Window -> RunDocument] /\ task \in [Task -> TaskState]
      /\ task[u].token # 0
      /\ run'[w].status = "active" /\ run'[w].holder = HolderOf[u]
      /\ run'[w].token = task'[u].token
  BY DEF IInv, TypeOK, TaskWellFormed, HoldsLease
<1>2. CASE /\ task'[u].token = task[u].token
           /\ run[w].status = "active" /\ run[w].token = run'[w].token
           /\ run[w].holder = run'[w].holder
  BY <1>1, <1>2 DEF HoldsLease
<1>3. ASSUME NEW t \in Task, ExecuteStep(t) \/ Heartbeat(t) \/ Fail(t)
      PROVE  HoldsLease(u, w)
  <2>1. ExecuteEffect(t)
    BY <1>3, ExecuteStepEffect DEF IInv, Base
  <2>2. PICK v \in Window, r \in RunDocument :
          run' = [run EXCEPT ![v] = r] /\ Evolves(run[v], r)
    BY <2>1 DEF ExecuteEffect
  <2>3. PICK s \in TaskState : task' = [task EXCEPT ![t] = s] /\ Continues(t, s)
    BY <2>1 DEF ExecuteEffect
  <2>4. /\ run[w].status = "active" /\ run[w].token = run'[w].token
        /\ run[w].holder = run'[w].holder
    BY <1>1, <2>2 DEF Evolves
  <2>5. task'[u].token = task[u].token
    BY <1>1, <2>3 DEF Continues
  <2> QED BY <1>2, <2>4, <2>5
<1>4. ASSUME NEW t \in Task, ReadState(t) \/ RequestRegeneration(t) \/ Advance(t)
      PROVE  HoldsLease(u, w)
  <2>1. run' = run /\ t # u
    BY <1>4 DEF ReadState, RequestRegeneration, Advance, Executing
  <2>2. task'[u] = task[u]
    BY <1>1, <1>4, <2>1 DEF ReadState, RequestRegeneration, Advance, Set, Abort
  <2> QED BY <1>1, <1>2, <2>1, <2>2
<1>5. ASSUME NEW t \in Task, Claim(t)
      PROVE  HoldsLease(u, w)
  <2>1. t # u /\ task[t].window \in Window
    BY <1>5 DEF Claim, Executing, IInv, TaskWellFormed
  <2>2. task'[u] = task[u]
    BY <1>1, <1>5, <2>1 DEF Claim, Set
  <2>3. run[w].status # "absent"
    BY <1>1 DEF IInv, LeaseInvariant
  <2>4. run'[w] = run[w]
    BY <1>1, <1>5, <2>1, <2>3 DEF Claim
  <2> QED BY <1>1, <1>2, <2>2, <2>4
<1>6. ASSUME NEW t \in Task, NEW v \in Window, TakeOver(t, v)
      PROVE  HoldsLease(u, w)
  <2>1. t # u
    BY <1>6 DEF TakeOver, Executing
  <2>2. task'[u] = task[u]
    BY <1>1, <1>6, <2>1 DEF TakeOver, Set
  <2>3. CASE v # w
    <3>1. run'[w] = run[w]
      BY <1>1, <1>6, <2>3 DEF TakeOver
    <3> QED BY <1>1, <1>2, <2>2, <3>1
  <2>4. CASE v = w
    <3>1. /\ run[w].status = "active" /\ run'[w].token = run[w].token + 1
          /\ run'[w].regenerations = run[w].regenerations
      BY <1>1, <1>6, <2>4 DEF TakeOver, RunDocument
    <3>2. task[u].token <= run[w].token /\ run[w].token \in Nat /\ task[u].token \in Nat
      BY <1>1, <3>1 DEF IInv, LeaseInvariant, RunDocument, TaskState
    <3> QED BY <1>1, <2>2, <3>1, <3>2
  <2> QED BY <2>3, <2>4
<1>7. ASSUME NEW t \in Task, ReopenForRegeneration(t)
      PROVE  HoldsLease(u, w)
  <2>1. t # u /\ task[t].window \in Window
    BY <1>7 DEF ReopenForRegeneration, Executing, IInv, TaskWellFormed
  <2>2. task'[u] = task[u]
    BY <1>1, <1>7, <2>1 DEF ReopenForRegeneration, Set, Abort
  <2>3. run'[w] = run[w]
    <3>1. run[task[t].window].regenerations + 1 # 0
      BY <1>1, <2>1 DEF RunDocument
    <3> QED BY <1>1, <1>7, <2>1, <3>1 DEF ReopenForRegeneration, RunDocument
  <2> QED BY <1>1, <1>2, <2>2, <2>3
<1>8. CASE ClockAdvances \/ OwnerEdits \/ UNCHANGED vars
  <2>1. run' = run /\ task' = task
    BY <1>8 DEF ClockAdvances, OwnerEdits, Connect, Replace, Remove, Resume, Pause, vars
  <2> QED BY <1>1, <1>2, <2>1
<1>9. ASSUME NEW v \in Window, LeaseExpires(v) \/ ReopenedDeadlinePasses(v)
      PROVE  HoldsLease(u, w)
  <2>1. /\ task' = task /\ run'[w].status = run[w].status
        /\ run'[w].token = run[w].token /\ run'[w].holder = run[w].holder
    <3>1. run' = [run EXCEPT ![v].expired = TRUE] \/ run' = [run EXCEPT ![v].late = TRUE]
      BY <1>9 DEF LeaseExpires, ReopenedDeadlinePasses
    <3>2. run[w] \in RunDocument /\ task' = task
      BY <1>1, <1>9 DEF LeaseExpires, ReopenedDeadlinePasses, IInv, TypeOK, TaskWellFormed
    <3>3. \/ run'[w] = run[w]
          \/ run'[w] = [run[w] EXCEPT !.expired = TRUE]
          \/ run'[w] = [run[w] EXCEPT !.late = TRUE]
      BY <1>1, <3>1
    <3> QED BY <3>2, <3>3 DEF RunDocument
  <2> QED BY <1>1, <1>2, <2>1
<1> QED BY <1>3, <1>4, <1>5, <1>6, <1>7, <1>8, <1>9 DEF Next, TaskStep

THEOREM LossCorrect == Spec => LostLeaseStaysLost
<1>1. IInv /\ [Next]_vars =>
        [\A t \in Task, w \in Window : ~RegainsLease(t, w)]_vars
  BY LostStaysLost DEF RegainsLease
<1> QED BY <1>1, Invariance, PTL DEF Spec, LostLeaseStaysLost

-----------------------------------------------------------------------------
(* The selections: what the holder of a lease remembers is what is stored, *)
(* so what it completes and publishes is valid.                            *)

(* What a stored Run promises of its selection until it is reopened.       *)
Sound(r) ==
    r.regenerations = 0 =>
        /\ r.status = "published" => Reviewed(r.games) # {} /\ Pending(r.games) = {}
        /\ r.status = "noDigest" => Pending(r.games) = {}
        /\ \A g \in Game : Budgeted(r.games[g].attempts)
RunsSound == \A w \in Window : Sound(run[w])

(* What a step of task t may make of the selections: it writes those of    *)
(* Runs it holds, soundly, and remembers what it wrote.                    *)
SelectionEffect(t) ==
    /\ \A u \in Task \ {t} : task'[u] = task[u]
    /\ \A v \in Window : run'[v] # run[v] =>
           /\ Sound(run'[v])
           /\ run'[v].regenerations = 0 /\ run[v].status = "active" =>
                  /\ run[v].regenerations = 0
                  /\ run'[v].games # run[v].games => HoldsLease(t, v)
    /\ task'[t].pc = "freeze" => \A g \in Game : task'[t].games[g].attempts = 0
    /\ \A v \in Window :
           HoldsLease(t, v)' /\ run'[v].regenerations = 0 => InSync(t, v)'

LEMMA OneHolder ==
    ASSUME IInv, NEW w \in Window, run[w].regenerations = 0,
           NEW t \in Task, NEW u \in Task, HoldsLease(t, w), HoldsLease(u, w)
    PROVE  t = u
<1>1. /\ task[t].window = w /\ task[t].token # 0 /\ run[w].status = "active"
      /\ task[u].window = w /\ task[u].token = task[t].token
  BY DEF IInv, TaskWellFormed, HoldsLease
<1> QED BY <1>1 DEF IInv, LeaseInvariant

(* Two holders do not write one Run's selection behind each other's back:  *)
(* before a window is reopened there is one.                               *)
LEMMA SelectionEffectKeeps ==
    ASSUME IInv, SelectionInvariant, RunsSound, [Next]_vars,
           NEW t \in Task, SelectionEffect(t)
    PROVE  SelectionInvariant' /\ RunsSound'
<1>1. RunsSound'
  BY DEF RunsSound, SelectionEffect
<1>2. ASSUME NEW u \in Task, task'[u].pc = "freeze"
      PROVE  \A g \in Game : task'[u].games[g].attempts = 0
  BY <1>2 DEF SelectionEffect, SelectionInvariant
<1>3. ASSUME NEW u \in Task, NEW w \in Window,
             HoldsLease(u, w)', run'[w].regenerations = 0
      PROVE  InSync(u, w)'
  <2>1. CASE u = t
    BY <1>3, <2>1 DEF SelectionEffect
  <2>2. CASE u # t
    <3>1. task'[u] = task[u]
      BY <2>2 DEF SelectionEffect
    <3>2. task'[u].pc \in Executing /\ task'[u].window = w
      BY <1>3 DEF HoldsLease
    <3>3. HoldsLease(u, w)
      BY <1>3, <3>1, <3>2, LostStaysLost
    <3>4. run[w].status = "active" /\ run[w].regenerations = 0
      BY <1>3, <3>3 DEF SelectionEffect, HoldsLease
    <3>5. run'[w].games = run[w].games
      <4>1. ~HoldsLease(t, w)
        BY <2>2, <3>3, <3>4, OneHolder
      <4> QED BY <1>3, <3>4, <4>1 DEF SelectionEffect
    <3>6. InSync(u, w)
      BY <3>3, <3>4 DEF SelectionInvariant
    <3> QED BY <3>1, <3>5, <3>6 DEF InSync, Pending
  <2> QED BY <2>1, <2>2
<1>4. SelectionInvariant'
  <2>1. \A u \in Task, w \in Window :
            HoldsLease(u, w)' /\ run'[w].regenerations = 0 => InSync(u, w)'
    BY <1>3
  <2>2. \A u \in Task : task'[u].pc = "freeze" =>
            \A g \in Game : task'[u].games[g].attempts = 0
    BY <1>2
  <2> QED BY <2>1, <2>2 DEF SelectionInvariant
<1> QED BY <1>1, <1>4

(* A task that is not at work on a selection is in sync with anything.     *)
LEMMA AwayFromSelection ==
    ASSUME NEW t \in Task,
           \A u \in Task \ {t} : task'[u] = task[u],
           task'[t].pc \notin {"freeze", "review", "terminalize", "publish"},
           \A v \in Window : run'[v] # run[v] =>
               /\ Sound(run'[v])
               /\ run'[v].regenerations = 0 /\ run[v].status = "active" =>
                      /\ run[v].regenerations = 0
                      /\ run'[v].games # run[v].games => HoldsLease(t, v)
    PROVE  SelectionEffect(t)
BY DEF SelectionEffect, InSync

(* The same, when it moves its own task and rewrites the Run it holds.     *)
LEMMA EndsAway ==
    ASSUME IInv, NEW t \in Task, NEW s, task' = [task EXCEPT ![t] = s],
           s.pc \notin {"freeze", "review", "terminalize", "publish"},
           NEW w \in Window, NEW r, run' = [run EXCEPT ![w] = r],
           HoldsLease(t, w), Sound(r), r.regenerations = run[w].regenerations
    PROVE  SelectionEffect(t)
<1>1. task'[t] = s /\ \A u \in Task \ {t} : task'[u] = task[u]
  BY DEF IInv, TypeOK
<1>2. run'[w] = r /\ \A v \in Window \ {w} : run'[v] = run[v]
  BY DEF IInv, TypeOK
<1> QED BY <1>1, <1>2, AwayFromSelection

LEMMA TaskGoesAway ==
    ASSUME IInv, NEW t \in Task, NEW s, task' = [task EXCEPT ![t] = s],
           s.pc \notin {"freeze", "review", "terminalize", "publish"},
           run' = run
    PROVE  SelectionEffect(t)
<1>1. task'[t] = s /\ \A u \in Task \ {t} : task'[u] = task[u]
  BY DEF IInv, TypeOK
<1> QED BY <1>1, AwayFromSelection

LEMMA LoopStateIsAway ==
    ASSUME NEW snap
    PROVE  /\ LoopState(snap).pc \in {"idle", "claim", "skip"}
           /\ Idle.pc = "idle"
<1>1. Idle.pc = "idle"
  BY DEF Idle
<1>2. [Idle EXCEPT !.pc = "skip", !.window = snap.next, !.snapshot = snap].pc = "skip"
  BY DEF Idle
<1>3. [Idle EXCEPT !.pc = "claim", !.window = snap.next, !.snapshot = snap].pc = "claim"
  BY DEF Idle
<1> QED BY <1>1, <1>2, <1>3 DEF LoopState

(* Refused or fenced, a task leaves its execution and the selection.       *)
LEMMA GuardedSelection ==
    ASSUME IInv, RunsSound, NEW t \in Task, task[t].window \in Window,
           \/ Abort(t) /\ UNCHANGED run
           \/ /\ HoldsLease(t, task[t].window)
              /\ run' = [run EXCEPT ![task[t].window] = CompletedRun(task[t].window, "fenced")]
              /\ Finish(t) \/ Abort(t)
           \/ Finish(t) /\ UNCHANGED run
    PROVE  SelectionEffect(t)
<1> DEFINE w == task[t].window
           r == CompletedRun(w, "fenced")
<1>1. \/ task' = [task EXCEPT ![t] = Idle]
      \/ task' = [task EXCEPT ![t] = LoopState(task[t].snapshot)]
  BY DEF Abort, Finish, Set
<1>2. PICK s : task' = [task EXCEPT ![t] = s] /\ s.pc \in {"idle", "claim", "skip"}
  BY <1>1, LoopStateIsAway
<1>3. CASE run' = run
  BY <1>2, <1>3, TaskGoesAway
<1>4. CASE HoldsLease(t, w) /\ run' = [run EXCEPT ![w] = r]
  <2>1. run[w] \in RunDocument /\ Sound(run[w])
    BY DEF IInv, TypeOK, RunsSound
  <2>2. /\ r.status = "fenced" /\ r.games = run[w].games
        /\ r.regenerations = run[w].regenerations
    BY <2>1 DEF CompletedRun, RunDocument
  <2>3. Sound(r)
    BY <2>1, <2>2 DEF Sound
  <2> HIDE DEF w, r
  <2> QED BY <1>2, <1>4, <2>2, <2>3, EndsAway DEF w
<1> QED BY <1>3, <1>4

(* A task that goes on with what its transaction stored is in sync.        *)
LEMMA GoesOnInSync ==
    ASSUME IInv, NEW t \in Task, NEW w \in Window, HoldsLease(t, w),
           NEW s, task' = [task EXCEPT ![t] = s], s.window = w,
           s.pc \in {"review", "terminalize"},
           NEW r, run' = [run EXCEPT ![w] = r], s.games = r.games,
           Sound(r), r.regenerations = run[w].regenerations
    PROVE  SelectionEffect(t)
<1>1. task'[t] = s /\ \A u \in Task \ {t} : task'[u] = task[u]
  BY DEF IInv, TypeOK
<1>2. run'[w] = r /\ \A v \in Window \ {w} : run'[v] = run[v]
  BY DEF IInv, TypeOK
<1>3. ASSUME NEW v \in Window, HoldsLease(t, v)'
      PROVE  InSync(t, v)'
  <2>1. v = w
    BY <1>1, <1>3 DEF HoldsLease
  <2> QED BY <1>1, <1>2, <2>1 DEF InSync
<1> QED BY <1>1, <1>2, <1>3 DEF SelectionEffect

(* The Run of a task at work, as it is and with a selection of its own.    *)
LEMMA HeldRun ==
    ASSUME IInv, RunsSound, NEW t \in Task, task[t].pc \in Executing
    PROVE  /\ task[t].window \in Window
           /\ task[t] \in TaskState
           /\ run[task[t].window] \in RunDocument
           /\ Sound(run[task[t].window])
           /\ HoldsLease(t, task[t].window) => run[task[t].window].status = "active"
BY ExecutingFacts DEF IInv, Base, RunsSound, HoldsLease

LEMMA CheckFenceSelection ==
    ASSUME IInv, RunsSound, NEW t \in Task, CheckFence(t)
    PROVE  SelectionEffect(t)
<1> DEFINE w == task[t].window
           s == AfterCheck(w, task[t])
<1>1. task[t].pc = "check" /\ task[t].pc \in Executing
  BY DEF CheckFence, Executing
<1>2. CASE ~HoldsLease(t, w) \/ Fenced(w)
  BY <1>1, <1>2, HeldRun, GuardedSelection DEF CheckFence, AtStateFence
<1>3. CASE HoldsLease(t, w) /\ ~Fenced(w)
  <2>1. task' = [task EXCEPT ![t] = s] /\ run' = run
    BY <1>3 DEF CheckFence, AtStateFence, Set
  <2>2. \/ s.pc \in {"complete", "select"}
        \/ /\ s.pc \in {"review", "terminalize"} /\ s.games = run[w].games
           /\ s.window = w
    <3>1. task[t] \in TaskState
      BY <1>1, HeldRun
    <3> DEFINE a == [task[t] EXCEPT !.pc = "complete", !.outcome = "abandoned"]
               b == [task[t] EXCEPT !.pc = "terminalize", !.games = run[w].games]
               c == [task[t] EXCEPT !.pc = "select"]
               d == [task[t] EXCEPT !.pc = "review", !.games = run[w].games]
    <3>2. s \in {a, b, c, d}
      BY DEF AfterCheck
    <3>3. /\ a.pc = "complete" /\ c.pc = "select"
          /\ b.pc = "terminalize" /\ b.games = run[w].games /\ b.window = w
          /\ d.pc = "review" /\ d.games = run[w].games /\ d.window = w
      BY <3>1 DEF TaskState
    <3> HIDE DEF a, b, c, d, s, w
    <3> QED BY <3>2, <3>3
  <2> HIDE DEF s
  <2>3. CASE s.pc \in {"complete", "select"}
    BY <2>1, <2>3, TaskGoesAway
  <2>4. CASE s.pc \in {"review", "terminalize"} /\ s.games = run[w].games /\ s.window = w
    <3>1. run' = [run EXCEPT ![w] = run[w]]
      BY <2>1 DEF IInv, TypeOK
    <3>2. w \in Window /\ Sound(run[w])
      BY <1>1, HeldRun
    <3> HIDE DEF w
    <3> QED BY <1>3, <2>1, <2>4, <3>1, <3>2, GoesOnInSync
  <2> QED BY <2>2, <2>3, <2>4
<1> QED BY <1>2, <1>3

(* Steps that take a task on without touching its Run.                     *)
LEMMA StageSelection ==
    ASSUME IInv, SelectionInvariant, RunsSound, NEW t \in Task,
           DeadlineReached(t) \/ Select(t) \/ FinishReviewing(t)
    PROVE  SelectionEffect(t)
<1> DEFINE w == task[t].window
<1>1. /\ task[t].pc \in Executing /\ run' = run
      /\ w \in Window /\ task[t] \in TaskState
  <2>1. task[t].pc \in Executing /\ run' = run
    BY DEF DeadlineReached, Select, FinishReviewing, Executing
  <2> QED BY <2>1, HeldRun
<1>2. ASSUME NEW s, task' = [task EXCEPT ![t] = s],
             s.window = w, s.token = task[t].token, s.games = task[t].games,
             task[t].pc \in {"review", "terminalize"},
             \/ s.pc = "terminalize"
             \/ s.pc = "publish" /\ Pending(task[t].games) = {}
      PROVE  SelectionEffect(t)
  <2>1. task'[t] = s /\ \A u \in Task \ {t} : task'[u] = task[u]
    BY <1>2 DEF IInv, TypeOK
  <2>2. ASSUME NEW v \in Window, HoldsLease(t, v)', run'[v].regenerations = 0
        PROVE  InSync(t, v)'
    <3>1. v = w /\ HoldsLease(t, w)
      BY <1>1, <1>2, <2>1, <2>2 DEF HoldsLease
    <3>2. task[t].games = run[w].games
      BY <1>1, <1>2, <2>2, <3>1 DEF SelectionInvariant, InSync
    <3> HIDE DEF w
    <3> QED BY <1>1, <1>2, <2>1, <3>1, <3>2 DEF InSync, Pending
  <2> QED BY <1>1, <1>2, <2>1, <2>2 DEF SelectionEffect
<1>3. CASE DeadlineReached(t)
  <2> DEFINE s == [task[t] EXCEPT !.pc = "terminalize"]
             e == [task[t] EXCEPT !.pc = "complete", !.outcome = "abandoned"]
  <2>1. CASE task[t].pc = "review"
    <3>1. task' = [task EXCEPT ![t] = s]
      BY <1>3, <2>1 DEF DeadlineReached, Set
    <3>2. /\ s.window = w /\ s.token = task[t].token /\ s.games = task[t].games
          /\ s.pc = "terminalize"
      BY <1>1 DEF TaskState
    <3> HIDE DEF s
    <3> QED BY <1>2, <2>1, <3>1, <3>2
  <2>2. CASE task[t].pc = "select"
    <3>1. task' = [task EXCEPT ![t] = e]
      BY <1>3, <2>2 DEF DeadlineReached, Set
    <3>2. e.pc = "complete"
      BY <1>1 DEF TaskState
    <3> HIDE DEF e
    <3> QED BY <1>1, <3>1, <3>2, TaskGoesAway
  <2> QED BY <1>3, <2>1, <2>2 DEF DeadlineReached
<1>4. CASE FinishReviewing(t)
  <2> DEFINE s == [task[t] EXCEPT !.pc = "publish"]
  <2>1. /\ task' = [task EXCEPT ![t] = s] /\ task[t].pc \in {"review", "terminalize"}
        /\ Pending(task[t].games) = {}
    BY <1>4 DEF FinishReviewing, Set
  <2>2. /\ s.window = w /\ s.token = task[t].token /\ s.games = task[t].games
        /\ s.pc = "publish"
    BY <1>1 DEF TaskState
  <2> HIDE DEF s
  <2> QED BY <1>2, <2>1, <2>2
<1>5. CASE Select(t)
  <2> DEFINE chosenGames(chosen) ==
               [g \in Game |-> [progress |-> IF g \in chosen THEN "pending" ELSE "none",
                                attempts |-> 0]]
             e == [task[t] EXCEPT !.pc = "complete", !.outcome = "noDigest"]
             f(chosen) == [task[t] EXCEPT !.pc = "freeze", !.games = chosenGames(chosen)]
  <2>1. PICK chosen : task' = [task EXCEPT ![t] = IF chosen = {} THEN e ELSE f(chosen)]
    BY <1>5 DEF Select, Set
  <2>2. CASE chosen = {}
    <3>1. e.pc = "complete"
      BY <1>1 DEF TaskState
    <3>2. task' = [task EXCEPT ![t] = e]
      BY <2>1, <2>2
    <3> HIDE DEF e
    <3> QED BY <1>1, <3>1, <3>2, TaskGoesAway
  <2>3. CASE chosen # {}
    <3>1. task' = [task EXCEPT ![t] = f(chosen)]
      BY <2>1, <2>3
    <3>2. f(chosen).pc = "freeze" /\ f(chosen).games = chosenGames(chosen)
      BY <1>1 DEF TaskState
    <3>3. \A g \in Game : chosenGames(chosen)[g].attempts = 0
      OBVIOUS
    <3> DEFINE s == f(chosen)
    <3>4. s.pc = "freeze" /\ \A g \in Game : s.games[g].attempts = 0
      BY <3>2, <3>3
    <3> HIDE DEF s
    <3>5. task'[t] = s /\ \A u \in Task \ {t} : task'[u] = task[u]
      BY <3>1 DEF IInv, TypeOK, s
    <3> QED BY <1>1, <3>4, <3>5 DEF SelectionEffect, InSync
  <2> QED BY <2>2, <2>3
<1> QED BY <1>3, <1>4, <1>5

LEMMA FreezeSelectionSelection ==
    ASSUME IInv, SelectionInvariant, RunsSound, NEW t \in Task, FreezeSelection(t)
    PROVE  SelectionEffect(t)
<1> DEFINE w == task[t].window
           frozen == [task[t] EXCEPT !.pc = "review"]
<1>1. task[t].pc = "freeze" /\ task[t].pc \in Executing
  BY DEF FreezeSelection, Executing
<1>0. /\ w \in Window /\ task[t] \in TaskState /\ run[w] \in RunDocument /\ Sound(run[w])
      /\ HoldsLease(t, w) => run[w].status = "active"
  BY <1>1, HeldRun
<1>2. CASE ~HoldsLease(t, w) \/ Fenced(w)
  BY <1>0, <1>2, GuardedSelection DEF FreezeSelection, AtStateFence
<1>3. CASE HoldsLease(t, w) /\ ~Fenced(w) /\ run[w].games = NoSelection
  <2> DEFINE r == [run[w] EXCEPT !.games = task[t].games]
  <2>1. run' = [run EXCEPT ![w] = r] /\ task' = [task EXCEPT ![t] = frozen]
    BY <1>3 DEF FreezeSelection, AtStateFence, Set
  <2>2. /\ r.games = task[t].games /\ r.status = run[w].status
        /\ r.regenerations = run[w].regenerations
    BY <1>0 DEF RunDocument
  <2>3. /\ frozen.pc = "review" /\ frozen.window = w /\ frozen.games = task[t].games
    BY <1>0 DEF TaskState
  <2>4. Sound(r)
    <3>1. \A g \in Game : task[t].games[g].attempts = 0
      BY <1>1 DEF SelectionInvariant
    <3>2. \A g \in Game : Budgeted(r.games[g].attempts)
      BY <2>2, <3>1 DEF Budgeted
    <3>3. r.status = "active"
      BY <1>0, <1>3, <2>2
    <3> HIDE DEF r
    <3> QED BY <3>2, <3>3 DEF Sound
  <2> HIDE DEF r, frozen
  <2> QED BY <1>0, <1>3, <2>1, <2>2, <2>3, <2>4, GoesOnInSync
<1>4. CASE /\ HoldsLease(t, w) /\ ~Fenced(w) /\ run[w].games # NoSelection
           /\ SameSelection(run[w].games, task[t].games)
  <2> DEFINE s == [frozen EXCEPT !.games = run[w].games]
  <2>1. run' = run /\ task' = [task EXCEPT ![t] = s]
    BY <1>4 DEF FreezeSelection, AtStateFence, Set
  <2>2. s.pc = "review" /\ s.window = w /\ s.games = run[w].games
    BY <1>0 DEF TaskState
  <2>3. run' = [run EXCEPT ![w] = run[w]]
    BY <2>1 DEF IInv, TypeOK
  <2> HIDE DEF s
  <2> QED BY <1>0, <1>4, <2>1, <2>2, <2>3, GoesOnInSync
<1>5. CASE /\ HoldsLease(t, w) /\ ~Fenced(w) /\ run[w].games # NoSelection
           /\ ~SameSelection(run[w].games, task[t].games)
  BY <1>0, <1>5, GuardedSelection DEF FreezeSelection, AtStateFence, Abort
<1> QED BY <1>2, <1>3, <1>4, <1>5

(* record_game stores one entry and hands the document back to the task.   *)
LEMMA RecordGameSelection ==
    ASSUME IInv, RunsSound, NEW t \in Task, task[t].pc \in Executing,
           NEW g \in Game, NEW entry \in GameEntry,
           /\ HoldsLease(t, task[t].window) /\ run[task[t].window].regenerations = 0
           => Budgeted(entry.attempts),
           NEW stageName \in {"review", "terminalize"},
           RecordGame(t, g, entry, Finish(t), stageName)
    PROVE  SelectionEffect(t)
<1> DEFINE w == task[t].window
           games == [run[w].games EXCEPT ![g] = entry]
           r == [run[w] EXCEPT !.games = games]
           s == [task[t] EXCEPT !.pc = stageName, !.games = games]
<1>0. /\ w \in Window /\ task[t] \in TaskState /\ run[w] \in RunDocument /\ Sound(run[w])
      /\ HoldsLease(t, w) => run[w].status = "active"
  BY HeldRun
<1>1. CASE ~HoldsLease(t, w) \/ Fenced(w)
  BY <1>0, <1>1, GuardedSelection DEF RecordGame, AtStateFence
<1>2. CASE /\ HoldsLease(t, w) /\ ~Fenced(w)
           /\ g \in Pending(run[w].games) /\ ValidEntry(entry)
  <2>1. run' = [run EXCEPT ![w] = r] /\ task' = [task EXCEPT ![t] = s]
    BY <1>2 DEF RecordGame, AtStateFence, Set
  <2>2. run[w].games \in [Game -> GameEntry] /\ games \in [Game -> GameEntry]
    BY <1>0 DEF RunDocument
  <2>3. games[g] = entry /\ \A h \in Game \ {g} : games[h] = run[w].games[h]
    BY <2>2
  <2> HIDE DEF games
  <2>4. /\ r.games = games /\ r.status = run[w].status
        /\ r.regenerations = run[w].regenerations
    BY <1>0 DEF RunDocument
  <2>5. s.pc = stageName /\ s.games = games /\ s.window = w
    BY <1>0 DEF TaskState
  <2>6. Sound(r)
    <3> SUFFICES ASSUME r.regenerations = 0 PROVE Sound(r)
      BY DEF Sound
    <3>1. ASSUME NEW h \in Game PROVE Budgeted(games[h].attempts)
      <4>1. Budgeted(entry.attempts)
        BY <1>2, <2>4
      <4>2. h # g => Budgeted(run[w].games[h].attempts)
        BY <1>0, <2>4 DEF Sound
      <4> QED BY <2>3, <4>1, <4>2
    <3>2. r.status = "active"
      BY <1>0, <1>2, <2>4
    <3> HIDE DEF r
    <3> QED BY <2>4, <3>1, <3>2 DEF Sound
  <2>7. /\ s.pc \in {"review", "terminalize"} /\ s.window = w /\ s.games = r.games
        /\ r.regenerations = run[w].regenerations
        /\ w \in Window /\ HoldsLease(t, w)
    BY <1>0, <1>2, <2>4, <2>5
  <2> HIDE DEF r, s, w
  <2> QED BY <2>1, <2>6, <2>7, GoesOnInSync
<1>3. CASE /\ HoldsLease(t, w) /\ ~Fenced(w)
           /\ ~(g \in Pending(run[w].games) /\ ValidEntry(entry))
  BY <1>0, <1>3, GuardedSelection DEF RecordGame, AtStateFence
<1> QED BY <1>1, <1>2, <1>3

(* What a holder remembers of a game's attempts is what is stored, and the *)
(* stored number is within some cell's budget.                             *)
LEMMA RememberedAttempts ==
    ASSUME IInv, SelectionInvariant, RunsSound, NEW t \in Task, task[t].pc = "review",
           HoldsLease(t, task[t].window), run[task[t].window].regenerations = 0,
           NEW g \in Game
    PROVE  /\ task[t].games[g].attempts = run[task[t].window].games[g].attempts
           /\ run[task[t].window].games[g].attempts \in Nat
           /\ Budgeted(run[task[t].window].games[g].attempts)
           /\ HolderOf[t] \in Holder
<1>1. task[t].pc \in Executing
  BY DEF Executing
<1>2. task[t].window \in Window
  BY <1>1, HeldRun
<1>3. task[t].games = run[task[t].window].games
  BY <1>2 DEF SelectionInvariant, InSync
<1>4. Sound(run[task[t].window])
  BY <1>1, HeldRun
<1>5. run[task[t].window].games[g].attempts \in Nat
  BY <1>1, ExecutingFacts DEF GameEntry, IInv, Base
<1> QED BY <1>3, <1>4, <1>5, TaskAssumption DEF Sound

LEMMA RecordReviewedSelection ==
    ASSUME IInv, SelectionInvariant, RunsSound, NEW t \in Task, RecordReviewed(t)
    PROVE  SelectionEffect(t)
<1> DEFINE stored(g) == run[task[t].window].games[g].attempts
<1>1. task[t].pc = "review" /\ task[t].pc \in Executing
  BY DEF RecordReviewed, Executing
<1>2. PICK g \in Game :
        /\ task[t].games[g].attempts + 1 <= AttemptLimit(t)
        /\ \E outcome \in {"reviewed", "terminal", "exhausted"} :
               RecordGame(t, g, [progress |-> outcome, attempts |-> stored(g) + 1],
                          Finish(t), "review")
  BY DEF RecordReviewed
<1>3. PICK outcome \in {"reviewed", "terminal", "exhausted"} :
        RecordGame(t, g, [progress |-> outcome, attempts |-> stored(g) + 1],
                   Finish(t), "review")
  BY <1>2
<1> DEFINE entry == [progress |-> outcome, attempts |-> stored(g) + 1]
<1>4. entry \in GameEntry
  <2>1. outcome \in Progress
    BY DEF Progress
  <2> QED BY <1>1, <2>1, EntryTypes DEF IInv, Base
<1>5. ASSUME HoldsLease(t, task[t].window), run[task[t].window].regenerations = 0
      PROVE  Budgeted(entry.attempts)
  <2>1. stored(g) + 1 <= MaxAttempts[HolderOf[t]] /\ HolderOf[t] \in Holder
    BY <1>1, <1>2, <1>5, RememberedAttempts DEF AttemptLimit
  <2> QED BY <2>1 DEF Budgeted
<1>6. RecordGame(t, g, entry, Finish(t), "review")
  BY <1>3
<1> HIDE DEF entry
<1> QED BY <1>1, <1>4, <1>5, <1>6, RecordGameSelection

LEMMA TerminalizeUnfinishedSelection ==
    ASSUME IInv, SelectionInvariant, RunsSound, NEW t \in Task, TerminalizeUnfinished(t)
    PROVE  SelectionEffect(t)
<1> DEFINE entry(g) == [progress |-> "unfinished",
                        attempts |-> run[task[t].window].games[g].attempts]
<1>1. task[t].pc \in Executing /\ "unfinished" \in Progress
  BY DEF TerminalizeUnfinished, Executing, Progress
<1>2. PICK g \in Game : RecordGame(t, g, entry(g), Finish(t), "terminalize")
  BY DEF TerminalizeUnfinished
<1>3. entry(g) \in GameEntry
  BY <1>1, EntryTypes DEF IInv, Base
<1>4. ASSUME run[task[t].window].regenerations = 0
      PROVE  Budgeted(entry(g).attempts)
  BY <1>1, <1>4, HeldRun DEF Sound
<1> DEFINE e == entry(g)
<1>5. /\ e \in GameEntry /\ RecordGame(t, g, e, Finish(t), "terminalize")
      /\ run[task[t].window].regenerations = 0 => Budgeted(e.attempts)
  BY <1>2, <1>3, <1>4
<1> HIDE DEF e
<1> QED BY <1>1, <1>5, RecordGameSelection

LEMMA ExhaustUnattemptedSelection ==
    ASSUME IInv, SelectionInvariant, RunsSound, NEW t \in Task, ExhaustUnattempted(t)
    PROVE  SelectionEffect(t)
<1> DEFINE w == task[t].window
           entry(g) == [progress |-> "exhausted", attempts |-> run[w].games[g].attempts]
<1>1. task[t].pc = "review" /\ task[t].pc \in Executing /\ "exhausted" \in Progress
  BY DEF ExhaustUnattempted, Executing, Progress
<1>2. PICK g \in Game : RecordGame(t, g, entry(g), UNCHANGED task, "review")
  BY DEF ExhaustUnattempted
<1>0. w \in Window /\ run[w] \in RunDocument /\ Sound(run[w])
  BY <1>1, HeldRun
<1>3. CASE HoldsLease(t, w) /\ Fenced(w)
  <2> DEFINE r == CompletedRun(w, "fenced")
  <2>1. run' = [run EXCEPT ![w] = r] /\ task' = task
    BY <1>2, <1>3 DEF RecordGame, AtStateFence
  <2>2. /\ r.status = "fenced" /\ r.games = run[w].games
        /\ r.regenerations = run[w].regenerations
    BY <1>0 DEF CompletedRun, RunDocument
  <2>3. Sound(r)
    BY <1>0, <2>2 DEF Sound
  <2> HIDE DEF r
  <2>4. run'[w] = r /\ \A v \in Window \ {w} : run'[v] = run[v]
    BY <1>0, <2>1 DEF IInv, TypeOK
  <2>5. ASSUME NEW v \in Window PROVE ~HoldsLease(t, v)'
    <3>1. task'[t].window = w
      BY <2>1
    <3>2. run'[w].status # "active"
      BY <2>2, <2>4
    <3> HIDE DEF w
    <3> QED BY <3>1, <3>2 DEF HoldsLease
  <2> QED BY <1>0, <1>1, <1>3, <2>1, <2>2, <2>3, <2>4, <2>5 DEF SelectionEffect
<1>4. CASE ~(HoldsLease(t, w) /\ Fenced(w))
  <2> DEFINE e == entry(g)
  <2>1. RecordGame(t, g, e, Finish(t), "review")
    BY <1>2, <1>4 DEF RecordGame, AtStateFence
  <2>2. e \in GameEntry
    BY <1>1, EntryTypes DEF IInv, Base
  <2>3. run[w].regenerations = 0 => Budgeted(e.attempts)
    BY <1>0 DEF Sound
  <2> HIDE DEF e
  <2> QED BY <1>1, <2>1, <2>2, <2>3, RecordGameSelection
<1> QED BY <1>3, <1>4

LEMMA RecordRetryableSelection ==
    ASSUME IInv, SelectionInvariant, RunsSound, NEW t \in Task, RecordRetryable(t)
    PROVE  SelectionEffect(t)
<1> DEFINE w == task[t].window
           games(g) == [run[w].games EXCEPT ![g].attempts = @ + 1]
           deferred(g) == [run[w] EXCEPT !.games[g].attempts = @ + 1, !.expired = FALSE]
<1>1. task[t].pc = "review" /\ task[t].pc \in Executing
  BY DEF RecordRetryable, Executing
<1>0. /\ w \in Window /\ run[w] \in RunDocument /\ Sound(run[w])
      /\ HoldsLease(t, w) => run[w].status = "active"
  BY <1>1, HeldRun
<1>2. PICK g \in Game :
        /\ task[t].games[g].attempts + 1 < AttemptLimit(t)
        /\ AtStateFence(t, Finish(t),
             /\ UNCHANGED archiveVars
             /\ IF g \in Pending(run[w].games) /\ ~Late(w)
                THEN /\ run' = [run EXCEPT ![w].games[g].attempts = @ + 1,
                                           ![w].expired = FALSE]
                     /\ Finish(t)
                ELSE UNCHANGED run /\ Abort(t))
  BY DEF RecordRetryable, Pending
<1>3. CASE ~HoldsLease(t, w) \/ Fenced(w)
  BY <1>0, <1>2, <1>3, GuardedSelection DEF AtStateFence
<1>4. CASE HoldsLease(t, w) /\ ~Fenced(w) /\ g \in Pending(run[w].games) /\ ~Late(w)
  <2> DEFINE r == deferred(g)
             after == games(g)
  <2>1. /\ run' = [run EXCEPT ![w].games[g].attempts = @ + 1, ![w].expired = FALSE]
        /\ Finish(t)
    BY <1>2, <1>4 DEF AtStateFence
  <2>2. run' = [run EXCEPT ![w] = r]
    BY <1>0, <2>1 DEF IInv, TypeOK
  <2>3. /\ r.games = after /\ r.status = run[w].status
        /\ r.regenerations = run[w].regenerations
    BY <1>0 DEF RunDocument
  <2>4. /\ run[w].games \in [Game -> GameEntry]
        /\ run[w].games[g].attempts \in Nat
    BY <1>0 DEF RunDocument, GameEntry
  <2>5. /\ after[g].attempts = run[w].games[g].attempts + 1
        /\ \A h \in Game \ {g} : after[h] = run[w].games[h]
    BY <2>4 DEF GameEntry
  <2> HIDE DEF after
  <2>6. Sound(r)
    <3> SUFFICES ASSUME r.regenerations = 0 PROVE Sound(r)
      BY DEF Sound
    <3>1. Budgeted(after[g].attempts)
      <4>1. /\ task[t].games[g].attempts = run[w].games[g].attempts
            /\ HolderOf[t] \in Holder
        BY <1>1, <1>4, <2>3, RememberedAttempts
      <4>2. MaxAttempts[HolderOf[t]] \in Nat
        BY <4>1, BoundAssumption
      <4>3. run[w].games[g].attempts + 1 < MaxAttempts[HolderOf[t]]
        BY <1>2, <4>1 DEF AttemptLimit
      <4>4. after[g].attempts <= MaxAttempts[HolderOf[t]]
        BY <2>4, <2>5, <4>2, <4>3
      <4> QED BY <4>1, <4>4 DEF Budgeted
    <3>2. ASSUME NEW h \in Game PROVE Budgeted(after[h].attempts)
      <4>1. h # g => Budgeted(run[w].games[h].attempts)
        BY <1>0, <2>3 DEF Sound
      <4> QED BY <2>5, <3>1, <4>1
    <3>3. r.status = "active"
      BY <1>0, <1>4, <2>3
    <3> HIDE DEF r
    <3> QED BY <2>3, <3>2, <3>3 DEF Sound
  <2> DEFINE s == LoopState(task[t].snapshot)
  <2>7. task' = [task EXCEPT ![t] = s] /\ s.pc \in {"idle", "claim", "skip"}
    BY <2>1, LoopStateIsAway DEF Finish, Set
  <2> HIDE DEF r, s, w
  <2> QED BY <1>0, <1>4, <2>2, <2>3, <2>6, <2>7, EndsAway
<1>5. CASE /\ HoldsLease(t, w) /\ ~Fenced(w)
           /\ ~(g \in Pending(run[w].games) /\ ~Late(w))
  BY <1>0, <1>2, <1>5, GuardedSelection DEF AtStateFence
<1> QED BY <1>3, <1>4, <1>5

(* A Run that its holder completes.                                        *)
LEMMA CompletingSelection ==
    ASSUME IInv, RunsSound, NEW t \in Task, NEW w \in Window, HoldsLease(t, w),
           NEW outcome, Finish(t),
           run' = [run EXCEPT ![w] = CompletedRun(w, outcome)],
           outcome = "published" /\ run[w].regenerations = 0 =>
               Reviewed(run[w].games) # {} /\ Pending(run[w].games) = {},
           outcome = "noDigest" /\ run[w].regenerations = 0 => Pending(run[w].games) = {}
    PROVE  SelectionEffect(t)
<1> DEFINE r == CompletedRun(w, outcome)
           s == LoopState(task[t].snapshot)
<1>1. run[w] \in RunDocument /\ Sound(run[w])
  BY DEF IInv, TypeOK, RunsSound
<1>2. /\ r.status = outcome /\ r.games = run[w].games
      /\ r.regenerations = run[w].regenerations
  BY <1>1 DEF CompletedRun, RunDocument
<1>3. Sound(r)
  BY <1>1, <1>2 DEF Sound
<1>4. task' = [task EXCEPT ![t] = s] /\ s.pc \in {"idle", "claim", "skip"}
  BY LoopStateIsAway DEF Finish, Set
<1> HIDE DEF r, s
<1> QED BY <1>2, <1>3, <1>4, EndsAway DEF r

LEMMA CompleteRunSelection ==
    ASSUME IInv, RunsSound, NEW t \in Task, CompleteRun(t)
    PROVE  SelectionEffect(t)
<1> DEFINE w == task[t].window
<1>1. task[t].pc = "complete" /\ task[t].pc \in Executing
  BY DEF CompleteRun, Executing
<1>0. w \in Window
  BY <1>1, HeldRun
<1>2. CASE ~HoldsLease(t, w) \/ Fenced(w)
  BY <1>0, <1>2, GuardedSelection DEF CompleteRun, AtStateFence
<1>3. CASE /\ HoldsLease(t, w) /\ ~Fenced(w)
           /\ task[t].outcome = "noDigest" /\ Pending(run[w].games) # {}
  BY <1>0, <1>3, GuardedSelection DEF CompleteRun, AtStateFence
<1>4. CASE /\ HoldsLease(t, w) /\ ~Fenced(w)
           /\ ~(task[t].outcome = "noDigest" /\ Pending(run[w].games) # {})
  <2>1. run' = [run EXCEPT ![w] = CompletedRun(w, task[t].outcome)] /\ Finish(t)
    BY <1>4 DEF CompleteRun, AtStateFence
  <2>2. task[t].outcome # "published"
    BY <1>1, ExecutingFacts DEF IInv, Base
  <2> HIDE DEF w
  <2> QED BY <1>0, <1>4, <2>1, <2>2, CompletingSelection
<1> QED BY <1>2, <1>3, <1>4

LEMMA PublishSelection ==
    ASSUME IInv, SelectionInvariant, RunsSound, NEW t \in Task, Publish(t)
    PROVE  SelectionEffect(t)
<1> DEFINE w == task[t].window
<1>1. task[t].pc = "publish" /\ task[t].pc \in Executing
  BY DEF Publish, Executing
<1>0. w \in Window
  BY <1>1, HeldRun
<1>2. CASE \/ run[w].status = "published" /\ run[w].regenerations = 0
           \/ ~HoldsLease(t, w) \/ Fenced(w)
  BY <1>0, <1>2, GuardedSelection DEF Publish, AtStateFence
<1>3. CASE /\ ~(run[w].status = "published" /\ run[w].regenerations = 0)
           /\ HoldsLease(t, w) /\ ~Fenced(w)
  <2>1. run[w].regenerations = 0 => Pending(run[w].games) = {}
    BY <1>0, <1>1, <1>3 DEF SelectionInvariant, InSync
  <2>2. CASE Kept(w) = {}
    <3>1. run' = [run EXCEPT ![w] = CompletedRun(w, "noDigest")] /\ Finish(t)
      BY <1>3, <2>2 DEF Publish, AtStateFence
    <3> HIDE DEF w
    <3> QED BY <1>0, <1>3, <2>1, <3>1, CompletingSelection
  <2>3. CASE Kept(w) # {} /\ Pending(run[w].games) = {}
    <3>1. run' = [run EXCEPT ![w] = CompletedRun(w, "published")] /\ Finish(t)
      BY <1>3, <2>3 DEF Publish, AtStateFence
    <3>2. Reviewed(run[w].games) # {}
      BY <2>3 DEF Kept
    <3> HIDE DEF w
    <3> QED BY <1>0, <1>3, <2>3, <3>1, <3>2, CompletingSelection
  <2>4. CASE Kept(w) # {} /\ Pending(run[w].games) # {}
    BY <1>0, <1>3, <2>4, GuardedSelection DEF Publish, AtStateFence
  <2> QED BY <2>2, <2>3, <2>4
<1> QED BY <1>2, <1>3

(* A step that keeps every task and every Run's outcome and selection.     *)
KeepsSelection ==
    /\ task' = task
    /\ \A w \in Window :
           /\ run'[w].status = run[w].status /\ run'[w].games = run[w].games
           /\ run'[w].regenerations = run[w].regenerations
           /\ run'[w].holder = run[w].holder /\ run'[w].token = run[w].token

LEMMA KeepsSelectionKeeps ==
    ASSUME SelectionInvariant, RunsSound, KeepsSelection
    PROVE  SelectionInvariant' /\ RunsSound'
<1>1. RunsSound'
  <2>1. ASSUME NEW w \in Window PROVE Sound(run'[w])
    <3>1. Sound(run[w])
      BY DEF RunsSound
    <3> QED BY <3>1 DEF KeepsSelection, Sound
  <2> QED BY <2>1 DEF RunsSound
<1>2. ASSUME NEW t \in Task, NEW w \in Window,
             HoldsLease(t, w)', run'[w].regenerations = 0
      PROVE  InSync(t, w)'
  <2>1. HoldsLease(t, w) /\ run[w].regenerations = 0
    BY <1>2 DEF HoldsLease, KeepsSelection
  <2>2. InSync(t, w)
    BY <2>1 DEF SelectionInvariant
  <2> QED BY <2>2 DEF InSync, KeepsSelection, Pending
<1>3. \A t \in Task : task'[t].pc = "freeze" =>
          \A g \in Game : task'[t].games[g].attempts = 0
  BY DEF SelectionInvariant, KeepsSelection
<1> QED BY <1>1, <1>2, <1>3 DEF SelectionInvariant

LEMMA FlagKeepsSelection ==
    ASSUME IInv, task' = task, NEW v \in Window,
           \/ run' = [run EXCEPT ![v].expired = TRUE]
           \/ run' = [run EXCEPT ![v].expired = FALSE]
           \/ run' = [run EXCEPT ![v].late = TRUE]
    PROVE  KeepsSelection
<1>1. SUFFICES ASSUME NEW w \in Window
               PROVE  /\ run'[w].status = run[w].status /\ run'[w].games = run[w].games
                      /\ run'[w].regenerations = run[w].regenerations
                      /\ run'[w].holder = run[w].holder /\ run'[w].token = run[w].token
  BY DEF KeepsSelection
<1>2. run \in [Window -> RunDocument] /\ run[w] \in RunDocument
  BY DEF IInv, TypeOK
<1>3. \/ run'[w] = run[w]
      \/ run'[w] = [run[w] EXCEPT !.expired = TRUE]
      \/ run'[w] = [run[w] EXCEPT !.expired = FALSE]
      \/ run'[w] = [run[w] EXCEPT !.late = TRUE]
  BY <1>2
<1> QED BY <1>2, <1>3 DEF RunDocument

LEMMA HeartbeatSelection ==
    ASSUME IInv, RunsSound, NEW t \in Task, Heartbeat(t)
    PROVE  SelectionEffect(t) \/ KeepsSelection
<1> DEFINE w == task[t].window
<1>1. task[t].pc \in Executing
  BY DEF Heartbeat, Executing
<1>0. w \in Window
  BY <1>1, HeldRun
<1>2. CASE ~HoldsLease(t, w) \/ Fenced(w)
  BY <1>0, <1>2, GuardedSelection DEF Heartbeat, AtStateFence
<1>3. CASE HoldsLease(t, w) /\ ~Fenced(w)
  <2>1. run' = [run EXCEPT ![w].expired = FALSE] /\ task' = task
    BY <1>3 DEF Heartbeat, AtStateFence
  <2> HIDE DEF w
  <2> QED BY <1>0, <2>1, FlagKeepsSelection
<1> QED BY <1>2, <1>3

LEMMA ExecuteSelection ==
    ASSUME IInv, SelectionInvariant, RunsSound, NEW t \in Task, ExecuteStep(t)
    PROVE  SelectionEffect(t)
BY CheckFenceSelection, StageSelection, FreezeSelectionSelection, RecordReviewedSelection,
   ExhaustUnattemptedSelection, RecordRetryableSelection, TerminalizeUnfinishedSelection,
   CompleteRunSelection, PublishSelection DEF ExecuteStep

(* A new Run has chosen nothing.                                           *)
LEMMA ClaimSelection ==
    ASSUME IInv, RunsSound, NEW t \in Task, Claim(t)
    PROVE  SelectionEffect(t)
<1> DEFINE w == task[t].window
           document == IF task[t].pc = "skip" THEN SkippedRun(task[t].snapshot)
                                              ELSE ClaimedRun(t, task[t].snapshot)
           s(n) == [task[t] EXCEPT !.pc = "advance", !.token = n]
<1>1. w \in Window /\ task[t] \in TaskState /\ run \in [Window -> RunDocument]
  BY DEF Claim, IInv, TypeOK, TaskWellFormed
<1>2. Sound(document)
  <2>1. /\ document.status \in {"active", "skipped"} /\ document.games = NoSelection
    BY DEF SkippedRun, ClaimedRun, NoRun
  <2>2. \A g \in Game : NoSelection[g].attempts = 0
    BY DEF NoSelection
  <2> HIDE DEF document
  <2> QED BY <2>1, <2>2 DEF Sound, Budgeted
<1>3. PICK n : task' = [task EXCEPT ![t] = s(n)]
  BY DEF Claim, Set
<1>4. s(n).pc = "advance"
  BY <1>1 DEF TaskState
<1> DEFINE e == s(n)
<1>5. task' = [task EXCEPT ![t] = e] /\ e.pc = "advance"
  BY <1>3, <1>4
<1> HIDE DEF e
<1>6. task'[t] = e /\ \A u \in Task \ {t} : task'[u] = task[u]
  BY <1>5 DEF IInv, TypeOK
<1>7. CASE run[w].status = "absent"
  <2>1. run' = [run EXCEPT ![w] = document]
    BY <1>7 DEF Claim
  <2> HIDE DEF document, w
  <2>2. run'[w] = document /\ \A v \in Window \ {w} : run'[v] = run[v]
    BY <1>1, <2>1
  <2> QED BY <1>2, <1>5, <1>6, <1>7, <2>2, AwayFromSelection DEF w
<1>8. CASE run[w].status # "absent"
  <2>1. run' = run
    BY <1>8 DEF Claim
  <2> QED BY <1>5, <2>1, TaskGoesAway
<1> QED BY <1>7, <1>8

(* Advancing, taking over and reopening leave a task at the start of an    *)
(* execution or outside of one; reopening counts itself.                   *)
LEMMA GrantSelection ==
    ASSUME IInv, RunsSound, NEW t \in Task,
           \/ Advance(t) \/ ReadState(t) \/ RequestRegeneration(t) \/ Fail(t)
           \/ ReopenForRegeneration(t) \/ \E w \in Window : TakeOver(t, w)
    PROVE  SelectionEffect(t)
<1>1. task \in [Task -> TaskState] /\ run \in [Window -> RunDocument]
  BY DEF IInv, TypeOK
<1>2. CASE Advance(t)
  <2> DEFINE snap == [runFence |-> runFence, connections |-> connections,
                      next |-> task[t].window + 1]
             c == [task[t] EXCEPT !.pc = "check", !.snapshot = snap]
  <2>1. run' = run /\ \E s \in {c, LoopState(snap), Idle} : task' = [task EXCEPT ![t] = s]
    BY <1>2 DEF Advance, Set, Abort
  <2>2. c.pc = "check"
    BY <1>1 DEF TaskState
  <2>3. \A s \in {c, LoopState(snap), Idle} :
            s.pc \notin {"freeze", "review", "terminalize", "publish"}
    BY <2>2, LoopStateIsAway
  <2> HIDE DEF c, snap
  <2> QED BY <2>1, <2>3, TaskGoesAway
<1>3. CASE ReadState(t)
  <2> DEFINE snap == [runFence |-> runFence, connections |-> connections,
                      next |-> nextDailyWindow]
             s == LoopState(snap)
  <2>1. run' = run /\ task' = [task EXCEPT ![t] = s] /\ s.pc \in {"idle", "claim", "skip"}
    BY <1>3, LoopStateIsAway DEF ReadState, Set
  <2> HIDE DEF s
  <2> QED BY <2>1, TaskGoesAway
<1>4. CASE RequestRegeneration(t)
  <2>1. PICK w \in Window : run' = run /\
            task' = [task EXCEPT ![t] = [Idle EXCEPT !.pc = "reopen", !.window = w]]
    BY <1>4 DEF RequestRegeneration, Set
  <2> DEFINE s == [Idle EXCEPT !.pc = "reopen", !.window = w]
  <2>2. s.pc = "reopen"
    BY DEF Idle
  <2>3. task' = [task EXCEPT ![t] = s]
    BY <2>1
  <2> HIDE DEF s
  <2> QED BY <2>1, <2>2, <2>3, TaskGoesAway
<1>5. CASE Fail(t)
  <2>1. run' = run /\ task' = [task EXCEPT ![t] = Idle] /\ Idle.pc = "idle"
    BY <1>5, LoopStateIsAway DEF Fail, Abort, Set
  <2> QED BY <2>1, TaskGoesAway
<1>6. CASE ReopenForRegeneration(t)
  <2> DEFINE w == task[t].window
             r == [run[w] EXCEPT !.status = "active", !.holder = HolderOf[t], !.token = 1,
                       !.games = NoSelection, !.regenerations = @ + 1]
             s == [task[t] EXCEPT !.pc = "check", !.token = 1]
  <2>1. w \in Window
    BY <1>6 DEF ReopenForRegeneration, IInv, TaskWellFormed
  <2>2. CASE run' = run /\ Abort(t)
    BY <2>2, LoopStateIsAway, TaskGoesAway DEF Abort, Set
  <2>3. CASE run' = [run EXCEPT ![w] = r] /\ task' = [task EXCEPT ![t] = s]
    <3>1. s.pc = "check"
      BY <1>1 DEF TaskState
    <3>2. r.regenerations # 0
      <4>1. r.regenerations = run[w].regenerations + 1 /\ run[w].regenerations \in Nat
        BY <1>1, <2>1 DEF RunDocument
      <4> HIDE DEF r, w
      <4> QED BY <4>1
    <3> HIDE DEF r, s, w
    <3>3. run'[w] = r /\ \A v \in Window \ {w} : run'[v] = run[v]
      BY <1>1, <2>1, <2>3
    <3>4. task'[t] = s /\ \A u \in Task \ {t} : task'[u] = task[u]
      BY <1>1, <2>3
    <3> QED BY <3>1, <3>2, <3>3, <3>4, AwayFromSelection DEF Sound
  <2>4. \/ run' = run /\ Abort(t)
        \/ run' = [run EXCEPT ![w] = r] /\ task' = [task EXCEPT ![t] = s]
    <3>1. CASE Visible(w) /\ Readable(w) /\ run[w].regenerations < MaxRegenerations
      <4>1. run' = [run EXCEPT
                      ![w].status = "active", ![w].holder = HolderOf[t], ![w].token = 1,
                      ![w].games = NoSelection, ![w].regenerations = @ + 1]
            /\ task' = [task EXCEPT ![t] = s]
        BY <1>6, <3>1 DEF ReopenForRegeneration, Set
      <4> HIDE DEF s
      <4> QED BY <1>1, <2>1, <4>1
    <3>2. CASE ~(Visible(w) /\ Readable(w) /\ run[w].regenerations < MaxRegenerations)
      BY <1>6, <3>2 DEF ReopenForRegeneration
    <3> QED BY <3>1, <3>2
  <2> QED BY <2>2, <2>3, <2>4
<1>7. ASSUME NEW w \in Window, TakeOver(t, w)
      PROVE  SelectionEffect(t)
  <2> DEFINE r == [run[w] EXCEPT !.holder = HolderOf[t], !.token = @ + 1,
                       !.expired = FALSE, !.takeovers = @ + 1]
             s == [Idle EXCEPT !.pc = "check", !.window = w, !.token = run[w].token + 1]
  <2>1. run' = [run EXCEPT ![w] = r] /\ task' = [task EXCEPT ![t] = s]
    BY <1>1, <1>7 DEF TakeOver, Set
  <2>2. s.pc = "check"
    BY DEF Idle
  <2>3. /\ r.status = run[w].status /\ r.games = run[w].games
        /\ r.regenerations = run[w].regenerations
    BY <1>1 DEF RunDocument
  <2>4. Sound(r)
    BY <2>3 DEF RunsSound, Sound
  <2> HIDE DEF r, s
  <2>5. run'[w] = r /\ \A v \in Window \ {w} : run'[v] = run[v]
    BY <1>1, <2>1
  <2>6. task'[t] = s /\ \A u \in Task \ {t} : task'[u] = task[u]
    BY <1>1, <2>1
  <2> QED BY <2>2, <2>3, <2>4, <2>5, <2>6, AwayFromSelection
<1> QED BY <1>2, <1>3, <1>4, <1>5, <1>6, <1>7

LEMMA NextKeepsSelection ==
    ASSUME IInv, SelectionInvariant, RunsSound, [Next]_vars
    PROVE  SelectionInvariant' /\ RunsSound'
<1>1. ASSUME NEW t \in Task, TaskStep(t)
      PROVE  SelectionInvariant' /\ RunsSound'
  <2>1. SelectionEffect(t) \/ KeepsSelection
    BY <1>1, ExecuteSelection, HeartbeatSelection, ClaimSelection, GrantSelection DEF TaskStep
  <2> QED BY <2>1, SelectionEffectKeeps, KeepsSelectionKeeps
<1>2. CASE ClockAdvances \/ OwnerEdits \/ UNCHANGED vars
  <2>1. run' = run /\ task' = task
    BY <1>2 DEF ClockAdvances, OwnerEdits, Connect, Replace, Remove, Resume, Pause, vars
  <2>2. KeepsSelection
    BY <2>1 DEF KeepsSelection
  <2> QED BY <2>2, KeepsSelectionKeeps
<1>3. ASSUME NEW w \in Window, LeaseExpires(w) \/ ReopenedDeadlinePasses(w)
      PROVE  SelectionInvariant' /\ RunsSound'
  <2>1. KeepsSelection
    BY <1>3, FlagKeepsSelection DEF LeaseExpires, ReopenedDeadlinePasses
  <2> QED BY <2>1, KeepsSelectionKeeps
<1> QED BY <1>1, <1>2, <1>3 DEF Next

LEMMA SelectionsHold == Spec => [](SelectionInvariant /\ RunsSound)
<1>1. Init => SelectionInvariant /\ RunsSound
  <2> SUFFICES ASSUME Init PROVE SelectionInvariant /\ RunsSound
    OBVIOUS
  <2>1. \A t \in Task : task[t].pc = "idle"
    BY DEF Init, Idle
  <2>2. SelectionInvariant
    BY <2>1 DEF SelectionInvariant, InSync
  <2>3. \A w \in Window : run[w].status = "absent" /\ run[w].games = NoSelection
    BY DEF Init, NoRun
  <2>4. \A g \in Game : NoSelection[g].attempts = 0
    BY DEF NoSelection
  <2> QED BY <2>2, <2>3, <2>4 DEF RunsSound, Sound, Budgeted
<1>2. IInv /\ SelectionInvariant /\ RunsSound /\ [Next]_vars
          => SelectionInvariant' /\ RunsSound'
  BY NextKeepsSelection
<1> QED BY <1>1, <1>2, Invariance, PTL DEF Spec

(* Every stored Run passes validate() until its window is reopened: the    *)
(* publisher wrote NoDigest without looking for pending games, but what it *)
(* remembered was in sync (publication.rs prepare_publication, runs.rs     *)
(* selection_is_valid).                                                    *)
THEOREM StoredRunsStayReadable == Spec => []UnregeneratedRunsReadable
<1>1. RunsSound => UnregeneratedRunsReadable
  BY DEF RunsSound, Sound, UnregeneratedRunsReadable, Readable
<1> QED BY <1>1, SelectionsHold, PTL

(* No game is attempted more often than the most patient cell allows,      *)
(* however often its Run is taken over by cells with other budgets         *)
(* (lifecycle.rs execute, runs.rs record_game).                            *)
THEOREM AttemptsStayWithinBudget == Spec => []AttemptsWithinBudget
<1>1. RunsSound => AttemptsWithinBudget
  BY DEF RunsSound, Sound, AttemptsWithinBudget
<1> QED BY <1>1, SelectionsHold, PTL

-----------------------------------------------------------------------------
(* The archive: what each step may make of the outcomes, the digests and   *)
(* the cards.                                                              *)

(* What a step may do to the archive: nothing, one step of one window's    *)
(* lifecycle, or the publication of a window by the holder of its lease.   *)
Moves(w, from, to) ==
    /\ run[w].status \in from
    /\ \E r \in RunDocument :
           /\ run' = [run EXCEPT ![w] = r]
           /\ r.status \in to
           /\ r.regenerations = run[w].regenerations
Starts(w) ==
    /\ run[w].status = "absent"
    /\ \E r \in RunDocument :
           run' = [run EXCEPT ![w] = r] /\ r.status \in {"active", "skipped"}
Unwritten == \E w \in Window : \E r \in RunDocument :
    /\ run' = [run EXCEPT ![w] = r]
    /\ r.status = run[w].status /\ r.regenerations = run[w].regenerations
Rebuilds(w) ==
    /\ run[w].status \in {"published", "noDigest"}
    /\ \E r \in RunDocument :
           /\ run' = [run EXCEPT ![w] = r]
           /\ r.status = "active" /\ r.regenerations > 0
Publishes(w) ==
    /\ Moves(w, {"active"}, {"published"})
    /\ Kept(w) # {}
    /\ digest' = [digest EXCEPT ![w] = Kept(w)]
    /\ card' = Recarded(w)
ArchiveEffect ==
    \/ Unwritten /\ UNCHANGED archiveVars
    \/ \E w \in Window :
           /\ UNCHANGED archiveVars
           /\ \/ Starts(w)
              \/ Moves(w, {"active"}, {"noDigest", "fenced", "abandoned"})
              \/ Rebuilds(w)
    \/ \E w \in Window : Publishes(w)

LEMMA StandingRuns ==
    ASSUME Base, run' = run
    PROVE  Unwritten
<1>1. PICK w \in Window : TRUE
  BY WindowFacts
<1>2. run' = [run EXCEPT ![w] = run[w]] /\ run[w] \in RunDocument
  BY DEF Base, TypeOK
<1> QED BY <1>2 DEF Unwritten

LEMMA CompletingMoves ==
    ASSUME Base, NEW t \in Task, NEW w \in Window, HoldsLease(t, w),
           NEW outcome \in Completed,
           run' = [run EXCEPT ![w] = CompletedRun(w, outcome)]
    PROVE  Moves(w, {"active"}, {outcome})
<1> DEFINE r == CompletedRun(w, outcome)
<1>1. run[w] \in RunDocument /\ run[w].status = "active"
  BY DEF Base, TypeOK, HoldsLease
<1>2. /\ r \in RunDocument /\ r.status = outcome
      /\ r.regenerations = run[w].regenerations
  BY <1>1 DEF CompletedRun, RunDocument
<1> HIDE DEF r
<1>3. run' = [run EXCEPT ![w] = r]
  BY DEF r
<1> QED BY <1>1, <1>2, <1>3 DEF Moves

(* The first two ways out of AtStateFence.                                 *)
LEMMA GuardedArchive ==
    ASSUME Base, NEW t \in Task, task[t].pc \in Executing, UNCHANGED archiveVars,
           \/ UNCHANGED run
           \/ /\ HoldsLease(t, task[t].window)
              /\ run' = [run EXCEPT ![task[t].window] = CompletedRun(task[t].window, "fenced")]
    PROVE  ArchiveEffect
<1>1. CASE UNCHANGED run
  BY <1>1, StandingRuns DEF ArchiveEffect
<1>2. CASE /\ HoldsLease(t, task[t].window)
           /\ run' = [run EXCEPT ![task[t].window] = CompletedRun(task[t].window, "fenced")]
  <2> DEFINE w == task[t].window
  <2>1. w \in Window
    BY ExecutingFacts
  <2>2. "fenced" \in Completed
    BY DEF Completed
  <2> HIDE DEF w
  <2>3. Moves(w, {"active"}, {"fenced"})
    BY <1>2, <2>1, <2>2, CompletingMoves DEF w
  <2>4. Moves(w, {"active"}, {"noDigest", "fenced", "abandoned"})
    BY <2>3 DEF Moves
  <2> QED BY <2>1, <2>4 DEF ArchiveEffect
<1> QED BY <1>1, <1>2

LEMMA RewriteUnwritten ==
    ASSUME Base, NEW w \in Window, NEW games \in [Game -> GameEntry],
           NEW expired \in BOOLEAN,
           run' = [run EXCEPT ![w] = [run[w] EXCEPT !.games = games, !.expired = expired]]
    PROVE  Unwritten
<1> DEFINE r == [run[w] EXCEPT !.games = games, !.expired = expired]
<1>1. run[w] \in RunDocument
  BY DEF Base, TypeOK
<1>2. /\ r \in RunDocument /\ r.status = run[w].status
      /\ r.regenerations = run[w].regenerations
  BY <1>1 DEF RunDocument
<1>3. run' = [run EXCEPT ![w] = r]
  OBVIOUS
<1> HIDE DEF r
<1> QED BY <1>2, <1>3 DEF Unwritten

(* record_game refuses, finds the Run fenced, or stores one entry.         *)
LEMMA RecordedArchive ==
    ASSUME Base, NEW t \in Task, task[t].pc \in Executing, UNCHANGED archiveVars,
           NEW g \in Game, NEW entry \in GameEntry,
           LET w == task[t].window
           IN  \/ UNCHANGED run
               \/ HoldsLease(t, w) /\ run' = [run EXCEPT ![w] = CompletedRun(w, "fenced")]
               \/ run' = [run EXCEPT ![w].games = [run[w].games EXCEPT ![g] = entry]]
    PROVE  ArchiveEffect
<1> DEFINE w == task[t].window
           games == [run[w].games EXCEPT ![g] = entry]
<1>0. w \in Window /\ run[w] \in RunDocument /\ run[w].games \in [Game -> GameEntry]
  BY ExecutingFacts
<1>1. CASE run' = [run EXCEPT ![w].games = games]
  <2>1. games \in [Game -> GameEntry]
    BY <1>0
  <2> HIDE DEF games
  <2>2. run' = [run EXCEPT ![w] = [run[w] EXCEPT !.games = games, !.expired = run[w].expired]]
        /\ run[w].expired \in BOOLEAN
    BY <1>0, <1>1 DEF Base, TypeOK, RunDocument
  <2> HIDE DEF w
  <2> QED BY <1>0, <2>1, <2>2, RewriteUnwritten DEF ArchiveEffect
<1> QED BY <1>1, GuardedArchive

LEMMA ReviewArchive ==
    ASSUME Base, NEW t \in Task,
           RecordReviewed(t) \/ ExhaustUnattempted(t) \/ TerminalizeUnfinished(t)
    PROVE  ArchiveEffect
<1> DEFINE w == task[t].window
<1>1. task[t].pc \in Executing
  BY DEF RecordReviewed, ExhaustUnattempted, TerminalizeUnfinished, Executing
<1>2. \E g \in Game, outcome \in {"reviewed", "terminal", "exhausted", "unfinished"}, n \in 0..1 :
        LET entry == [progress |-> outcome, attempts |-> run[w].games[g].attempts + n]
        IN  /\ UNCHANGED archiveVars
            /\ \/ UNCHANGED run
               \/ HoldsLease(t, w) /\ run' = [run EXCEPT ![w] = CompletedRun(w, "fenced")]
               \/ run' = [run EXCEPT ![w].games = [run[w].games EXCEPT ![g] = entry]]
  <2> DEFINE Recorded(g, entry) ==
                /\ UNCHANGED archiveVars
                /\ \/ UNCHANGED run
                   \/ HoldsLease(t, w) /\ run' = [run EXCEPT ![w] = CompletedRun(w, "fenced")]
                   \/ run' = [run EXCEPT ![w].games = [run[w].games EXCEPT ![g] = entry]]
             entry(g, outcome, n) ==
                [progress |-> outcome, attempts |-> run[w].games[g].attempts + n]
  <2>1. CASE RecordReviewed(t)
    <3>1. PICK g \in Game, outcome \in {"reviewed", "terminal", "exhausted"} :
              Recorded(g, entry(g, outcome, 1))
      BY <2>1 DEF RecordReviewed, RecordGame, AtStateFence
    <3> HIDE DEF Recorded
    <3>2. 1 \in 0..1 /\ outcome \in {"reviewed", "terminal", "exhausted", "unfinished"}
      OBVIOUS
    <3> QED BY <3>1, <3>2 DEF Recorded
  <2>2. ASSUME NEW g \in Game, run[w].games[g].attempts \in Nat
        PROVE  \A outcome : [progress |-> outcome, attempts |-> run[w].games[g].attempts]
                              = entry(g, outcome, 0)
    BY <2>2
  <2>3. \A g \in Game : run[w].games[g].attempts \in Nat
    BY <1>1, ExecutingFacts DEF GameEntry
  <2>4. CASE ExhaustUnattempted(t)
    <3>1. PICK g \in Game :
              Recorded(g, [progress |-> "exhausted", attempts |-> run[w].games[g].attempts])
      BY <2>4 DEF ExhaustUnattempted, RecordGame, AtStateFence
    <3>2. Recorded(g, entry(g, "exhausted", 0))
      BY <2>2, <2>3, <3>1
    <3>3. 0 \in 0..1
      OBVIOUS
    <3> QED BY <3>2, <3>3
  <2>5. CASE TerminalizeUnfinished(t)
    <3>1. PICK g \in Game :
              Recorded(g, [progress |-> "unfinished", attempts |-> run[w].games[g].attempts])
      BY <2>5 DEF TerminalizeUnfinished, RecordGame, AtStateFence
    <3>2. Recorded(g, entry(g, "unfinished", 0))
      BY <2>2, <2>3, <3>1
    <3>3. 0 \in 0..1
      OBVIOUS
    <3> QED BY <3>2, <3>3
  <2> QED BY <2>1, <2>4, <2>5
<1>3. PICK g \in Game, outcome \in {"reviewed", "terminal", "exhausted", "unfinished"}, n \in 0..1 :
        LET entry == [progress |-> outcome, attempts |-> run[w].games[g].attempts + n]
        IN  /\ UNCHANGED archiveVars
            /\ \/ UNCHANGED run
               \/ HoldsLease(t, w) /\ run' = [run EXCEPT ![w] = CompletedRun(w, "fenced")]
               \/ run' = [run EXCEPT ![w].games = [run[w].games EXCEPT ![g] = entry]]
  BY <1>2
<1> DEFINE e == [progress |-> outcome, attempts |-> run[w].games[g].attempts + n]
<1>4. e \in GameEntry
  <2>1. run[w].games[g].attempts \in Nat
    BY <1>1, ExecutingFacts DEF GameEntry
  <2> QED BY <2>1 DEF GameEntry, Progress
<1>5. /\ UNCHANGED archiveVars
      /\ \/ UNCHANGED run
         \/ HoldsLease(t, w) /\ run' = [run EXCEPT ![w] = CompletedRun(w, "fenced")]
         \/ run' = [run EXCEPT ![w].games = [run[w].games EXCEPT ![g] = e]]
  BY <1>3
<1> HIDE DEF e
<1> QED BY <1>1, <1>4, <1>5, RecordedArchive

(* The steps that leave the archive and every outcome alone, or end a Run  *)
(* without a digest.                                                       *)
LEMMA PlainExecutionArchive ==
    ASSUME Base, NEW t \in Task,
           \/ CheckFence(t) \/ DeadlineReached(t) \/ Select(t) \/ FreezeSelection(t)
           \/ RecordRetryable(t) \/ FinishReviewing(t) \/ Heartbeat(t)
    PROVE  ArchiveEffect
<1> DEFINE w == task[t].window
<1>1. /\ task[t].pc \in Executing /\ UNCHANGED archiveVars
  BY DEF CheckFence, DeadlineReached, Select, FreezeSelection, RecordRetryable,
         FinishReviewing, Heartbeat, AtStateFence, Executing
<1>0. w \in Window /\ run[w] \in RunDocument
      /\ task[t].games \in [Game -> GameEntry] /\ run[w].games \in [Game -> GameEntry]
  BY <1>1, ExecutingFacts
<1>2. CASE ~HoldsLease(t, w) \/ Fenced(w) \/ UNCHANGED run
  BY <1>1, <1>2, GuardedArchive
     DEF CheckFence, DeadlineReached, Select, FreezeSelection, RecordRetryable,
         FinishReviewing, Heartbeat, AtStateFence
<1>3. CASE HoldsLease(t, w) /\ ~Fenced(w) /\ ~UNCHANGED run /\ FreezeSelection(t)
  <2>1. run' = [run EXCEPT ![w].games = task[t].games]
    BY <1>3 DEF FreezeSelection, AtStateFence
  <2>2. run' = [run EXCEPT ![w] = [run[w] EXCEPT !.games = task[t].games,
                                                 !.expired = run[w].expired]]
        /\ run[w].expired \in BOOLEAN
    BY <1>0, <2>1 DEF Base, TypeOK, RunDocument
  <2> QED BY <1>0, <1>1, <2>2, RewriteUnwritten DEF ArchiveEffect
<1>4. CASE HoldsLease(t, w) /\ ~Fenced(w) /\ ~UNCHANGED run /\ Heartbeat(t)
  <2>1. run' = [run EXCEPT ![w].expired = FALSE]
    BY <1>4 DEF Heartbeat, AtStateFence
  <2>2. run' = [run EXCEPT ![w] = [run[w] EXCEPT !.games = run[w].games, !.expired = FALSE]]
    BY <1>0, <2>1 DEF Base, TypeOK, RunDocument
  <2> QED BY <1>0, <1>1, <2>2, RewriteUnwritten DEF ArchiveEffect
<1>5. CASE HoldsLease(t, w) /\ ~Fenced(w) /\ ~UNCHANGED run /\ RecordRetryable(t)
  <2>1. PICK g \in Game :
            run' = [run EXCEPT ![w].games[g].attempts = @ + 1, ![w].expired = FALSE]
    BY <1>5 DEF RecordRetryable, AtStateFence, Pending
  <2> DEFINE games == [run[w].games EXCEPT ![g].attempts = @ + 1]
  <2>2. games \in [Game -> GameEntry]
    <3>1. [run[w].games[g] EXCEPT !.attempts = @ + 1] \in GameEntry
      BY <1>0 DEF GameEntry
    <3> QED BY <1>0, <3>1
  <2>3. run' = [run EXCEPT ![w] = [run[w] EXCEPT !.games = games, !.expired = FALSE]]
    BY <1>0, <2>1 DEF Base, TypeOK, RunDocument
  <2> HIDE DEF games
  <2> QED BY <1>0, <1>1, <2>2, <2>3, RewriteUnwritten DEF ArchiveEffect
<1>6. CASE /\ HoldsLease(t, w) /\ ~Fenced(w) /\ ~UNCHANGED run
           /\ CheckFence(t) \/ DeadlineReached(t) \/ Select(t) \/ FinishReviewing(t)
  BY <1>6 DEF CheckFence, DeadlineReached, Select, FinishReviewing, AtStateFence
<1> QED BY <1>2, <1>3, <1>4, <1>5, <1>6

LEMMA CompletionArchive ==
    ASSUME Base, NEW t \in Task, CompleteRun(t) \/ Publish(t)
    PROVE  ArchiveEffect
<1> DEFINE w == task[t].window
<1>1. task[t].pc \in Executing
  BY DEF CompleteRun, Publish, Executing
<1>0. w \in Window
  BY <1>1, ExecutingFacts
<1>2. CASE UNCHANGED <<run, archiveVars>>
  BY <1>1, <1>2, GuardedArchive
<1>3. CASE /\ HoldsLease(t, w) /\ UNCHANGED archiveVars
           /\ \E outcome \in {"noDigest", "fenced", "abandoned"} :
                  run' = [run EXCEPT ![w] = CompletedRun(w, outcome)]
  <2>1. PICK outcome \in {"noDigest", "fenced", "abandoned"} :
            run' = [run EXCEPT ![w] = CompletedRun(w, outcome)]
    BY <1>3
  <2>2. outcome \in Completed
    BY DEF Completed
  <2> HIDE DEF w
  <2>3. Moves(w, {"active"}, {outcome})
    BY <1>0, <1>3, <2>1, <2>2, CompletingMoves
  <2>4. Moves(w, {"active"}, {"noDigest", "fenced", "abandoned"})
    BY <2>3 DEF Moves
  <2> QED BY <1>0, <1>3, <2>4 DEF ArchiveEffect
<1>4. CASE /\ HoldsLease(t, w) /\ Kept(w) # {}
           /\ run' = [run EXCEPT ![w] = CompletedRun(w, "published")]
           /\ digest' = [digest EXCEPT ![w] = Kept(w)] /\ card' = Recarded(w)
  <2>1. "published" \in Completed
    BY DEF Completed
  <2> HIDE DEF w
  <2>2. Moves(w, {"active"}, {"published"})
    BY <1>0, <1>4, <2>1, CompletingMoves
  <2> QED BY <1>0, <1>4, <2>2 DEF ArchiveEffect, Publishes
<1>5. CASE CompleteRun(t)
  <2>1. task[t].outcome \in {"noDigest", "abandoned"}
    BY <1>1, <1>5, ExecutingFacts DEF Base, TaskWellFormed, CompleteRun
  <2> QED BY <1>2, <1>3, <1>5, <2>1 DEF CompleteRun, AtStateFence
<1>6. CASE Publish(t)
  BY <1>2, <1>3, <1>4, <1>6 DEF Publish, AtStateFence
<1> QED BY <1>5, <1>6

(* Claims, takeovers and regenerations.                                    *)
LEMMA GrantArchive ==
    ASSUME Base, NEW t \in Task,
           \/ Claim(t) \/ Advance(t) \/ ReadState(t) \/ RequestRegeneration(t) \/ Fail(t)
           \/ ReopenForRegeneration(t) \/ \E w \in Window : TakeOver(t, w)
    PROVE  ArchiveEffect
<1>1. UNCHANGED archiveVars
  BY DEF Claim, Advance, ReadState, RequestRegeneration, Fail, ReopenForRegeneration,
         TakeOver, archiveVars
<1>2. run \in [Window -> RunDocument] /\ task \in [Task -> TaskState]
  BY DEF Base, TypeOK
<1>3. CASE UNCHANGED run
  BY <1>1, <1>3, StandingRuns DEF ArchiveEffect
<1>4. CASE Claim(t) /\ ~UNCHANGED run
  <2> DEFINE w == task[t].window
             r == IF task[t].pc = "skip" THEN SkippedRun(task[t].snapshot)
                                         ELSE ClaimedRun(t, task[t].snapshot)
  <2>1. w \in Window
    BY <1>4 DEF Claim, Base, TaskWellFormed
  <2>2. run[w].status = "absent" /\ run' = [run EXCEPT ![w] = r]
    BY <1>4 DEF Claim
  <2>3. r \in RunDocument /\ r.status \in {"active", "skipped"} /\ r.regenerations = 0
    <3>1. task[t].snapshot \in Snapshot
      BY <1>2 DEF TaskState
    <3>2. /\ task[t].snapshot.runFence \in Nat
          /\ task[t].snapshot.connections \in SUBSET Profile
      BY <3>1 DEF Snapshot
    <3>3. HolderOf[t] \in Holder
      BY TaskAssumption
    <3>4. SkippedRun(task[t].snapshot) \in RunDocument
          /\ SkippedRun(task[t].snapshot).status = "skipped"
          /\ SkippedRun(task[t].snapshot).regenerations = 0
      BY <3>2, ConstantTypes DEF SkippedRun, NoRun, RunDocument, Completed
    <3>5. ClaimedRun(t, task[t].snapshot) \in RunDocument
          /\ ClaimedRun(t, task[t].snapshot).status = "active"
          /\ ClaimedRun(t, task[t].snapshot).regenerations = 0
      BY <3>2, <3>3, ConstantTypes DEF ClaimedRun, NoRun, RunDocument, Completed
    <3> QED BY <3>4, <3>5
  <2> HIDE DEF w, r
  <2> QED BY <1>1, <2>1, <2>2, <2>3 DEF ArchiveEffect, Starts
<1>5. CASE ReopenForRegeneration(t) /\ ~UNCHANGED run
  <2> DEFINE w == task[t].window
             r == [run[w] EXCEPT !.status = "active", !.holder = HolderOf[t], !.token = 1,
                       !.games = NoSelection, !.regenerations = @ + 1]
  <2>1. w \in Window
    BY <1>5 DEF ReopenForRegeneration, Base, TaskWellFormed
  <2>2. /\ run[w].status \in {"published", "noDigest"}
        /\ run' = [run EXCEPT
                      ![w].status = "active", ![w].holder = HolderOf[t], ![w].token = 1,
                      ![w].games = NoSelection, ![w].regenerations = @ + 1]
    BY <1>5 DEF ReopenForRegeneration, Visible
  <2>3. run' = [run EXCEPT ![w] = r]
    BY <1>2, <2>1, <2>2
  <2>4. /\ r.status = "active" /\ r.regenerations = run[w].regenerations + 1
        /\ run[w].regenerations \in Nat
    BY <1>2, <2>1 DEF RunDocument
  <2>5. r \in RunDocument
    <3>1. HolderOf[t] \in Holder
      BY TaskAssumption
    <3>2. run[w] \in RunDocument
      BY <1>2, <2>1
    <3>3. run[w].regenerations + 1 \in Nat /\ 1 \in Nat
      BY <2>4
    <3>4. NoSelection \in [Game -> GameEntry]
      BY ConstantTypes
    <3> HIDE DEF w
    <3> QED BY <3>1, <3>2, <3>3, <3>4 DEF RunDocument
  <2> HIDE DEF w, r
  <2>6. r.regenerations > 0
    BY <2>4
  <2> QED BY <1>1, <2>1, <2>2, <2>3, <2>4, <2>5, <2>6 DEF ArchiveEffect, Rebuilds
<1>6. ASSUME NEW w \in Window, TakeOver(t, w)
      PROVE  ArchiveEffect
  <2> DEFINE r == [run[w] EXCEPT !.holder = HolderOf[t], !.token = @ + 1,
                       !.expired = FALSE, !.takeovers = @ + 1]
  <2>1. run' = [run EXCEPT ![w] = r]
    BY <1>2, <1>6 DEF TakeOver
  <2>2. /\ r.status = run[w].status /\ r.regenerations = run[w].regenerations
    BY <1>2 DEF RunDocument
  <2>3. r \in RunDocument
    <3>1. HolderOf[t] \in Holder
      BY TaskAssumption
    <3>2. run[w] \in RunDocument
      BY <1>2
    <3>3. run[w].token + 1 \in Nat /\ run[w].takeovers + 1 \in Nat
      BY <3>2 DEF RunDocument
    <3> QED BY <3>1, <3>2, <3>3 DEF RunDocument
  <2> HIDE DEF r
  <2> QED BY <1>1, <2>1, <2>2, <2>3 DEF ArchiveEffect, Unwritten
<1>7. Advance(t) \/ ReadState(t) \/ RequestRegeneration(t) \/ Fail(t) => UNCHANGED run
  BY DEF Advance, ReadState, RequestRegeneration, Fail
<1> QED BY <1>3, <1>4, <1>5, <1>6, <1>7

(* Every step of the system is one of the archive's.                       *)
LEMMA NextArchive ==
    ASSUME IInv, [Next]_vars
    PROVE  ArchiveEffect
<1>0. Base
  BY DEF IInv, Base
<1>1. ASSUME NEW t \in Task, TaskStep(t)
      PROVE  ArchiveEffect
  <2>1. ExecuteStep(t) \/ Heartbeat(t) => ArchiveEffect
    BY <1>0, ReviewArchive, PlainExecutionArchive, CompletionArchive DEF ExecuteStep
  <2> QED BY <1>0, <1>1, <2>1, GrantArchive DEF TaskStep
<1>2. CASE ClockAdvances \/ OwnerEdits \/ UNCHANGED vars
  <2>1. UNCHANGED run /\ UNCHANGED archiveVars
    BY <1>2 DEF ClockAdvances, OwnerEdits, Connect, Replace, Remove, Resume, Pause, vars,
                archiveVars
  <2> QED BY <1>0, <2>1, StandingRuns DEF ArchiveEffect
<1>3. ASSUME NEW w \in Window, LeaseExpires(w) \/ ReopenedDeadlinePasses(w)
      PROVE  ArchiveEffect
  <2> DEFINE a == [run[w] EXCEPT !.expired = TRUE]
             b == [run[w] EXCEPT !.late = TRUE]
  <2>1. /\ run' = [run EXCEPT ![w] = a] \/ run' = [run EXCEPT ![w] = b]
        /\ UNCHANGED archiveVars
    BY <1>3 DEF LeaseExpires, ReopenedDeadlinePasses
  <2>2. /\ a \in RunDocument /\ a.status = run[w].status
        /\ a.regenerations = run[w].regenerations
        /\ b \in RunDocument /\ b.status = run[w].status
        /\ b.regenerations = run[w].regenerations
    BY <1>0 DEF Base, TypeOK, RunDocument
  <2> HIDE DEF a, b
  <2> QED BY <2>1, <2>2 DEF ArchiveEffect, Unwritten
<1> QED BY <1>1, <1>2, <1>3 DEF Next

-----------------------------------------------------------------------------
(* Cards and digests.                                                      *)

ArchiveInv == CardsMatchDigests /\ DigestsAreOfPublishedRuns

(* A publication takes no card of another digest, and gives up the cards   *)
(* of the digest it replaces.                                              *)
LEMMA PublishingKeepsCards ==
    ASSUME TypeOK, CardsMatchDigests, NEW w \in Window, Publishes(w)
    PROVE  CardsMatchDigests'
<1>1. /\ digest'[w] = Kept(w) /\ \A v \in Window \ {w} : digest'[v] = digest[v]
      /\ \A g \in Game : card'[g] = IF g \in Kept(w) THEN w
                                    ELSE IF g \in digest[w] THEN NoDate ELSE card[g]
  BY DEF Publishes, TypeOK, Recarded
<1>2. /\ \A v \in Window : digest[v] \subseteq Game
      /\ \A g \in Game : card[g] \in Window \cup {NoDate}
      /\ Kept(w) \subseteq Game /\ NoDate \notin Window
  <2>1. 0..LastWindow = Window \cup {NoDate}
    BY BoundAssumption DEF Window, NoDate
  <2>2. NoDate \notin Window
    BY WindowFacts DEF NoDate
  <2>3. \A v \in Window : digest[v] \subseteq Game
    BY DEF TypeOK
  <2>4. Kept(w) \subseteq Game
    BY DEF Kept, Reviewed
  <2> QED BY <2>1, <2>2, <2>3, <2>4 DEF TypeOK
<1>3. ASSUME NEW v \in Window, NEW g \in digest'[v]
      PROVE  card'[g] = v
  <2>1. CASE v = w
    BY <1>1, <1>2, <1>3, <2>1
  <2>2. CASE v # w
    <3>1. g \in digest[v] /\ g \in Game /\ card[g] = v
      BY <1>1, <1>2, <1>3, <2>2 DEF CardsMatchDigests
    <3>2. g \notin Kept(w)
      BY <1>2, <2>2, <3>1 DEF Kept
    <3>3. g \notin digest[w]
      BY <2>2, <3>1 DEF CardsMatchDigests
    <3> QED BY <1>1, <3>1, <3>2, <3>3
  <2> QED BY <2>1, <2>2
<1>4. ASSUME NEW g \in Game, card'[g] # NoDate
      PROVE  g \in digest'[card'[g]]
  <2>1. CASE g \in Kept(w)
    BY <1>1, <2>1
  <2>2. CASE g \notin Kept(w)
    <3>1. g \notin digest[w] /\ card'[g] = card[g]
      BY <1>1, <1>4, <2>2
    <3>2. g \in digest[card[g]] /\ card[g] \in Window
      BY <1>2, <1>4, <3>1 DEF CardsMatchDigests
    <3> QED BY <1>1, <3>1, <3>2
  <2> QED BY <2>1, <2>2
<1> QED BY <1>3, <1>4 DEF CardsMatchDigests

LEMMA ArchiveInvKept ==
    ASSUME TypeOK, ArchiveInv, ArchiveEffect
    PROVE  ArchiveInv'
<1>1. CASE UNCHANGED archiveVars
  <2>1. CardsMatchDigests'
    BY <1>1 DEF ArchiveInv, CardsMatchDigests, archiveVars
  <2>2. ASSUME NEW v \in Window, digest'[v] # {}
        PROVE  \/ run'[v].status = "published"
               \/ run'[v].status # "absent" /\ run'[v].regenerations > 0
    <3>1. \/ run[v].status = "published"
          \/ run[v].status # "absent" /\ run[v].regenerations > 0
      BY <1>1, <2>2 DEF ArchiveInv, DigestsAreOfPublishedRuns, archiveVars
    <3>2. PICK w \in Window, r \in RunDocument :
              /\ run' = [run EXCEPT ![w] = r]
              /\ \/ r.status = run[w].status /\ r.regenerations = run[w].regenerations
                 \/ run[w].status = "absent"
                 \/ /\ run[w].status = "active" /\ r.status # "absent"
                    /\ r.regenerations = run[w].regenerations
                 \/ r.status = "active" /\ r.regenerations > 0
      BY DEF ArchiveEffect, Unwritten, Starts, Moves, Rebuilds, Publishes
    <3>3. run'[w] = r /\ \A u \in Window \ {w} : run'[u] = run[u]
      BY <3>2 DEF TypeOK
    <3> QED BY <3>1, <3>2, <3>3
  <2> QED BY <2>1, <2>2 DEF ArchiveInv, DigestsAreOfPublishedRuns
<1>2. ASSUME NEW w \in Window, Publishes(w)
      PROVE  ArchiveInv'
  <2>1. CardsMatchDigests'
    BY <1>2, PublishingKeepsCards DEF ArchiveInv
  <2>2. PICK r \in RunDocument : run' = [run EXCEPT ![w] = r] /\ r.status = "published"
    BY <1>2 DEF Publishes, Moves
  <2>3. run'[w].status = "published" /\ \A u \in Window \ {w} : run'[u] = run[u]
    BY <2>2 DEF TypeOK
  <2>4. \A u \in Window \ {w} : digest'[u] = digest[u]
    BY <1>2 DEF Publishes, TypeOK
  <2> QED BY <2>1, <2>3, <2>4 DEF ArchiveInv, DigestsAreOfPublishedRuns
<1> QED BY <1>1, <1>2 DEF ArchiveEffect

LEMMA ArchiveHolds == Spec => []ArchiveInv
<1>1. Init => ArchiveInv
  BY DEF Init, ArchiveInv, CardsMatchDigests, DigestsAreOfPublishedRuns, NoDate
<1>2. IInv /\ ArchiveInv /\ [Next]_vars => ArchiveInv'
  BY NextArchive, ArchiveInvKept DEF IInv
<1> QED BY <1>1, <1>2, Invariance, PTL DEF Spec

(* The digested-game cards and the digests name each other: no game is in  *)
(* two digests, and a rebuild orphans no card (publication.rs).            *)
THEOREM CardsAlwaysMatch == Spec => []CardsMatchDigests
<1>1. ArchiveInv => CardsMatchDigests
  BY DEF ArchiveInv
<1> QED BY <1>1, ArchiveHolds, PTL

(* Publishing a window that nobody reopened finds no digest of it, so the  *)
(* check for a superseded digest never refuses one (publication.rs         *)
(* prepare_publication).                                                   *)
THEOREM NoDigestIsSuperseded ==
    Spec => [](\A w \in Window :
        run[w].status = "active" /\ run[w].regenerations = 0 => digest[w] = {})
<1>1. ASSUME IInv, ArchiveInv
      PROVE  \A w \in Window :
               run[w].status = "active" /\ run[w].regenerations = 0 => digest[w] = {}
  BY <1>1 DEF ArchiveInv, DigestsAreOfPublishedRuns
<1>2. IInv /\ ArchiveInv => \A w \in Window :
        run[w].status = "active" /\ run[w].regenerations = 0 => digest[w] = {}
  BY <1>1
<1> QED BY <1>2, ArchiveHolds, Invariance, PTL

-----------------------------------------------------------------------------
(* The store implements the archive.                                       *)

Statuses == [w \in Window |-> run[w].status]

LEMMA StatusesChange ==
    ASSUME TypeOK, NEW w \in Window, NEW r, run' = [run EXCEPT ![w] = r]
    PROVE  Statuses' = [Statuses EXCEPT ![w] = r.status]
<1>1. /\ run' \in [Window -> UNION {RunDocument, {r}}]
      /\ run'[w] = r /\ \A v \in Window \ {w} : run'[v] = run[v]
  BY DEF TypeOK
<1> QED BY <1>1 DEF Statuses

LEMMA StatusesStand ==
    ASSUME TypeOK, Unwritten
    PROVE  Statuses' = Statuses
<1>1. PICK w \in Window, r \in RunDocument :
          run' = [run EXCEPT ![w] = r] /\ r.status = run[w].status
  BY DEF Unwritten
<1>2. Statuses' = [Statuses EXCEPT ![w] = run[w].status]
  BY <1>1, StatusesChange
<1> QED BY <1>2 DEF Statuses

(* The cards of the digest it replaces are those shelved under the window. *)
LEMMA RecardedShelves ==
    ASSUME TypeOK, CardsMatchDigests, NEW w \in Window
    PROVE  Recarded(w) = [g \in Game |-> IF g \in Kept(w) THEN w
                                         ELSE IF card[g] = w THEN NoDate ELSE card[g]]
<1>1. w # NoDate
  BY WindowFacts DEF NoDate
<1>2. \A g \in Game : g \in digest[w] <=> card[g] = w
  BY <1>1 DEF CardsMatchDigests
<1> QED BY <1>2 DEF Recarded

LEMMA ArchiveStep ==
    ASSUME TypeOK, CardsMatchDigests, ArchiveEffect
    PROVE  [Archive!Next]_(Archive!vars)
<1> USE DEF Statuses
<1>0. Archive!Window = Window
  BY DEF Archive!Window, Window
<1>1. CASE Unwritten /\ UNCHANGED archiveVars
  BY <1>1, StatusesStand DEF Archive!vars, archiveVars
<1>2. ASSUME NEW w \in Window, Starts(w), UNCHANGED archiveVars
      PROVE  Archive!Next
  <2>1. PICK r \in RunDocument :
            run' = [run EXCEPT ![w] = r] /\ r.status \in {"active", "skipped"}
    BY <1>2 DEF Starts
  <2>2. Statuses' = [Statuses EXCEPT ![w] = r.status]
    BY <2>1, StatusesChange
  <2>3. Statuses[w] = "absent" /\ card' = card
    BY <1>2 DEF Starts, archiveVars
  <2>4. Archive!Start(w)
    BY <2>1, <2>2, <2>3 DEF Archive!Start
  <2> QED BY <1>0, <2>4 DEF Archive!Next
<1>3. ASSUME NEW w \in Window, UNCHANGED archiveVars,
             Moves(w, {"active"}, {"noDigest", "fenced", "abandoned"})
      PROVE  Archive!Next
  <2>1. PICK r \in RunDocument :
            run' = [run EXCEPT ![w] = r] /\ r.status \in {"noDigest", "fenced", "abandoned"}
    BY <1>3 DEF Moves
  <2>2. Statuses' = [Statuses EXCEPT ![w] = r.status]
    BY <2>1, StatusesChange
  <2>3. Statuses[w] = "active" /\ card' = card
    BY <1>3 DEF Moves, archiveVars
  <2>4. Archive!EndWithout(w)
    BY <2>1, <2>2, <2>3 DEF Archive!EndWithout
  <2> QED BY <1>0, <2>4 DEF Archive!Next
<1>4. ASSUME NEW w \in Window, UNCHANGED archiveVars, Rebuilds(w)
      PROVE  Archive!Next
  <2>1. PICK r \in RunDocument : run' = [run EXCEPT ![w] = r] /\ r.status = "active"
    BY <1>4 DEF Rebuilds
  <2>2. Statuses' = [Statuses EXCEPT ![w] = "active"]
    BY <2>1, StatusesChange
  <2>3. Statuses[w] \in {"published", "noDigest"} /\ card' = card
    BY <1>4 DEF Rebuilds, archiveVars
  <2>4. Archive!Rebuild(w)
    BY <2>2, <2>3 DEF Archive!Rebuild
  <2> QED BY <1>0, <2>4 DEF Archive!Next
<1>5. ASSUME NEW w \in Window, Publishes(w)
      PROVE  Archive!Next
  <2>1. PICK r \in RunDocument : run' = [run EXCEPT ![w] = r] /\ r.status = "published"
    BY <1>5 DEF Publishes, Moves
  <2>2. Statuses' = [Statuses EXCEPT ![w] = "published"]
    BY <2>1, StatusesChange
  <2>3. Statuses[w] = "active" /\ card' = Recarded(w)
    BY <1>5 DEF Publishes, Moves
  <2>4. /\ Kept(w) \in SUBSET Game /\ Kept(w) # {}
        /\ \A g \in Kept(w) : card[g] \in {NoDate, w}
    BY <1>5 DEF Publishes, Kept, Reviewed
  <2>5. Archive!NoShelf = NoDate
    BY DEF Archive!NoShelf, NoDate
  <2> PICK games \in SUBSET Game : games = Kept(w)
    BY <2>4
  <2>6. Archive!Publish(w, games)
    BY <2>2, <2>3, <2>4, <2>5, RecardedShelves DEF Archive!Publish
  <2>7. w \in Archive!Window
    BY <1>0
  <2> QED BY <2>6, <2>7 DEF Archive!Next
<1> QED BY <1>1, <1>2, <1>3, <1>4, <1>5 DEF ArchiveEffect

(* The store's transactions implement the archive: every one is a step of  *)
(* one window's lifecycle, and publishing shelves a set of games that no   *)
(* other window's digest holds (runs.rs, publication.rs).                  *)
THEOREM StoreImplementsArchive == Spec => ImplementsArchive
<1>1. Init => Archive!Init
  <2> SUFFICES ASSUME Init PROVE Archive!Init
    OBVIOUS
  <2>1. Archive!Window = Window /\ Archive!NoShelf = NoDate
    BY DEF Archive!Window, Window, Archive!NoShelf, NoDate
  <2>2. \A w \in Window : run[w].status = "absent"
    BY DEF Init, NoRun
  <2> QED BY <2>1, <2>2 DEF Init, Archive!Init
<1>2. IInv /\ ArchiveInv /\ [Next]_vars => [Archive!Next]_(Archive!vars)
  BY NextArchive, ArchiveStep DEF IInv, ArchiveInv
<1> QED BY <1>1, <1>2, Invariance, ArchiveHolds, PTL
        DEF Spec, ImplementsArchive, Archive!Spec

=============================================================================
