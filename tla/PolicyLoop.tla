------------------------------ MODULE PolicyLoop ------------------------------
(***************************************************************************)
(* The policy command (main.cpp, RunPolicyCommand): once a tick it samples *)
(* memory, the watched processes and the user, evaluates the policy and    *)
(* lets PolicyExecutor (policy_executor.cpp) reconcile what it holds with  *)
(* the decision.  It composes PolicyEngine, PriorityBooster and            *)
(* PowerLocker with the executor's own state.                              *)
(*                                                                         *)
(* ApplyDecision is split where it calls a backend: processes start and    *)
(* exit in between.                                                        *)
(***************************************************************************)
EXTENDS PolicyEngine, FiniteSets

CONSTANTS
    Pids, GameOf,          \* processes, and the game whose rule each one matches
    MaxBirths, None, Handles,   \* see PriorityBooster and PowerLocker
    PriorityEnabled, ExecutionRequired, DisplayRequired,   \* ExecutorConfig
    HaltAfter              \* ExecutorConfig::consecutiveActionFailuresToHalt

VARIABLES
    leases, os,                                                  \* PriorityBooster
    lockCount, lockHandle, openHandles, requests,                \* PowerLocker
    at,             \* where the loop is
    target,         \* ExecutorTarget of this tick
    critical,       \* history: this tick's memory sample was in critical pressure
    priorityGame,   \* priorityGameId_, NoGame when empty
    priorityPid,    \* priorityPid_
    powerHeld,      \* powerHeld_
    displayHeld,    \* displayHeld_
    failures,       \* consecutiveActionFailures_
    halted,         \* halted_
    applied         \* the result of the last ApplyDecision, "none" before the first

LevelsAsked == {1}
MaxLevel == 1
MaxCount == 1
LockTypes == {"execution", "display"}
MaxLocks == 1
Booster == INSTANCE PriorityBooster
    WITH GameIds <- Games,
         releasing <- at = "destroy" /\ \E g \in Games : leases[g] # None
Locker == INSTANCE PowerLocker

ASSUME LoopAssumption ==
    /\ Games \subseteq Nat
    /\ GameOf \in [Pids -> Games]
    /\ MaxBirths \in Nat
    /\ None \notin Booster!Lease
    /\ 0 \notin Handles
    /\ {PriorityEnabled, ExecutionRequired, DisplayRequired} \subseteq BOOLEAN
    /\ HaltAfter \in Nat

boostVars == <<leases, os>>
lockVars == <<lockCount, lockHandle, openHandles, requests>>
heldVars == <<priorityGame, priorityPid, powerHeld, displayHeld>>
haltVars == <<failures, halted>>
tickVars == <<target, critical, applied>>
vars == <<engineVars, boostVars, lockVars, at, heldVars, haltVars, tickVars>>

Places == {"sample", "priority", "acquire", "execution", "display",
           "release_priority", "release_execution", "release_display", "destroy", "done"}
NoTarget == [game |-> NoGame, pid |-> None, born |-> 0, running |-> FALSE]

Init ==
    /\ at = "sample"
    /\ EngineInit
    /\ Booster!BoosterInit
    /\ Locker!LockerInit
    /\ target = NoTarget
    /\ critical = FALSE
    /\ priorityGame = NoGame
    /\ priorityPid = None
    /\ powerHeld = FALSE
    /\ displayHeld = FALSE
    /\ failures = 0
    /\ halted = FALSE
    /\ applied = "none"

----------------------------------------------------------------------------
(* One tick: sample, poll, decide.                                         *)

\* What the poll may find: a process of the first rule that has one, with its
\* creation time or, if that query fails, 0.  A failed poll finds nothing.
LiveGames == {GameOf[p] : p \in {q \in Pids : os.alive[q]}}
Polled ==
    {NoTarget} \cup
    {[game |-> GameOf[p], pid |-> p, born |-> b, running |-> TRUE] :
       p \in {q \in Pids : os.alive[q] /\ \A g \in LiveGames : GameOf[q] <= g},
       b \in UNION {{0, os.born[q]} : q \in Pids}}
PollOnce == {t \in Polled : t.running => t.born \in {0, os.born[t.pid]}}

\* A valid memory sample is evaluated; an invalid one gives the default decision
\* and leaves the evaluator alone.
Decide(margin, i) ==
    IF margin # -1 /\ ValidThresholds
    THEN Evaluate(i, 1)
    ELSE /\ effective' = DefaultDecision
         /\ sinceChange' = Upto(sinceChange + 1)
         /\ UNCHANGED <<hasLast, lastDecision, filterState>>

Tick ==
    /\ at = "sample"
    /\ \E a \in Available, foreground, present \in BOOLEAN, t \in PollOnce :
          /\ foreground => t.running
          /\ target' = t
          /\ LET margin == ComputeMemoryMarginPercent(a, Total)
             IN  /\ Decide(margin, [game |-> t.game, foreground |-> foreground,
                                    present |-> present, margin |-> margin])
                 /\ critical' = (ClassifyPressure(margin) = "critical")
    /\ IF halted THEN at' = "sample" /\ applied' = "ok"
                 ELSE at' = "priority" /\ UNCHANGED applied
    /\ UNCHANGED <<leases, os, lockVars, heldVars, haltVars>>

----------------------------------------------------------------------------
(* PolicyExecutor::ApplyDecision.                                          *)

Succeed ==
    /\ at' = "sample"
    /\ applied' = "ok"
    /\ failures' = 0
    /\ UNCHANGED halted

\* Mutant of Fail: failures are counted and nothing comes of it.
FailWithoutHalt ==
    /\ at' = "sample"
    /\ applied' = "failed"
    /\ failures' = IF HaltAfter > 0 THEN failures + 1 ELSE failures
    /\ UNCHANGED halted

\* A backend failure ends the call; HaltAfter of them in a row halt the executor.
Fail ==
    /\ at' = "sample"
    /\ applied' = "failed"
    /\ failures' = IF HaltAfter > 0 THEN failures + 1 ELSE failures
    /\ halted' = (HaltAfter > 0 /\ failures' >= HaltAfter)

Continue(place) == at' = place /\ UNCHANGED <<applied, haltVars>>

BoostDesired ==
    PriorityEnabled /\ target.running /\ effective.action = "SuggestPriorityBoost"

\* What is held for priority is what is still wanted.
PriorityKept == BoostDesired /\ priorityGame = target.game /\ priorityPid = target.pid

\* Mutant of ReconcilePriority: the record is dropped before the release is known
\* to have worked.
ReconcilePriorityForgetting ==
    /\ at = "priority"
    /\ IF priorityGame # NoGame /\ ~(BoostDesired /\ priorityPid = target.pid)
       THEN /\ \E ok \in BOOLEAN : Booster!ReleaseBoost(priorityGame, priorityPid, ok)
            /\ priorityGame' = NoGame
            /\ Continue(IF BoostDesired THEN "acquire" ELSE "execution")
       ELSE /\ Continue(IF BoostDesired /\ priorityGame = NoGame THEN "acquire" ELSE "execution")
            /\ UNCHANGED <<leases, os, priorityGame>>
    /\ UNCHANGED <<engineVars, lockVars, priorityPid, powerHeld, displayHeld,
                   target, critical>>

\* ReconcilePriority up to its first backend call: nothing to do, a fresh boost,
\* or the release of what is held.
ReconcilePriority ==
    /\ at = "priority"
    /\ IF priorityGame = NoGame \/ PriorityKept
       THEN /\ Continue(IF BoostDesired /\ priorityGame = NoGame THEN "acquire" ELSE "execution")
            /\ UNCHANGED <<leases, os, priorityGame>>
       ELSE \E ok \in BOOLEAN :
            /\ Booster!ReleaseBoost(priorityGame, priorityPid, ok)
            /\ \/ /\ ok
                  /\ priorityGame' = NoGame
                  /\ Continue(IF BoostDesired THEN "acquire" ELSE "execution")
               \/ /\ ~ok
                  /\ Fail
                  /\ UNCHANGED priorityGame
    /\ UNCHANGED <<engineVars, lockVars, priorityPid, powerHeld, displayHeld,
                   target, critical>>

AcquireBoost ==
    /\ at = "acquire"
    /\ \E ok \in BOOLEAN :
          /\ Booster!AcquireBoost(target.game, target.pid, target.born, MaxLevel, ok)
          /\ \/ /\ ok
                /\ priorityGame' = target.game
                /\ priorityPid' = target.pid
                /\ Continue("execution")
             \/ /\ ~ok
                /\ Fail
                /\ UNCHANGED <<priorityGame, priorityPid>>
    /\ UNCHANGED <<engineVars, lockVars, powerHeld, displayHeld, target, critical>>

\* ReconcilePowerLock: desired and held are compared, a difference is one backend
\* call, and its failure leaves held alone.
ReconcilePowerLock(type, held, heldAfter, desired, Then) ==
    \/ /\ held = desired
       /\ Then
       /\ heldAfter = held
       /\ UNCHANGED lockVars
    \/ /\ held # desired
       /\ \E ok \in BOOLEAN :
             /\ IF desired THEN Locker!AcquireLock(type, ok) ELSE Locker!ReleaseLock(type, ok)
             /\ \/ ok /\ heldAfter = desired /\ Then
                \/ ~ok /\ heldAfter = held /\ Fail

ReconcileExecution ==
    /\ at = "execution"
    /\ ReconcilePowerLock("execution", powerHeld, powerHeld',
                          ExecutionRequired /\ target.running, Continue("display"))
    /\ UNCHANGED <<engineVars, leases, os, priorityGame, priorityPid, displayHeld,
                   target, critical>>

\* Mutant of ReconcileDisplay: the game's exit is not looked at.
ReconcileDisplayAlways ==
    /\ at = "display"
    /\ ReconcilePowerLock("display", displayHeld, displayHeld', DisplayRequired, Succeed)
    /\ UNCHANGED <<engineVars, leases, os, priorityGame, priorityPid, powerHeld,
                   target, critical>>

ReconcileDisplay ==
    /\ at = "display"
    /\ ReconcilePowerLock("display", displayHeld, displayHeld',
                          DisplayRequired /\ target.running, Succeed)
    /\ UNCHANGED <<engineVars, leases, os, priorityGame, priorityPid, powerHeld,
                   target, critical>>

----------------------------------------------------------------------------
(* The end of the command: PolicyExecutor::ReleaseAll, then the            *)
(* destructors of the booster, lease by lease, and of the locker.          *)

\* The locals of the loop's body go, and the evaluator is not used again.
Leave ==
    /\ at = "sample"
    /\ at' = "release_priority"
    /\ target' = NoTarget
    /\ critical' = FALSE
    /\ applied' = "none"
    /\ hasLast' = FALSE
    /\ lastDecision' = DefaultDecision
    /\ filterState' = FALSE
    /\ sinceChange' = 0
    /\ effective' = DefaultDecision
    /\ UNCHANGED <<leases, os, lockVars, heldVars, haltVars>>

ReleasePriority ==
    /\ at = "release_priority"
    /\ at' = "release_execution"
    /\ IF priorityGame = NoGame THEN UNCHANGED <<leases, os>>
       ELSE \E ok \in BOOLEAN : Booster!ReleaseBoost(priorityGame, priorityPid, ok)
    /\ priorityGame' = NoGame
    /\ UNCHANGED <<engineVars, lockVars, priorityPid, powerHeld, displayHeld,
                   haltVars, tickVars>>

ReleaseExecution ==
    /\ at = "release_execution"
    /\ at' = "release_display"
    /\ IF ~powerHeld THEN UNCHANGED lockVars
       ELSE \E ok \in BOOLEAN : Locker!ReleaseLock("execution", ok)
    /\ powerHeld' = FALSE
    /\ UNCHANGED <<engineVars, leases, os, priorityGame, priorityPid, displayHeld,
                   haltVars, tickVars>>

ReleaseDisplay ==
    /\ at = "release_display"
    /\ at' = "destroy"
    /\ IF ~displayHeld THEN UNCHANGED lockVars
       ELSE \E ok \in BOOLEAN : Locker!ReleaseLock("display", ok)
    /\ displayHeld' = FALSE
    /\ UNCHANGED <<engineVars, leases, os, priorityGame, priorityPid, powerHeld,
                   haltVars, tickVars>>

\* Mutant of Destroy: the destructors do not release.
DestroyWithoutRelease ==
    /\ at = "destroy"
    /\ at' = "done"
    /\ UNCHANGED <<engineVars, leases, os, lockVars, heldVars, haltVars, tickVars>>

Destroy ==
    /\ at = "destroy"
    /\ \/ /\ \E g \in Games : Booster!ForceClean(g)
          /\ UNCHANGED <<at, lockVars>>
       \/ /\ ~Booster!AnyHeld
          /\ Locker!LockerReleaseAll
          /\ at' = "done"
          /\ UNCHANGED <<leases, os>>
    /\ UNCHANGED <<engineVars, heldVars, haltVars, tickVars>>

\* Processes start and exit whenever they like, and stop mattering at the end.
Processes ==
    /\ at # "done"
    /\ \E p \in Pids : Booster!Spawn(p) \/ Booster!Exit(p)
    /\ UNCHANGED <<engineVars, lockVars, at, heldVars, haltVars, tickVars>>

Next ==
    \/ Tick
    \/ ReconcilePriority \/ AcquireBoost \/ ReconcileExecution \/ ReconcileDisplay
    \/ Leave \/ ReleasePriority \/ ReleaseExecution \/ ReleaseDisplay \/ Destroy
    \/ Processes

Spec == Init /\ [][Next]_vars

----------------------------------------------------------------------------
(* Properties.                                                             *)

\* Types of the executor's members and of the loop's locals.
LoopTypeOK ==
    /\ at \in Places
    /\ target \in {NoTarget} \cup
                  [game : Games, pid : Pids, born : 0..MaxBirths, running : {TRUE}]
    /\ effective \in Decision
    /\ priorityGame \in Games \cup {NoGame}
    /\ priorityPid \in Pids \cup {None}
    /\ {powerHeld, displayHeld, halted, critical} \subseteq BOOLEAN
    /\ failures \in 0..HaltAfter
    /\ applied \in {"none", "ok", "failed"}

Looping == at \in {"sample", "priority", "acquire", "execution", "display"}

\* What the executor believes it holds is what the booster and the locker hold
\* for it, after every failure too: nothing is held that the executor would not
\* release again, and it never counts a failed action as done.  A game is leased once:
\* AcquireBoost, which forgets a nested lease when the game moves to another process, is
\* never called for it again while it is held.
RecordsAgree ==
    Looping =>
       /\ \A g \in Games : Booster!Held(g) <=> priorityGame = g
       /\ priorityGame # NoGame => /\ leases[priorityGame].pid = priorityPid
                                   /\ leases[priorityGame].count = 1
       /\ lockCount["execution"] = (IF powerHeld THEN 1 ELSE 0)
       /\ lockCount["display"] = (IF displayHeld THEN 1 ELSE 0)

\* When the command has ended, nothing of what it did is left: no lease, no open
\* handle, no power request, and no process still raised by it, except one whose
\* class could not be queried or put back by the last, forced clean-up.
ExitLeavesNothing ==
    at = "done" =>
       /\ \A g \in Games : ~Booster!Held(g)
       /\ \A p \in Pids : os.handles[p] = 0 /\ ~os.raised[p]
       /\ requests = {} /\ openHandles = {}

\* After a tick in critical memory pressure that reported success, no boost is
\* held: the decision is revoked whatever the hysteresis does.
CriticalRevokesBoost ==
    at = "sample" /\ applied = "ok" /\ ~halted /\ critical => priorityGame = NoGame

\* After an ApplyDecision that reported success for a tick without a running game,
\* the executor holds nothing: the game's exit releases what was held for it, as
\* long as the executor is not halted.
GameExitReleases ==
    at = "sample" /\ applied = "ok" /\ ~halted /\ ~target.running =>
       priorityGame = NoGame /\ ~powerHeld /\ ~displayHeld

\* The same of every ApplyDecision that reports success, as the class comment of
\* PolicyExecutor says without exception.
GameExitAlwaysReleases ==
    at = "sample" /\ applied = "ok" /\ ~target.running =>
       priorityGame = NoGame /\ ~powerHeld /\ ~displayHeld
=============================================================================
