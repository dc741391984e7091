--------------------------- MODULE PolicyLoopProofs ---------------------------
(***************************************************************************)
(* The policy command for any games, processes, thresholds and settings:   *)
(* what the executor believes it holds is what the backends hold for it,   *)
(* and nothing is left when the command ends.                              *)
(***************************************************************************)
EXTENDS PolicyLoop, TLAPS

----------------------------------------------------------------------------
(* The inductive invariant.                                                *)

\* Shapes of the booster's leases and of the system's side; how many handles are open does
\* not matter here.
OsShape == [born : [Pids -> 0..MaxBirths], alive : [Pids -> BOOLEAN],
            class : [Pids -> Booster!Classes], handles : [Pids -> Int],
            raised : [Pids -> BOOLEAN]]
BoostShape(ls, w) == ls \in [Games -> Booster!Lease \cup {None}] /\ w \in OsShape

BackendsShape == BoostShape(leases, os) /\ lockCount \in [LockTypes -> Nat]

\* ApplyDecision is over and has reported success.
Settled == at = "sample" /\ applied = "ok" /\ ~halted

\* What the executor knows between its steps: it runs only while it is not halted, asks for
\* a boost only when it holds none, and has let go of what this tick does not want.  The
\* target it was given is a process that was there, and a boost is not wanted in critical
\* pressure, because the filter holds back only changes between acting and not acting.
ExecutorInv ==
    /\ at \in {"priority", "acquire", "execution", "display"} => ~halted
    /\ ~halted => IF HaltAfter > 0 THEN failures < HaltAfter ELSE failures = 0
    /\ priorityGame # NoGame => priorityPid \in Pids
    /\ at = "acquire" => BoostDesired /\ priorityGame = NoGame
    /\ at \in {"execution", "display"} \/ Settled => BoostDesired \/ priorityGame = NoGame
    /\ at = "display" \/ Settled => target.running \/ ~powerHeld
    /\ Settled => target.running \/ ~displayHeld
    /\ target.running => Looping /\ target.born <= os.born[target.pid]
    /\ critical => ~(target.running /\ effective.action = "SuggestPriorityBoost")
    /\ lastDecision \in Decision
    /\ filterState = Acting(lastDecision)
    /\ at = "done" => (\A g \in Games : leases[g] = None) /\ (\A t \in LockTypes : lockCount[t] = 0)

LoopInv == BackendsShape /\ LoopTypeOK /\ RecordsAgree /\ ExecutorInv

----------------------------------------------------------------------------
(* What the backend calls do for the executor.                             *)

\* Closing a process handle changes no creation time.
LEMMA CloseEffect ==
  ASSUME NEW w \in OsShape, NEW p \in Pids
  PROVE  /\ Booster!CloseProcess(w, p) \in OsShape
         /\ Booster!CloseProcess(w, p).born = w.born
         /\ Booster!GiveUp(w, p) \in OsShape
         /\ Booster!GiveUp(w, p).born = w.born
<1> DEFINE closed == Booster!CloseProcess(w, p)
<1>1. closed \in OsShape /\ closed.born = w.born
  BY DEF Booster!CloseProcess, OsShape
<1>2. Booster!GiveUp(w, p) = [closed EXCEPT !.raised[p] = FALSE]
  BY DEF Booster!GiveUp
<1> HIDE DEF closed
<1>3. Booster!GiveUp(w, p) \in OsShape /\ Booster!GiveUp(w, p).born = w.born
  <2> DEFINE rs == [closed.raised EXCEPT ![p] = FALSE]
  <2>1. rs \in [Pids -> BOOLEAN]
    BY <1>1 DEF OsShape
  <2>2. Booster!GiveUp(w, p) = [closed EXCEPT !.raised = rs]
    BY <1>1, <1>2 DEF OsShape
  <2> HIDE DEF rs
  <2> QED BY <1>1, <2>1, <2>2 DEF OsShape
<1> QED BY <1>1, <1>3 DEF closed

\* Restoring a class touches no creation time.
LEMMA RestoreEffect ==
  ASSUME NEW w \in OsShape, NEW l \in Booster!Lease, NEW r \in Booster!RestoreLastLease(w, l)
  PROVE  r.ok \in BOOLEAN /\ r.w \in OsShape /\ r.w.born = w.born
<1> DEFINE closed == Booster!CloseProcess(w, l.pid)
           given  == Booster!GiveUp(w, l.pid)
           back   == [closed EXCEPT !.class[l.pid] = l.original,
                                    !.raised[l.pid] = closed.raised[l.pid] /\ l.over]
<1>1. l.pid \in Pids /\ l.original \in Booster!Classes /\ l.over \in BOOLEAN
  BY DEF Booster!Lease
<1>2. closed \in OsShape /\ closed.born = w.born /\ given \in OsShape /\ given.born = w.born
  BY <1>1, CloseEffect
<1> HIDE DEF closed, given
<1>3. back \in OsShape /\ back.born = w.born
  BY <1>1, <1>2, Zenon DEF OsShape
<1>4. \/ r.ok = TRUE /\ r.w \in {given, closed, back}
      \/ r.ok = FALSE /\ r.w = w
  <2>1. back = [closed EXCEPT !.class[l.pid] = l.original, !.raised[l.pid] = @ /\ l.over]
    OBVIOUS
  <2> HIDE DEF back
  <2> QED BY <2>1 DEF Booster!RestoreLastLease, closed, given
<1> HIDE DEF back
<1> QED BY <1>2, <1>3, <1>4, Zenon

\* A release of the game's own lease removes all of it or nothing.
LEMMA ReleaseEffect ==
  ASSUME BoostShape(leases, os), NEW g \in Games, NEW p, NEW ok \in BOOLEAN,
         Booster!ReleaseBoost(g, p, ok)
  PROVE  /\ BoostShape(leases', os')
         /\ os'.born = os.born
         /\ leases[g] # None /\ leases[g].pid = p /\ leases[g].count = 1 =>
               /\ ok => leases' = [leases EXCEPT ![g] = None]
               /\ ~ok => leases' = leases
<1>0. leases \in [Games -> Booster!Lease \cup {None}] /\ os \in OsShape
  BY DEF BoostShape
<1>1. CASE UNCHANGED <<leases, os>> /\ (ok => ~Booster!Held(g) \/ leases[g].pid # p)
  BY <1>0, <1>1 DEF BoostShape, Booster!Held
<1>2. CASE Booster!Held(g) /\ leases[g].count > 1
           /\ leases' = [leases EXCEPT ![g].count = @ - 1] /\ UNCHANGED os
  <2>1. leases[g] \in Booster!Lease
    BY <1>0, <1>2 DEF Booster!Held
  <2>2. leases[g].count \in 1..MaxCount
    BY <2>1 DEF Booster!Lease
  <2> QED BY <1>2, <2>2 DEF MaxCount
<1>3. CASE /\ Booster!Held(g)
           /\ \E r \in Booster!RestoreLastLease(os, leases[g]) :
                 /\ ok = r.ok
                 /\ os' = r.w
                 /\ leases' = IF r.ok THEN [leases EXCEPT ![g] = None] ELSE leases
  <2>1. PICK r \in Booster!RestoreLastLease(os, leases[g]) :
                 /\ ok = r.ok
                 /\ os' = r.w
                 /\ leases' = IF r.ok THEN [leases EXCEPT ![g] = None] ELSE leases
    BY <1>3
  <2>2. leases[g] \in Booster!Lease
    BY <1>0, <1>3 DEF Booster!Held
  <2>3. r.w \in OsShape /\ r.w.born = os.born
    BY <1>0, <2>2, RestoreEffect
  <2>4. leases' \in [Games -> Booster!Lease \cup {None}]
    BY <1>0, <2>1
  <2> QED BY <2>1, <2>3, <2>4 DEF BoostShape
<1> QED BY <1>1, <1>2, <1>3 DEF Booster!ReleaseBoost

\* An acquisition while nothing is held gives the game one lease on the process, or fails.
LEMMA AcquireEffect ==
  ASSUME BoostShape(leases, os), NEW g \in Games, NEW p \in Pids, NEW ok \in BOOLEAN,
         leases[g] = None, NEW expected \in 0..os.born[p],
         Booster!AcquireBoost(g, p, expected, MaxLevel, ok)
  PROVE  /\ BoostShape(leases', os')
         /\ os'.born = os.born
         /\ ok => \E l \in Booster!Lease :
                     leases' = [leases EXCEPT ![g] = l] /\ l.pid = p /\ l.count = 1
         /\ ~ok => leases' = leases
<1> DEFINE class == Booster!PriorityLevelToWin32Class[MaxLevel]
<1>0. leases \in [Games -> Booster!Lease \cup {None}] /\ os \in OsShape
  BY DEF BoostShape
<1>1. \/ ~ok /\ UNCHANGED <<leases, os>>
      \/ /\ ok
         /\ \E o \in Booster!Opened(os, p, expected, class) :
               os' = o.w /\ leases' = [leases EXCEPT ![g] = o.lease]
  BY DEF Booster!AcquireBoost, Booster!Held, MaxLevel
<1>2. CASE ~ok /\ UNCHANGED <<leases, os>>
  BY <1>2
<1>3. CASE ok /\ \E o \in Booster!Opened(os, p, expected, class) :
                    os' = o.w /\ leases' = [leases EXCEPT ![g] = o.lease]
  <2>1. PICK o \in Booster!Opened(os, p, expected, class) :
           os' = o.w /\ leases' = [leases EXCEPT ![g] = o.lease]
    BY <1>3, Zenon
  <2>2. /\ class \in Booster!Classes
        /\ os.handles[p] \in Int /\ os.class[p] \in Booster!Classes /\ os.raised[p] \in BOOLEAN
        /\ os.alive[p] \in BOOLEAN /\ os.born[p] \in 0..MaxBirths
    BY <1>0 DEF OsShape, MaxLevel, Booster!PriorityLevelToWin32Class, Booster!Classes
  <2> HIDE DEF class
  <2>3. PICK born \in {0, os.born[p]} :
         o = [w |-> [os EXCEPT !.handles[p] = os.handles[p] + 1, !.class[p] = class,
                                 !.raised[p] = os.alive[p]],
              lease |-> [pid |-> p, born |-> born, expected |-> expected,
                         over |-> os.raised[p], original |-> os.class[p],
                         target |-> class, count |-> 1]]
    BY <2>1 DEF Booster!Opened
  <2> DEFINE hs == [os.handles EXCEPT ![p] = os.handles[p] + 1]
             cs == [os.class EXCEPT ![p] = class]
             rs == [os.raised EXCEPT ![p] = os.alive[p]]
  <2>4. hs \in [Pids -> Int] /\ cs \in [Pids -> Booster!Classes] /\ rs \in [Pids -> BOOLEAN]
    BY <1>0, <2>2 DEF OsShape
  <2>5. o.w = [os EXCEPT !.handles = hs, !.class = cs, !.raised = rs]
    BY <1>0, <2>3 DEF OsShape
  <2> HIDE DEF hs, cs, rs
  <2>6. o.w \in OsShape /\ o.w.born = os.born
    BY <1>0, <2>4, <2>5, Zenon DEF OsShape
  <2>7. born \in 0..MaxBirths /\ expected \in 0..MaxBirths /\ 1 \in 1..MaxCount
    BY <2>2, LoopAssumption DEF MaxCount
  <2>8. o.lease \in Booster!Lease /\ o.lease.pid = p /\ o.lease.count = 1
    BY <2>2, <2>3, <2>7 DEF Booster!Lease
  <2>9. leases' \in [Games -> Booster!Lease \cup {None}]
    BY <1>0, <2>1, <2>8
  <2> QED BY <1>3, <2>1, <2>6, <2>8, <2>9, Zenon DEF BoostShape
<1> QED BY <1>1, <1>2, <1>3

\* A forced clean-up takes the game's lease away.
LEMMA ForceCleanEffect ==
  ASSUME BoostShape(leases, os), NEW g \in Games, Booster!ForceClean(g)
  PROVE  BoostShape(leases', os')
<1>0. leases \in [Games -> Booster!Lease \cup {None}] /\ os \in OsShape
  BY DEF BoostShape
<1>1. /\ leases[g] \in Booster!Lease
      /\ leases' = [leases EXCEPT ![g] = None]
      /\ os' \in Booster!ForceCleanLease(os, leases[g])
  BY <1>0 DEF Booster!ForceClean, Booster!Held
<1> DEFINE p == leases[g].pid
<1>2. PICK r \in Booster!RestoreLastLease(os, leases[g]) :
         os' = [r.w EXCEPT !.handles[p] = os.handles[p] - 1,
                           !.raised[p] = r.w.raised[p] /\ r.ok]
  BY <1>1, Zenon DEF Booster!ForceCleanLease
<1>3. r.ok \in BOOLEAN /\ r.w \in OsShape
  BY <1>0, <1>1, RestoreEffect
<1>4. p \in Pids
  BY <1>1 DEF Booster!Lease
<1> HIDE DEF p
<1> DEFINE hs == [r.w.handles EXCEPT ![p] = os.handles[p] - 1]
           rs == [r.w.raised EXCEPT ![p] = r.w.raised[p] /\ r.ok]
<1>5. hs \in [Pids -> Int] /\ rs \in [Pids -> BOOLEAN]
  BY <1>0, <1>3, <1>4 DEF OsShape
<1>6. os' = [r.w EXCEPT !.handles = hs, !.raised = rs]
  BY <1>2, <1>3 DEF OsShape
<1> HIDE DEF hs, rs
<1>7. os' \in OsShape
  BY <1>3, <1>5, <1>6, Zenon DEF OsShape
<1>8. leases' \in [Games -> Booster!Lease \cup {None}]
  BY <1>0, <1>1
<1> QED BY <1>7, <1>8 DEF BoostShape

\* A call on one lock type, from a count of 0 or 1.
LEMMA LockEffect ==
  ASSUME lockCount \in [LockTypes -> Nat], NEW t \in LockTypes, NEW ok \in BOOLEAN
  PROVE  /\ Locker!AcquireLock(t, ok) /\ lockCount[t] = 0 =>
               /\ lockCount' \in [LockTypes -> Nat]
               /\ lockCount' = IF ok THEN [lockCount EXCEPT ![t] = 1] ELSE lockCount
         /\ Locker!ReleaseLock(t, ok) =>
               /\ lockCount' \in [LockTypes -> Nat]
               /\ lockCount[t] = 1 =>
                     lockCount' = IF ok THEN [lockCount EXCEPT ![t] = 0] ELSE lockCount
<1>1. ASSUME Locker!AcquireLock(t, ok), lockCount[t] = 0
      PROVE  /\ lockCount' \in [LockTypes -> Nat]
             /\ lockCount' = IF ok THEN [lockCount EXCEPT ![t] = 1] ELSE lockCount
  BY <1>1 DEF Locker!AcquireLock, Locker!CreateFails, Locker!lockerVars
<1>2. ASSUME Locker!ReleaseLock(t, ok)
      PROVE  lockCount' \in [LockTypes -> Nat]
  BY <1>2 DEF Locker!ReleaseLock, Locker!lockerVars
<1>3. ASSUME Locker!ReleaseLock(t, ok), lockCount[t] = 1
      PROVE  lockCount' = IF ok THEN [lockCount EXCEPT ![t] = 0] ELSE lockCount
  BY <1>3 DEF Locker!ReleaseLock, Locker!lockerVars
<1> QED BY <1>1, <1>2, <1>3

\* Processes that start or exit make no pid younger.
LEMMA ProcessEffect ==
  ASSUME BoostShape(leases, os), NEW p \in Pids, Booster!Spawn(p) \/ Booster!Exit(p)
  PROVE  /\ BoostShape(leases', os')
         /\ leases' = leases
         /\ \A q \in Pids : os.born[q] <= os'.born[q]
<1>0. leases \in [Games -> Booster!Lease \cup {None}] /\ os \in OsShape
  BY DEF BoostShape
<1>1. leases' = leases
  BY DEF Booster!Spawn, Booster!Exit
<1>2. os.born \in [Pids -> 0..MaxBirths]
  BY <1>0 DEF OsShape
<1>3. CASE Booster!Exit(p)
  <2>1. os' \in OsShape /\ os'.born = os.born
    BY <1>0, <1>3, Zenon DEF Booster!Exit, OsShape
  <2> QED BY <1>0, <1>1, <1>2, <2>1, LoopAssumption DEF BoostShape
<1>4. CASE Booster!Spawn(p)
  <2> DEFINE bs == [os.born EXCEPT ![p] = os.born[p] + 1]
             as == [os.alive EXCEPT ![p] = TRUE]
             cs == [os.class EXCEPT ![p] = "normal"]
             rs == [os.raised EXCEPT ![p] = FALSE]
  <2>1. os.born[p] < MaxBirths
        /\ os' = [os EXCEPT !.born[p] = os.born[p] + 1, !.alive[p] = TRUE,
                            !.class[p] = "normal", !.raised[p] = FALSE]
    BY <1>4 DEF Booster!Spawn
  <2>2. /\ bs \in [Pids -> 0..MaxBirths] /\ as \in [Pids -> BOOLEAN]
        /\ cs \in [Pids -> Booster!Classes] /\ rs \in [Pids -> BOOLEAN]
        /\ \A q \in Pids : os.born[q] <= bs[q]
    BY <1>0, <2>1, LoopAssumption DEF OsShape, Booster!Classes
  <2>3. os' = [os EXCEPT !.born = bs, !.alive = as, !.class = cs, !.raised = rs]
    BY <1>0, <2>1 DEF OsShape
  <2> HIDE DEF bs, as, cs, rs
  <2>4. os' \in OsShape /\ os'.born = bs
    BY <1>0, <2>2, <2>3, Zenon DEF OsShape
  <2> QED BY <1>0, <1>1, <2>2, <2>4 DEF BoostShape
<1> QED BY <1>3, <1>4

----------------------------------------------------------------------------
(* The invariant, action by action.                                        *)

\* The poll's result is a process that is there.
LEMMA PollFinds ==
  ASSUME NEW t \in PollOnce, os \in OsShape
  PROVE  /\ t \in {NoTarget} \cup
                  [game : Games, pid : Pids, born : 0..MaxBirths, running : {TRUE}]
         /\ t.running => t.game \in Games /\ t.pid \in Pids /\ t.born <= os.born[t.pid]
         /\ t.running \in BOOLEAN
<1>1. t \in Polled /\ (t.running => t.born \in {0, os.born[t.pid]})
  BY DEF PollOnce
<1>2. CASE t = NoTarget
  BY <1>2 DEF NoTarget
<1>3. CASE t # NoTarget
  <2>1. PICK p \in Pids, b \in UNION {{0, os.born[q]} : q \in Pids} :
           t = [game |-> GameOf[p], pid |-> p, born |-> b, running |-> TRUE]
    BY <1>1, <1>3 DEF Polled
  <2>2. GameOf[p] \in Games
    BY LoopAssumption
  <2>3. t.game = GameOf[p] /\ t.pid = p /\ t.born = b /\ t.running = TRUE
    BY <2>1
  <2>4. os.born[p] \in 0..MaxBirths
    BY DEF OsShape
  <2>5. b \in 0..MaxBirths /\ b <= os.born[p]
    BY <1>1, <2>3, <2>4, LoopAssumption
  <2> QED BY <2>1, <2>2, <2>3, <2>5
<1> QED BY <1>2, <1>3, Zenon

\* The evaluator keeps its filter in step with its last decision, so that a decision that
\* is held back is one of the other kind: in critical pressure never the boost.
LEMMA DecisionInv ==
  ASSUME lastDecision \in Decision, filterState = Acting(lastDecision),
         NEW margin \in Int, NEW game \in Games \cup {NoGame},
         NEW foreground \in BOOLEAN, NEW present \in BOOLEAN,
         Decide(margin, [game |-> game, foreground |-> foreground,
                         present |-> present, margin |-> margin])
  PROVE  /\ effective' \in Decision
         /\ lastDecision' \in Decision
         /\ filterState' = Acting(lastDecision')
         /\ ClassifyPressure(margin) = "critical" /\ game \in Games =>
               effective'.action # "SuggestPriorityBoost"
<1> DEFINE i == [game |-> game, foreground |-> foreground, present |-> present, margin |-> margin]
           fresh == EvaluatePolicy(i)
<1>1. CASE ~(margin # -1 /\ ValidThresholds)
  <2>1. effective' = DefaultDecision /\ UNCHANGED <<lastDecision, filterState>>
    BY <1>1 DEF Decide
  <2>2. DefaultDecision \in Decision /\ DefaultDecision.action = "NoOp"
    BY Zenon DEF DefaultDecision, Decision
  <2> QED BY <2>1, <2>2
<1>2. CASE margin # -1 /\ ValidThresholds
  <2>1. Evaluate(i, 1)
    BY <1>2 DEF Decide
  <2>2. /\ fresh \in Decision
        /\ ClassifyPressure(margin) = "critical" /\ game \in Games => fresh.action = "Notify"
    <3>1. i.game = game /\ i.margin = margin
      OBVIOUS
    <3>2. Rule(i) \in {<<"NoOp", "no_game">>, <<"Notify", "mem_critical">>, <<"NoOp", "user_away">>,
                       <<"NoOp", "game_background">>, <<"SuggestMemoryTune", "mem_tight">>,
                       <<"SuggestPriorityBoost", "prio_boost">>, <<"NoOp", "mem_ok">>}
      BY DEF Rule
    <3>3. ClassifyPressure(margin) = "critical" /\ game \in Games => Rule(i) = <<"Notify", "mem_critical">>
      BY <3>1, EngineAssumption DEF Rule
    <3>4. fresh = [action |-> Rule(i)[1], game |-> game, reason |-> Rule(i)[2]]
      BY <3>1 DEF EvaluatePolicy
    <3> HIDE DEF i, fresh
    <3>5. /\ Rule(i)[1] \in {"NoOp", "Notify", "SuggestMemoryTune", "SuggestPriorityBoost"}
          /\ Rule(i)[2] \in {"no_game", "mem_critical", "user_away", "game_background",
                             "mem_tight", "prio_boost", "mem_ok"}
      BY <3>2
    <3>6. fresh \in Decision
      BY <3>4, <3>5, Zenon DEF Decision
    <3>7. fresh.action = Rule(i)[1]
      BY <3>4
    <3>8. ClassifyPressure(margin) = "critical" /\ game \in Games => Rule(i)[1] = "Notify"
      BY <3>3
    <3> QED BY <3>6, <3>7, <3>8
  <2> HIDE DEF fresh, i
  <2>3. \/ effective' = fresh /\ lastDecision' = fresh /\ filterState' = Acting(fresh)
        \/ /\ effective' = lastDecision /\ Acting(fresh) # filterState
           /\ lastDecision' = lastDecision /\ filterState' = filterState
    BY <2>1 DEF Evaluate, EvaluateFirst, EvaluateSame, EvaluateOther, EvaluateSwitch,
                EvaluateSuppress, fresh
  <2>4. CASE effective' = fresh /\ lastDecision' = fresh /\ filterState' = Acting(fresh)
    BY <2>2, <2>4
  <2>5. CASE /\ effective' = lastDecision /\ Acting(fresh) # filterState
             /\ lastDecision' = lastDecision /\ filterState' = filterState
    <3>1. Acting(fresh) # Acting(lastDecision)
      BY <2>5
    <3>2. ClassifyPressure(margin) = "critical" /\ game \in Games => ~Acting(lastDecision)
      BY <2>2, <3>1 DEF Acting
    <3> QED BY <2>5, <3>2 DEF Acting
  <2> QED BY <2>3, <2>4, <2>5
<1> QED BY <1>1, <1>2

\* The command starts with nothing held and nothing decided.
LEMMA InitLoopInv == Init => LoopInv
<1> SUFFICES ASSUME Init PROVE LoopInv
  OBVIOUS
<1>2. BoostShape(leases, os)
  BY LoopAssumption DEF Init, Booster!BoosterInit, BoostShape, OsShape, Booster!Classes
<1>4. lockCount \in [LockTypes -> Nat]
  BY DEF Init, Locker!LockerInit
<1>5. /\ DefaultDecision \in Decision /\ ~Acting(DefaultDecision)
      /\ NoTarget.running = FALSE
  BY DEF DefaultDecision, Decision, NoTarget, Acting
<1>a. /\ at = "sample" /\ target = NoTarget /\ critical = FALSE /\ priorityGame = NoGame
      /\ priorityPid = None /\ powerHeld = FALSE /\ displayHeld = FALSE /\ failures = 0
      /\ halted = FALSE /\ applied = "none" /\ lastDecision = DefaultDecision
      /\ filterState = FALSE /\ effective = DefaultDecision
  BY DEF Init, EngineInit
<1>6. LoopTypeOK
  <2>1. failures \in 0..HaltAfter
    BY <1>a, LoopAssumption
  <2> QED BY <1>5, <1>a, <2>1, Zenon DEF LoopTypeOK, Places
<1>7. RecordsAgree
  BY EngineAssumption DEF Init, Booster!BoosterInit, Locker!LockerInit, RecordsAgree, Booster!Held,
                          LockTypes
<1>8. ExecutorInv
  <2>1. IF HaltAfter > 0 THEN failures < HaltAfter ELSE failures = 0
    BY <1>a, LoopAssumption
  <2>2. filterState = Acting(lastDecision)
    BY <1>5, <1>a, Zenon DEF Acting
  <2>3. ~target.running /\ ~Settled
    BY <1>5, <1>a DEF Settled
  <2> QED BY <1>5, <1>a, <2>1, <2>2, <2>3 DEF ExecutorInv
<1> QED BY <1>2, <1>4, <1>6, <1>7, <1>8 DEF LoopInv, BackendsShape

\* Steps that leave the backends and the executor's records alone keep the first and the
\* third conjunct.
LEMMA Untouched ==
  ASSUME LoopInv, UNCHANGED <<leases, os, lockVars, heldVars>>, Looping' => Looping
  PROVE  BackendsShape' /\ RecordsAgree'
<1>1. UNCHANGED <<leases, os, lockCount, lockHandle, openHandles, requests, priorityGame,
                  priorityPid, powerHeld, displayHeld>>
  BY DEF lockVars, heldVars
<1>2. BackendsShape'
  BY <1>1 DEF LoopInv, BackendsShape
<1>3. RecordsAgree'
  BY <1>1 DEF LoopInv, RecordsAgree, Booster!Held
<1> QED BY <1>2, <1>3

\* A tick decides and changes nothing that is held.
LEMMA TickInv == LoopInv /\ Tick => LoopInv'
<1> SUFFICES ASSUME LoopInv, Tick PROVE LoopInv'
  OBVIOUS
<1>1. PICK a \in Available, foreground \in BOOLEAN, present \in BOOLEAN, t \in PollOnce :
          /\ target' = t
          /\ LET margin == ComputeMemoryMarginPercent(a, Total)
             IN  /\ Decide(margin, [game |-> t.game, foreground |-> foreground,
                                    present |-> present, margin |-> margin])
                 /\ critical' = (ClassifyPressure(margin) = "critical")
  BY Zenon DEF Tick
<1> DEFINE margin == ComputeMemoryMarginPercent(a, Total)
<1>2. margin \in Int
  BY EngineAssumption DEF ComputeMemoryMarginPercent
<1>3. os \in OsShape
  BY DEF LoopInv, BackendsShape, BoostShape
<1>4. /\ t \in {NoTarget} \cup
              [game : Games, pid : Pids, born : 0..MaxBirths, running : {TRUE}]
      /\ t.running => t.game \in Games /\ t.pid \in Pids /\ t.born <= os.born[t.pid]
      /\ t.running \in BOOLEAN
  BY <1>3, PollFinds, Zenon
<1>5. t.game \in Games \cup {NoGame}
  <2>1. NoTarget.game = NoGame
    BY DEF NoTarget
  <2> QED BY <1>4, <2>1, Zenon
<1> HIDE DEF margin
<1>6. /\ Decide(margin, [game |-> t.game, foreground |-> foreground,
                         present |-> present, margin |-> margin])
      /\ critical' = (ClassifyPressure(margin) = "critical")
      /\ target' = t
  BY <1>1 DEF margin
<1>7. lastDecision \in Decision /\ filterState = Acting(lastDecision)
  BY DEF LoopInv, ExecutorInv
<1>8. /\ effective' \in Decision
      /\ lastDecision' \in Decision
      /\ filterState' = Acting(lastDecision')
      /\ ClassifyPressure(margin) = "critical" /\ t.game \in Games =>
            effective'.action # "SuggestPriorityBoost"
  BY <1>2, <1>5, <1>6, <1>7, DecisionInv
<1>9. /\ at = "sample"
      /\ IF halted THEN at' = "sample" /\ applied' = "ok"
                   ELSE at' = "priority" /\ UNCHANGED applied
      /\ UNCHANGED <<leases, os, lockVars, heldVars, haltVars>>
  BY DEF Tick
<1>10. BackendsShape' /\ RecordsAgree'
  BY <1>9, Untouched DEF Looping
<1>11. /\ LoopTypeOK /\ ExecutorInv
       /\ UNCHANGED <<priorityGame, priorityPid, powerHeld, displayHeld, failures, halted>>
       /\ critical' \in BOOLEAN
  BY <1>6, <1>9 DEF LoopInv, heldVars, haltVars
<1>12. LoopTypeOK'
  BY <1>4, <1>6, <1>8, <1>9, <1>11, Zenon DEF LoopTypeOK, Places
<1>13. ExecutorInv'
  <2>1. target'.running => Looping' /\ target'.born <= os'.born[target'.pid]
    BY <1>4, <1>6, <1>9 DEF Looping
  <2>2. critical' => ~(target'.running /\ effective'.action = "SuggestPriorityBoost")
    BY <1>4, <1>6, <1>8, Zenon
  <2> QED BY <1>8, <1>9, <1>11, <2>1, <2>2, Zenon DEF ExecutorInv, Settled, LoopTypeOK
<1> QED BY <1>10, <1>12, <1>13 DEF LoopInv

\* How ApplyDecision goes on or ends.
LEMMA OutcomeEffect ==
  ASSUME LoopInv, at \in {"priority", "acquire", "execution", "display"}
  PROVE  /\ \A place : Continue(place) =>
               at' = place /\ UNCHANGED <<applied, failures, halted>>
         /\ Succeed => at' = "sample" /\ applied' = "ok" /\ failures' = 0 /\ halted' = halted
         /\ Fail => /\ at' = "sample" /\ applied' = "failed"
                    /\ failures' \in 0..HaltAfter /\ halted' \in BOOLEAN
                    /\ ~halted' => IF HaltAfter > 0 THEN failures' < HaltAfter ELSE failures' = 0
         /\ ~halted /\ failures \in 0..HaltAfter
         /\ IF HaltAfter > 0 THEN failures < HaltAfter ELSE failures = 0
<1>1. /\ ~halted /\ failures \in 0..HaltAfter
      /\ IF HaltAfter > 0 THEN failures < HaltAfter ELSE failures = 0
  BY DEF LoopInv, LoopTypeOK, ExecutorInv
<1>2. ASSUME Fail
      PROVE  /\ failures' \in 0..HaltAfter /\ halted' \in BOOLEAN
             /\ ~halted' => IF HaltAfter > 0 THEN failures' < HaltAfter ELSE failures' = 0
  <2>1. /\ failures' = IF HaltAfter > 0 THEN failures + 1 ELSE failures
        /\ halted' = (HaltAfter > 0 /\ failures' >= HaltAfter)
    BY <1>2 DEF Fail
  <2>2. failures' \in 0..HaltAfter
    BY <1>1, <2>1, LoopAssumption
  <2>3. halted' \in BOOLEAN
    BY <2>1
  <2>4. CASE HaltAfter > 0
    <3>1. ~(failures' >= HaltAfter) => failures' < HaltAfter
      BY <2>2, LoopAssumption
    <3> QED BY <2>1, <2>2, <2>3, <2>4, <3>1, Zenon
  <2>5. CASE ~(HaltAfter > 0)
    BY <1>1, <2>1, <2>2, <2>3, <2>5
  <2> QED BY <2>4, <2>5
<1> QED BY <1>1, <1>2 DEF Continue, Succeed, Fail, haltVars

\* The records of what is held agree with the leases, and nothing else of RecordsAgree changes.
LEMMA BoostRecordsAgree ==
  ASSUME LoopInv, Looping, UNCHANGED <<lockCount, powerHeld, displayHeld>>,
         \A g \in Games : leases'[g] # None <=> priorityGame' = g,
         priorityGame' # NoGame => /\ leases'[priorityGame'].pid = priorityPid'
                                   /\ leases'[priorityGame'].count = 1
  PROVE  RecordsAgree'
  BY DEF LoopInv, RecordsAgree, Booster!Held

\* A step that leaves the locker alone leaves its counts.
LEMMA LockerUnchanged ==
  ASSUME LoopInv, UNCHANGED lockVars
  PROVE  lockCount' \in [LockTypes -> Nat]
  BY DEF LoopInv, BackendsShape, lockVars

\* Letting go of an outdated boost, whichever call fails.
LEMMA ReconcilePriorityInv == LoopInv /\ ReconcilePriority => LoopInv'
<1> SUFFICES ASSUME LoopInv, ReconcilePriority PROVE LoopInv'
  OBVIOUS
<1>0. /\ at = "priority" /\ Looping
      /\ UNCHANGED <<engineVars, lockVars, priorityPid, powerHeld, displayHeld, target, critical>>
      /\ LoopTypeOK /\ RecordsAgree /\ ExecutorInv /\ BoostShape(leases, os)
  BY DEF ReconcilePriority, Looping, LoopInv, BackendsShape
<1>1. UNCHANGED <<lastDecision, filterState, effective, lockCount, target, BoostDesired>>
  BY <1>0 DEF engineVars, lockVars, BoostDesired
<1>2. lockCount' \in [LockTypes -> Nat]
  BY <1>0, LockerUnchanged
<1>3. CASE priorityGame = NoGame \/ PriorityKept
  <2>1. /\ Continue(IF BoostDesired /\ priorityGame = NoGame THEN "acquire" ELSE "execution")
        /\ UNCHANGED <<leases, os, priorityGame>>
    BY <1>3 DEF ReconcilePriority
  <2>2. /\ at' = IF BoostDesired /\ priorityGame = NoGame THEN "acquire" ELSE "execution"
        /\ UNCHANGED <<applied, failures, halted>>
    BY <1>0, <2>1, OutcomeEffect
  <2>3. BackendsShape'
    BY <1>0, <1>2, <2>1 DEF BackendsShape
  <2>4. RecordsAgree'
    BY <1>0, <1>1, <2>1 DEF RecordsAgree, Looping, Booster!Held
  <2>5. LoopTypeOK'
    BY <1>0, <1>1, <2>1, <2>2, Zenon DEF LoopTypeOK, Places
  <2>6. BoostDesired \/ priorityGame = NoGame
    BY <1>3 DEF PriorityKept
  <2>7. ExecutorInv'
    BY <1>0, <1>1, <2>1, <2>2, <2>6 DEF ExecutorInv, Settled, Looping
  <2> QED BY <2>3, <2>4, <2>5, <2>7 DEF LoopInv
<1>4. CASE ~(priorityGame = NoGame \/ PriorityKept)
  <2>1. PICK ok \in BOOLEAN :
            /\ Booster!ReleaseBoost(priorityGame, priorityPid, ok)
            /\ \/ /\ ok
                  /\ priorityGame' = NoGame
                  /\ Continue(IF BoostDesired THEN "acquire" ELSE "execution")
               \/ /\ ~ok
                  /\ Fail
                  /\ UNCHANGED priorityGame
    BY <1>4 DEF ReconcilePriority
  <2>2. /\ priorityGame \in Games
        /\ leases[priorityGame] # None /\ leases[priorityGame].pid = priorityPid
        /\ leases[priorityGame].count = 1
        /\ \A g \in Games : leases[g] # None <=> priorityGame = g
        /\ leases \in [Games -> Booster!Lease \cup {None}]
    BY <1>0, <1>4 DEF LoopTypeOK, RecordsAgree, Booster!Held, BoostShape
  <2>3. /\ BoostShape(leases', os')
        /\ os'.born = os.born
        /\ ok => leases' = [leases EXCEPT ![priorityGame] = None]
        /\ ~ok => leases' = leases
    BY <1>0, <2>1, <2>2, ReleaseEffect
  <2>4. BackendsShape'
    BY <1>2, <2>3 DEF BackendsShape
  <2>5. CASE ok
    <3>1. /\ priorityGame' = NoGame
          /\ at' = IF BoostDesired THEN "acquire" ELSE "execution"
          /\ UNCHANGED <<applied, failures, halted>>
      BY <1>0, <2>1, <2>5, OutcomeEffect
    <3>2. \A g \in Games : leases'[g] = None
      BY <2>2, <2>3, <2>5
    <3>3. RecordsAgree'
      BY <1>0, <1>1, <3>1, <3>2, BoostRecordsAgree, EngineAssumption
    <3>4. LoopTypeOK'
      BY <1>0, <1>1, <3>1, Zenon DEF LoopTypeOK, Places
    <3>5. ExecutorInv'
      BY <1>0, <1>1, <2>3, <3>1 DEF ExecutorInv, Settled, Looping
    <3> QED BY <2>4, <3>3, <3>4, <3>5 DEF LoopInv
  <2>6. CASE ~ok
    <3>1. /\ priorityGame' = priorityGame /\ leases' = leases
          /\ at' = "sample" /\ applied' = "failed"
          /\ failures' \in 0..HaltAfter /\ halted' \in BOOLEAN
          /\ ~halted' => IF HaltAfter > 0 THEN failures' < HaltAfter ELSE failures' = 0
      BY <1>0, <2>1, <2>3, <2>6, OutcomeEffect
    <3>2. RecordsAgree'
      BY <1>0, <1>1, <2>2, <3>1, BoostRecordsAgree
    <3>3. LoopTypeOK'
      BY <1>0, <1>1, <3>1, Zenon DEF LoopTypeOK, Places
    <3>4. ExecutorInv'
      BY <1>0, <1>1, <2>3, <3>1 DEF ExecutorInv, Settled, Looping
    <3> QED BY <2>4, <3>2, <3>3, <3>4 DEF LoopInv
  <2> QED BY <2>5, <2>6
<1> QED BY <1>3, <1>4

\* Taking the boost that was decided, whichever call fails.
LEMMA AcquireBoostInv == LoopInv /\ AcquireBoost => LoopInv'
<1> SUFFICES ASSUME LoopInv, AcquireBoost PROVE LoopInv'
  OBVIOUS
<1>0. /\ at = "acquire" /\ Looping
      /\ UNCHANGED <<engineVars, lockVars, powerHeld, displayHeld, target, critical>>
      /\ LoopTypeOK /\ RecordsAgree /\ ExecutorInv /\ BoostShape(leases, os)
  BY DEF AcquireBoost, Looping, LoopInv, BackendsShape
<1>1. UNCHANGED <<lastDecision, filterState, effective, lockCount, target, BoostDesired>>
  BY <1>0 DEF engineVars, lockVars, BoostDesired
<1>2. lockCount' \in [LockTypes -> Nat]
  BY <1>0, LockerUnchanged
<1>3. PICK ok \in BOOLEAN :
          /\ Booster!AcquireBoost(target.game, target.pid, target.born, MaxLevel, ok)
          /\ \/ /\ ok
                /\ priorityGame' = target.game
                /\ priorityPid' = target.pid
                /\ Continue("execution")
             \/ /\ ~ok
                /\ Fail
                /\ UNCHANGED <<priorityGame, priorityPid>>
  BY Zenon DEF AcquireBoost
<1>4. /\ BoostDesired /\ priorityGame = NoGame /\ target.running
      /\ target.born <= os.born[target.pid]
  BY <1>0, Zenon DEF ExecutorInv, BoostDesired
<1>5. /\ target.game \in Games /\ target.pid \in Pids /\ target.born \in 0..MaxBirths
  <2>1. NoTarget.running = FALSE
    BY DEF NoTarget
  <2> QED BY <1>0, <1>4, <2>1, Zenon DEF LoopTypeOK
<1>6. target.born \in 0..os.born[target.pid]
  <2>1. os.born[target.pid] \in 0..MaxBirths
    BY <1>0, <1>5 DEF BoostShape, OsShape
  <2> QED BY <1>4, <1>5, <2>1, LoopAssumption
<1>7. /\ \A g \in Games : leases[g] = None
      /\ leases \in [Games -> Booster!Lease \cup {None}]
  BY <1>0, <1>4, EngineAssumption, Zenon DEF RecordsAgree, Booster!Held, BoostShape
<1>8. /\ BoostShape(leases', os')
      /\ os'.born = os.born
      /\ ok => \E l \in Booster!Lease :
                  /\ leases' = [leases EXCEPT ![target.game] = l]
                  /\ l.pid = target.pid /\ l.count = 1
      /\ ~ok => leases' = leases
  BY <1>0, <1>3, <1>5, <1>6, <1>7, AcquireEffect
<1>9. BackendsShape'
  BY <1>2, <1>8 DEF BackendsShape
<1>10. CASE ok
  <2>1. /\ priorityGame' = target.game /\ priorityPid' = target.pid
        /\ at' = "execution" /\ UNCHANGED <<applied, failures, halted>>
    BY <1>0, <1>3, <1>10, OutcomeEffect
  <2>2. PICK l \in Booster!Lease :
                  /\ leases' = [leases EXCEPT ![target.game] = l]
                  /\ l.pid = target.pid /\ l.count = 1
    BY <1>8, <1>10
  <2>3. l # None
    BY LoopAssumption
  <2>4. /\ leases'[target.game] = l
        /\ \A g \in Games : g # target.game => leases'[g] = None
    BY <1>5, <1>7, <2>2
  <2>5. RecordsAgree'
    BY <1>0, <1>1, <1>5, <2>1, <2>2, <2>3, <2>4, BoostRecordsAgree
  <2>6. LoopTypeOK'
    BY <1>0, <1>1, <1>5, <2>1, Zenon DEF LoopTypeOK, Places
  <2>7. ExecutorInv'
    BY <1>0, <1>1, <1>4, <1>5, <1>8, <2>1, Zenon DEF ExecutorInv, Settled, Looping
  <2> QED BY <1>9, <2>5, <2>6, <2>7 DEF LoopInv
<1>11. CASE ~ok
  <2>1. /\ priorityGame' = priorityGame /\ priorityPid' = priorityPid /\ leases' = leases
        /\ at' = "sample" /\ applied' = "failed"
        /\ failures' \in 0..HaltAfter /\ halted' \in BOOLEAN
        /\ ~halted' => IF HaltAfter > 0 THEN failures' < HaltAfter ELSE failures' = 0
    BY <1>0, <1>3, <1>8, <1>11, OutcomeEffect, Zenon
  <2>2. RecordsAgree'
    BY <1>0, <1>1, <1>4, <1>7, <2>1, BoostRecordsAgree, EngineAssumption
  <2>3. LoopTypeOK'
    BY <1>0, <1>1, <2>1, Zenon DEF LoopTypeOK, Places
  <2>4. ExecutorInv'
    BY <1>0, <1>1, <1>8, <2>1, Zenon DEF ExecutorInv, Settled, Looping
  <2> QED BY <1>9, <2>2, <2>3, <2>4 DEF LoopInv
<1> QED BY <1>10, <1>11

\* ReconcilePowerLock keeps count and record of its type in step, ends as it should, and
\* leaves the other type's count alone.
LEMMA PowerLockEffect ==
  ASSUME LoopInv, at \in {"execution", "display"},
         NEW type \in LockTypes, NEW held \in BOOLEAN, NEW heldAfter, NEW desired \in BOOLEAN,
         NEW ACTION Then,
         lockCount[type] = (IF held THEN 1 ELSE 0),
         ReconcilePowerLock(type, held, heldAfter, desired, Then)
  PROVE  /\ lockCount' \in [LockTypes -> Nat]
         /\ heldAfter \in BOOLEAN
         /\ lockCount'[type] = (IF heldAfter THEN 1 ELSE 0)
         /\ \A t \in LockTypes : t # type => lockCount'[t] = lockCount[t]
         /\ \/ Then /\ heldAfter = desired
            \/ Fail
<1>1. lockCount \in [LockTypes -> Nat]
  BY DEF LoopInv, BackendsShape
<1>2. CASE held = desired /\ Then /\ heldAfter = held /\ UNCHANGED lockVars
  <2>1. lockCount' \in [LockTypes -> Nat]
    BY <1>2, LockerUnchanged
  <2>2. lockCount' = lockCount
    BY <1>2 DEF lockVars
  <2> QED BY <1>2, <2>1, <2>2
<1>3. CASE /\ held # desired
           /\ \E ok \in BOOLEAN :
                 /\ IF desired THEN Locker!AcquireLock(type, ok) ELSE Locker!ReleaseLock(type, ok)
                 /\ \/ ok /\ heldAfter = desired /\ Then
                    \/ ~ok /\ heldAfter = held /\ Fail
  <2>1. PICK ok \in BOOLEAN :
           /\ IF desired THEN Locker!AcquireLock(type, ok) ELSE Locker!ReleaseLock(type, ok)
           /\ \/ ok /\ heldAfter = desired /\ Then
              \/ ~ok /\ heldAfter = held /\ Fail
    BY <1>3
  <2>2. CASE desired
    <3>1. lockCount[type] = 0 /\ ~held
      BY <1>3, <2>2, Zenon
    <3>2. /\ lockCount' \in [LockTypes -> Nat]
          /\ lockCount' = IF ok THEN [lockCount EXCEPT ![type] = 1] ELSE lockCount
      BY <1>1, <2>1, <2>2, <3>1, LockEffect
    <3>3. \/ ok /\ heldAfter = TRUE /\ Then
          \/ ~ok /\ heldAfter = FALSE /\ Fail
      BY <2>1, <2>2, <3>1, Zenon
    <3>4. CASE ok
      <4>1. /\ lockCount'[type] = 1
            /\ \A t \in LockTypes : t # type => lockCount'[t] = lockCount[t]
        BY <1>1, <3>2, <3>4
      <4> QED BY <2>2, <3>2, <3>3, <3>4, <4>1
    <3>5. CASE ~ok
      BY <3>1, <3>2, <3>3, <3>5, Zenon
    <3> QED BY <3>4, <3>5
  <2>3. CASE ~desired
    <3>1. lockCount[type] = 1 /\ held
      BY <1>3, <2>3
    <3>2. /\ lockCount' \in [LockTypes -> Nat]
          /\ lockCount' = IF ok THEN [lockCount EXCEPT ![type] = 0] ELSE lockCount
      BY <1>1, <2>1, <2>3, <3>1, LockEffect
    <3>3. \/ ok /\ heldAfter = FALSE /\ Then
          \/ ~ok /\ heldAfter = TRUE /\ Fail
      BY <2>1, <2>3, <3>1, Zenon
    <3>4. CASE ok
      <4>1. /\ lockCount'[type] = 0
            /\ \A t \in LockTypes : t # type => lockCount'[t] = lockCount[t]
        BY <1>1, <3>2, <3>4
      <4> QED BY <2>3, <3>2, <3>3, <3>4, <4>1, Zenon
    <3>5. CASE ~ok
      BY <3>1, <3>2, <3>3, <3>5, Zenon
    <3> QED BY <3>4, <3>5
  <2> QED BY <2>2, <2>3
<1> QED BY <1>2, <1>3 DEF ReconcilePowerLock

\* Taking or letting go of the execution request.
LEMMA ReconcileExecutionInv == LoopInv /\ ReconcileExecution => LoopInv'
<1> SUFFICES ASSUME LoopInv, ReconcileExecution PROVE LoopInv'
  OBVIOUS
<1> DEFINE desired == ExecutionRequired /\ target.running
<1>0. /\ at = "execution" /\ Looping
      /\ ReconcilePowerLock("execution", powerHeld, powerHeld', desired, Continue("display"))
      /\ UNCHANGED <<engineVars, leases, os, priorityGame, priorityPid, displayHeld,
                     target, critical>>
      /\ LoopTypeOK /\ RecordsAgree /\ ExecutorInv /\ BoostShape(leases, os)
  BY DEF ReconcileExecution, Looping, LoopInv, BackendsShape
<1>1. UNCHANGED <<lastDecision, filterState, effective, target, BoostDesired>>
  BY <1>0, Zenon DEF engineVars, BoostDesired
<1>2. /\ lockCount["execution"] = (IF powerHeld THEN 1 ELSE 0)
      /\ "execution" \in LockTypes /\ "display" \in LockTypes
      /\ powerHeld \in BOOLEAN /\ desired \in BOOLEAN
  BY <1>0, LoopAssumption DEF RecordsAgree, LockTypes, LoopTypeOK, NoTarget
<1> HIDE DEF desired
<1>3. /\ lockCount' \in [LockTypes -> Nat]
      /\ powerHeld' \in BOOLEAN
      /\ lockCount'["execution"] = (IF powerHeld' THEN 1 ELSE 0)
      /\ \A t \in LockTypes : t # "execution" => lockCount'[t] = lockCount[t]
      /\ \/ Continue("display") /\ powerHeld' = desired
         \/ Fail
  BY <1>0, <1>2, PowerLockEffect, Zenon
<1>4. BackendsShape'
  BY <1>0, <1>3 DEF BackendsShape
<1>5. RecordsAgree'
  BY <1>0, <1>2, <1>3, Zenon DEF RecordsAgree, Booster!Held
<1>6. CASE Continue("display") /\ powerHeld' = desired
  <2>1. at' = "display" /\ UNCHANGED <<applied, failures, halted>>
    BY <1>0, <1>6, OutcomeEffect
  <2>2. LoopTypeOK'
    BY <1>0, <1>1, <1>3, <2>1, Zenon DEF LoopTypeOK, Places
  <2>3. target.running \/ ~powerHeld'
    BY <1>6, Zenon DEF desired
  <2>4. ExecutorInv'
    BY <1>0, <1>1, <2>1, <2>3, Zenon DEF ExecutorInv, Settled, Looping
  <2> QED BY <1>4, <1>5, <2>2, <2>4 DEF LoopInv
<1>7. CASE Fail
  <2>1. /\ at' = "sample" /\ applied' = "failed"
        /\ failures' \in 0..HaltAfter /\ halted' \in BOOLEAN
        /\ ~halted' => IF HaltAfter > 0 THEN failures' < HaltAfter ELSE failures' = 0
    BY <1>0, <1>7, OutcomeEffect
  <2>2. LoopTypeOK'
    BY <1>0, <1>1, <1>3, <2>1, Zenon DEF LoopTypeOK, Places
  <2>3. ExecutorInv'
    BY <1>0, <1>1, <2>1 DEF ExecutorInv, Settled, Looping
  <2> QED BY <1>4, <1>5, <2>2, <2>3 DEF LoopInv
<1> QED BY <1>3, <1>6, <1>7

\* Taking or letting go of the display request.
LEMMA ReconcileDisplayInv == LoopInv /\ ReconcileDisplay => LoopInv'
<1> SUFFICES ASSUME LoopInv, ReconcileDisplay PROVE LoopInv'
  OBVIOUS
<1> DEFINE desired == DisplayRequired /\ target.running
<1>0. /\ at = "display" /\ Looping
      /\ ReconcilePowerLock("display", displayHeld, displayHeld', desired, Succeed)
      /\ UNCHANGED <<engineVars, leases, os, priorityGame, priorityPid, powerHeld,
                     target, critical>>
      /\ LoopTypeOK /\ RecordsAgree /\ ExecutorInv /\ BoostShape(leases, os)
  BY DEF ReconcileDisplay, Looping, LoopInv, BackendsShape
<1>1. UNCHANGED <<lastDecision, filterState, effective, target, BoostDesired>>
  BY <1>0, Zenon DEF engineVars, BoostDesired
<1>2. /\ lockCount["display"] = (IF displayHeld THEN 1 ELSE 0)
      /\ "execution" \in LockTypes /\ "display" \in LockTypes
      /\ displayHeld \in BOOLEAN /\ desired \in BOOLEAN
  BY <1>0, LoopAssumption DEF RecordsAgree, LockTypes, LoopTypeOK, NoTarget
<1> HIDE DEF desired
<1>3. /\ lockCount' \in [LockTypes -> Nat]
      /\ displayHeld' \in BOOLEAN
      /\ lockCount'["display"] = (IF displayHeld' THEN 1 ELSE 0)
      /\ \A t \in LockTypes : t # "display" => lockCount'[t] = lockCount[t]
      /\ \/ Succeed /\ displayHeld' = desired
         \/ Fail
  BY <1>0, <1>2, PowerLockEffect, Zenon
<1>4. BackendsShape'
  BY <1>0, <1>3 DEF BackendsShape
<1>5. RecordsAgree'
  BY <1>0, <1>2, <1>3 DEF RecordsAgree, Booster!Held
<1>6. CASE Succeed /\ displayHeld' = desired
  <2>1. at' = "sample" /\ applied' = "ok" /\ failures' = 0 /\ halted' = halted /\ ~halted
    BY <1>0, <1>6, OutcomeEffect
  <2>2. 0 \in 0..HaltAfter /\ IF HaltAfter > 0 THEN 0 < HaltAfter ELSE 0 = 0
    BY LoopAssumption
  <2>3. LoopTypeOK'
    BY <1>0, <1>1, <1>3, <2>1, <2>2, Zenon DEF LoopTypeOK, Places
  <2>4. target.running \/ ~displayHeld'
    BY <1>6, Zenon DEF desired
  <2>5. ExecutorInv'
    BY <1>0, <1>1, <2>1, <2>2, <2>4, Zenon DEF ExecutorInv, Settled, Looping
  <2> QED BY <1>4, <1>5, <2>3, <2>5 DEF LoopInv
<1>7. CASE Fail
  <2>1. /\ at' = "sample" /\ applied' = "failed"
        /\ failures' \in 0..HaltAfter /\ halted' \in BOOLEAN
        /\ ~halted' => IF HaltAfter > 0 THEN failures' < HaltAfter ELSE failures' = 0
    BY <1>0, <1>7, OutcomeEffect
  <2>2. LoopTypeOK'
    BY <1>0, <1>1, <1>3, <2>1, Zenon DEF LoopTypeOK, Places
  <2>3. ExecutorInv'
    BY <1>0, <1>1, <2>1, Zenon DEF ExecutorInv, Settled, Looping
  <2> QED BY <1>4, <1>5, <2>2, <2>3 DEF LoopInv
<1> QED BY <1>3, <1>6, <1>7

\* The end of the loop, after which everything is released.
LEMMA LeaveInv == LoopInv /\ Leave => LoopInv'
<1> SUFFICES ASSUME LoopInv, Leave PROVE LoopInv'
  OBVIOUS
<1>1. BackendsShape' /\ RecordsAgree'
  BY Untouched DEF Leave, Looping
<1>2. /\ DefaultDecision \in Decision /\ Acting(DefaultDecision) = FALSE
      /\ NoTarget.running = FALSE
  BY DEF DefaultDecision, Decision, NoTarget, Acting
<1>3. /\ at' = "release_priority" /\ target' = NoTarget /\ critical' = FALSE /\ applied' = "none"
      /\ lastDecision' = DefaultDecision /\ filterState' = FALSE /\ effective' = DefaultDecision
      /\ UNCHANGED <<priorityGame, priorityPid, powerHeld, displayHeld, failures, halted>>
      /\ LoopTypeOK /\ ExecutorInv
  BY DEF Leave, heldVars, haltVars, LoopInv
<1>4. LoopTypeOK'
  BY <1>2, <1>3, Zenon DEF LoopTypeOK, Places
<1>5. ExecutorInv'
  <2>1. filterState' = Acting(lastDecision')
    BY <1>2, <1>3, Zenon
  <2>2. ~target'.running
    BY <1>2, <1>3
  <2> QED BY <1>2, <1>3, <2>1, <2>2, Zenon DEF ExecutorInv, Settled
<1> QED BY <1>1, <1>4, <1>5 DEF LoopInv

\* After Leave, no process is looked at and what the executor knows does not matter any more.
LEMMA LeavingInv ==
  ASSUME LoopInv, at \in {"release_priority", "release_execution", "release_display", "destroy"},
         at' \in {"release_execution", "release_display", "destroy", "done"},
         at' = "done" => /\ \A g \in Games : leases'[g] = None
                         /\ \A t \in LockTypes : lockCount'[t] = 0,
         priorityGame' \in {priorityGame, NoGame}, priorityPid' = priorityPid,
         powerHeld' \in {powerHeld, FALSE}, displayHeld' \in {displayHeld, FALSE},
         UNCHANGED <<engineVars, haltVars, tickVars>>
  PROVE  LoopTypeOK' /\ RecordsAgree' /\ ExecutorInv'
<1>1. /\ LoopTypeOK /\ ExecutorInv
      /\ UNCHANGED <<lastDecision, filterState, effective, target, critical, applied, failures, halted>>
  BY DEF LoopInv, engineVars, haltVars, tickVars
<1>2. ~Looping /\ ~Looping'
  BY DEF Looping
<1>3. RecordsAgree'
  BY <1>2 DEF RecordsAgree
<1>4. LoopTypeOK'
  BY <1>1, Zenon DEF LoopTypeOK, Places
<1>5. ExecutorInv'
  <2>0. priorityGame' # NoGame => priorityPid' \in Pids
    BY <1>1, Zenon DEF ExecutorInv
  <2>1. ~target.running
    BY <1>1, <1>2, Zenon DEF ExecutorInv
  <2>2. ~Settled'
    BY DEF Settled
  <2> QED BY <1>1, <2>0, <2>1, <2>2, Zenon DEF ExecutorInv
<1> QED BY <1>3, <1>4, <1>5

\* ReleaseAll, first the boost.
LEMMA ReleasePriorityInv == LoopInv /\ ReleasePriority => LoopInv'
<1> SUFFICES ASSUME LoopInv, ReleasePriority PROVE LoopInv'
  OBVIOUS
<1>1. LoopTypeOK' /\ RecordsAgree' /\ ExecutorInv'
  BY LeavingInv DEF ReleasePriority
<1>2. lockCount' \in [LockTypes -> Nat]
  BY LockerUnchanged DEF ReleasePriority
<1>3. BoostShape(leases', os')
  <2>1. BoostShape(leases, os) /\ priorityGame \in Games \cup {NoGame}
    BY DEF LoopInv, BackendsShape, LoopTypeOK
  <2>2. CASE priorityGame = NoGame
    BY <2>1, <2>2 DEF ReleasePriority
  <2>3. CASE priorityGame # NoGame
    BY <2>1, <2>3, ReleaseEffect DEF ReleasePriority
  <2> QED BY <2>2, <2>3
<1> QED BY <1>1, <1>2, <1>3 DEF LoopInv, BackendsShape

\* ReleaseAll, then the execution request.
LEMMA ReleaseExecutionInv == LoopInv /\ ReleaseExecution => LoopInv'
<1> SUFFICES ASSUME LoopInv, ReleaseExecution PROVE LoopInv'
  OBVIOUS
<1>1. LoopTypeOK' /\ RecordsAgree' /\ ExecutorInv'
  BY LeavingInv, Zenon DEF ReleaseExecution
<1>2. lockCount' \in [LockTypes -> Nat]
  <2>1. "execution" \in LockTypes /\ lockCount \in [LockTypes -> Nat]
    BY DEF LockTypes, LoopInv, BackendsShape
  <2>2. CASE ~powerHeld
    BY <2>2, LockerUnchanged DEF ReleaseExecution
  <2>3. CASE powerHeld
    BY <2>1, <2>3, LockEffect DEF ReleaseExecution
  <2> QED BY <2>2, <2>3
<1>3. BoostShape(leases', os')
  BY DEF LoopInv, BackendsShape, ReleaseExecution
<1> QED BY <1>1, <1>2, <1>3 DEF LoopInv, BackendsShape

\* ReleaseAll, last the display request.
LEMMA ReleaseDisplayInv == LoopInv /\ ReleaseDisplay => LoopInv'
<1> SUFFICES ASSUME LoopInv, ReleaseDisplay PROVE LoopInv'
  OBVIOUS
<1>1. LoopTypeOK' /\ RecordsAgree' /\ ExecutorInv'
  BY LeavingInv, Zenon DEF ReleaseDisplay
<1>2. lockCount' \in [LockTypes -> Nat]
  <2>1. "display" \in LockTypes /\ lockCount \in [LockTypes -> Nat]
    BY DEF LockTypes, LoopInv, BackendsShape
  <2>2. CASE ~displayHeld
    BY <2>2, LockerUnchanged DEF ReleaseDisplay
  <2>3. CASE displayHeld
    BY <2>1, <2>3, LockEffect DEF ReleaseDisplay
  <2> QED BY <2>2, <2>3
<1>3. BoostShape(leases', os')
  BY DEF LoopInv, BackendsShape, ReleaseDisplay
<1> QED BY <1>1, <1>2, <1>3 DEF LoopInv, BackendsShape

\* The destructors of booster and locker.
LEMMA DestroyInv == LoopInv /\ Destroy => LoopInv'
<1> SUFFICES ASSUME LoopInv, Destroy PROVE LoopInv'
  OBVIOUS
<1>0. /\ BoostShape(leases, os) /\ lockCount \in [LockTypes -> Nat]
      /\ at = "destroy" /\ UNCHANGED <<engineVars, heldVars, haltVars, tickVars>>
      /\ UNCHANGED <<priorityGame, priorityPid, powerHeld, displayHeld>>
  BY DEF LoopInv, BackendsShape, Destroy, heldVars
<1>1. CASE (\E g \in Games : Booster!ForceClean(g)) /\ UNCHANGED <<at, lockVars>>
  <2>3. BoostShape(leases', os')
    BY <1>0, <1>1, ForceCleanEffect
  <2>4. lockCount' \in [LockTypes -> Nat]
    BY <1>1, LockerUnchanged
  <2>5. LoopTypeOK' /\ RecordsAgree' /\ ExecutorInv'
    BY <1>0, <1>1, LeavingInv
  <2> QED BY <2>3, <2>4, <2>5 DEF LoopInv, BackendsShape
<1>2. CASE /\ ~Booster!AnyHeld /\ Locker!LockerReleaseAll /\ at' = "done"
           /\ UNCHANGED <<leases, os>>
  <2>1. \A g \in Games : leases'[g] = None
    BY <1>2 DEF Booster!AnyHeld, Booster!Held
  <2>2. \A t \in LockTypes : lockCount'[t] = 0
    BY <1>2 DEF Locker!LockerReleaseAll
  <2>3. lockCount' \in [LockTypes -> Nat]
    BY <1>2 DEF Locker!LockerReleaseAll
  <2>4. LoopTypeOK' /\ RecordsAgree' /\ ExecutorInv'
    BY <1>0, <1>2, <2>1, <2>2, LeavingInv
  <2> QED BY <1>0, <1>2, <2>3, <2>4 DEF LoopInv, BackendsShape
<1> QED BY <1>1, <1>2 DEF Destroy

\* Processes that start, exit or are changed by others.
LEMMA ProcessesInv == LoopInv /\ Processes => LoopInv'
<1> SUFFICES ASSUME LoopInv, Processes PROVE LoopInv'
  OBVIOUS
<1>0. /\ BoostShape(leases, os)
      /\ UNCHANGED <<engineVars, lockVars, at, heldVars, haltVars, tickVars>>
      /\ LoopTypeOK /\ RecordsAgree /\ ExecutorInv
  BY DEF LoopInv, BackendsShape, Processes
<1>1. PICK p \in Pids : Booster!Spawn(p) \/ Booster!Exit(p)
  BY DEF Processes
<1>2. /\ BoostShape(leases', os')
      /\ leases' = leases
      /\ \A q \in Pids : os.born[q] <= os'.born[q]
  BY <1>0, <1>1, ProcessEffect
<1>3. UNCHANGED <<lastDecision, filterState, effective, lockCount, at, priorityGame, priorityPid,
                  powerHeld, displayHeld, failures, halted, target, critical, applied>>
  BY <1>0 DEF engineVars, lockVars, heldVars, haltVars, tickVars
<1>4. lockCount' \in [LockTypes -> Nat]
  BY <1>0, LockerUnchanged
<1>5. LoopTypeOK'
  BY <1>0, <1>3, Zenon DEF LoopTypeOK
<1>6. RecordsAgree'
  BY <1>0, <1>2, <1>3, Zenon DEF RecordsAgree, Looping, Booster!Held
<1>7. target.running => target.born <= os'.born[target.pid]
  <2> HAVE target.running
  <2>0. NoTarget.running = FALSE
    BY DEF NoTarget
  <2>1. target.pid \in Pids /\ target.born \in 0..MaxBirths
    BY <1>0, <2>0, Zenon DEF LoopTypeOK
  <2>2. os.born[target.pid] \in Nat /\ os'.born[target.pid] \in Nat
    BY <1>0, <1>2, <2>1, LoopAssumption, SMTT(30) DEF BoostShape, OsShape
  <2>3. target.born <= os.born[target.pid]
    BY <1>0, Zenon DEF ExecutorInv
  <2> QED BY <1>2, <2>1, <2>2, <2>3
<1>8. ExecutorInv'
  BY <1>0, <1>2, <1>3, <1>7, Zenon DEF ExecutorInv, Settled, Looping, BoostDesired
<1> QED BY <1>2, <1>4, <1>5, <1>6, <1>8 DEF LoopInv, BackendsShape

\* A step that changes nothing.
LEMMA StutterInv == LoopInv /\ UNCHANGED vars => LoopInv'
<1> SUFFICES ASSUME LoopInv, UNCHANGED vars PROVE LoopInv'
  OBVIOUS
<1>1. /\ UNCHANGED <<leases, os, lockVars, heldVars, at>>
      /\ UNCHANGED <<lastDecision, filterState, effective, lockCount, at, priorityGame, priorityPid,
                     powerHeld, displayHeld, failures, halted, target, critical, applied>>
  BY DEF vars, boostVars, engineVars, lockVars, heldVars, haltVars, tickVars
<1>2. BackendsShape' /\ RecordsAgree'
  BY <1>1, Untouched DEF Looping
<1>3. LoopTypeOK'
  BY <1>1, Zenon DEF LoopInv, LoopTypeOK
<1>4. ExecutorInv'
  BY <1>1, Zenon DEF LoopInv, ExecutorInv, Settled, Looping, BoostDesired
<1> QED BY <1>2, <1>3, <1>4 DEF LoopInv

\* The invariant holds in every state of the loop.
LEMMA LoopInvariant == Spec => []LoopInv
<1>1. LoopInv /\ [Next]_vars => LoopInv'
  BY TickInv, ReconcilePriorityInv, AcquireBoostInv, ReconcileExecutionInv, ReconcileDisplayInv,
     LeaveInv, ReleasePriorityInv, ReleaseExecutionInv, ReleaseDisplayInv, DestroyInv,
     ProcessesInv, StutterInv DEF Next
<1> QED BY <1>1, InitLoopInv, PTL DEF Spec

----------------------------------------------------------------------------
(* What follows.                                                           *)

\* For every configuration, types of the loop, the executor and its backends.
THEOREM LoopTypesHold == Spec => []LoopTypeOK
<1>1. LoopInv => LoopTypeOK
  BY DEF LoopInv
<1> QED BY <1>1, LoopInvariant, PTL

\* For every configuration: what the executor believes it holds is what the booster and
\* the locker hold for it, after every failed backend call too.
THEOREM RecordsAlwaysAgree == Spec => []RecordsAgree
<1>1. LoopInv => RecordsAgree
  BY Zenon DEF LoopInv
<1> QED BY <1>1, LoopInvariant, PTL

\* For every configuration: a tick that reports success holds no boost in critical
\* pressure, as long as it is not halted.
THEOREM CriticalPressureIsFollowed == Spec => []CriticalRevokesBoost
<1>1. LoopInv => CriticalRevokesBoost
  BY Zenon DEF LoopInv, ExecutorInv, Settled, CriticalRevokesBoost, BoostDesired
<1> QED BY <1>1, LoopInvariant, PTL

\* For every configuration: a tick that reports success holds nothing at all without a
\* running game, as long as it is not halted.
THEOREM GameExitIsFollowed == Spec => []GameExitReleases
<1>1. LoopInv => GameExitReleases
  BY Zenon DEF LoopInv, ExecutorInv, Settled, GameExitReleases, BoostDesired
<1> QED BY <1>1, LoopInvariant, PTL

----------------------------------------------------------------------------
(* The loop uses its backends as their specifications allow.               *)

\* The booster's leases are being cleaned.
Cleaning == at = "destroy" /\ \E g \in Games : leases[g] # None

\* A call of the executor's is a call that PriorityBooster's specification allows.
LEMMA CallIsBoosterStep ==
  ASSUME at # "destroy", at' # "destroy", NEW g \in Games, NEW p \in Pids, NEW ok \in BOOLEAN,
         Booster!Call(g, p, ok)
  PROVE  Booster!BoosterNext
  BY Zenon DEF Booster!BoosterNext

\* A step without a call is no step of the booster's.
LEMMA IdleIsBoosterStutter ==
  ASSUME UNCHANGED <<leases, os>>, at # "destroy", at' # "destroy"
  PROVE  UNCHANGED Booster!boosterVars
  BY DEF Booster!boosterVars

\* Every step of the loop is a step of the booster or leaves it alone.
LEMMA LoopStepIsBoosterStep ==
  LoopInv /\ [Next]_vars => [Booster!BoosterNext]_(Booster!boosterVars)
<1> SUFFICES ASSUME LoopInv, [Next]_vars
             PROVE  Booster!BoosterNext \/ UNCHANGED Booster!boosterVars
  OBVIOUS
<1>0. LoopTypeOK /\ RecordsAgree /\ ExecutorInv /\ BoostShape(leases, os)
  BY DEF LoopInv, BackendsShape
<1>1. CASE Tick \/ ReconcileExecution \/ ReconcileDisplay \/ Leave \/ ReleaseExecution
  <2>1. UNCHANGED <<leases, os>> /\ at # "destroy"
    BY <1>1, Zenon DEF Tick, ReconcileExecution, ReconcileDisplay, Leave, ReleaseExecution
  <2>2. at' # "destroy"
    BY <1>1, Zenon DEF Tick, ReconcileExecution, ReconcileDisplay, Leave, ReleaseExecution,
                ReconcilePowerLock, Continue, Fail, Succeed
  <2> QED BY <2>1, <2>2, IdleIsBoosterStutter, Zenon
<1>2. CASE ReconcilePriority
  <2>1. at = "priority" /\ at' # "destroy"
    BY <1>2 DEF ReconcilePriority, Continue, Fail
  <2>2. CASE UNCHANGED <<leases, os>>
    BY <2>1, <2>2, IdleIsBoosterStutter
  <2>3. ASSUME priorityGame # NoGame, NEW ok \in BOOLEAN,
               Booster!ReleaseBoost(priorityGame, priorityPid, ok)
        PROVE  Booster!BoosterNext
    <3>1. priorityGame \in Games /\ priorityPid \in Pids
      BY <1>0, <2>3, Zenon DEF LoopTypeOK, ExecutorInv
    <3>2. Booster!Call(priorityGame, priorityPid, ok)
      BY <2>3, Zenon DEF Booster!Call
    <3> QED BY <2>1, <3>1, <3>2, CallIsBoosterStep
  <2> QED BY <1>2, <2>2, <2>3 DEF ReconcilePriority
<1>3. CASE AcquireBoost
  <2>1. at = "acquire" /\ at' # "destroy"
    BY <1>3 DEF AcquireBoost, Continue, Fail
  <2>2. PICK ok \in BOOLEAN : Booster!AcquireBoost(target.game, target.pid, target.born, MaxLevel, ok)
    BY <1>3 DEF AcquireBoost
  <2>3. /\ priorityGame = NoGame /\ target.running /\ target.born <= os.born[target.pid]
    BY <1>0, <2>1, Zenon DEF ExecutorInv, BoostDesired
  <2>4. /\ target.game \in Games /\ target.pid \in Pids /\ target.born \in 0..MaxBirths
    <3>1. NoTarget.running = FALSE
      BY Zenon DEF NoTarget
    <3> QED BY <1>0, <2>3, <3>1, Zenon DEF LoopTypeOK
  <2>5. ~Booster!Held(target.game)
    BY <1>0, <2>1, <2>3, <2>4, EngineAssumption, Zenon DEF RecordsAgree, Looping
  <2>6. target.born \in 0..os.born[target.pid]
    <3>1. os.born[target.pid] \in 0..MaxBirths
      BY <1>0, <2>4, Zenon DEF BoostShape, OsShape
    <3> QED BY <2>3, <2>4, <3>1, LoopAssumption
  <2>7. Booster!Call(target.game, target.pid, ok)
    <3>1. MaxLevel \in LevelsAsked
      BY DEF MaxLevel, LevelsAsked
    <3> QED BY <2>2, <2>5, <2>6, <3>1 DEF Booster!Call
  <2> QED BY <2>1, <2>4, <2>7, CallIsBoosterStep
<1>4. CASE ReleasePriority
  <2>1. at = "release_priority" /\ at' = "release_execution"
    BY <1>4 DEF ReleasePriority
  <2>2. CASE priorityGame = NoGame
    <3>1. UNCHANGED <<leases, os>>
      BY <1>4, <2>2 DEF ReleasePriority
    <3> QED BY <2>1, <3>1, IdleIsBoosterStutter
  <2>3. CASE priorityGame # NoGame
    <3>1. PICK ok \in BOOLEAN : Booster!ReleaseBoost(priorityGame, priorityPid, ok)
      BY <1>4, <2>3, Zenon DEF ReleasePriority
    <3>2. priorityGame \in Games /\ priorityPid \in Pids
      BY <1>0, <2>3, Zenon DEF LoopTypeOK, ExecutorInv
    <3>3. Booster!Call(priorityGame, priorityPid, ok)
      BY <3>1, Zenon DEF Booster!Call
    <3> QED BY <2>1, <3>2, <3>3, CallIsBoosterStep
  <2> QED BY <2>2, <2>3
<1>5. CASE ReleaseDisplay
  <2>1. at = "release_display" /\ at' = "destroy" /\ UNCHANGED <<leases, os>>
    BY <1>5 DEF ReleaseDisplay
  <2>2. CASE \E g \in Games : leases[g] # None
    <3>1. ~Cleaning /\ Cleaning'
      BY <2>1, <2>2 DEF Cleaning
    <3>2. Booster!AnyHeld
      BY <2>2 DEF Booster!AnyHeld, Booster!Held
    <3> QED BY <2>1, <3>1, <3>2 DEF Booster!BoosterNext, Booster!BeginReleaseAll, Cleaning
  <2>3. CASE ~\E g \in Games : leases[g] # None
    BY <2>1, <2>3 DEF Booster!boosterVars
  <2> QED BY <2>2, <2>3
<1>6. CASE Destroy
  <2>1. CASE (\E g \in Games : Booster!ForceClean(g)) /\ UNCHANGED <<at, lockVars>>
    <3>1. at = "destroy" /\ at' = "destroy"
      BY <1>6, <2>1 DEF Destroy
    <3>2. Cleaning
      BY <2>1, <3>1 DEF Cleaning, Booster!ForceClean, Booster!Held
    <3>3. Cleaning' <=> Booster!AnyHeld'
      BY <3>1 DEF Cleaning, Booster!AnyHeld, Booster!Held
    <3> QED BY <2>1, <3>2, <3>3, Zenon DEF Booster!BoosterNext, Cleaning
  <2>2. CASE ~Booster!AnyHeld /\ UNCHANGED <<leases, os>>
    BY <2>2 DEF Booster!boosterVars, Booster!AnyHeld, Booster!Held
  <2> QED BY <1>6, <2>1, <2>2 DEF Destroy
<1>7. CASE Processes
  <2>1. PICK p \in Pids : Booster!Spawn(p) \/ Booster!Exit(p)
    BY <1>7 DEF Processes
  <2>2. UNCHANGED <<at, leases>>
    BY <1>7, <2>1 DEF Processes, Booster!Spawn, Booster!Exit
  <2>3. Booster!OsStep
    BY <2>1 DEF Booster!OsStep
  <2> QED BY <2>2, <2>3 DEF Booster!BoosterNext
<1>8. CASE UNCHANGED vars
  BY <1>8 DEF vars, boostVars, Booster!boosterVars
<1> QED BY <1>1, <1>2, <1>3, <1>4, <1>5, <1>6, <1>7, <1>8 DEF Next

\* Every step of the loop is a step of the locker or leaves it alone.
LEMMA LoopStepIsLockerStep ==
  LoopInv /\ [Next]_vars => [Locker!LockerNext]_(Locker!lockerVars)
<1> SUFFICES ASSUME LoopInv, [Next]_vars
             PROVE  Locker!LockerNext \/ UNCHANGED Locker!lockerVars
  OBVIOUS
<1>0. /\ LoopTypeOK /\ RecordsAgree
      /\ {"execution", "display"} = LockTypes /\ MaxLocks = 1
  BY DEF LoopInv, LockTypes, MaxLocks
<1>1. CASE UNCHANGED lockVars
  BY <1>1 DEF lockVars, Locker!lockerVars
<1>2. ASSUME NEW type \in LockTypes, NEW held \in BOOLEAN, NEW desired \in BOOLEAN, NEW ok \in BOOLEAN,
             lockCount[type] = (IF held THEN 1 ELSE 0), held # desired,
             IF desired THEN Locker!AcquireLock(type, ok) ELSE Locker!ReleaseLock(type, ok)
      PROVE  Locker!LockerNext
  <2>1. CASE desired
    <3>0. lockCount[type] = 0
      BY <1>2, <2>1, Zenon
    <3>1. lockCount[type] < MaxLocks
      BY <1>0, <3>0
    <3> QED BY <1>2, <2>1, <3>1 DEF Locker!LockerNext
  <2>2. CASE ~desired
    BY <1>2, <2>2 DEF Locker!LockerNext
  <2> QED BY <2>1, <2>2
<1>3. target.running \in BOOLEAN
  <2>1. NoTarget.running = FALSE
    BY DEF NoTarget
  <2> QED BY <1>0, <2>1, Zenon DEF LoopTypeOK
<1>4. CASE ReconcileExecution
  <2>1. Looping
    BY <1>4, Zenon DEF ReconcileExecution, Looping
  <2>2. /\ lockCount["execution"] = (IF powerHeld THEN 1 ELSE 0)
        /\ powerHeld \in BOOLEAN /\ (ExecutionRequired /\ target.running) \in BOOLEAN
    BY <1>0, <1>3, <2>1, LoopAssumption DEF RecordsAgree, LoopTypeOK
  <2> QED BY <1>0, <1>1, <1>2, <1>4, <2>2, Zenon DEF ReconcileExecution, ReconcilePowerLock
<1>5. CASE ReconcileDisplay
  <2>1. Looping
    BY <1>5 DEF ReconcileDisplay, Looping
  <2>2. /\ lockCount["display"] = (IF displayHeld THEN 1 ELSE 0)
        /\ displayHeld \in BOOLEAN /\ (DisplayRequired /\ target.running) \in BOOLEAN
    BY <1>0, <1>3, <2>1, LoopAssumption DEF RecordsAgree, LoopTypeOK
  <2> QED BY <1>0, <1>1, <1>2, <1>5, <2>2, Zenon DEF ReconcileDisplay, ReconcilePowerLock
<1>6. CASE ReleaseExecution \/ ReleaseDisplay
  BY <1>0, <1>1, <1>6 DEF ReleaseExecution, ReleaseDisplay, Locker!LockerNext
<1>7. CASE Destroy
  BY <1>1, <1>7 DEF Destroy, lockVars, Locker!LockerNext
<1>8. CASE Tick \/ ReconcilePriority \/ AcquireBoost \/ Leave \/ ReleasePriority \/ Processes \/ UNCHANGED vars
  <2>1. UNCHANGED lockVars
    BY <1>8, Zenon DEF Tick, ReconcilePriority, AcquireBoost, Leave, ReleasePriority, Processes, vars
  <2> QED BY <1>1, <2>1, Zenon
<1> QED BY <1>4, <1>5, <1>6, <1>7, <1>8 DEF Next

\* For every configuration, the executor calls the booster and the locker only as their
\* specifications allow, and ends them with ReleaseAll: it never nests a lease or a power
\* request, and never boosts a process it has not observed.
THEOREM LoopDrivesBackends == Spec => Booster!BoosterSpec /\ Locker!LockerSpec
<1>1. Init => Booster!BoosterInit /\ Locker!LockerInit
  BY DEF Init
<1> QED BY <1>1, LoopInvariant, LoopStepIsBoosterStep, LoopStepIsLockerStep, PTL
        DEF Spec, Booster!BoosterSpec, Locker!LockerSpec

----------------------------------------------------------------------------
(* What the backends promise therefore holds in the loop.                  *)

Backends == INSTANCE BackendProofs
    WITH GameIds <- Games,
         releasing <- at = "destroy" /\ \E g \in Games : leases[g] # None

\* The loop's constants are ones the backends allow.
LEMMA BackendsAssumption ==
  Backends!BoosterAssumption /\ Backends!LockerAssumption
<1>1. None \notin Backends!Lease
  BY LoopAssumption DEF Booster!Lease, Backends!Lease, Booster!Classes, Backends!Classes
<1>2. /\ LevelsAsked \subseteq 0..2 /\ MaxLevel \in 0..2 /\ MaxCount \in Nat \ {0}
      /\ MaxLocks \in Nat
  BY DEF LevelsAsked, MaxLevel, MaxCount, MaxLocks
<1>3. Backends!BoosterAssumption
  BY <1>1, <1>2, LoopAssumption DEF Backends!BoosterAssumption
<1>4. Backends!LockerAssumption
  BY <1>2, LoopAssumption DEF Backends!LockerAssumption
<1> QED BY <1>3, <1>4

\* The specifications that the loop drives are those that BackendProofs is about.
LEMMA SameBooster == Booster!BoosterSpec => Backends!BoosterSpec
<1>1. \A w, l : Booster!RestoreLastLease(w, l) = Backends!RestoreLastLease(w, l)
  BY DEF Booster!RestoreLastLease, Backends!RestoreLastLease, Booster!GiveUp,
         Backends!GiveUp, Booster!CloseProcess, Backends!CloseProcess
<1>2. \A w, p, expected, class :
         Booster!Opened(w, p, expected, class) = Backends!Opened(w, p, expected, class)
  BY DEF Booster!Opened, Backends!Opened
<1>3. ASSUME NEW g, NEW p, NEW ok
      PROVE  Booster!ReleaseBoost(g, p, ok) <=> Backends!ReleaseBoost(g, p, ok)
  BY <1>1 DEF Booster!ReleaseBoost, Backends!ReleaseBoost, Booster!Held, Backends!Held
<1>4. ASSUME NEW g, NEW p, NEW expected, NEW level, NEW ok
      PROVE  Booster!AcquireBoost(g, p, expected, level, ok)
             <=> Backends!AcquireBoost(g, p, expected, level, ok)
  <2>1. Booster!PriorityLevelToWin32Class = Backends!PriorityLevelToWin32Class
    BY Zenon DEF Booster!PriorityLevelToWin32Class, Backends!PriorityLevelToWin32Class
  <2>2. Booster!ReleasedOld(g) = Backends!ReleasedOld(g)
    BY <1>1 DEF Booster!ReleasedOld, Backends!ReleasedOld
  <2> QED BY <1>2, <2>1, <2>2
          DEF Booster!AcquireBoost, Backends!AcquireBoost, Booster!Held, Backends!Held
<1>5. ASSUME NEW g, NEW p, NEW ok
      PROVE  Booster!Call(g, p, ok) <=> Backends!Call(g, p, ok)
  BY <1>3, <1>4, Zenon DEF Booster!Call, Backends!Call, Booster!Held, Backends!Held
<1>6. ASSUME NEW g PROVE Booster!ForceClean(g) <=> Backends!ForceClean(g)
  <2>1. Booster!ForceCleanLease(os, leases[g]) = Backends!ForceCleanLease(os, leases[g])
    BY <1>1, Zenon DEF Booster!ForceCleanLease, Backends!ForceCleanLease
  <2> QED BY <2>1 DEF Booster!ForceClean, Backends!ForceClean, Booster!Held, Backends!Held
<1>7. Booster!OsStep <=> Backends!OsStep
  BY DEF Booster!OsStep, Backends!OsStep, Booster!Spawn, Booster!Exit, Booster!ExternalSetClass,
         Backends!Spawn, Backends!Exit, Backends!ExternalSetClass, Booster!Classes, Backends!Classes
<1>8. /\ Booster!AnyHeld' = Backends!AnyHeld'
      /\ Booster!BeginReleaseAll <=> Backends!BeginReleaseAll
  BY DEF Booster!AnyHeld, Backends!AnyHeld, Booster!Held, Backends!Held,
         Booster!BeginReleaseAll, Backends!BeginReleaseAll
<1>9. Booster!BoosterNext => Backends!BoosterNext
  BY <1>5, <1>6, <1>7, <1>8, Zenon DEF Booster!BoosterNext, Backends!BoosterNext
<1>10. Booster!boosterVars = Backends!boosterVars /\ Booster!boosterVars' = Backends!boosterVars'
  BY Zenon DEF Booster!boosterVars, Backends!boosterVars
<1>11. [Booster!BoosterNext]_(Booster!boosterVars) => [Backends!BoosterNext]_(Backends!boosterVars)
  BY <1>9, <1>10, Zenon
<1>12. Booster!BoosterInit => Backends!BoosterInit
  BY Zenon DEF Booster!BoosterInit, Backends!BoosterInit
<1> QED BY <1>11, <1>12, PTL DEF Booster!BoosterSpec, Backends!BoosterSpec

\* The locker of the loop is the one BackendProofs speaks of.
LEMMA SameLocker == Locker!LockerSpec => Backends!LockerSpec
<1>1. ASSUME NEW t, NEW ok
      PROVE  /\ Locker!AcquireLock(t, ok) <=> Backends!AcquireLock(t, ok)
             /\ Locker!ReleaseLock(t, ok) <=> Backends!ReleaseLock(t, ok)
  <2>1. Locker!AcquireLock(t, ok) <=> Backends!AcquireLock(t, ok)
    BY Zenon DEF Locker!AcquireLock, Backends!AcquireLock, Locker!CreateFails, Backends!CreateFails,
           Locker!lockerVars, Backends!lockerVars
  <2>2. Locker!ReleaseLock(t, ok) <=> Backends!ReleaseLock(t, ok)
    BY Zenon DEF Locker!ReleaseLock, Backends!ReleaseLock, Locker!CloseRequest, Backends!CloseRequest,
           Locker!lockerVars, Backends!lockerVars
  <2> QED BY <2>1, <2>2, Zenon
<1>2. Locker!LockerReleaseAll <=> Backends!LockerReleaseAll
  BY DEF Locker!LockerReleaseAll, Backends!LockerReleaseAll
<1>3. Locker!LockerNext => Backends!LockerNext
  BY <1>1, <1>2 DEF Locker!LockerNext, Backends!LockerNext
<1>4. Locker!lockerVars = Backends!lockerVars /\ Locker!lockerVars' = Backends!lockerVars'
  BY DEF Locker!lockerVars, Backends!lockerVars
<1>5. [Locker!LockerNext]_(Locker!lockerVars) => [Backends!LockerNext]_(Backends!lockerVars)
  BY <1>3, <1>4
<1>6. Locker!LockerInit => Backends!LockerInit
  BY DEF Locker!LockerInit, Backends!LockerInit
<1> QED BY <1>5, <1>6, PTL DEF Locker!LockerSpec, Backends!LockerSpec

\* What BackendProofs shows of the two, in the loop.
LEMMA BackendsInOrder == Spec => [](Backends!Exact(leases, os) /\ Backends!LockerInv)
<1>1. Backends!BoosterSpec => []Backends!BoosterInv
  BY BackendsAssumption, Backends!BoosterInvariant
<1>2. Backends!LockerSpec => []Backends!LockerInv
  BY BackendsAssumption, Backends!LockerInvariant
<1>3. Backends!BoosterInv => Backends!Exact(leases, os)
  BY DEF Backends!BoosterInv
<1> QED BY <1>1, <1>2, <1>3, LoopDrivesBackends, SameBooster, SameLocker, PTL

\* For every configuration: in the loop, too, leases, processes, handles and boosts stay in
\* step, and a power request is in force exactly while it is counted.
THEOREM LoopKeepsBackends == Spec => [](Booster!LeaseIsExact /\ Locker!RequestsAreOwned)
<1>1. ASSUME Backends!Exact(leases, os) PROVE Booster!LeaseIsExact
  <2>1. Backends!LeaseIsExact
    BY <1>1, BackendsAssumption, Backends!ExactMeansLeaseIsExact
  <2> QED BY <2>1, Zenon DEF Backends!LeaseIsExact, Booster!LeaseIsExact, Backends!Held, Booster!Held,
                      Backends!OneLevel, Booster!OneLevel, Backends!Cardinality, Booster!Cardinality
<1>2. Backends!LockerInv => Locker!RequestsAreOwned
  BY Zenon DEF Backends!LockerInv, Locker!RequestsAreOwned,
         Backends!RequestMatchesCount, Locker!RequestMatchesCount,
         Backends!NoDanglingHandle, Locker!NoDanglingHandle
<1> QED BY <1>1, <1>2, BackendsInOrder, PTL

\* For every configuration: when the command has ended, no lease, handle, power request or
\* raised process is left, whatever failed before.
THEOREM CommandLeavesNothing == Spec => []ExitLeavesNothing
<1>1. ASSUME LoopInv, Backends!Exact(leases, os), Backends!LockerInv, at = "done"
      PROVE  /\ \A g \in Games : ~Booster!Held(g)
             /\ \A p \in Pids : os.handles[p] = 0 /\ ~os.raised[p]
             /\ requests = {} /\ openHandles = {}
  <2>1. /\ \A g \in Games : leases[g] = None
        /\ \A t \in LockTypes : lockCount[t] = 0
    BY <1>1, Zenon DEF LoopInv, ExecutorInv
  <2>2. Backends!OneLevel
    BY DEF Backends!OneLevel, LevelsAsked, MaxLevel
  <2>3. \A p \in Pids : os.handles[p] = 0 /\ ~os.raised[p]
    BY <1>1, <2>1, <2>2, BackendsAssumption, Backends!NothingHeld, Zenon
  <2>4. requests = {}
    <3>1. Backends!RequestMatchesCount
      BY <1>1, Zenon DEF Backends!LockerInv
    <3>2. requests = {<<lockHandle[t], t>> : t \in {u \in LockTypes : lockCount[u] > 0}}
      BY <3>1, Zenon DEF Backends!RequestMatchesCount
    <3>3. {u \in LockTypes : lockCount[u] > 0} = {}
      BY <2>1
    <3> QED BY <3>2, <3>3, Zenon
  <2>5. openHandles = {}
    BY <1>1, <2>4, Zenon DEF Backends!LockerInv, Backends!NoDanglingHandle
  <2> QED BY <2>1, <2>3, <2>4, <2>5 DEF Booster!Held
<1>2. LoopInv /\ Backends!Exact(leases, os) /\ Backends!LockerInv => ExitLeavesNothing
  BY <1>1, Zenon DEF ExitLeavesNothing
<1> QED BY <1>2, LoopInvariant, BackendsInOrder, PTL
=============================================================================
