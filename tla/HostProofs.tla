----------------------------- MODULE HostProofs ------------------------------
(***************************************************************************)
(* The host's threads, what it knows of the user and what it decides, each *)
(* for any number of steps and any inputs: the signal thread never uses a  *)
(* host that RunConsole has given back (ServiceHost), nobody leaves the    *)
(* tray's thread behind (TrayHost), who is there is never made up          *)
(* (HostPresence) and neither are the samples of the user's activity       *)
(* (UserActivity), and the policy engine's cooldown damps its output       *)
(* exactly (PolicyDamping).                                                *)
(***************************************************************************)
EXTENDS PolicyDamping, HostPresence, UserActivity, ServiceHost, TrayHost, TLAPS

----------------------------------------------------------------------------
(* RunConsole and the signal thread.                                       *)

\* Where RunConsole is while gActiveConsoleHost points to the host.
Published == {"install", "loop", "work", "check", "blocking", "wait", "withdraw"}

\* The pointer is set between Publish and Withdraw, and never for a service.
PointerInv ==
    /\ active \in BOOLEAN
    /\ active => at \in Published
    /\ active \/ at = "publish" => mode # "service"

\* The signal thread holds the mutex exactly while it uses the host; what it uses is then
\* still published, since Withdraw has to wait for the mutex.
MutexInv ==
    /\ locked \in BOOLEAN
    /\ sig \in {"stop", "notify"} <=> locked
    /\ locked => active

\* Before its handler is installed, no signal can have come.
QuietInv == at \in {"register", "publish", "install"} => ~registered /\ sig = "idle"

\* A transition that is under way has a goal, so that it is known where it leads.
GoalInv == at \in {"transit", "report"} => goal \in States \ {"Unknown"}

ConsoleInv == PointerInv /\ MutexInv /\ QuietInv /\ GoalInv

\* The invariant at the start of RunConsole and of RunServiceMain.
LEMMA ConsoleStarts == HostInit => ConsoleInv
BY Zenon DEF HostInit, ConsoleInv, PointerInv, MutexInv, QuietInv, GoalInv

\* The steps of the thread that runs the loop.
LEMMA LoopKeeps ==
    ASSUME ConsoleInv, LoopThread
    PROVE  ConsoleInv'
<1> USE DEF ConsoleInv, PointerInv, MutexInv, QuietInv, GoalInv, States, Published
<1>1. CASE Register
  BY <1>1 DEF Register, Transit, sigVars
<1>2. CASE StoreState
  BY <1>2 DEF StoreState, sigVars
<1>3. CASE ReportStatus
  BY <1>3, Zenon DEF ReportStatus, AfterReport, Transit, sigVars
<1>4. CASE LoopHead
  BY <1>4 DEF LoopHead, LeaveLoop, Transit, sigVars
<1>5. CASE Workload
  BY <1>5 DEF Workload, LeaveLoop, Transit, sigVars
<1>6. CASE WaitCheck \/ WaitBlock \/ WaitTimeout
  BY <1>6 DEF WaitCheck, WaitBlock, WaitTimeout, loopVars, sigVars
<1>7. CASE Publish
  BY <1>7 DEF Publish, sigVars
<1>8. CASE Install
  <2>1. ~locked
    BY <1>8 DEF Install
  <2>2. CASE active' = FALSE /\ at' = "done"
    BY <1>8, <2>1, <2>2, Zenon DEF Install, sigVars
  <2>3. CASE active' = active /\ at' = "loop"
    BY <1>8, <2>1, <2>3 DEF Install, sigVars
  <2> QED
    BY <1>8, <2>2, <2>3, Zenon DEF Install
<1>9. CASE Withdraw
  BY <1>9, Zenon DEF Withdraw, sigVars
<1>10. CASE RemoveHandler
  BY <1>10 DEF RemoveHandler, sigVars
<1> QED
  BY <1>1, <1>2, <1>3, <1>4, <1>5, <1>6, <1>7, <1>8, <1>9, <1>10, Zenon DEF LoopThread

\* The dispatcher touches neither the pointer nor the mutex; it may wake the loop.
LEMMA DispatcherKeeps ==
    ASSUME ConsoleInv, Dispatcher
    PROVE  ConsoleInv'
<1> USE DEF ConsoleInv, PointerInv, MutexInv, QuietInv, GoalInv, States, Published
<1>1. CASE ControlStop \/ Interrogate
  BY <1>1 DEF ControlStop, Interrogate, loopVars, sigVars
<1>2. CASE ControlNotify
  BY <1>2 DEF ControlNotify, Notify, loopVars, sigVars
<1>3. CASE Reply
  BY <1>3 DEF Reply, sigVars
<1> QED
  BY <1>1, <1>2, <1>3 DEF Dispatcher

\* The steps of the signal thread.
LEMMA SignalKeeps ==
    ASSUME ConsoleInv, Signals
    PROVE  ConsoleInv'
<1> USE DEF ConsoleInv, PointerInv, MutexInv, QuietInv, GoalInv, States, Published
<1>1. CASE SignalArrives
  BY <1>1 DEF SignalArrives, loopVars
<1>2. CASE SignalLocks
  BY <1>2 DEF SignalLocks, loopVars
<1>3. CASE SignalStops
  BY <1>3 DEF SignalStops, loopVars
<1>4. CASE SignalNotifies
  BY <1>4, Zenon DEF SignalNotifies, Notify, loopVars
<1> QED
  BY <1>1, <1>2, <1>3, <1>4 DEF Signals

\* The invariant holds in every state of the host.
LEMMA ConsoleInvariant == HostSpec => []ConsoleInv
<1>1. ConsoleInv /\ UNCHANGED hostVars => ConsoleInv'
  BY DEF ConsoleInv, PointerInv, MutexInv, QuietInv, GoalInv, hostVars, sigVars
<1>2. ConsoleInv /\ [HostNext]_hostVars => ConsoleInv'
  BY <1>1, LoopKeeps, DispatcherKeeps, SignalKeeps DEF HostNext
<1> QED
  BY ConsoleStarts, <1>2, PTL DEF HostSpec

\* ConsoleSignalHandler calls RequestStop only on a host whose RunConsole has not
\* returned: Withdraw takes the mutex that the handler holds through the call, and the
\* path that could not install the handler has had no signal.
THEOREM SignalsFindTheHost == HostSpec => []NoSignalAfterReturn
<1>1. ConsoleInv => NoSignalAfterReturn
  BY DEF ConsoleInv, PointerInv, MutexInv, Published, NoSignalAfterReturn
<1> QED
  BY <1>1, ConsoleInvariant, PTL

----------------------------------------------------------------------------
(* Start and Stop of the tray leave nothing behind, and the menu asks the  *)
(* host to stop at most once, for any number of starts and of clicks.      *)

\* A thread is held exactly while there is one, and while the owner is inside Start or
\* between Start and the end of Stop.
ThreadInv ==
    /\ joinable \in BOOLEAN
    /\ joinable <=> ui # "none"
    /\ trayOwner = "off" <=> ui = "none"

\* The icon and the queue belong to the window.
WindowInv ==
    /\ window \in BOOLEAN /\ icon \in BOOLEAN
    /\ ~window => ~icon /\ messages = <<>>
    /\ ui \in {"none", "create", "failed", "gone"} => ~window
    /\ ui = "icon" => ~icon /\ messages = <<>>

\* The members know the window only from PublishReady to the end of the UI thread, so that
\* nothing is posted to it before; a thread that is gone has reset them.
MembersInv ==
    /\ hwnd \in BOOLEAN /\ iconAdded \in BOOLEAN
    /\ ui \in {"none", "create", "icon", "failed", "gone"} => ~hwnd /\ ~iconAdded
    /\ ui \in {"none", "gone"} => trayState = "Idle"

\* GetMessage returns 0 only once the window is destroyed.
QuitInv == quit \in BOOLEAN /\ (quit => ui = "loop" /\ ~window)

\* exitRequested_ counts the calls of onExit.
ExitInv ==
    /\ exitRequested \in BOOLEAN
    /\ exits = IF exitRequested THEN 1 ELSE 0

TrayInv == ThreadInv /\ WindowInv /\ MembersInv /\ QuitInv /\ ExitInv

\* The invariant before the first Start.
LEMMA TrayStarts == TrayInit => TrayInv
BY Zenon DEF TrayInit, TrayInv, ThreadInv, WindowInv, MembersInv, QuitInv, ExitInv

\* Start and Stop, which join the UI thread only when it has ended.
LEMMA OwnerKeeps ==
    ASSUME TrayInv, StartTrayHost \/ TrayOwnerStep
    PROVE  TrayInv'
<1> USE DEF TrayInv, ThreadInv, WindowInv, MembersInv, QuitInv, ExitInv
<1>1. CASE StartTrayHost
  <2>1. ui = "none" /\ ~window /\ ~icon /\ messages = <<>> /\ ~quit /\ ~joinable
    BY <1>1 DEF StartTrayHost
  <2>2. UNCHANGED <<window, icon, messages, quit>> /\ ui' \in {"none", "create"}
    BY <1>1, <2>1 DEF StartTrayHost
  <2>3. ThreadInv'
    <3>1. CASE joinable' = TRUE /\ ui' = "create" /\ trayOwner' = "waiting"
      BY <3>1
    <3>2. CASE UNCHANGED <<joinable, ui, trayOwner>>
      BY <3>2
    <3> QED
      BY <1>1, <3>1, <3>2, Zenon DEF StartTrayHost
  <2>4. WindowInv' /\ QuitInv'
    BY <2>1, <2>2
  <2>5. MembersInv'
    BY <1>1, Zenon DEF StartTrayHost
  <2>6. ExitInv'
    BY <1>1, Zenon DEF StartTrayHost
  <2> QED
    BY <2>3, <2>4, <2>5, <2>6
<1>2. CASE StartWakes \/ StartChecks
  BY <1>2 DEF StartWakes, StartChecks, shared, uiVars
<1>3. CASE StartFails \/ StopJoinsTray
  <2>1. ui = "gone"
    BY <1>3 DEF StartFails, StopJoinsTray
  <2>2. joinable' = FALSE /\ ui' = "none" /\ trayOwner' = "off"
    BY <1>3 DEF StartFails, StopJoinsTray
  <2>3. UNCHANGED <<trayState, hwnd, iconAdded, exitRequested, window, icon, messages, quit, exits>>
    BY <1>3 DEF StartFails, StopJoinsTray
  <2> QED
    BY <2>1, <2>2, <2>3, Zenon
<1>4. CASE RequestStopFromAnyThread
  BY <1>4 DEF RequestStopFromAnyThread, PostMessage
<1> QED
  BY <1>1, <1>2, <1>3, <1>4, Zenon DEF TrayOwnerStep

\* The UI thread, from its window to the end of its loop.
LEMMA WorkerKeeps ==
    ASSUME TrayInv, Worker
    PROVE  TrayInv'
<1> USE DEF TrayInv, ThreadInv, WindowInv, MembersInv, QuitInv, ExitInv
<1>1. CASE CreateTrayWindow
  BY <1>1 DEF CreateTrayWindow, shared
<1>2. CASE AddIcon
  BY <1>2 DEF AddIcon, shared
<1>3. CASE PublishReady
  BY <1>3 DEF PublishReady
<1>4. CASE CheckStopRequested
  BY <1>4 DEF CheckStopRequested, PostMessage, shared
<1>5. CASE CloseFromUiThread
  BY <1>5, Zenon DEF CloseFromUiThread
<1>6. CASE ShowTrayMenu \/ ClickInMenu
  BY <1>6 DEF ShowTrayMenu, ClickInMenu, shared
<1>7. CASE WorkerEnds
  BY <1>7, Zenon DEF WorkerEnds
<1> QED
  BY <1>1, <1>2, <1>3, <1>4, <1>5, <1>6, <1>7, Zenon DEF Worker

\* The user at the icon and in the menu.
LEMMA UserKeeps ==
    ASSUME TrayInv, RightClick \/ MenuDismissed \/ RequestExitFromUiThread
    PROVE  TrayInv'
<1> USE DEF TrayInv, ThreadInv, WindowInv, MembersInv, QuitInv, ExitInv
<1>1. CASE RightClick
  BY <1>1 DEF RightClick, PostMessage, shared
<1>2. CASE MenuDismissed
  BY <1>2 DEF MenuDismissed, shared
<1>3. CASE RequestExitFromUiThread
  BY <1>3 DEF RequestExitFromUiThread, PostMessage
<1> QED
  BY <1>1, <1>2, <1>3, Zenon

\* The invariant holds in every state of the tray.
LEMMA TrayInvariant == TraySpec => []TrayInv
<1>1. TrayInv /\ UNCHANGED trayVars => TrayInv'
  BY DEF TrayInv, ThreadInv, WindowInv, MembersInv, QuitInv, ExitInv, trayVars, shared, uiVars
<1>2. TrayInv /\ [TrayNext]_trayVars => TrayInv'
  BY <1>1, OwnerKeeps, WorkerKeeps, UserKeeps DEF TrayNext, TrayDone
<1> QED
  BY TrayStarts, <1>2, PTL DEF TraySpec

\* When Start has failed or Stop has returned, no thread, window or icon of the tray is
\* left and its members say so; and RequestExitFromUiThread calls onExit at most once for
\* a Start.
THEOREM TrayLeavesNothing == TraySpec => []TrayContract
<1>1. TrayInv => TrayContract
  BY DEF TrayInv, ThreadInv, WindowInv, MembersInv, ExitInv, TrayContract
<1> QED
  BY <1>1, TrayInvariant, PTL

----------------------------------------------------------------------------
(* The cooldown of the policy engine.                                      *)

\* The evaluator and the history: the filter's state is that of the output, its clock is
\* the output's, and the output is behind the rules for no longer than it has been steady.
DampingInv ==
    /\ sinceChange \in 0..Cooldown /\ steady \in 0..Cooldown /\ lag \in Nat
    /\ quiet = Cooldown
    /\ lag = 0 \/ lag < Cooldown
    /\ hasLast => /\ effective = lastDecision
                  /\ filterState = Acting(effective)
                  /\ steady = sinceChange
                  /\ lag <= sinceChange

\* Upto cuts a time off at the cooldown.
LEMMA UptoCuts ==
  ASSUME NEW t \in Nat
  PROVE  Upto(t) \in 0..Cooldown /\ (t >= Cooldown => Upto(t) = Cooldown)
                                 /\ (t < Cooldown => Upto(t) = t)
  BY EngineAssumption DEF Upto

\* The history does not turn where the output keeps its acting state, and then the output
\* follows the rules.
LEMMA FollowingDamps ==
  ASSUME DampingInv, NEW i, NEW elapsed \in Nat, Step(i, elapsed), hasLast, hasLast',
         effective' = EvaluatePolicy(i), lastDecision' = effective',
         filterState' = Acting(effective'),
         Acting(effective') = Acting(effective), sinceChange' = Upto(sinceChange + elapsed)
  PROVE  DampingInv'
<1>1. /\ lag' = IF effective' = EvaluatePolicy(i) THEN 0 ELSE lag + elapsed
      /\ steady' = IF ~hasLast \/ (hasLast /\ Acting(effective') # Acting(effective))
                   THEN 0 ELSE Upto(steady + elapsed)
      /\ quiet' = IF hasLast /\ Acting(effective') # Acting(effective)
                  THEN Upto(steady + elapsed) ELSE quiet
  BY Zenon DEF Step
<1>2. lag' = 0 /\ steady' = Upto(steady + elapsed) /\ quiet' = quiet
  BY <1>1, Zenon
<1>3. /\ sinceChange \in Nat /\ steady = sinceChange /\ quiet = Cooldown
  BY EngineAssumption DEF DampingInv
<1>4. Upto(sinceChange + elapsed) \in 0..Cooldown
  BY <1>3, UptoCuts
<1>5. /\ sinceChange' \in 0..Cooldown /\ steady' \in 0..Cooldown /\ lag' \in Nat
      /\ quiet' = Cooldown /\ lag' = 0 /\ steady' = sinceChange' /\ lag' <= sinceChange'
  BY <1>2, <1>3, <1>4, EngineAssumption
<1>6. QED
  BY <1>5, Zenon DEF DampingInv

\* Every evaluation keeps the invariant.
LEMMA StepDamps ==
  ASSUME DampingInv, NEW i, NEW elapsed \in 1..MaxElapsed, Step(i, elapsed)
  PROVE  DampingInv'
<1> DEFINE fresh == EvaluatePolicy(i)
<1>1. /\ lag' = IF effective' = fresh THEN 0 ELSE lag + elapsed
      /\ steady' = IF ~hasLast \/ (hasLast /\ Acting(effective') # Acting(effective))
                   THEN 0 ELSE Upto(steady + elapsed)
      /\ quiet' = IF hasLast /\ Acting(effective') # Acting(effective)
                  THEN Upto(steady + elapsed) ELSE quiet
  BY Zenon DEF Step
<1>2. /\ elapsed \in Nat /\ sinceChange \in Nat /\ steady \in Nat /\ lag \in Nat
      /\ sinceChange + elapsed \in Nat /\ steady + elapsed \in Nat /\ lag + elapsed \in Nat
      /\ quiet = Cooldown /\ Cooldown \in Nat
  BY EngineAssumption DEF DampingInv
<1>3. hasLast => /\ effective = lastDecision /\ filterState = Acting(effective)
                 /\ steady = sinceChange /\ lag <= sinceChange
  BY Zenon DEF DampingInv
<1>4. CASE EvaluateFirst(fresh)
  <2>1. /\ effective' = fresh /\ lastDecision' = fresh /\ filterState' = Acting(fresh)
        /\ sinceChange' = 0 /\ ~hasLast
    BY <1>4, Zenon DEF EvaluateFirst
  <2>2. lag' = 0 /\ steady' = 0 /\ quiet' = quiet
    BY <1>1, <2>1, Zenon
  <2>3. /\ sinceChange' \in 0..Cooldown /\ steady' \in 0..Cooldown /\ lag' \in Nat
        /\ quiet' = Cooldown /\ lag' = 0 /\ steady' = sinceChange' /\ lag' <= sinceChange'
    BY <1>2, <2>1, <2>2
  <2>4. lastDecision' = effective' /\ filterState' = Acting(effective')
    BY <2>1, Zenon
  <2>5. QED BY <2>3, <2>4, Zenon DEF DampingInv
<1>5. CASE EvaluateSame(fresh, elapsed)
  <2>1. /\ hasLast /\ hasLast' /\ lastDecision = fresh /\ effective' = fresh
        /\ sinceChange' = Upto(sinceChange + elapsed)
        /\ lastDecision' = lastDecision /\ filterState' = filterState
    BY <1>5, Zenon DEF EvaluateSame
  <2>2. /\ lastDecision' = effective' /\ filterState' = Acting(effective')
        /\ Acting(effective') = Acting(effective)
    BY <1>3, <2>1, Zenon
  <2>3. QED BY <1>2, <2>1, <2>2, FollowingDamps, Zenon
<1>6. CASE EvaluateOther(fresh, elapsed)
  <2>1. /\ hasLast /\ hasLast' /\ Acting(fresh) = filterState /\ effective' = fresh
        /\ sinceChange' = Upto(sinceChange + elapsed)
        /\ lastDecision' = fresh /\ filterState' = filterState
    BY <1>6, Zenon DEF EvaluateOther
  <2>2. /\ lastDecision' = effective' /\ filterState' = Acting(effective')
        /\ Acting(effective') = Acting(effective)
    BY <1>3, <2>1, Zenon
  <2>3. QED BY <1>2, <2>1, <2>2, FollowingDamps, Zenon
<1>7. CASE EvaluateSwitch(fresh, elapsed)
  <2>1. /\ hasLast /\ hasLast' /\ Acting(fresh) # filterState /\ effective' = fresh
        /\ sinceChange + elapsed >= Cooldown /\ sinceChange' = 0
        /\ lastDecision' = fresh /\ filterState' = Acting(fresh)
    BY <1>7, Zenon DEF EvaluateSwitch
  <2>2. /\ lastDecision' = effective' /\ filterState' = Acting(effective')
        /\ Acting(effective') # Acting(effective)
    BY <1>3, <2>1, Zenon
  <2>3. lag' = 0 /\ steady' = 0 /\ quiet' = Upto(steady + elapsed)
    BY <1>1, <2>1, <2>2, Zenon
  <2>4. Upto(steady + elapsed) = Cooldown
    BY <1>2, <1>3, <2>1, UptoCuts
  <2>5. /\ sinceChange' \in 0..Cooldown /\ steady' \in 0..Cooldown /\ lag' \in Nat
        /\ quiet' = Cooldown /\ lag' = 0 /\ steady' = sinceChange' /\ lag' <= sinceChange'
    BY <1>2, <2>1, <2>3, <2>4
  <2>6. QED BY <2>2, <2>5, Zenon DEF DampingInv
<1>8. CASE EvaluateSuppress(fresh, elapsed)
  <2>1. /\ hasLast /\ hasLast' /\ effective' = lastDecision
        /\ sinceChange + elapsed < Cooldown /\ sinceChange' = sinceChange + elapsed
        /\ lastDecision' = lastDecision /\ filterState' = filterState
    BY <1>8, Zenon DEF EvaluateSuppress
  <2>2. /\ lastDecision' = effective' /\ filterState' = Acting(effective')
        /\ Acting(effective') = Acting(effective)
    BY <1>3, <2>1, Zenon
  <2>3. /\ lag' = 0 \/ lag' = lag + elapsed
        /\ steady' = Upto(steady + elapsed) /\ quiet' = quiet
    BY <1>1, <2>1, <2>2, Zenon
  <2>4. Upto(steady + elapsed) = sinceChange + elapsed
    BY <1>2, <1>3, <2>1, UptoCuts
  <2>5. /\ sinceChange' \in 0..Cooldown /\ steady' \in 0..Cooldown /\ lag' \in Nat
        /\ quiet' = Cooldown /\ (lag' = 0 \/ lag' < Cooldown)
        /\ steady' = sinceChange' /\ lag' <= sinceChange'
    <3>1. hasLast /\ sinceChange + elapsed < Cooldown /\ sinceChange' = sinceChange + elapsed
      BY <2>1, Zenon
    <3>2. steady = sinceChange /\ lag <= sinceChange
      BY <1>3, <3>1, Zenon
    <3>3. QED BY <1>2, <2>3, <2>4, <3>1, <3>2
  <2>6. QED BY <2>2, <2>5, Zenon DEF DampingInv
<1>9. QED
  BY <1>4, <1>5, <1>6, <1>7, <1>8, Zenon DEF Step, Evaluate

\* The cooldown damps the engine's output exactly, for any inputs at any intervals.
THEOREM CooldownDampsExactly == Spec => []DampingIsExact
<1>1. Init => DampingInv
  <2> SUFFICES ASSUME Init PROVE DampingInv
    OBVIOUS
  <2>1. hasLast = FALSE /\ sinceChange = 0 /\ steady = 0 /\ lag = 0 /\ quiet = Cooldown
    BY Zenon DEF Init, EngineInit
  <2>2. ~hasLast
    BY <2>1, Zenon
  <2>3. /\ sinceChange \in 0..Cooldown /\ steady \in 0..Cooldown /\ lag \in Nat
    BY <2>1, EngineAssumption
  <2>4. QED BY <2>1, <2>2, <2>3, Zenon DEF DampingInv
<1>2. DampingInv /\ [Next]_vars => DampingInv'
  <2> SUFFICES ASSUME DampingInv, [Next]_vars PROVE DampingInv'
    OBVIOUS
  <2>1. ASSUME NEW i, NEW elapsed \in 1..MaxElapsed, Step(i, elapsed) PROVE DampingInv'
    BY <2>1, StepDamps
  <2>2. CASE StartOver
    <3>1. ~hasLast' /\ sinceChange' = 0 /\ lag' = 0 /\ steady' = steady /\ quiet' = quiet
      BY <2>2, Zenon DEF StartOver, Reset
    <3>2. /\ sinceChange' \in 0..Cooldown /\ steady' \in 0..Cooldown /\ lag' \in Nat
          /\ quiet' = Cooldown /\ lag' = 0
      BY <3>1, EngineAssumption DEF DampingInv
    <3>3. QED BY <3>1, <3>2, Zenon DEF DampingInv
  <2>3. CASE UNCHANGED vars
    BY <2>3, Zenon DEF vars, engineVars, DampingInv
  <2>4. QED BY <2>1, <2>2, <2>3, Zenon DEF Next
<1>3. DampingInv => DampingIsExact
  BY Zenon DEF DampingInv, DampingIsExact
<1>4. QED BY <1>1, <1>2, <1>3, PTL DEF Spec

----------------------------------------------------------------------------
(* Times since the last input.                                             *)

\* A number in the range of the modulus is its own remainder, and one just below the
\* range is brought into it.
LEMMA Remainder ==
  ASSUME NEW x \in Int
  PROVE  /\ x \in 0..TickRange - 1 => x % TickRange = x
         /\ x \in -TickRange .. -1 => x % TickRange = x + TickRange
  BY TickAssumption

\* IdleMilliseconds tells a time of less than half the range exactly, at any value of the
\* tick count, also where the count wrapped since the last input.
LEMMA TicksAreExact ==
  ASSUME NEW age \in Nat, 2 * age < TickRange, NEW now \in 0..TickRange - 1
  PROVE  IdleMilliseconds(now, (now - age) % TickRange) = age
<1>1. /\ age \in Nat /\ 2 * age < TickRange /\ TickRange \in Nat /\ now \in Nat /\ now < TickRange
      /\ now - age \in Int
  BY TickAssumption
<1>2. CASE age <= now
  <2>1. (now - age) % TickRange = now - age
    BY <1>1, <1>2, Remainder
  <2>2. now - (now - age) = age /\ age % TickRange = age
    BY <1>1, Remainder
  <2>3. QED BY <1>1, <2>1, <2>2 DEF IdleMilliseconds, TickDeltaMs
<1>3. CASE age > now
  <2>1. (now - age) % TickRange = now - age + TickRange
    BY <1>1, <1>3, Remainder
  <2>2. /\ now - (now - age + TickRange) = age - TickRange
        /\ (age - TickRange) % TickRange = (age - TickRange) + TickRange
    BY <1>1, <1>3, Remainder
  <2>3. QED BY <1>1, <2>1, <2>2 DEF IdleMilliseconds, TickDeltaMs
<1>4. QED BY <1>1, <1>2, <1>3

----------------------------------------------------------------------------
(* Who is there.                                                           *)

\* What an idle time can read as.
Readings == {Unreported} \cup 0..AwayAfter

\* An idle time, however long, and Seconds of it.
LEMMA IdleIsSeconds ==
  ASSUME NEW a \in Nat, NEW now \in 0..TickRange - 1
  PROVE  Seconds(IdleMilliseconds(now, (now - a) % TickRange)) \in 0..AwayAfter
<1>1. ASSUME NEW x \in Int PROVE x % TickRange \in Nat
  BY TickAssumption
<1>2. PICK last \in Int : last = (now - a) % TickRange
  BY <1>1
<1>3. now - last \in Int
  BY <1>2
<1>4. (now - last) % TickRange \in Nat
  BY <1>1, <1>3
<1>5. PICK idleTime \in Nat : idleTime = IdleMilliseconds(now, last)
  BY <1>4 DEF IdleMilliseconds, TickDeltaMs
<1>6. Seconds(idleTime) \in 0..AwayAfter
  BY PresenceAssumption DEF Seconds
<1>7. QED BY <1>2, <1>5, <1>6, Zenon

\* A reading of the idle time: the time itself up to AwayAfter, or none; or anything, for a
\* time of half of the range or more.
LEMMA ReadingIsTrue ==
  ASSUME NEW age \in 0..MaxIdle, NEW seconds \in LastInput[age]
  PROVE  /\ seconds \in Readings
         /\ seconds = Unreported \/ seconds = Seconds(age) \/ TickRange <= 2 * age
<1>1. PICK last : last = IF age < MaxIdle THEN age ELSE age + TickRange
  BY Zenon
<1>2. \/ seconds = Unreported
      \/ \E now \in 0..TickRange - 1, a \in age..last :
            seconds = Seconds(IdleMilliseconds(now, (now - a) % TickRange))
  BY <1>1 DEF LastInput
<1>3. ASSUME NEW now \in 0..TickRange - 1, NEW a \in age..last,
             seconds = Seconds(IdleMilliseconds(now, (now - a) % TickRange))
      PROVE  seconds \in Readings /\ (seconds = Seconds(age) \/ TickRange <= 2 * age)
  <2>1. a \in Nat /\ age \in Nat
    BY PresenceAssumption
  <2>2. seconds \in Readings
    BY <1>3, <2>1, IdleIsSeconds DEF Readings
  <2>3. CASE 2 * age < TickRange
    <3>1. age < MaxIdle
      BY <2>3, PresenceAssumption, TickAssumption
    <3>2. a = age
      BY <1>1, <2>1, <3>1
    <3>3. IdleMilliseconds(now, (now - a) % TickRange) = age
      BY <2>1, <2>3, <3>2, TicksAreExact
    <3>4. QED BY <1>3, <2>2, <3>3
  <2>4. CASE TickRange <= 2 * age
    BY <2>2, <2>4
  <2>5. QED BY <2>1, <2>3, <2>4, TickAssumption
<1>4. QED BY <1>2, <1>3, Zenon DEF Readings

\* The readings a frame of a user of that age may hold: those since its last input, and
\* any other if there was input while the frame was on its way.
Sent(age) == UNION {LastInput[age - d] : d \in 0..(IF age < Flight THEN age ELSE Flight)}
Meanwhile(age) == IF age < Flight THEN UNION {LastInput[i] : i \in 0..MaxIdle} ELSE {}

\* Input not long ago, or so long ago that the tick count cannot tell.
Recent(age) == age < AwayAfter + Flight \/ TickRange <= 2 * age

\* A frame that says Present tells of such input.
LEMMA SampleIsRecent ==
  ASSUME NEW age \in 0..MaxIdle, NEW seconds \in Samples[age]
  PROVE  /\ seconds \in Readings
         /\ ClassifyPresence(seconds) = "Present" => Recent(age)
<1>1. /\ AwayAfter \in Nat /\ Flight \in Nat /\ MaxIdle \in Nat /\ AwayAfter > 0 /\ Flight > 0
      /\ TickRange \in Nat
  BY PresenceAssumption, TickAssumption
<1>2. PICK i \in 0..MaxIdle : /\ seconds \in LastInput[i]
                              /\ age < Flight \/ (i <= age /\ age <= i + Flight)
  <2>1. Samples[age] = Sent(age) \cup Meanwhile(age)
    BY Zenon DEF Samples, Sent, Meanwhile
  <2>2. \/ \E d \in 0..(IF age < Flight THEN age ELSE Flight) : seconds \in LastInput[age - d]
        \/ age < Flight /\ \E i \in 0..MaxIdle : seconds \in LastInput[i]
    <3>1. seconds \in Sent(age) \/ seconds \in Meanwhile(age)
      BY <2>1
    <3>2. seconds \in Sent(age) =>
            \E d \in 0..(IF age < Flight THEN age ELSE Flight) : seconds \in LastInput[age - d]
      BY Zenon DEF Sent
    <3>3. seconds \in Meanwhile(age) => age < Flight /\ \E i \in 0..MaxIdle : seconds \in LastInput[i]
      BY Zenon DEF Meanwhile
    <3>4. QED BY <3>1, <3>2, <3>3, Zenon
  <2>3. CASE \E d \in 0..(IF age < Flight THEN age ELSE Flight) : seconds \in LastInput[age - d]
    <3>1. PICK d \in 0..(IF age < Flight THEN age ELSE Flight) : seconds \in LastInput[age - d]
      BY <2>3
    <3>2. age - d \in 0..MaxIdle /\ age - d <= age /\ age <= (age - d) + Flight
      BY <1>1, <3>1
    <3>3. QED BY <3>1, <3>2
  <2>4. QED BY <2>2, <2>3
<1>3. /\ seconds \in Readings
      /\ seconds = Unreported \/ seconds = Seconds(i) \/ TickRange <= 2 * i
  BY <1>2, ReadingIsTrue
<1>4. CASE TickRange <= 2 * i
  BY <1>1, <1>2, <1>3, <1>4 DEF Recent
<1>5. CASE seconds = Unreported \/ seconds = Seconds(i)
  BY <1>1, <1>2, <1>3, <1>5 DEF Recent, Seconds, ClassifyPresence, Unreported
<1>6. QED BY <1>3, <1>4, <1>5, Zenon

\* The host's own reading is one of its user's idle time.
LEMMA HostReadingIsRecent ==
  ASSUME idle \in [Keys -> 0..MaxIdle], NEW seconds \in HostIdle
  PROVE  /\ seconds \in Readings
         /\ ClassifyPresence(seconds) = "Present" => Recent(idle["host"])
<1>1. PICK age \in 0..MaxIdle : age = idle["host"]
  BY DEF Keys
<1>2. seconds = Seconds(age) \/ seconds \in LastInput[age]
  BY <1>1, Zenon DEF HostIdle
<1>3. Seconds(age) \in Readings
  BY PresenceAssumption DEF Seconds, Readings
<1>4. /\ seconds \in Readings
      /\ seconds = Unreported \/ seconds = Seconds(age) \/ TickRange <= 2 * age
  BY <1>2, <1>3, ReadingIsTrue, Zenon
<1>5. ClassifyPresence(seconds) = "Present" => Recent(age)
  BY <1>4, PresenceAssumption DEF Recent, Seconds, ClassifyPresence, Unreported
<1>6. QED BY <1>1, <1>4, <1>5, Zenon

----------------------------------------------------------------------------
(* The ledger.                                                             *)

Rows == [there : BOOLEAN, idle : Readings, age : Nat, basis : {"none", "input"}]
Facts == [any : BOOLEAN, idle : Readings, basis : {"none", "input"}]

\* What says Present, of a row or of facts, was right.
Right(said) == ClassifyPresence(said.idle) = "Present" => said.basis = "input"

\* A ledger whose every row that says Present was right.
Sound(ledger) ==
    /\ ledger \in [Keys -> Rows]
    /\ \A k \in Keys : Right(ledger[k])

\* A row that is not there says nothing.
LEMMA NoRowIs == NoRow \in Rows /\ ~NoRow.there /\ Right(NoRow)
  BY DEF NoRow, Rows, Readings, Right, ClassifyPresence, Unreported

\* Nor do facts that were not kept.
LEMMA NoFactsAre == NoFacts \in Facts /\ ~NoFacts.any /\ Right(NoFacts)
  BY DEF NoFacts, Facts, Readings, Right, ClassifyPresence, Unreported

\* The history of a report follows what its client says.
LEMMA BasisIsRight ==
  ASSUME NEW k, NEW seconds, ClassifyPresence(seconds) = "Present" => Recent(idle[k])
  PROVE  /\ Basis(k, seconds) \in {"none", "input"}
         /\ ClassifyPresence(seconds) = "Present" => Basis(k, seconds) = "input"
  BY Zenon DEF Basis, Recent

\* PruneExpired keeps a row or forgets it.
LEMMA PruneIsSound ==
  ASSUME NEW ledger, Sound(ledger), forgetAfter \in Nat
  PROVE  /\ Sound(PruneExpired(ledger))
         /\ \A k \in Keys : /\ PruneExpired(ledger)[k] \in {ledger[k], NoRow}
                            /\ PruneExpired(ledger)[k] = ledger[k] =>
                                 (forgetAfter > 0 => ledger[k].age <= forgetAfter)
<1>1. \A k \in Keys : PruneExpired(ledger)[k] =
         IF forgetAfter > 0 /\ ledger[k].age > forgetAfter THEN NoRow ELSE ledger[k]
  BY Zenon DEF PruneExpired
<1>2. \A k \in Keys : ledger[k] \in Rows /\ ledger[k].age \in Nat
  BY DEF Sound, Rows
<1>3. ASSUME NEW k \in Keys, PruneExpired(ledger)[k] = ledger[k]
      PROVE  forgetAfter > 0 => ledger[k].age <= forgetAfter
  BY <1>1, <1>2, <1>3 DEF NoRow
<1>4. PruneExpired(ledger) \in [Keys -> Rows]
  BY <1>1, <1>2, NoRowIs, Zenon DEF PruneExpired
<1>5. \A k \in Keys : PruneExpired(ledger)[k] \in {ledger[k], NoRow}
  BY <1>1, Zenon
<1>6. \A k \in Keys : Right(PruneExpired(ledger)[k])
  BY <1>5, NoRowIs, Zenon DEF Sound
<1>7. QED BY <1>3, <1>4, <1>5, <1>6, Zenon DEF Sound

\* Record writes the row of one key; the others stay or are forgotten.
LEMMA RecordIsSound ==
  ASSUME NEW ledger, Sound(ledger), forgetAfter \in Nat,
         NEW k \in Keys, NEW seconds \in Readings, NEW basis \in {"none", "input"},
         ClassifyPresence(seconds) = "Present" => basis = "input"
  PROVE  /\ Sound(Record(ledger, k, seconds, basis))
         /\ \A j \in Keys \ {k} : Record(ledger, k, seconds, basis)[j] \in {ledger[j], NoRow}
         /\ Record(ledger, k, seconds, basis)[k].idle = seconds
<1>1. PICK row : row = [there |-> TRUE, idle |-> seconds, age |-> 0, basis |-> basis]
  BY Zenon
<1>2. row \in Rows /\ row.idle = seconds /\ row.basis = basis
  BY <1>1 DEF Rows
<1>3. PICK rest : rest = PruneExpired(ledger)
  BY Zenon
<1>4. Record(ledger, k, seconds, basis) = [rest EXCEPT ![k] = row]
  BY <1>1, <1>3, Zenon DEF Record
<1>5. Sound(rest) /\ \A j \in Keys : rest[j] \in {ledger[j], NoRow}
  BY <1>3, PruneIsSound, Zenon
<1>6. PICK new : new = [rest EXCEPT ![k] = row]
  BY Zenon
<1>7. Right(row)
  BY <1>2, Zenon DEF Right
<1>8. /\ Sound(new) /\ (\A j \in Keys \ {k} : new[j] \in {ledger[j], NoRow}) /\ new[k] = row
  BY <1>2, <1>5, <1>6, <1>7, Zenon DEF Sound
<1>9. QED BY <1>2, <1>4, <1>6, <1>8, Zenon

\* After Summary the rows are the ledger's, pruned, and what it says is backed.
LEMMA SummaryIsBacked ==
  ASSUME NEW ledger, Sound(ledger), Summary(ledger), forgetAfter \in Nat, UNCHANGED forgetAfter
  PROVE  /\ Sound(rows') /\ PresentIsBacked'
         /\ \A k \in Keys : rows'[k] \in {ledger[k], NoRow}
<1>1. rows' = PruneExpired(ledger) /\ lastSummary' = ComputeSummary(rows')
  BY Zenon DEF Summary
<1>2. /\ Sound(rows')
      /\ \A k \in Keys : /\ rows'[k] \in {ledger[k], NoRow}
                         /\ rows'[k] = ledger[k] =>
                              (forgetAfter > 0 => ledger[k].age <= forgetAfter)
  BY <1>1, PruneIsSound, Zenon
<1>3. ASSUME lastSummary' = "Present"
      PROVE  \E k \in Keys : /\ ClassifyPresence(rows'[k].idle) = "Present" /\ rows'[k].basis = "input"
                             /\ forgetAfter > 0 => rows'[k].age <= forgetAfter
  <2>1. "Present" \in {ClassifyPresence(rows'[k].idle) : k \in {j \in Keys : rows'[j].there}}
    <3>1. PICK states : states = {ClassifyPresence(rows'[k].idle) : k \in {j \in Keys : rows'[j].there}}
      BY Zenon
    <3>2. ComputeSummary(rows') = CASE "Present" \in states -> "Present"
                                    [] "Present" \notin states /\ "Away" \in states -> "Away"
                                    [] OTHER -> "Unknown"
      BY <3>1, Zenon DEF ComputeSummary
    <3>3. "Present" \in states
      BY <1>1, <1>3, <3>2, Zenon
    <3>4. QED BY <3>1, <3>3, Zenon
  <2>2. PICK k \in Keys : rows'[k].there /\ ClassifyPresence(rows'[k].idle) = "Present"
    BY <2>1
  <2>3. rows'[k].basis = "input"
    BY <1>2, <2>2, Zenon DEF Sound, Right
  <2>4. rows'[k] = ledger[k]
    BY <1>2, <2>2, NoRowIs, Zenon
  <2>5. forgetAfter > 0 => rows'[k].age <= forgetAfter
    BY <1>2, <2>4, Zenon
  <2>6. QED BY <2>2, <2>3, <2>5, Zenon
<1>4. PresentIsBacked'
  BY <1>3, Zenon DEF PresentIsBacked, ClassifyPresence
<1>5. QED BY <1>2, <1>4

\* Without a summary nothing is said.
LEMMA NoSummaryIsBacked ==
  ASSUME NEW ledger, Sound(ledger), NoSummary(ledger)
  PROVE  Sound(rows') /\ PresentIsBacked' /\ rows' = ledger
<1>1. rows' = ledger /\ lastSummary' = "none"
  BY Zenon DEF NoSummary
<1>2. QED BY <1>1 DEF PresentIsBacked

\* The invariant: types of what the steps look at, a sound ledger, and backed summaries.
PresenceInv ==
    /\ idle \in [Keys -> 0..MaxIdle]
    /\ forgetAfter \in Nat
    /\ lastFacts \in Facts /\ Right(lastFacts)
    /\ Sound(rows)
    /\ PresentIsBacked

\* What an agent's row may become.
OwnReport(k) ==
    rows'[k].there /\ rows'[k].idle # rows[k].idle =>
        \/ rows'[k].idle \in Samples[idle[k]]
        \/ lastFacts.any /\ rows'[k].idle = lastFacts.idle /\ lastFacts' = lastFacts

\* An empty ledger is sound.
LEMMA EmptyIsSound == Sound([k \in Keys |-> NoRow])
<1>1. PICK empty : empty = [k \in Keys |-> NoRow]
  BY Zenon
<1>2. Sound(empty)
  BY <1>1, NoRowIs DEF Sound
<1>3. QED BY <1>1, <1>2, Zenon

\* A row that stays or is forgotten is nobody's new report.
LEMMA KeptIsOwn ==
  ASSUME NEW k \in Keys, rows'[k] \in {rows[k], NoRow}
  PROVE  OwnReport(k)
  BY NoRowIs DEF OwnReport

\* A host that ends has no users and no facts any more.
LEMMA GoneKeeps ==
  ASSUME Gone
  PROVE  /\ idle' \in [Keys -> 0..MaxIdle] /\ UNCHANGED forgetAfter
         /\ lastFacts' \in Facts /\ Right(lastFacts)'
<1>1. 0 \in 0..MaxIdle
  BY PresenceAssumption
<1>2. idle' = [k \in Keys |-> 0] /\ lastFacts' = NoFacts /\ UNCHANGED forgetAfter
  BY Zenon DEF Gone
<1>3. idle' \in [Keys -> 0..MaxIdle]
  BY <1>1, <1>2
<1>4. Right(lastFacts)'
  BY <1>2, NoFactsAre, Zenon DEF Right, ClassifyPresence
<1>5. QED BY <1>2, <1>3, <1>4, NoFactsAre, Zenon

\* The steps of a host that ends.
LEMMA EndingKeeps ==
  ASSUME PresenceInv, TickFails \/ ServeFails \/ HostStops
  PROVE  PresenceInv' /\ \A k \in Agents : OwnReport(k)
<1>1. Gone
  BY DEF TickFails, ServeFails, HostStops
<1>2. Sound(rows') /\ PresentIsBacked' /\ \A k \in Keys : rows'[k] \in {rows[k], NoRow}
  <2>1. CASE TickFails \/ ServeFails
    <3>1. PICK empty : empty = [k \in Keys |-> NoRow]
      BY Zenon
    <3>2. Sound(empty) /\ NoSummary(empty)
      BY <2>1, <3>1, EmptyIsSound, Zenon DEF TickFails, ServeFails
    <3>3. Sound(rows') /\ PresentIsBacked' /\ rows' = empty
      BY <3>2, NoSummaryIsBacked
    <3>4. QED BY <3>1, <3>3
  <2>2. CASE HostStops
    <3>1. Sound(rows) /\ Summary(rows) /\ forgetAfter \in Nat /\ UNCHANGED forgetAfter
      BY <1>1, <2>2, GoneKeeps, Zenon DEF HostStops, PresenceInv
    <3>2. QED BY <3>1, SummaryIsBacked
  <2>3. QED BY <2>1, <2>2, Zenon
<1>3. \A k \in Agents : OwnReport(k)
  BY <1>2, KeptIsOwn DEF Keys
<1>4. PresenceInv'
  BY <1>1, <1>2, GoneKeeps, Zenon DEF PresenceInv
<1>5. QED BY <1>3, <1>4

\* The host's own row, before the gate and the clients.
LEMMA TickBeginsKeeps ==
  ASSUME PresenceInv, TickBegins
  PROVE  PresenceInv' /\ \A k \in Agents : OwnReport(k)
<1>1. UNCHANGED <<idle, lastFacts, forgetAfter>> /\ forgetAfter \in Nat /\ Sound(rows)
  BY Zenon DEF TickBegins, PresenceInv
<1>2. PICK seconds \in HostIdle, refused \in BOOLEAN :
         LET ledger == IF raw = "off" THEN rows
                       ELSE Record(rows, "host", seconds, Basis("host", seconds)) IN
         IF refused
         THEN Summary(ledger) /\ UNCHANGED phase
         ELSE NoSummary(ledger) /\ phase' = "serving"
  BY Zenon DEF TickBegins
<1>3. PICK ledger : ledger = IF raw = "off" THEN rows
                             ELSE Record(rows, "host", seconds, Basis("host", seconds))
  BY Zenon
<1>4. Summary(ledger) \/ NoSummary(ledger)
  BY <1>2, <1>3, Zenon
<1>5. Sound(ledger) /\ \A k \in Agents : ledger[k] \in {rows[k], NoRow}
  <2>1. CASE raw = "off"
    <3>1. ledger = rows
      BY <1>3, <2>1, Zenon
    <3>2. QED BY <1>1, <3>1, Zenon
  <2>2. CASE raw # "off"
    <3>1. ledger = Record(rows, "host", seconds, Basis("host", seconds))
      BY <1>3, <2>2, Zenon
    <3>2. /\ "host" \in Keys /\ seconds \in Readings
          /\ ClassifyPresence(seconds) = "Present" => Recent(idle["host"])
      BY HostReadingIsRecent, Zenon DEF PresenceInv, Keys
    <3>3. /\ Basis("host", seconds) \in {"none", "input"}
          /\ ClassifyPresence(seconds) = "Present" => Basis("host", seconds) = "input"
      BY <3>2, BasisIsRight, Zenon
    <3>4. Sound(ledger) /\ \A j \in Keys \ {"host"} : ledger[j] \in {rows[j], NoRow}
      BY <1>1, <3>1, <3>2, <3>3, RecordIsSound, Zenon
    <3>5. QED BY <3>4, PresenceAssumption, Zenon DEF Keys
  <2>3. QED BY <2>1, <2>2, Zenon
<1>6. Sound(rows') /\ PresentIsBacked' /\ \A k \in Keys : rows'[k] \in {ledger[k], NoRow}
  BY <1>1, <1>4, <1>5, SummaryIsBacked, NoSummaryIsBacked, Zenon
<1>7. \A k \in Agents : OwnReport(k)
  BY <1>5, <1>6, KeptIsOwn, Zenon DEF Keys
<1>8. Right(lastFacts)'
  BY <1>1, Zenon DEF PresenceInv, Right, ClassifyPresence
<1>9. QED BY <1>1, <1>6, <1>7, <1>8, Zenon DEF PresenceInv

\* What the handler keeps of a frame.
LEMMA HandledFacts ==
  ASSUME PresenceInv, NEW k \in Agents, NEW f \in Frames[idle[k]]
  PROVE  /\ HandleFacts(k, f) \in Facts /\ Right(HandleFacts(k, f))
         /\ \/ HandleFacts(k, f).idle \in Samples[idle[k]]
            \/ HandleFacts(k, f) = lastFacts
            \/ ~HandleFacts(k, f).any
<1>1. k \in Keys /\ idle[k] \in 0..MaxIdle
  BY DEF PresenceInv, Keys
<1>2. f \in {[kind |-> "facts", idle |-> i] : i \in Samples[idle[k]]}
        \cup {[kind |-> kind, idle |-> Unreported] : kind \in {"ping", "malformed"}}
  BY <1>1, Zenon DEF Frames
<1>3. \/ f.kind = "facts" /\ f.idle \in Samples[idle[k]]
      \/ f.kind \in {"ping", "malformed"}
  BY <1>2
<1>4. CASE f.kind = "facts" /\ f.idle \in Samples[idle[k]]
  <2>1. PICK basis : basis = Basis(k, f.idle)
    BY Zenon
  <2>2. HandleFacts(k, f) = [any |-> TRUE, idle |-> f.idle, basis |-> basis]
    BY <1>4, <2>1, Zenon DEF HandleFacts
  <2>3. f.idle \in Readings /\ (ClassifyPresence(f.idle) = "Present" => Recent(idle[k]))
    BY <1>1, <1>4, SampleIsRecent, Zenon
  <2>4. /\ basis \in {"none", "input"}
        /\ ClassifyPresence(f.idle) = "Present" => basis = "input"
    BY <2>1, <2>3, BasisIsRight, Zenon
  <2>5. PICK facts : facts = [any |-> TRUE, idle |-> f.idle, basis |-> basis]
    BY Zenon
  <2>6. facts \in Facts /\ facts.idle = f.idle /\ facts.basis = basis
    BY <2>3, <2>4, <2>5 DEF Facts
  <2>7. Right(facts)
    BY <2>4, <2>6, Zenon DEF Right
  <2>8. QED BY <1>4, <2>2, <2>5, <2>6, <2>7, Zenon
<1>5. CASE f.kind = "ping"
  <2>1. HandleFacts(k, f) = lastFacts
    BY <1>5 DEF HandleFacts
  <2>2. QED BY <2>1, Zenon DEF PresenceInv
<1>6. CASE f.kind = "malformed"
  <2>1. HandleFacts(k, f) = NoFacts
    BY <1>6 DEF HandleFacts
  <2>2. QED BY <2>1, NoFactsAre, Zenon
<1>7. QED BY <1>3, <1>4, <1>5, <1>6, Zenon

\* A client that is served gets its own row and no other.
LEMMA ClientServedKeeps ==
  ASSUME PresenceInv, NEW k \in Agents, ClientServed(k)
  PROVE  PresenceInv' /\ \A j \in Agents : OwnReport(j)
<1>1. UNCHANGED <<idle, forgetAfter>> /\ forgetAfter \in Nat /\ Sound(rows) /\ k \in Keys
  BY Zenon DEF ClientServed, PresenceInv, Keys
<1>2. PICK f \in Frames[idle[k]] :
         /\ lastFacts' = HandleFacts(k, f)
         /\ Summary(IF HandleFacts(k, f).any
                    THEN Record(rows, k, HandleFacts(k, f).idle, HandleFacts(k, f).basis) ELSE rows)
  BY Zenon DEF ClientServed
<1>3. PICK facts : facts = HandleFacts(k, f)
  BY Zenon
<1>4. /\ facts \in Facts /\ Right(facts)
      /\ facts.idle \in Samples[idle[k]] \/ facts = lastFacts \/ ~facts.any
  BY <1>3, HandledFacts, Zenon
<1>5. PICK ledger : ledger = IF facts.any THEN Record(rows, k, facts.idle, facts.basis) ELSE rows
  BY Zenon
<1>6. Summary(ledger) /\ lastFacts' = facts
  BY <1>2, <1>3, <1>5, Zenon
<1>7. /\ Sound(ledger) /\ \A j \in Keys \ {k} : ledger[j] \in {rows[j], NoRow}
      /\ ledger[k] = rows[k] \/ (facts.any /\ ledger[k].idle = facts.idle)
  <2>1. CASE ~facts.any
    <3>1. ledger = rows
      BY <1>5, <2>1, Zenon
    <3>2. QED BY <1>1, <3>1, Zenon
  <2>2. CASE facts.any
    <3>1. facts.idle \in Readings /\ facts.basis \in {"none", "input"}
      BY <1>4 DEF Facts
    <3>2. ClassifyPresence(facts.idle) = "Present" => facts.basis = "input"
      BY <1>4, Zenon DEF Right
    <3>3. ledger = Record(rows, k, facts.idle, facts.basis)
      BY <1>5, <2>2, Zenon
    <3>4. PICK seconds \in Readings : seconds = facts.idle
      BY <3>1, Zenon
    <3>5. PICK basis \in {"none", "input"} : basis = facts.basis
      BY <3>1, Zenon
    <3>6. ClassifyPresence(seconds) = "Present" => basis = "input"
      BY <3>2, <3>4, <3>5, Zenon
    <3>7. /\ Sound(Record(rows, k, seconds, basis))
          /\ \A j \in Keys \ {k} : Record(rows, k, seconds, basis)[j] \in {rows[j], NoRow}
          /\ Record(rows, k, seconds, basis)[k].idle = seconds
      BY <1>1, <3>6, RecordIsSound, Zenon
    <3>8. QED BY <2>2, <3>3, <3>4, <3>5, <3>7, Zenon
  <2>3. QED BY <2>1, <2>2, Zenon
<1>8. Sound(rows') /\ PresentIsBacked' /\ \A j \in Keys : rows'[j] \in {ledger[j], NoRow}
  BY <1>1, <1>6, <1>7, SummaryIsBacked, Zenon
<1>9. ASSUME NEW j \in Agents PROVE OwnReport(j)
  <2>1. CASE j # k
    <3>1. rows'[j] \in {rows[j], NoRow} /\ j \in Keys
      BY <1>7, <1>8, <2>1, Zenon DEF Keys
    <3>2. QED BY <3>1, KeptIsOwn, Zenon
  <2>2. CASE j = k
    BY <1>1, <1>4, <1>6, <1>7, <1>8, <2>2, NoRowIs, Zenon DEF OwnReport
  <2>3. QED BY <2>1, <2>2, Zenon
<1>10. Right(lastFacts)'
  BY <1>4, <1>6, Zenon DEF Right, ClassifyPresence
<1>11. PresenceInv'
  BY <1>1, <1>4, <1>6, <1>8, <1>10, Zenon DEF PresenceInv
<1>12. QED BY <1>9, <1>11, Zenon

\* The other steps write no row of an agent.
LEMMA OthersKeep ==
  ASSUME PresenceInv,
         \/ NobodyServed
         \/ \E k \in Agents : ReplyTimesOut(k)
         \/ \E k \in Keys : UserInput(k)
         \/ TimePasses
         \/ UNCHANGED presenceVars
  PROVE  PresenceInv' /\ \A k \in Agents : OwnReport(k)
<1>1. /\ Sound(rows) /\ idle \in [Keys -> 0..MaxIdle] /\ forgetAfter \in Nat
      /\ lastFacts \in Facts /\ Right(lastFacts)
  BY DEF PresenceInv
<1>2. ASSUME NEW ledger, NoSummary(ledger), Sound(ledger), UNCHANGED forgetAfter,
             \A k \in Keys : ledger[k] = NoRow \/ ledger[k].idle = rows[k].idle,
             idle' \in [Keys -> 0..MaxIdle], lastFacts' \in Facts, Right(lastFacts)'
      PROVE  PresenceInv' /\ \A k \in Agents : OwnReport(k)
  <2>1. Sound(rows') /\ PresentIsBacked' /\ rows' = ledger
    BY <1>2, NoSummaryIsBacked, Zenon
  <2>2. \A k \in Agents : ~rows'[k].there \/ rows'[k].idle = rows[k].idle
    BY <1>2, <2>1, NoRowIs, Zenon DEF Keys
  <2>3. QED BY <1>1, <1>2, <2>1, <2>2, Zenon DEF PresenceInv, OwnReport
<1>3. UNCHANGED lastFacts => lastFacts' \in Facts /\ Right(lastFacts)'
  BY <1>1, Zenon DEF Right, ClassifyPresence
<1>4. CASE NobodyServed
  <2>1. NoSummary(rows) /\ UNCHANGED <<idle, lastFacts, forgetAfter>>
    BY <1>4, Zenon DEF NobodyServed
  <2>2. QED BY <1>1, <1>2, <1>3, <2>1, Zenon
<1>5. ASSUME NEW k \in Agents, ReplyTimesOut(k)
      PROVE  PresenceInv' /\ \A j \in Agents : OwnReport(j)
  <2>1. /\ NoSummary(rows) /\ UNCHANGED <<idle, forgetAfter>>
        /\ \E f \in Frames[idle[k]] : lastFacts' = HandleFacts(k, f)
    BY <1>5, Zenon DEF ReplyTimesOut
  <2>2. PICK facts : facts \in Facts /\ Right(facts) /\ lastFacts' = facts
    BY <2>1, HandledFacts, Zenon
  <2>3. lastFacts' \in Facts /\ Right(lastFacts)'
    BY <2>2, Zenon DEF Right, ClassifyPresence
  <2>4. QED BY <1>1, <1>2, <2>1, <2>3, Zenon
<1>6. ASSUME NEW k \in Keys, UserInput(k)
      PROVE  PresenceInv' /\ \A j \in Agents : OwnReport(j)
  <2>1. NoSummary(rows) /\ UNCHANGED <<lastFacts, forgetAfter>> /\ idle' = [idle EXCEPT ![k] = 0]
    BY <1>6, Zenon DEF UserInput
  <2>2. idle' \in [Keys -> 0..MaxIdle]
    BY <1>1, <2>1, PresenceAssumption
  <2>3. QED BY <1>1, <1>2, <1>3, <2>1, <2>2, Zenon
<1>7. CASE TimePasses
  <2>1. PICK older : older = [k \in Keys |-> IF rows[k].there
                                 THEN [rows[k] EXCEPT !.age = Older(@, AgeBound)]
                                 ELSE NoRow]
    BY Zenon
  <2>2. /\ NoSummary(older) /\ UNCHANGED <<lastFacts, forgetAfter>>
        /\ idle' = [k \in Keys |-> Older(idle[k], MaxIdle)]
    BY <1>7, <2>1, Zenon DEF TimePasses
  <2>3. \A k \in Keys : idle[k] \in 0..MaxIdle /\ Older(idle[k], MaxIdle) \in 0..MaxIdle
    BY <1>1, PresenceAssumption DEF Older
  <2>4. idle' \in [Keys -> 0..MaxIdle]
    BY <2>2, <2>3
  <2>5. ASSUME NEW k \in Keys
        PROVE  older[k] \in Rows /\ Right(older[k]) /\ (older[k] = NoRow \/ older[k].idle = rows[k].idle)
    <3>1. rows[k] \in Rows /\ Right(rows[k]) /\ rows[k].age \in Nat
      BY <1>1 DEF Sound, Rows
    <3>2. PICK age : age = Older(rows[k].age, AgeBound)
      BY Zenon
    <3>3. age \in Nat
      BY <1>1, <3>1, <3>2 DEF Older, AgeBound
    <3>4. PICK row : row = [rows[k] EXCEPT !.age = age]
      BY Zenon
    <3>5. row \in Rows /\ row.idle = rows[k].idle /\ row.basis = rows[k].basis
      BY <3>1, <3>3, <3>4 DEF Rows
    <3>6. older[k] \in {row, NoRow}
      BY <2>1, <3>2, <3>4, Zenon
    <3>7. Right(row)
      BY <3>1, <3>5, Zenon DEF Right
    <3>8. QED BY <3>5, <3>6, <3>7, NoRowIs, Zenon
  <2>6. older \in [Keys -> Rows]
    BY <2>1, <2>5, Zenon
  <2>7. Sound(older)
    BY <2>5, <2>6, Zenon DEF Sound
  <2>8. QED BY <1>2, <1>3, <2>2, <2>4, <2>5, <2>7, Zenon
<1>8. CASE UNCHANGED presenceVars
  <2>1. UNCHANGED <<idle, rows, lastSummary, lastFacts, forgetAfter>>
    BY <1>8, Zenon DEF presenceVars
  <2>2. PresentIsBacked'
    BY <2>1, Zenon DEF PresenceInv, PresentIsBacked, ClassifyPresence
  <2>3. PresenceInv'
    BY <1>1, <1>3, <2>1, <2>2, Zenon DEF PresenceInv
  <2>4. \A k \in Agents : OwnReport(k)
    BY <2>1, Zenon DEF OwnReport
  <2>5. QED BY <2>3, <2>4
<1>9. QED BY <1>4, <1>5, <1>6, <1>7, <1>8, Zenon

\* Every step keeps the invariant, and no agent's row is another's report.
LEMMA PresenceSteps ==
  ASSUME PresenceInv, [PresenceNext]_presenceVars
  PROVE  PresenceInv' /\ \A k \in Agents : OwnReport(k)
  BY EndingKeeps, TickBeginsKeeps, ClientServedKeeps, OthersKeep DEF PresenceNext, HostEnded

\* Nobody has reported at first.
LEMMA PresenceStarts == PresenceInit => PresenceInv
<1> SUFFICES ASSUME PresenceInit PROVE PresenceInv
  OBVIOUS
<1>1. /\ idle = [k \in Keys |-> 0] /\ rows = [k \in Keys |-> NoRow] /\ lastSummary = "none"
      /\ lastFacts = NoFacts /\ forgetAfter \in ForgetAfter
  BY Zenon DEF PresenceInit
<1>2. idle \in [Keys -> 0..MaxIdle] /\ forgetAfter \in Nat
  BY <1>1, PresenceAssumption
<1>3. Sound(rows)
  BY <1>1, EmptyIsSound, Zenon
<1>4. PresentIsBacked
  BY <1>1 DEF PresentIsBacked
<1>5. QED BY <1>1, <1>2, <1>3, <1>4, NoFactsAre, Zenon DEF PresenceInv

\* The invariant holds of every behaviour.
LEMMA PresenceInvariant == PresenceSpec => []PresenceInv
  BY PresenceStarts, PresenceSteps, PTL DEF PresenceSpec

\* Whenever the host's summary says Present, a client's report that said so was right when
\* it came, and its row is no older than forgetAfter, if there is one: with the exceptions
\* of PresentIsBacked, for any idle times, options and agents, and at any tick count.
THEOREM PresenceIsBacked == PresenceSpec => []PresentIsBacked
<1>1. PresenceInv => PresentIsBacked
  BY DEF PresenceInv
<1>2. QED BY <1>1, PresenceInvariant, PTL

\* An agent's row only ever changes to that agent's own report, or is forgotten.
THEOREM RowsAreOwnReports == PresenceSpec => RowIsOwnReport
<1>1. PresenceInv /\ [PresenceNext]_presenceVars => [\A k \in Agents : OwnReport(k)]_presenceVars
  BY PresenceSteps, Zenon
<1>2. PresenceSpec => [][\A k \in Agents : OwnReport(k)]_presenceVars
  BY <1>1, PresenceInvariant, PTL DEF PresenceSpec
<1>3. QED BY <1>2 DEF RowIsOwnReport, OwnReport

----------------------------------------------------------------------------
(* The samples of the user's activity.                                     *)

ActivitySessions == [disconnected : BOOLEAN, locked : BOOLEAN, quiet : 0..MaxQuiet,
                     process : Apps \cup {"none"}]

\* Two sessions that one change leads from one to the other: of the window, of the time
\* without input, or of the lock or the connection, which leave no window in front.
Near(old, new) ==
    \/ /\ new.disconnected = old.disconnected /\ new.locked = old.locked
       /\ new.quiet = old.quiet \/ new.process = old.process
    \/ /\ new.quiet = old.quiet /\ new.process = "none"
       /\ new.disconnected = old.disconnected \/ new.locked = old.locked

\* The state of a session that is connected, locked and quiet as said.
StateOf(d, l, q) ==
    IF options.session /\ d THEN "Disconnected"
    ELSE IF options.session /\ l THEN "Locked"
    ELSE IF q < IdleAfter THEN "Active" ELSE "Idle"

\* What the calls so far have read is each of the session before its change or after it.
Seen(old) ==
    /\ spot = "link" => context = NoContext /\ options.session
    /\ spot = "lock" => /\ options.session /\ context.ok
                        /\ context.disconnected \in {old.disconnected, session.disconnected}
    /\ spot = "input" /\ ~options.session => context = NoContext
    /\ spot = "input" /\ options.session /\ context.ok =>
          /\ context.disconnected \in {old.disconnected, session.disconnected}
          /\ context.locked \in {old.locked, session.locked}
    /\ spot = "foreground" /\ 2 * old.quiet < TickRange /\ 2 * session.quiet < TickRange =>
          \E d \in {old.disconnected, session.disconnected}, l \in {old.locked, session.locked},
             q \in {old.quiet, session.quiet} : observed.state = StateOf(d, l, q)

\* During a sample, at most one change after its beginning.
Watching ==
    \E old \in ActivitySessions :
        /\ held = {Truth(old), Truth(session)}
        /\ Near(old, session)
        /\ changes = 0 => old = session
        /\ Seen(old)

\* After a sample.
Told ==
    observed.state # "Unknown" /\ (\A h \in held : ~h.overlong) =>
        \E h \in held : /\ h.state = observed.state
                        /\ observed.attribution = "Pid" => h.process = observed.process

Tallies(n) == n["Unknown"] + n["Active"] + n["Idle"] + n["Locked"] + n["Disconnected"]
Credits(n) == n["Pid"] + n["NoWindow"] + n["Unknown"] + n["NotApplicable"]

ActivityInv ==
    /\ options \in [session : BOOLEAN, foreground : BOOLEAN]
    /\ spot \in {"link", "lock", "input", "foreground", "between", "done"}
    /\ context \in [ok : BOOLEAN, disconnected : BOOLEAN, locked : BOOLEAN]
    /\ observed \in [state : ActivityStates, attribution : Attributions,
                     process : Apps \cup {"none"}]
    /\ summary \in [samples : Nat, states : [ActivityStates -> Nat],
                    attributions : [Attributions -> Nat]]
    /\ session \in ActivitySessions
    /\ changes \in 0..2
    /\ summary.samples = Tallies(summary.states)
    /\ summary.samples = Credits(summary.attributions)
    /\ observed.attribution # "NotApplicable" => observed.state \in {"Active", "Idle"}
    /\ spot = "foreground" => observed.state \in {"Active", "Idle"}
    /\ changes < 2 /\ spot \in {"between", "done"} => Told
    /\ changes < 2 /\ spot \notin {"between", "done"} => Watching

\* A tick count tells a time without input of less than half its range exactly, and one of
\* more as none.
LEMMA InputIsRead ==
  ASSUME NEW q \in 0..MaxQuiet, NEW now \in 0..TickRange - 1, 2 * q < TickRange
  PROVE  ClassifyActivity(now, (now - q) % TickRange) =
             IF q < IdleAfter THEN "Active" ELSE "Idle"
<1>1. q \in Nat /\ IdleAfter \in Nat
  BY ActivityAssumption, TickAssumption
<1>2. IdleMilliseconds(now, (now - q) % TickRange) = q
  BY <1>1, TicksAreExact
<1>3. QED BY <1>1, <1>2 DEF ClassifyActivity

\* What is true of a session.
LEMMA TruthIs ==
  ASSUME options \in [session : BOOLEAN, foreground : BOOLEAN], NEW s \in ActivitySessions
  PROVE  /\ Truth(s).state = StateOf(s.disconnected, s.locked, s.quiet)
         /\ Truth(s).process = s.process
         /\ ~Truth(s).overlong <=> 2 * s.quiet < TickRange
<1>1. s.disconnected \in BOOLEAN /\ s.locked \in BOOLEAN /\ s.quiet \in Nat /\ options.session \in BOOLEAN
  BY ActivityAssumption, TickAssumption DEF ActivitySessions
<1>2. Truth(s).state = StateOf(s.disconnected, s.locked, s.quiet)
  BY <1>1 DEF Truth, StateOf
<1>3. Truth(s).process = s.process
  BY DEF Truth
<1>4. Truth(s).overlong = (2 * s.quiet >= TickRange)
  BY Zenon DEF Truth
<1>5. ~Truth(s).overlong <=> ~(2 * s.quiet >= TickRange)
  BY <1>4, Zenon
<1>6. ~(2 * s.quiet >= TickRange) <=> 2 * s.quiet < TickRange
  BY <1>1, TickAssumption
<1>7. QED BY <1>2, <1>3, <1>5, <1>6, Zenon

\* A state put together from readings before and after one change is the state before or
\* the state after it; and where a window is in front, of a session with that window.
LEMMA MixedIsTrue ==
  ASSUME options \in [session : BOOLEAN, foreground : BOOLEAN],
         NEW old \in ActivitySessions, NEW new \in ActivitySessions, Near(old, new),
         NEW d \in {old.disconnected, new.disconnected}, NEW l \in {old.locked, new.locked},
         NEW q \in {old.quiet, new.quiet}
  PROVE  \E x \in {old, new} : /\ StateOf(d, l, q) = Truth(x).state
                               /\ Truth(x).process = x.process
                               /\ new.process # "none" => x.process = new.process
<1>1. /\ Truth(old).state = StateOf(old.disconnected, old.locked, old.quiet)
      /\ Truth(new).state = StateOf(new.disconnected, new.locked, new.quiet)
      /\ Truth(old).process = old.process /\ Truth(new).process = new.process
  BY TruthIs, Zenon
<1>2. /\ d = old.disconnected \/ d = new.disconnected
      /\ l = old.locked \/ l = new.locked
      /\ q = old.quiet \/ q = new.quiet
  BY Zenon
<1>3. CASE new.disconnected = old.disconnected /\ new.locked = old.locked /\ new.quiet = old.quiet
  BY <1>1, <1>2, <1>3, Zenon
<1>4. CASE /\ new.disconnected = old.disconnected /\ new.locked = old.locked
           /\ new.process = old.process
  BY <1>1, <1>2, <1>4, Zenon
<1>5. CASE /\ new.quiet = old.quiet /\ new.process = "none"
           /\ new.disconnected = old.disconnected
  BY <1>1, <1>2, <1>5, Zenon
<1>6. CASE /\ new.quiet = old.quiet /\ new.process = "none" /\ new.locked = old.locked
  BY <1>1, <1>2, <1>6, Zenon
<1>7. QED BY <1>3, <1>4, <1>5, <1>6, Zenon DEF Near

\* What is true of a session does not change while the options do not.
LEMMA TruthStays ==
  ASSUME options' = options
  PROVE  /\ \A s : (Truth(s))' = Truth(s)
         /\ \A d, l, q : (StateOf(d, l, q))' = StateOf(d, l, q)
<1>1. \A s : (Truth(s))' = Truth(s)
  BY Zenon DEF Truth
<1>2. \A d, l, q : (StateOf(d, l, q))' = StateOf(d, l, q)
  BY Zenon DEF StateOf
<1>3. QED BY <1>1, <1>2

\* A change of the session: the sample so far is of the session before it.
LEMMA ChangeKeeps ==
  ASSUME ActivityInv, NEW s \in ActivitySessions, Near(session, s), SessionChanges(s)
  PROVE  ActivityInv'
<1>1. /\ session' = s /\ spot # "done"
      /\ UNCHANGED <<options, spot, context, observed, summary>>
      /\ spot = "between" => UNCHANGED <<changes, held>>
      /\ spot # "between" => /\ changes' = IF changes < 2 THEN changes + 1 ELSE 2
                             /\ held' = IF changes = 0 THEN held \cup {Truth(s)} ELSE {}
  BY Zenon DEF SessionChanges
<1>2. /\ options' \in [session : BOOLEAN, foreground : BOOLEAN]
      /\ spot' \in {"link", "lock", "input", "foreground", "between", "done"}
      /\ context' \in [ok : BOOLEAN, disconnected : BOOLEAN, locked : BOOLEAN]
      /\ observed' \in [state : ActivityStates, attribution : Attributions,
                        process : Apps \cup {"none"}]
      /\ summary' \in [samples : Nat, states : [ActivityStates -> Nat],
                       attributions : [Attributions -> Nat]]
      /\ session' \in ActivitySessions
      /\ (summary.samples = Tallies(summary.states))'
      /\ (summary.samples = Credits(summary.attributions))'
      /\ (observed.attribution # "NotApplicable" => observed.state \in {"Active", "Idle"})'
      /\ (spot = "foreground" => observed.state \in {"Active", "Idle"})'
  BY <1>1, Zenon DEF ActivityInv, Tallies, Credits
<1>3. changes' \in 0..2
  BY <1>1 DEF ActivityInv
<1>4. (changes < 2 /\ spot \in {"between", "done"} => Told)'
  BY <1>1, Zenon DEF ActivityInv, Told
<1>5. ASSUME changes' < 2, spot \notin {"between", "done"} PROVE Watching'
  <2>1. changes = 0 /\ spot # "between" /\ changes' = 1
    BY <1>1, <1>5 DEF ActivityInv
  <2>2. held = {Truth(session), Truth(session)} /\ Seen(session)
    <3>1. Watching
      BY <1>5, <2>1 DEF ActivityInv
    <3>2. QED BY <2>1, <3>1, Zenon DEF Watching
  <2>3. PICK cur \in ActivitySessions : cur = session
    BY Zenon DEF ActivityInv
  <2>4. held' = {Truth(cur), Truth(s)}
    BY <1>1, <2>1, <2>2, <2>3
  <2>5. held' = {(Truth(cur))', (Truth(session))'}
    <3>1. (Truth(session))' = Truth(s) /\ (Truth(cur))' = Truth(cur)
      BY <1>1, Zenon DEF Truth
    <3>2. QED BY <2>4, <3>1, Zenon
  <2>6. Near(cur, session)' /\ (changes = 0 => cur = session)'
    BY <1>1, <2>1, <2>3 DEF Near
  <2>7. Seen(cur)'
    <3>1. /\ spot = "link" => context = NoContext /\ options.session
          /\ spot = "lock" => options.session /\ context.ok /\ context.disconnected = cur.disconnected
          /\ spot = "input" /\ ~options.session => context = NoContext
          /\ spot = "input" /\ options.session /\ context.ok =>
                context.disconnected = cur.disconnected /\ context.locked = cur.locked
          /\ spot = "foreground" /\ 2 * cur.quiet < TickRange =>
                observed.state = StateOf(cur.disconnected, cur.locked, cur.quiet)
      BY <2>2, <2>3, Zenon DEF Seen
    <3>2. \A d, l, q : (StateOf(d, l, q))' = StateOf(d, l, q)
      BY <1>1, TruthStays, Zenon
    <3>3. /\ spot = "foreground" /\ 2 * cur.quiet < TickRange =>
             observed'.state = (StateOf(cur.disconnected, cur.locked, cur.quiet))'
      BY <1>1, <3>1, <3>2, Zenon
    <3>4. QED BY <1>1, <3>1, <3>3, Zenon DEF Seen
  <2>8. QED BY <2>3, <2>5, <2>6, <2>7, Zenon DEF Watching
<1>6. (changes < 2 /\ spot \notin {"between", "done"} => Watching)'
  BY <1>1, <1>5, Zenon
<1>7. QED BY <1>2, <1>3, <1>4, <1>6, Zenon DEF ActivityInv

\* The session's changes lead from near to near.
LEMMA ChangesAreNear ==
  ASSUME ActivityInv, UserActs \/ WindowComes \/ LockChanges \/ LinkChanges \/ QuietPasses
  PROVE  \E s \in ActivitySessions : Near(session, s) /\ SessionChanges(s)
<1>1. session \in ActivitySessions
  BY Zenon DEF ActivityInv
<1>2. MaxQuiet \in Nat
  BY ActivityAssumption, TickAssumption
<1>3. CASE UserActs
  <2>1. PICK s : s = [session EXCEPT !.quiet = 0]
    BY Zenon
  <2>2. s \in ActivitySessions /\ Near(session, s)
    BY <1>1, <1>2, <2>1 DEF ActivitySessions, Near
  <2>3. SessionChanges(s)
    BY <1>3, <2>1, Zenon DEF UserActs
  <2>4. QED BY <2>2, <2>3, Zenon
<1>4. CASE WindowComes
  <2>1. PICK p \in (Apps \cup {"none"}) \ {session.process} :
           SessionChanges([session EXCEPT !.process = p])
    BY <1>4, Zenon DEF WindowComes
  <2>2. PICK s : s = [session EXCEPT !.process = p]
    BY Zenon
  <2>3. s \in ActivitySessions /\ Near(session, s)
    BY <1>1, <2>1, <2>2 DEF ActivitySessions, Near
  <2>4. SessionChanges(s)
    BY <2>1, <2>2, Zenon
  <2>5. QED BY <2>3, <2>4, Zenon
<1>5. CASE LockChanges
  <2>1. PICK s : s = [session EXCEPT !.locked = ~session.locked, !.process = "none"]
    BY Zenon
  <2>2. SessionChanges(s)
    BY <1>5, <2>1, Zenon DEF LockChanges
  <2>3. PICK b \in BOOLEAN : b = (~session.locked)
    BY Zenon
  <2>4. s = [session EXCEPT !.locked = b, !.process = "none"]
    BY <2>1, <2>3, Zenon
  <2>5. s \in ActivitySessions /\ Near(session, s)
    BY <1>1, <2>3, <2>4, Zenon DEF ActivitySessions, Near
  <2>6. QED BY <2>2, <2>5, Zenon
<1>6. CASE LinkChanges
  <2>1. PICK s : s = [session EXCEPT !.disconnected = ~session.disconnected, !.process = "none"]
    BY Zenon
  <2>2. SessionChanges(s)
    BY <1>6, <2>1, Zenon DEF LinkChanges
  <2>3. PICK b \in BOOLEAN : b = (~session.disconnected)
    BY Zenon
  <2>4. s = [session EXCEPT !.disconnected = b, !.process = "none"]
    BY <2>1, <2>3, Zenon
  <2>5. s \in ActivitySessions /\ Near(session, s)
    BY <1>1, <2>3, <2>4, Zenon DEF ActivitySessions, Near
  <2>6. QED BY <2>2, <2>5, Zenon
<1>7. CASE QuietPasses
  <2>1. PICK s : s = [session EXCEPT !.quiet = session.quiet + 1]
    BY Zenon
  <2>2. SessionChanges(s) /\ session.quiet < MaxQuiet
    BY <1>7, <2>1, Zenon DEF QuietPasses
  <2>3. s \in ActivitySessions /\ Near(session, s)
    BY <1>1, <1>2, <2>1, <2>2 DEF ActivitySessions, Near
  <2>4. QED BY <2>2, <2>3, Zenon
<1>8. QED BY <1>3, <1>4, <1>5, <1>6, <1>7

\* A sample is counted, in both halves of the summary.
LEMMA CountKeeps ==
  ASSUME ActivityInv, NEW state \in ActivityStates, NEW attribution \in Attributions,
         NEW process \in Apps \cup {"none"}, Count(state, attribution, process),
         UNCHANGED <<options, context, session, changes, held>>,
         attribution # "NotApplicable" => state \in {"Active", "Idle"},
         changes < 2 /\ state # "Unknown" /\ (\A h \in held : ~h.overlong) =>
            \E h \in held : h.state = state /\ (attribution = "Pid" => h.process = process)
  PROVE  ActivityInv'
<1>1. /\ observed' = [state |-> state, attribution |-> attribution, process |-> process]
      /\ summary' = [summary EXCEPT !.samples = @ + 1,
                                    !.states[state] = @ + 1,
                                    !.attributions[attribution] = @ + 1]
      /\ spot' \in {"between", "done"}
  BY DEF Count
<1>2. PICK n, c : /\ n = [summary.states EXCEPT ![state] = @ + 1]
                  /\ c = [summary.attributions EXCEPT ![attribution] = @ + 1]
  BY Zenon
<1>3. /\ summary.samples \in Nat /\ summary.states \in [ActivityStates -> Nat]
      /\ summary.attributions \in [Attributions -> Nat]
      /\ summary.samples = Tallies(summary.states)
      /\ summary.samples = Credits(summary.attributions)
  BY Zenon DEF ActivityInv
<1>4. n \in [ActivityStates -> Nat] /\ Tallies(n) = Tallies(summary.states) + 1
  BY <1>2, <1>3, SMTT(30) DEF ActivityStates, Tallies
<1>5. c \in [Attributions -> Nat] /\ Credits(c) = Credits(summary.attributions) + 1
  BY <1>2, <1>3 DEF Attributions, Credits
<1>6. summary'.samples = summary.samples + 1 /\ summary'.states = n /\ summary'.attributions = c
  BY <1>1, <1>2, Zenon DEF ActivityInv
<1>7. summary' \in [samples : Nat, states : [ActivityStates -> Nat],
                    attributions : [Attributions -> Nat]]
  <2>1. summary' = [samples |-> summary.samples + 1, states |-> n, attributions |-> c]
    BY <1>1, <1>2, Zenon DEF ActivityInv
  <2>2. QED BY <1>3, <1>4, <1>5, <2>1
<1>8. /\ (summary.samples = Tallies(summary.states))'
      /\ (summary.samples = Credits(summary.attributions))'
  <2>1. summary'.samples = Tallies(summary'.states) /\ summary'.samples = Credits(summary'.attributions)
    BY <1>3, <1>4, <1>5, <1>6, Zenon
  <2>2. QED BY <2>1, Zenon DEF Tallies, Credits
<1>9. /\ observed'.state = state /\ observed'.attribution = attribution
      /\ observed'.process = process
      /\ observed' \in [state : ActivityStates, attribution : Attributions,
                        process : Apps \cup {"none"}]
  BY <1>1
<1>10. (changes < 2 => Told)'
  BY <1>9, Zenon DEF Told
<1>11. /\ options' \in [session : BOOLEAN, foreground : BOOLEAN]
       /\ context' \in [ok : BOOLEAN, disconnected : BOOLEAN, locked : BOOLEAN]
       /\ session' \in ActivitySessions /\ changes' \in 0..2
  BY Zenon DEF ActivityInv
<1>12. /\ spot' \in {"link", "lock", "input", "foreground", "between", "done"}
       /\ spot' # "foreground"
  BY <1>1
<1>13. (observed.attribution # "NotApplicable" => observed.state \in {"Active", "Idle"})'
  BY <1>9, Zenon
<1>14. QED BY <1>1, <1>7, <1>8, <1>9, <1>10, <1>11, <1>12, <1>13, Zenon DEF ActivityInv

\* The state that the input and the context come to is put together from readings before
\* and after the change.
LEMMA StateIsMixed ==
  ASSUME ActivityInv, spot = "input", NEW state \in InputStates
  PROVE  /\ state \in ActivityStates
         /\ \A old \in ActivitySessions :
               Seen(old) /\ state # "Unknown" /\ 2 * session.quiet < TickRange =>
                  \E d \in {old.disconnected, session.disconnected},
                     l \in {old.locked, session.locked} : state = StateOf(d, l, session.quiet)
<1>1. \/ state = "Unknown"
      \/ context.ok /\ \E now \in 0..TickRange - 1 :
            state = ClassifyContextState(ClassifyActivity(now, (now - session.quiet) % TickRange))
  BY Zenon DEF InputStates
<1>2. CASE state = "Unknown"
  BY <1>2, Zenon DEF ActivityStates
<1>3. CASE context.ok /\ \E now \in 0..TickRange - 1 :
            state = ClassifyContextState(ClassifyActivity(now, (now - session.quiet) % TickRange))
  <2>1. PICK now \in 0..TickRange - 1 :
            state = ClassifyContextState(ClassifyActivity(now, (now - session.quiet) % TickRange))
    BY <1>3, Zenon
  <2>2. PICK i : i = ClassifyActivity(now, (now - session.quiet) % TickRange)
    BY Zenon
  <2>3. i \in {"Active", "Idle"}
    BY <2>2 DEF ClassifyActivity
  <2>4. state = ClassifyContextState(i)
    BY <2>1, <2>2, Zenon
  <2>5. /\ session \in ActivitySessions /\ context.disconnected \in BOOLEAN
        /\ context.locked \in BOOLEAN /\ options.session \in BOOLEAN
    BY DEF ActivityInv
  <2>6. state = IF context.disconnected THEN "Disconnected"
                ELSE IF context.locked THEN "Locked" ELSE i
    BY <2>4, <2>5 DEF ClassifyContextState
  <2>7. state \in ActivityStates
    BY <2>3, <2>6, Zenon DEF ActivityStates
  <2>8. ASSUME NEW old \in ActivitySessions, Seen(old), 2 * session.quiet < TickRange
        PROVE  \E d \in {old.disconnected, session.disconnected},
                  l \in {old.locked, session.locked} : state = StateOf(d, l, session.quiet)
    <3>1. i = IF session.quiet < IdleAfter THEN "Active" ELSE "Idle"
      <4>1. session.quiet \in 0..MaxQuiet
        BY <2>5 DEF ActivitySessions
      <4>2. QED BY <2>2, <2>8, <4>1, InputIsRead
    <3>2. CASE options.session
      <4>1. /\ context.disconnected \in {old.disconnected, session.disconnected}
            /\ context.locked \in {old.locked, session.locked}
        BY <1>3, <2>8, <3>2, Zenon DEF Seen
      <4>2. state = StateOf(context.disconnected, context.locked, session.quiet)
        BY <2>6, <3>1, <3>2, Zenon DEF StateOf
      <4>3. QED BY <4>1, <4>2, Zenon
    <3>3. CASE ~options.session
      <4>1. context = NoContext
        BY <2>8, <3>3, Zenon DEF Seen
      <4>2. ~context.disconnected /\ ~context.locked
        BY <4>1 DEF NoContext
      <4>3. state = i
        BY <2>6, <4>2, Zenon
      <4>4. state = StateOf(session.disconnected, session.locked, session.quiet)
        BY <3>1, <3>3, <4>3, Zenon DEF StateOf
      <4>5. QED BY <4>4, Zenon
    <3>4. QED BY <3>2, <3>3, Zenon
  <2>9. QED BY <2>7, <2>8, Zenon
<1>4. QED BY <1>1, <1>2, <1>3, Zenon

\* A call within a sample, the session standing still.
LEMMA CallKeeps ==
  ASSUME ActivityInv, spot \in {"link", "lock", "input"}, spot' \in {"lock", "input", "foreground"},
         UNCHANGED <<options, session, changes, held, summary>>,
         context' \in [ok : BOOLEAN, disconnected : BOOLEAN, locked : BOOLEAN],
         observed' \in [state : ActivityStates, attribution : Attributions,
                        process : Apps \cup {"none"}],
         observed'.attribution # "NotApplicable" => observed'.state \in {"Active", "Idle"},
         spot' = "foreground" => observed'.state \in {"Active", "Idle"},
         \A old \in ActivitySessions : Near(old, session) /\ held = {Truth(old), Truth(session)}
                                       /\ Seen(old) => Seen(old)'
  PROVE  ActivityInv'
<1>1. /\ options' \in [session : BOOLEAN, foreground : BOOLEAN]
      /\ summary' \in [samples : Nat, states : [ActivityStates -> Nat],
                       attributions : [Attributions -> Nat]]
      /\ session' \in ActivitySessions /\ changes' \in 0..2
      /\ (summary.samples = Tallies(summary.states))'
      /\ (summary.samples = Credits(summary.attributions))'
  BY Zenon DEF ActivityInv, Tallies, Credits
<1>2. /\ spot' \in {"link", "lock", "input", "foreground", "between", "done"}
      /\ spot' \notin {"between", "done"} /\ spot \notin {"between", "done"}
  OBVIOUS
<1>3. ASSUME changes < 2 PROVE Watching'
  <2>1. PICK old \in ActivitySessions : /\ held = {Truth(old), Truth(session)}
                                        /\ Near(old, session)
                                        /\ changes = 0 => old = session
                                        /\ Seen(old)
    BY <1>2, <1>3, Zenon DEF ActivityInv, Watching
  <2>2. Seen(old)'
    BY <2>1, Zenon
  <2>3. (Truth(old))' = Truth(old) /\ (Truth(session))' = Truth(session)
    BY Zenon DEF Truth
  <2>4. held' = {(Truth(old))', (Truth(session))'}
    BY <2>1, <2>3, Zenon
  <2>5. Near(old, session)' /\ (changes = 0 => old = session)'
    BY <2>1, Zenon DEF Near
  <2>6. QED BY <2>2, <2>4, <2>5, Zenon DEF Watching
<1>4. (changes < 2 /\ spot \notin {"between", "done"} => Watching)'
  BY <1>3, Zenon
<1>5. QED BY <1>1, <1>2, <1>4, Zenon DEF ActivityInv

\* The session's connection.
LEMMA QueryLinkKeeps ==
  ASSUME ActivityInv, QueryLink
  PROVE  ActivityInv'
<1>1. /\ spot = "link" /\ UNCHANGED <<options, observed, summary, session, changes, held>>
      /\ context \in [ok : BOOLEAN, disconnected : BOOLEAN, locked : BOOLEAN]
      /\ session.disconnected \in BOOLEAN
      /\ observed' \in [state : ActivityStates, attribution : Attributions,
                        process : Apps \cup {"none"}]
      /\ observed'.attribution # "NotApplicable" => observed'.state \in {"Active", "Idle"}
  BY DEF QueryLink, ActivityInv, ActivitySessions
<1>2. CASE context' = [context EXCEPT !.disconnected = session.disconnected] /\ spot' = "lock"
  <2>1. /\ context' \in [ok : BOOLEAN, disconnected : BOOLEAN, locked : BOOLEAN]
        /\ context'.ok = context.ok /\ context'.disconnected = session.disconnected
    BY <1>1, <1>2
  <2>2. ASSUME NEW old \in ActivitySessions, Seen(old) PROVE Seen(old)'
    <3>1. context = NoContext /\ options.session
      BY <1>1, <2>2, Zenon DEF Seen
    <3>2. context.ok
      BY <3>1 DEF NoContext
    <3>3. options'.session /\ context'.ok /\ context'.disconnected = session'.disconnected
      BY <1>1, <2>1, <3>1, <3>2, Zenon
    <3>4. QED BY <1>2, <3>3 DEF Seen
  <2>3. spot' # "foreground" /\ spot' \in {"lock", "input", "foreground"} /\ spot \in {"link", "lock", "input"}
    BY <1>1, <1>2
  <2>4. QED BY <1>1, <2>1, <2>2, <2>3, CallKeeps, Zenon
<1>3. CASE context' = [context EXCEPT !.ok = FALSE] /\ spot' = "input"
  <2>1. context' \in [ok : BOOLEAN, disconnected : BOOLEAN, locked : BOOLEAN] /\ ~context'.ok
    BY <1>1, <1>3, Zenon
  <2>2. ASSUME NEW old \in ActivitySessions, Seen(old) PROVE Seen(old)'
    <3>1. options.session
      BY <1>1, <2>2, Zenon DEF Seen
    <3>2. options'.session
      BY <1>1, <3>1, Zenon
    <3>3. QED BY <1>3, <2>1, <3>2 DEF Seen
  <2>3. spot' # "foreground" /\ spot' \in {"lock", "input", "foreground"} /\ spot \in {"link", "lock", "input"}
    BY <1>1, <1>3
  <2>4. QED BY <1>1, <2>1, <2>2, <2>3, CallKeeps, Zenon
<1>4. QED BY <1>2, <1>3, Zenon DEF QueryLink

\* Its lock.
LEMMA QueryLockKeeps ==
  ASSUME ActivityInv, QueryLock
  PROVE  ActivityInv'
<1>1. /\ spot = "lock" /\ spot' = "input"
      /\ UNCHANGED <<options, observed, summary, session, changes, held>>
      /\ context \in [ok : BOOLEAN, disconnected : BOOLEAN, locked : BOOLEAN]
      /\ session.locked \in BOOLEAN
      /\ observed' \in [state : ActivityStates, attribution : Attributions,
                        process : Apps \cup {"none"}]
      /\ observed'.attribution # "NotApplicable" => observed'.state \in {"Active", "Idle"}
  BY DEF QueryLock, ActivityInv, ActivitySessions
<1>2. /\ context' \in [ok : BOOLEAN, disconnected : BOOLEAN, locked : BOOLEAN]
      /\ \/ ~context'.ok
         \/ context'.disconnected = context.disconnected /\ context'.locked = session.locked
  <2>1. CASE context' = [context EXCEPT !.locked = session.locked]
    BY <1>1, <2>1
  <2>2. CASE context' = [context EXCEPT !.ok = FALSE]
    BY <1>1, <2>2, Zenon
  <2>3. QED BY <2>1, <2>2, Zenon DEF QueryLock
<1>3. ASSUME NEW old \in ActivitySessions, Seen(old) PROVE Seen(old)'
  <2>1. options.session /\ context.disconnected \in {old.disconnected, session.disconnected}
    BY <1>1, <1>3, Zenon DEF Seen
  <2>2. options'.session
    BY <1>1, <2>1, Zenon
  <2>3. context'.ok => /\ context'.disconnected \in {old.disconnected, session'.disconnected}
                       /\ context'.locked \in {old.locked, session'.locked}
    BY <1>1, <1>2, <2>1, Zenon
  <2>4. spot' # "link" /\ spot' # "lock" /\ spot' # "foreground"
    BY <1>1
  <2>5. QED BY <2>2, <2>3, <2>4, Zenon DEF Seen
<1>4. spot' # "foreground" /\ spot' \in {"lock", "input", "foreground"} /\ spot \in {"link", "lock", "input"}
  BY <1>1
<1>5. QED BY <1>1, <1>2, <1>3, <1>4, CallKeeps, Zenon

\* The last input: the sample is complete, or the window in front comes next.
LEMMA QueryInputKeeps ==
  ASSUME ActivityInv, QueryInput
  PROVE  ActivityInv'
<1>1. spot = "input" /\ UNCHANGED <<options, context, session, changes, held>>
  BY Zenon DEF QueryInput
<1>2. /\ options \in [session : BOOLEAN, foreground : BOOLEAN] /\ session \in ActivitySessions
      /\ context' \in [ok : BOOLEAN, disconnected : BOOLEAN, locked : BOOLEAN]
      /\ observed \in [state : ActivityStates, attribution : Attributions,
                       process : Apps \cup {"none"}]
  BY <1>1, Zenon DEF ActivityInv
<1>3. PICK state \in InputStates :
          IF options.foreground /\ IsForegroundAttributable(state)
          THEN /\ observed' = [observed EXCEPT !.state = state]
               /\ spot' = "foreground"
               /\ UNCHANGED summary
          ELSE Count(state, "NotApplicable", "none")
  BY Zenon DEF QueryInput
<1>4. state \in ActivityStates
  BY <1>1, StateIsMixed
<1>5. ASSUME NEW old \in ActivitySessions, Seen(old), state # "Unknown", 2 * session.quiet < TickRange
      PROVE  \E d \in {old.disconnected, session.disconnected},
                l \in {old.locked, session.locked} : state = StateOf(d, l, session.quiet)
  BY <1>1, <1>5, StateIsMixed, Zenon
<1>6. CASE options.foreground /\ IsForegroundAttributable(state)
  <2>1. observed' = [observed EXCEPT !.state = state] /\ spot' = "foreground" /\ summary' = summary
    BY <1>3, <1>6, Zenon
  <2>2. state \in {"Active", "Idle"}
    BY <1>6, Zenon DEF IsForegroundAttributable
  <2>3. /\ observed' \in [state : ActivityStates, attribution : Attributions,
                          process : Apps \cup {"none"}]
        /\ observed'.state = state
    BY <1>2, <1>4, <2>1
  <2>4. ASSUME NEW old \in ActivitySessions, Seen(old) PROVE Seen(old)'
    <3>1. \A d, l, q : (StateOf(d, l, q))' = StateOf(d, l, q)
      BY <1>1, TruthStays, Zenon
    <3>2. state # "Unknown"
      BY <2>2
    <3>3. ASSUME 2 * session'.quiet < TickRange
          PROVE  \E d \in {old.disconnected, session'.disconnected}, l \in {old.locked, session'.locked},
                    q \in {old.quiet, session'.quiet} : observed'.state = (StateOf(d, l, q))'
      BY <1>1, <1>5, <2>3, <2>4, <3>1, <3>2, <3>3, Zenon
    <3>4. spot' # "link" /\ spot' # "lock" /\ spot' # "input"
      BY <2>1
    <3>5. QED BY <3>3, <3>4, Zenon DEF Seen
  <2>5. spot' \in {"lock", "input", "foreground"} /\ spot \in {"link", "lock", "input"}
    BY <1>1, <2>1
  <2>6. observed'.state \in {"Active", "Idle"}
    BY <2>2, <2>3, Zenon
  <2>7. QED BY <1>1, <1>2, <2>1, <2>3, <2>4, <2>5, <2>6, CallKeeps, Zenon
<1>7. CASE ~(options.foreground /\ IsForegroundAttributable(state))
  <2>1. Count(state, "NotApplicable", "none")
    BY <1>3, <1>7, Zenon
  <2>2. ASSUME changes < 2, state # "Unknown", \A h \in held : ~h.overlong
        PROVE  \E h \in held : h.state = state
    <3>1. spot \notin {"between", "done"}
      BY <1>1
    <3>2. PICK old \in ActivitySessions : /\ held = {Truth(old), Truth(session)}
                                          /\ Near(old, session) /\ Seen(old)
      BY <2>2, <3>1, Zenon DEF ActivityInv, Watching
    <3>3. ~Truth(session).overlong
      BY <2>2, <3>2, Zenon
    <3>4. 2 * session.quiet < TickRange
      BY <1>2, <3>3, TruthIs, Zenon
    <3>5. PICK d \in {old.disconnected, session.disconnected},
               l \in {old.locked, session.locked} : state = StateOf(d, l, session.quiet)
      BY <1>5, <2>2, <3>2, <3>4, Zenon
    <3>6. PICK x \in {old, session} : StateOf(d, l, session.quiet) = Truth(x).state
      <4>1. session.quiet \in {old.quiet, session.quiet}
        BY Zenon
      <4>2. QED BY <1>2, <3>2, <3>5, <4>1, MixedIsTrue
    <3>7. Truth(x) \in held
      BY <3>2, <3>6, Zenon
    <3>8. QED BY <3>5, <3>6, <3>7, Zenon
  <2>3. "NotApplicable" \in Attributions /\ "NotApplicable" # "Pid" /\ "none" \in Apps \cup {"none"}
    BY DEF Attributions
  <2>4. QED BY <1>1, <1>4, <2>1, <2>2, <2>3, CountKeeps, Zenon
<1>8. QED BY <1>6, <1>7

\* The window in front.
LEMMA QueryForegroundKeeps ==
  ASSUME ActivityInv, QueryForeground
  PROVE  ActivityInv'
<1>1. spot = "foreground" /\ UNCHANGED <<options, context, session, changes, held>>
  BY Zenon DEF QueryForeground
<1>2. /\ options \in [session : BOOLEAN, foreground : BOOLEAN] /\ session \in ActivitySessions
      /\ session.process \in Apps \cup {"none"}
      /\ observed.state \in {"Active", "Idle"} /\ observed.state \in ActivityStates
  BY <1>1 DEF ActivityInv, ActivitySessions
<1>3. PICK attribution \in Attributions, process \in Apps \cup {"none"} :
         /\ Count(observed.state, attribution, process)
         /\ attribution = "Pid" => process = session.process /\ session.process # "none"
  <2>1. /\ "Unknown" \in Attributions /\ "NoWindow" \in Attributions /\ "Pid" \in Attributions
        /\ "Unknown" # "Pid" /\ "NoWindow" # "Pid" /\ "none" \in Apps \cup {"none"}
    BY DEF Attributions
  <2>2. QED BY <1>2, <2>1, Zenon DEF QueryForeground
<1>4. ASSUME changes < 2, \A h \in held : ~h.overlong
      PROVE  \E h \in held : h.state = observed.state /\ (attribution = "Pid" => h.process = process)
  <2>1. spot \notin {"between", "done"}
    BY <1>1
  <2>2. PICK old \in ActivitySessions : /\ held = {Truth(old), Truth(session)}
                                        /\ Near(old, session) /\ Seen(old)
    BY <1>4, <2>1, Zenon DEF ActivityInv, Watching
  <2>3. ~Truth(session).overlong /\ ~Truth(old).overlong
    BY <1>4, <2>2, Zenon
  <2>4. 2 * session.quiet < TickRange /\ 2 * old.quiet < TickRange
    BY <1>2, <2>3, TruthIs, Zenon
  <2>5. PICK d \in {old.disconnected, session.disconnected}, l \in {old.locked, session.locked},
             q \in {old.quiet, session.quiet} : observed.state = StateOf(d, l, q)
    BY <1>1, <2>2, <2>4, Zenon DEF Seen
  <2>6. PICK x \in {old, session} : /\ StateOf(d, l, q) = Truth(x).state
                                    /\ Truth(x).process = x.process
                                    /\ session.process # "none" => x.process = session.process
    BY <1>2, <2>2, <2>5, MixedIsTrue
  <2>7. Truth(x) \in held
    BY <2>2, <2>6, Zenon
  <2>8. attribution = "Pid" => Truth(x).process = process
    BY <1>3, <2>6, Zenon
  <2>9. QED BY <2>5, <2>6, <2>7, <2>8, Zenon
<1>5. QED BY <1>1, <1>2, <1>3, <1>4, CountKeeps, Zenon

\* The next sample, and the first.
LEMMA BeginSampleKeeps ==
  ASSUME ActivityInv, BeginSample
  PROVE  ActivityInv'
<1>1. /\ spot' = FirstCall /\ context' = NoContext /\ observed' = NoSampleYet
      /\ changes' = 0 /\ held' = {Truth(session)} /\ UNCHANGED <<options, summary, session>>
  BY Zenon DEF BeginSample
<1>2. /\ options' \in [session : BOOLEAN, foreground : BOOLEAN]
      /\ summary' \in [samples : Nat, states : [ActivityStates -> Nat],
                       attributions : [Attributions -> Nat]]
      /\ session' \in ActivitySessions
      /\ (summary.samples = Tallies(summary.states))'
      /\ (summary.samples = Credits(summary.attributions))'
  BY <1>1, Zenon DEF ActivityInv, Tallies, Credits
<1>3. \/ spot' = "link" /\ options'.session
      \/ spot' = "input" /\ ~options'.session
  BY <1>1 DEF FirstCall
<1>4. /\ context' \in [ok : BOOLEAN, disconnected : BOOLEAN, locked : BOOLEAN]
      /\ observed' \in [state : ActivityStates, attribution : Attributions,
                        process : Apps \cup {"none"}]
      /\ observed'.attribution = "NotApplicable" /\ changes' \in 0..2
      /\ spot' \in {"link", "lock", "input", "foreground", "between", "done"}
      /\ spot' \notin {"foreground", "between", "done"}
  BY <1>1, <1>3 DEF NoContext, NoSampleYet, ActivityStates, Attributions
<1>5. Watching'
  <2>1. PICK cur \in ActivitySessions : cur = session
    BY <1>1, <1>2, Zenon
  <2>2. (Truth(cur))' = Truth(session) /\ (Truth(session))' = Truth(session)
    BY <1>1, <2>1, Zenon DEF Truth
  <2>3. held' = {(Truth(cur))', (Truth(session))'}
    BY <1>1, <2>2
  <2>4. Near(cur, session)' /\ (changes = 0 => cur = session)'
    BY <1>1, <2>1, Zenon DEF Near
  <2>5. Seen(cur)'
    BY <1>1, <1>3, Zenon DEF Seen
  <2>6. QED BY <2>1, <2>3, <2>4, <2>5, Zenon DEF Watching
<1>6. QED BY <1>2, <1>4, <1>5, Zenon DEF ActivityInv

\* The first sample.
LEMMA ActivityStarts == ActivityInit => ActivityInv
<1> SUFFICES ASSUME ActivityInit PROVE ActivityInv
  OBVIOUS
<1>1. /\ spot = FirstCall /\ context = NoContext /\ observed = NoSampleYet
      /\ changes = 0 /\ held = {Truth(session)} /\ summary = NoSamples
      /\ options \in [session : BOOLEAN, foreground : BOOLEAN]
      /\ session = [disconnected |-> FALSE, locked |-> FALSE, quiet |-> 0, process |-> "none"]
  BY Zenon DEF ActivityInit
<1>2. session \in ActivitySessions
  BY <1>1, ActivityAssumption, TickAssumption, SMTT(30) DEF ActivitySessions
<1>3. /\ summary \in [samples : Nat, states : [ActivityStates -> Nat],
                      attributions : [Attributions -> Nat]]
      /\ summary.samples = Tallies(summary.states)
      /\ summary.samples = Credits(summary.attributions)
  BY <1>1 DEF NoSamples, Tallies, Credits, ActivityStates, Attributions
<1>4. (spot = "link" /\ options.session) \/ (spot = "input" /\ ~options.session)
  BY <1>1, Zenon DEF FirstCall
<1>5. /\ context \in [ok : BOOLEAN, disconnected : BOOLEAN, locked : BOOLEAN]
      /\ observed \in [state : ActivityStates, attribution : Attributions,
                       process : Apps \cup {"none"}]
      /\ observed.attribution = "NotApplicable" /\ changes \in 0..2
      /\ spot \in {"link", "lock", "input", "foreground", "between", "done"}
      /\ spot \notin {"foreground", "between", "done"}
  BY <1>1, <1>4 DEF NoContext, NoSampleYet, ActivityStates, Attributions
<1>6. Watching
  <2>1. held = {Truth(session), Truth(session)} /\ Near(session, session)
    BY <1>1 DEF Near
  <2>2. Seen(session)
    BY <1>1, <1>4, Zenon DEF Seen
  <2>3. QED BY <1>2, <2>1, <2>2, Zenon DEF Watching
<1>7. QED BY <1>1, <1>2, <1>3, <1>5, <1>6, Zenon DEF ActivityInv

\* However the session changes between the calls of a sample, a sample says what was true at
\* one moment of it unless the session changed twice, and the summary counts every sample
\* once on either side.
THEOREM SamplesStayTrue == ActivitySpec => []SamplesAreTrue
<1>1. ActivityInv /\ [ActivityNext]_activityVars => ActivityInv'
  <2> SUFFICES ASSUME ActivityInv, [ActivityNext]_activityVars PROVE ActivityInv'
    OBVIOUS
  <2>1. CASE UserActs \/ WindowComes \/ LockChanges \/ LinkChanges \/ QuietPasses
    BY <2>1, ChangesAreNear, ChangeKeeps
  <2>2. CASE UNCHANGED activityVars
    <3>1. UNCHANGED <<options, spot, context, observed, summary, session, changes, held>>
      BY <2>2, Zenon DEF activityVars
    <3>2. ActivityInv' = ActivityInv
      BY <3>1 DEF ActivityInv, Tallies, Credits, Told, Watching, Seen, Near, StateOf, Truth
    <3>3. QED BY <3>2
  <2>3. QED
    BY <2>1, <2>2, BeginSampleKeeps, QueryLinkKeeps, QueryLockKeeps, QueryInputKeeps,
       QueryForegroundKeeps, Zenon DEF ActivityNext, ActivityDone
<1>2. ActivityInv => SamplesAreTrue
  BY Zenon DEF ActivityInv, Told, SamplesAreTrue, Tallies, Credits
<1>3. QED BY <1>1, <1>2, ActivityStarts, PTL DEF ActivitySpec
=============================================================================
