----------------------------- MODULE ServiceHost -----------------------------
(***************************************************************************)
(* The service host (service_host.cpp, class ServiceHost): one workload,   *)
(* run in a loop on the console or under the service control manager.      *)
(*                                                                         *)
(* Three threads: the one that runs the loop, the dispatcher on which the  *)
(* service control manager calls HandleControl, and the console's signal   *)
(* thread.  RequestStop stores its flag without the mutex of the loop's    *)
(* wait and notifies afterwards; Transit stores the new state and reports  *)
(* it afterwards; so the threads meet in between.                          *)
(***************************************************************************)
EXTENDS Naturals

CONSTANT
    MaxEvents   \* bound: controls and signals that arrive

ASSUME HostAssumption == MaxEvents \in Nat

VARIABLES
    mode,        \* "service", or RunConsole without or with a deadline
    at,          \* where the loop's thread is
    goal,        \* the state it is in Transit to
    result,      \* what the loop, then RunConsole or RunServiceMain, returned
    current,     \* currentState_
    stop,        \* stopRequested_
    scm,         \* the last status the service control manager was given
    registered,  \* the control handler or the signal handler is registered
    ctl, loaded, \* the dispatcher thread, and the state it has read
    sig,         \* the signal thread
    active,      \* gActiveConsoleHost is this host
    locked,      \* gConsoleHostMutex is held by the signal thread
    events       \* controls and signals so far

loopVars == <<mode, goal, result, current, scm, registered, active>>
ctlVars == <<ctl, loaded>>
sigVars == <<sig, locked>>
hostVars == <<mode, at, goal, result, current, stop, scm, registered, ctlVars, sigVars, active, events>>

States == {"Unknown", "StartPending", "Running", "StopPending", "Stopped"}

\* MakeStatusReport: controls are accepted in Running only.
MakeStatusReport(state, checkPoint, exitCode) ==
    [state |-> state, checkPoint |-> checkPoint, exitCode |-> exitCode,
     controls |-> state = "Running"]

ValidateStateTransition(from, to) ==
    \/ from = "Unknown" /\ to = "StartPending"
    \/ from = "StartPending" /\ to \in {"Running", "StopPending", "Stopped"}
    \/ from = "Running" /\ to \in {"StopPending", "Stopped"}
    \/ from = "StopPending" /\ to = "Stopped"

Modes == {"service", "console", "deadline"}

HostInit ==
    /\ mode \in Modes
    /\ at = IF mode = "service" THEN "register" ELSE "publish"
    /\ goal = "Unknown"
    /\ result = TRUE
    /\ current = "Unknown"
    /\ stop = FALSE
    /\ scm = MakeStatusReport("Unknown", 0, 0)
    /\ registered = FALSE
    /\ ctl = "idle"
    /\ loaded = "Unknown"
    /\ sig = "idle"
    /\ active = FALSE
    /\ locked = FALSE
    /\ events = 0

----------------------------------------------------------------------------
(* RunServiceMain and Transit.                                             *)

Transit(state) == at' = "transit" /\ goal' = state

Register ==
    /\ at = "register"
    /\ \/ registered' = TRUE /\ Transit("StartPending") /\ UNCHANGED result
       \/ at' = "done" /\ result' = FALSE /\ UNCHANGED <<registered, goal>>
    /\ UNCHANGED <<mode, current, stop, scm, ctlVars, sigVars, active, events>>

\* The transition is always legal: an illegal one would leave RunServiceMain here for ever,
\* which StopEnds excludes.
StoreState ==
    /\ at = "transit"
    /\ ValidateStateTransition(current, goal)
    /\ current' = goal
    /\ at' = "report"
    /\ UNCHANGED <<mode, goal, result, stop, scm, registered, ctlVars, sigVars, active, events>>

CheckPoint(state) == CASE state = "StartPending" -> 1 [] state = "StopPending" -> 2 [] OTHER -> 0

AfterReport ==
    CASE goal = "StartPending" -> Transit("Running")
      [] goal = "Running" -> at' = "loop" /\ UNCHANGED goal
      [] goal = "StopPending" -> Transit("Stopped")
      [] goal = "Stopped" -> at' = "done" /\ UNCHANGED goal

\* SetServiceStatus; its failure ends the service main function.
ReportStatus ==
    /\ at = "report"
    /\ \/ /\ scm' = MakeStatusReport(goal, CheckPoint(goal),
                                     IF goal = "Stopped" /\ ~result THEN 1 ELSE 0)
          /\ AfterReport
          /\ UNCHANGED result
       \/ /\ at' = "done"
          /\ result' = FALSE
          /\ UNCHANGED <<scm, goal>>
    /\ UNCHANGED <<mode, current, stop, registered, ctlVars, sigVars, active, events>>

----------------------------------------------------------------------------
(* RunLoop.                                                                *)

LeaveLoop(ok) ==
    /\ result' = ok
    /\ IF mode = "service" THEN Transit("StopPending") ELSE at' = "withdraw" /\ UNCHANGED goal

LoopHead ==
    /\ at = "loop"
    /\ \/ (stop \/ mode = "deadline") /\ LeaveLoop(TRUE)
       \/ ~stop /\ at' = "work" /\ UNCHANGED <<goal, result>>
    /\ UNCHANGED <<mode, current, stop, scm, registered, ctlVars, sigVars, active, events>>

Workload ==
    /\ at = "work"
    /\ \/ at' = "check" /\ UNCHANGED <<goal, result>>
       \/ LeaveLoop(FALSE)
    /\ UNCHANGED <<mode, current, stop, scm, registered, ctlVars, sigVars, active, events>>

\* wait_for looks at the predicate, then blocks; a notification in between is lost.
WaitCheck ==
    /\ at = "check"
    /\ at' = IF stop THEN "loop" ELSE "blocking"
    /\ UNCHANGED <<loopVars, stop, ctlVars, sigVars, events>>

WaitBlock ==
    /\ at = "blocking"
    /\ at' = "wait"
    /\ UNCHANGED <<loopVars, stop, ctlVars, sigVars, events>>

\* Mutant of WaitTimeout: after its interval the wait begins again, without a look.
WaitTimeoutResumes ==
    /\ at = "wait"
    /\ at' = "blocking"
    /\ UNCHANGED <<loopVars, stop, ctlVars, sigVars, events>>

WaitTimeout ==
    /\ at = "wait"
    /\ at' = "loop"
    /\ UNCHANGED <<loopVars, stop, ctlVars, sigVars, events>>

\* The second half of RequestStop.
Notify == at' = IF at = "wait" THEN "loop" ELSE at

----------------------------------------------------------------------------
(* HandleControl, on the dispatcher thread.                                *)

\* STOP and SHUTDOWN are sent only to a service that last said it accepts them.
ControlStop ==
    /\ mode = "service" /\ registered /\ scm.controls
    /\ ctl = "idle"
    /\ events < MaxEvents
    /\ stop' = TRUE
    /\ ctl' = "notify"
    /\ events' = events + 1
    /\ UNCHANGED <<loopVars, at, loaded, sigVars>>

ControlNotify ==
    /\ ctl = "notify"
    /\ Notify
    /\ ctl' = "idle"
    /\ UNCHANGED <<loopVars, stop, loaded, sigVars, events>>

\* ReReportCurrentStatus reads the state ...
Interrogate ==
    /\ mode = "service" /\ registered
    /\ ctl = "idle"
    /\ events < MaxEvents
    /\ current \notin {"Unknown", "Stopped"}
    /\ loaded' = current
    /\ ctl' = "reply"
    /\ events' = events + 1
    /\ UNCHANGED <<loopVars, at, stop, sigVars>>

\* ... and reports it, with the checkpoint of a fresh report.
Reply ==
    /\ ctl = "reply"
    /\ ctl' = "idle"
    /\ loaded' = "Unknown"
    /\ \/ scm' = MakeStatusReport(loaded, 0, 0)
       \/ UNCHANGED scm
    /\ UNCHANGED <<mode, at, goal, result, current, stop, registered, sigVars, active, events>>

----------------------------------------------------------------------------
(* RunConsole and the signal thread.                                       *)

Publish ==
    /\ at = "publish"
    /\ ~locked
    /\ active' = TRUE
    /\ at' = "install"
    /\ UNCHANGED <<mode, goal, result, current, stop, scm, registered, ctlVars, sigVars, events>>

Install ==
    /\ at = "install"
    /\ \/ registered' = TRUE /\ at' = "loop" /\ UNCHANGED <<active, result>>
       \/ at' = "done" /\ active' = FALSE /\ result' = FALSE /\ UNCHANGED registered
    /\ UNCHANGED <<mode, goal, current, stop, scm, ctlVars, sigVars, events>>

\* The instance pointer is cleared under the mutex, then the handler is removed.
Withdraw ==
    /\ at = "withdraw"
    /\ ~locked
    /\ active' = FALSE
    /\ at' = "remove"
    /\ UNCHANGED <<mode, goal, result, current, stop, scm, registered, ctlVars, sigVars, events>>

RemoveHandler ==
    /\ at = "remove"
    /\ registered' = FALSE
    /\ at' = "done"
    /\ UNCHANGED <<mode, goal, result, current, stop, scm, active, ctlVars, sigVars, events>>

SignalArrives ==
    /\ mode # "service" /\ registered
    /\ sig = "idle"
    /\ events < MaxEvents
    /\ sig' = "entered"
    /\ events' = events + 1
    /\ UNCHANGED <<loopVars, at, stop, ctlVars, locked>>

\* Mutant of SignalLocks: the mutex protects the pointer and not its use.
SignalLocksBriefly ==
    /\ sig = "entered"
    /\ ~locked
    /\ sig' = IF active THEN "stop" ELSE "idle"
    /\ UNCHANGED <<loopVars, at, stop, ctlVars, locked, events>>

SignalLocks ==
    /\ sig = "entered"
    /\ ~locked
    /\ sig' = IF active THEN "stop" ELSE "idle"
    /\ locked' = active
    /\ UNCHANGED <<loopVars, at, stop, ctlVars, events>>

SignalStops ==
    /\ sig = "stop"
    /\ stop' = TRUE
    /\ sig' = "notify"
    /\ UNCHANGED <<loopVars, at, ctlVars, locked, events>>

SignalNotifies ==
    /\ sig = "notify"
    /\ Notify
    /\ sig' = "idle"
    /\ locked' = FALSE
    /\ UNCHANGED <<loopVars, stop, ctlVars, events>>

----------------------------------------------------------------------------

LoopThread ==
    \/ Register \/ StoreState \/ ReportStatus
    \/ LoopHead \/ Workload \/ WaitCheck \/ WaitBlock \/ WaitTimeout
    \/ Publish \/ Install \/ Withdraw \/ RemoveHandler
Dispatcher == ControlStop \/ ControlNotify \/ Interrogate \/ Reply
Signals == SignalArrives \/ SignalLocks \/ SignalStops \/ SignalNotifies

HostNext == LoopThread \/ Dispatcher \/ Signals

HostSpec == HostInit /\ [][HostNext]_hostVars

\* The loop's thread is scheduled, a call in progress returns (the workload's
\* included), and no control or signal has to arrive.
HostFairness ==
    /\ WF_hostVars(LoopThread)
    /\ WF_hostVars(ControlNotify \/ Reply)
    /\ WF_hostVars(SignalLocks \/ SignalStops \/ SignalNotifies)

----------------------------------------------------------------------------
(* Properties.                                                             *)

\* Types of the host's members and of the three threads.
HostTypeOK ==
    /\ mode \in Modes
    /\ at \in {"register", "transit", "report", "loop", "work", "check", "blocking", "wait",
               "publish", "install", "withdraw", "remove", "done"}
    /\ {goal, current, loaded} \subseteq States
    /\ {result, stop, registered, active, locked} \subseteq BOOLEAN
    /\ scm \in [state : States, checkPoint : 0..2, exitCode : {0, 1}, controls : BOOLEAN]
    /\ scm.controls <=> scm.state = "Running"
    /\ ctl \in {"idle", "notify", "reply"}
    /\ sig \in {"idle", "entered", "stop", "notify"}
    /\ events \in 0..MaxEvents

\* The signal thread uses the host only while RunConsole has not returned, after
\* which the host may be destroyed.
NoSignalAfterReturn == sig \in {"stop", "notify"} => at # "done"

\* A stop request ends the host, although the notification may come between the
\* loop's look at the flag and its wait.
StopEnds == stop ~> at = "done"

Rank(state) ==
    CASE state = "Unknown" -> 0 [] state = "StartPending" -> 1 [] state = "Running" -> 2
      [] state = "StopPending" -> 3 [] state = "Stopped" -> 4

\* What the service control manager is told follows the state machine: a state
\* that has been left is not reported again.
ReportsFollowStateMachine == [][Rank(scm'.state) >= Rank(scm.state)]_hostVars
=============================================================================
