------------------------------ MODULE MCService ------------------------------
(***************************************************************************)
(* What lives for long, or meets others at work: the loop of the service,  *)
(* two hosts with their recovery marker, which may meet, the Safe Mode     *)
(* guard of one by itself and called with more freedom than a host has,    *)
(* the process watcher, the pipe's servers and clients, an agent that      *)
(* reports, the tray, and the commands that register the agent.  They      *)
(* share no state, so a behaviour is one of one part.                      *)
(***************************************************************************)
EXTENDS ServiceHost, IntakeHost, SafeModeTiming, ProcessWatcher,
        IpcSession, PeriodicReporter, TrayHost, AgentForm

\* Two games with one process name, the second told apart by the title of its window.
Alpha == [game |-> "alpha", names |-> {"game.exe"}, titled |-> FALSE]
Beta == [game |-> "beta", names |-> {"game.exe"}, titled |-> TRUE]
OneOrBoth == {<<Alpha>>, <<Alpha, Beta>>}

VARIABLE part

partsVars ==
    <<part, hostVars, vars, timingVars, watchVars, sessionVars, reporterVars, trayVars, formVars>>

PartsInit ==
    /\ part \in {"loop", "hosts", "guard", "watcher", "pipe", "agent", "tray", "forms"}
    /\ HostInit
    /\ part # "loop" => mode = "service"
    /\ Init
    /\ TimingInit
    /\ WatchInit
    /\ part # "watcher" => rules = <<Alpha>>
    /\ SessionInit
    /\ part # "pipe" => ipcMode = "concurrent"
    /\ ReporterInit
    /\ TrayInit
    /\ FormsInit
    /\ part # "forms" => declared = "task"

PartsNext ==
    \/ /\ part = "loop" /\ HostNext
       /\ UNCHANGED <<part, vars, timingVars, watchVars, sessionVars, reporterVars, trayVars, formVars>>
    \/ /\ part = "hosts" /\ Next
       /\ UNCHANGED <<part, hostVars, timingVars, watchVars, sessionVars, reporterVars, trayVars, formVars>>
    \/ /\ part = "guard" /\ TimingNext
       /\ UNCHANGED <<part, hostVars, vars, watchVars, sessionVars, reporterVars, trayVars, formVars>>
    \/ /\ part = "watcher" /\ WatchNext
       /\ UNCHANGED <<part, hostVars, vars, timingVars, sessionVars, reporterVars, trayVars, formVars>>
    \/ /\ part = "pipe" /\ SessionNext
       /\ UNCHANGED <<part, hostVars, vars, timingVars, watchVars, reporterVars, trayVars, formVars>>
    \/ /\ part = "agent" /\ ReporterNext
       /\ UNCHANGED <<part, hostVars, vars, timingVars, watchVars, sessionVars, trayVars, formVars>>
    \/ /\ part = "tray" /\ TrayNext
       /\ UNCHANGED <<part, hostVars, vars, timingVars, watchVars, sessionVars, reporterVars, formVars>>
    \/ /\ part = "forms" /\ FormsNext
       /\ UNCHANGED <<part, hostVars, vars, timingVars, watchVars, sessionVars, reporterVars, trayVars>>

\* A service or a console host that has ended does nothing more.
LoopEnded == part = "loop" /\ at = "done" /\ UNCHANGED partsVars

PartsSpec == PartsInit /\ [][PartsNext \/ LoopEnded]_partsVars

\* Types of what the part at work keeps.
PartsTypeOK ==
    CASE part = "loop" -> HostTypeOK
      [] part = "hosts" -> TypeOK
      [] part = "guard" -> TimingTypeOK
      [] part = "watcher" -> WatchTypeOK
      [] part = "pipe" -> SessionTypeOK
      [] part = "agent" -> ReporterTypeOK
      [] part = "tray" -> TrayTypeOK
      [] part = "forms" -> FormsTypeOK

----------------------------------------------------------------------------
(* Liveness.  Each part has its own fairness, under which its own promise  *)
(* is checked; nothing is asked of hosts, of a guard or of an agent.  The  *)
(* fairness is that of the part's own module, with the part as a guard, so *)
(* that where another part is at work it plainly asks for nothing.         *)

\* HostFairness.
LoopFairness ==
    /\ WF_hostVars(part = "loop" /\ LoopThread)
    /\ WF_hostVars(part = "loop" /\ (ControlNotify \/ Reply))
    /\ WF_hostVars(part = "loop" /\ (SignalLocks \/ SignalStops \/ SignalNotifies))

\* A stop that is asked for ends the service, and the console host: StopEnds, of a host
\* whose threads run.
ServiceStops == part = "loop" /\ LoopFairness => StopEnds

\* Every subscriber learns in the end what runs and what does not: SubscribersSettle, of a
\* watcher whose thread runs and does not fail to poll for ever.
WatcherSettles == part = "watcher" /\ WatchFairness => SubscribersSettle

\* SessionFairness.
PipeFairness ==
    /\ \A w \in Workers : WF_sessionVars(part = "pipe" /\ ServeLoop(w))
    /\ WF_sessionVars(part = "pipe" /\ WindowEnds)

\* Every server of the pipe returns, with its instance closed, whatever its clients do:
\* ServersReturn, as every wait of a server has a timeout and the window ends.
PipeServersReturn == part = "pipe" /\ PipeFairness => ServersReturn

\* TrayFairness.
UiFairness ==
    /\ WF_trayVars(part = "tray" /\ Worker)
    /\ WF_trayVars(part = "tray" /\ (StartWakes \/ StartChecks \/ StartFails \/ StopJoinsTray))

\* Start and Stop of the tray return: TrayCallsReturn, as both threads run.
TrayReturns == part = "tray" /\ UiFairness => TrayCallsReturn

\* FormsFairness.
CommandFairness ==
    /\ \A p \in Shells : WF_formVars(part = "forms" /\ Proceed(p))
    /\ \A p \in Elevated : WF_formVars(part = "forms" /\ RunAgentFormApply(p))
    /\ WF_formVars(part = "forms" /\ CooldownPasses)

\* Whatever the users tried first, and whatever failed, "--agent-form apply" brings about
\* the declared form and no other: ApplyConverges, if an administrator keeps applying it.
DeclaredFormPrevails == part = "forms" /\ CommandFairness => ApplyConverges
=============================================================================
