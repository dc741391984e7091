# A TLA+ development of CppOptimizer

CppOptimizer is a user-mode optimizer for Windows. It watches the processes of
configured games, samples memory and user activity, decides what to do, and
carries it out with reversible actions (a raised priority class, power requests,
another power scheme). A resident host, on the console or as a service, takes in
reports of agents over a named pipe. This directory holds the specification of
the parts in which order, failure and interruption matter, the TLC models that
check them, and proofs that TLAPS checks.

`PROJECT.json` maps every definition that models code to its lines, and lists the
runs, the hazards, the findings and the theorems.

## The system

| Part | State | Operations | Interacts with |
|---|---|---|---|
| Asynchronous log queue, `Logger` | bounded queue, sequence counters, one condition variable | Push, Flush, Stop, the worker | every thread that logs; the sink |
| Priority booster | one lease per game: pid, creation time, classes, count, handle | AcquireBoost, ReleaseBoost, ReleaseAll | the executor; processes that exit, restart or are changed by others |
| Power locker | count and request handle per type | AcquireLock, ReleaseLock, ReleaseAll | the executor; the power API |
| Policy engine | last decision, hysteresis filter | Evaluate, Reset | the policy command |
| Policy executor and `policy` command | what is held, failures, halted | ApplyDecision, ReleaseAll, the tick | engine, booster, locker, watcher |
| Power scheme switching | a record on disk, its temporary file | apply, restore, recover | the power API, other commands, other programs |
| Service host | state, stop flag, last status report | RunConsole, RunService, HandleControl, signals | service control manager, console |
| Safe Mode guard | failures in a window, cooldown, latch | ShouldAcceptClients, OnClientRejected, OnAnomalyDetected | the intake host |
| Intake host | instance lock, recovery marker, session | start, confirm, tick, end | guard, marker file, other hosts |
| Safety gates, cooldown ledger | a ledger file | EvaluateGates, RecordCooldownRun | every command that acts |
| Process watcher | tracked processes, polling thread | SetRules, Start, Stop, PollOnce | policy command, observers |
| IPC transport and session | pipe instances, a connection, limits, what was replied | ServeLoop in four modes, the concurrent server's workers | intake host, agents |
| Periodic reporter | window, failures, idle gap | RunPeriodicReporter | IPC |
| Presence | a row per agent, the host's own input, the summary | RecordHostIdle, RecordAgent, PruneExpired, Summary | the service's tick |
| Agent forms | service, scheduled task, startup entry, a cooldown | `--agent-form`, `--service`, `--scheduled-task`, `--startup` | the system's registrations, other commands |
| Tray host | UI thread, window, icon, menu | Start, Stop, the menu's exit | intake host |
| Audit log, journal | files, summary | append, compact, fold | every command |
| Memory cleaner | a plan | plan, execute | gates, audit |
| Thread tuner | a snapshot, the adjustments | BoostProcessThreads, RestorePriorities | the threads of a process, and who else changes them |
| User activity | a sample | `--activity`: ticks, session, foreground window | the session, the user |
| Configuration, metrics, disk, GPU, platform | read-only queries | - | main |

What makes these parts hard: several threads on one condition variable; processes
that exit between an observation and its use; a kill between two file or system
calls; every system call failing; two commands over one file; expiry noticed only
by the next call; a report computed before a transition and sent after it; clients
that hang, vanish or send what they should not; replies that are lost after the
request took effect; 32-bit ticks that wrap; a sample put together from several calls.

## Modules

| Module | Models | Notes |
|---|---|---|
| `AsyncLogQueue` | `logger.cpp`, class AsyncLogQueue; Logger::Write and Flush | callers, worker and owner; `asleep` is the set of threads on `cv_` |
| `LogContract` | | what a user of the Logger may rely on: a record is issued once, then waits, is written or is lost and counted; the queue implements it (`KeepsContract`) |
| `PolicyEngine` | `policy_engine.cpp` | pure rules and the evaluator's step |
| `PolicyDamping` | | the engine for any inputs and intervals, with history variables |
| `PriorityBooster` | `priority_booster.cpp` | leases on processes; the system's side is `os` |
| `PowerLocker` | `power_locker.cpp` | counted requests |
| `PolicyLoop` | `policy_executor.cpp`, RunPolicyCommand | composes the three by INSTANCE with the executor and the loop |
| `PowerScheme` | `power_scheme.cpp`, RunPowerSchemeCommand | each command is a process with a program counter |
| `ServiceHost` | `service_host.cpp`, class ServiceHost | loop, dispatcher and signal threads |
| `SafeModeGuard` | `service_host.cpp`, class SafeModeGuard | methods as operators on a guard |
| `SafeModeTiming` | | the guard beside an eager reference, which knows of the last failures how long ago each was |
| `IntakeHost` | RunServiceConsoleCommand, ServiceWorkloadTick, `host_instance.cpp`, `recovery_marker.cpp` | hosts of one user, one for each Windows session, over one marker file; hosts of two sessions may run at once |
| `ProcessWatcher` | `process_watcher.cpp` | polls, the polling thread, its owner and a subscriber; `told` is what the subscriber believes |
| `IpcSession` | `ipc_session.cpp`, `ipc_transport.cpp`, frames of `ipc_protocol.cpp`, the gate and observer the commands pass | servers, clients and pipe instances; modes host, concurrent, one and session; a frame is one of a few kinds; a client may send on after a rejection |
| `PeriodicReporter` | RunPeriodicReporter and RunAgentCommand | time passes in sleeps and round trips; the host's side is a reply, a rejection, a loss or an error |
| `HostPresence` | `presence.cpp`, ServiceWorkloadTick's use of it | rows by agent, the host's own input from raw input or polling, facts and pings; `basis` says whether the report was right when it came |
| `InputTicks` | the subtraction of ticks | modulo `TickRange`, where the code has 2^32 |
| `UserActivity` | `user_activity.cpp`, `--activity` | one sample as the sequence of its calls, while the session changes |
| `AgentForm` | `agent_form.cpp`, `scheduled_task.cpp`, `startup_entry.cpp`, the service's installation, their commands | shells of one user over three registrations, each call a step |
| `TrayHost` | `tray_host.cpp` | owner and UI thread |
| `ThreadTuner` | `thread_tuner.cpp` | thread by thread and call by call, among others that change, end and start threads; `wanted` is the priority each would have without the tuner |
| `GatedActions` | `safety_gates.cpp`, `memory_cleaner.cpp`, the memory clean, scheduler and service install commands | commands as processes over the cooldown ledger and its temporary file |
| `AuditFile` | `audit_log.cpp`, RunAuditCompactCommand | the log and its summary as sequences; a summary line is a function of counts; of compactions there is one at a time |
| `MCPolicyParts`, `MCPolicyLoop`, `MCCommands`, `MCService` | | instances for TLC |
| `AsyncLogQueueProofs` | | proofs about the queue, its refinement of `LogContract`, and the contract |
| `BackendProofs` | | proofs about `PriorityBooster` and `PowerLocker` |
| `PolicyLoopProofs` | | proofs about the policy command, and that it implements both backends |
| `HostProofs` | | proofs about `ServiceHost`, `TrayHost`, `PolicyDamping`, `HostPresence` and `UserActivity` |
| `ServiceProofs` | | proofs about `IpcSession`, `IntakeHost` and `SafeModeTiming` |
| `AgentProofs` | | proofs about `AgentForm` and `PeriodicReporter` |
| `GatedActionsProofs` | | proofs about `GatedActions` |
| `RestoreProofs` | | proofs about `PowerScheme` and `ThreadTuner` |

`MCPolicyParts`, `MCCommands` and `MCService` put independent parts side by side:
the variable `part` is chosen at the start and never changes, so a behaviour is one
of one part.

The type invariants of the parts of a run are checked as one (`PartsTypeOK`).

Every backend call has a success and a failure branch. A handler that makes
several calls is split at the points where another thread, process or command can
act; a trailing action of a handler stays inside its step. Definitions called
"Mutant of ..." are plausible bugs; they are used by nothing in the specifications
and show that each property can fail.

Abstractions: a record, a game, a process, a scheme or a handle is a model value
or a small number. Times are ages or remaining ticks. Formatting, wording and
logging are left out. Handles of power requests are reused once closed, as Windows
does, and so is a pid once its process is gone and no handle is open on it.

## Runs

Runs that must pass:

| Run | Instance | Shows |
|---|---|---|
| `log_queue` | 2 callers, levels 2 and 4, capacity 2, 4 records | the queue implements `LogContract` (no record lost silently or written twice, no Error dropped), Stop ends, Flush is a barrier; Flush ends, and what is queued is written, unless a record was overwritten |
| `policy_parts` | 2 games, 2 pids used twice, nested leases up to 2, 2 lock types nested up to 3, cooldown 3; 2 agents, idle times up to 3, forgetAfter 0 and 1, ticks modulo 5; 2 threads, 3 changes by others; 2 samples, 2 applications | the output neither flaps nor lags behind the rules for a whole cooldown (`DampingIsExact`); a lease, its process and its handle stay together; a request is in force while it is counted; an agent's row is what that agent reported, and a user who is called present had given input when that was reported; boost and restore cancel out; a sample of the activity describes one moment |
| `policy_loop` | 2 games, 2 pids used twice, all actions enabled, halt after 2 failures | what the executor believes is what is held; the command's end leaves nothing; critical pressure and the game's exit release |
| `commands` | power scheme: 2 commands, 2 schemes, all disturbances; gated actions: 2 commands at once, plans of up to 2 steps, a clock of 2 values with cooldown 1; audit: 5 lines appended, compaction from 3 lines on, 3 times | the record leads back from any kill to a scheme that was really active, and a success is real; the cooldown is kept, and only what was exercised is in the ledger; every line is in the log or counted in the summary, once, but for the mishaps below |
| `service` | service loop: 3 controls or signals, as a service and on the console; 2 hosts of two Windows sessions, faults and torn writes; guard with 3 failures in a window of 4 and cooldown 2; watcher: 2 games that share a process name, 2 pids, 4 changes; pipe: 2 workers, 2 clients of which one is barred, 2 frames each, 4 modes; reporter: window 6, 2 attempts; tray: 2 starts, 2 clicks; forms: 2 shells of which one is elevated, 2 commands, 1 fault | no use of the host after its return, a stop request ends it; the marker tells crashes from clean ends to a host that meets no other; the lazy guard answers like an eager one; a subscriber hears one story per process and ends up with the right view; what a server tells its observer is what the client was told, an accepted client is released, and every server returns; the reporter counts its reports rightly and keeps its pace; the tray leaves nothing and its calls return; an agent is never without a form because of a handover, and the declared form prevails |

Bounds. 4 records on a queue of 2 are enough to have one in flight, the queue full
and one more to drop, overwrite or refuse. Two uses of each pid are enough for a
stale observation. Two commands are enough for each way in which one file is
replaced under another's feet. A clock of two values with a cooldown of one tick can
be too early, just in time, and set back. The gated commands of the run are the two
memory cleans. The other two take the same steps with a plan of one step, and every
capability more in the ledger multiplies the states; the scheduler tuner is in
`gates_compile`; of the service's registration, the ledger's part (`InstallCommands`) is
in no run, only in the proof of `CooldownsAreEarned`, and the rest in `AgentForm`. Five audit lines allow two compactions and the fold of both
summary lines. Four changes let the watcher be started, a process start, end, and
its pid be used again. Two frames let a session answer one and fail on the next, and
two workers let one serve while the other waits, times out or is told to stop; the
barred client is one that the gate refuses. Ticks modulo 5 wrap within a behaviour, a
half of the range is more than the time after which a user is away, and an idle time of 3
is more than that half, so that a user who has long left can read as active; forgetAfter
is 0 as in the program, or 1. A window of 4 and a cooldown of 2 let the guard's three
failures come within the window, just at its end and too late, and the cooldown pass
between two calls. One fault of a
registration call, at any step, together with two commands, is enough for each way in
which a handover stops half-way and another command finishes it. The halt threshold 2 lets a failure be forgiven
once and counted once. Symmetry is used for request handles, agents, pids, commands and
schemes, which are compared for equality only; no liveness is checked there. In
`policy_parts` the agents are called like the pids, as no part has both.

History variables record what a property has to leave out, and no more. In `commands`,
`trouble` has what happened to the schemes so far: `RollbackBasis` is stated for
behaviours without calls that have no effect, unreadable records or interference, and
`VerdictHolds` without interference. `overlap` says that two commands were recording in
the ledger at once, after which `CooldownKept` says nothing. `mishap` has what the audit
files do not survive: a summary line cut short, a size that could not be read, and counts
that stay in the summary of a log that was not replaced, because of a kill or a failed
roll-back; after the last of these `EntriesConserved` still says that nothing is lost. A line appended while the log is compacted is told
apart from the others, and `EntriesConserved` bounds the loss to such lines. In
`service`, `fault` plays the same part for the marker's file in `MarkerTellsCrashes`, and
`met` says that a host has run at the same time as one of another Windows session;
`crossed` says that SetRules came between a poll of the watcher and its callbacks, after
which the events of the old rules are still delivered. In `policy_parts`, `excused` has
the threads the tuner cannot know enough of, and `wanted` the priority each thread would
have without it; `changes` counts what happened to the session during one sample.

Deadlock checking is off for the policy command, which really ends. A part
whose work has an end (the service loop, a pipe's servers, an agent, the tray, the tuner,
the host of the presence table, `--activity`) may stutter there and nowhere else
(`LoopEnded`, `SessionDone`, `AgentDone`, ...), so that stopping half-way is a deadlock.

Fairness. The worker, the loop's thread, the polling thread and a call in progress
are scheduled and return; this is what the code assumes of the operating system. For
the watcher, the processes can be listed again and again, though a poll may fail. Of the
pipe's servers, every wait has a timeout and the window ends; their clients need not do
anything. Both threads of the tray run. Of the forms' commands, an administrator keeps
applying the declared form, every command proceeds, and the cooldown passes. `service`
has one specification without fairness for all its parts, and each promise has the
fairness of its own part as its premise (`PipeServersReturn` is `part = "pipe" /\
PipeFairness => ServersReturn`), so that no part's promise rests on another's.
No caller has to call, no control has to arrive and no process has to change.
Threads asleep on the log queue's condition variable may wake spuriously, but no
property relies on it.

### Disagreements between code and documentation

Each is a run that must find the violation; `PROJECT.json` quotes the lines.

- `log_queue_flush`: Flush waits for a count that includes an overwritten record.
- `policy_loop_halt`: a halted executor keeps what it holds after the game's exit.
- `power_scheme_ignored`: a rollback without effect does not stop apply, which
  replaces the known safe scheme.
- `service_host_order`: an answer to INTERROGATE may report a state already left.
- `intake_confirm`: a latched session that ends well clears the marker of the
  crash before it, unconfirmed.
- `gates_compile`: the trim of the own working set runs in a build that leaves it
  out.
- `audit_threshold`: a log above 8 MiB is refused by the compaction, whose size
  threshold is 10 MiB.

Met while modelling, without a run of its own; where a property is concerned, it names
the case as its exception:

- Log queue: after an overwrite, the waiting Flush can take the `notify_one` meant for
  the worker (`logger.cpp:394`); a full queue drops a new record that is not protected
  although it holds lower ones (`logger.cpp:412`; `logger.hpp:123` has
  "优先丢弃最低级别").
- Priorities: a game with nested leases that moves to another process leaves the old one
  boosted (`priority_booster.cpp:125`; no caller does this, and `BoosterNext` leaves it
  out); a decision kept by the hysteresis boosts a game in the background
  (`policy_executor.cpp:65`); the scheduler's boost is never restored, though
  `main.cpp:1790` speaks of `--scheduler-restore`.
- Power scheme: a record that cannot be read does not stop apply (`main.cpp:2922`).
- Service host: an answer to INTERROGATE in a pending state takes the checkpoint back to
  0 (`service_host.cpp:637`).
- Marker and instance: the mutex is per Windows session, not per user
  (`host_instance.cpp:66`; `host_instance.hpp:15` has "同一用户跨会话也只允许一个宿主"), so that
  a host may latch on the marker of one that runs, and remove it; a kill while the marker is rewritten leaves one that is not
  recognised (`recovery_marker.cpp:37`); a failed tray start clears an unconfirmed marker
  (`main.cpp:4511`).
- Tray: a Start that times out joins a UI thread nobody has told to stop, and returns
  only when the user leaves from the menu (`tray_host.cpp:112`).
- Audit: a line appended while the log is compacted is lost (`audit_log.cpp:843`); a
  roll-back of the summary whose size could not be read empties it (`audit_log.cpp:848`);
  a roll-back that fails, or a kill before it, leaves lines counted twice
  (`audit_log.cpp:848`); registrations that fail are not audited.
- Ledger: two commands that record at once lose a cooldown (`safety_gates.cpp:218`);
  registering the service passes the cooldown gate when the ledger cannot be read
  (`main.cpp:4813`).
- Watcher: a creation time that could not be read hides the next restart on that pid
  (`process_watcher.cpp:279`); after a callback has called Stop, Start reports success and
  starts nothing (`process_watcher.cpp:635`).
- Pipe: after ERROR_NO_DATA nobody disconnects the host's instance, and every later tick
  fails in the same way (`ipc_transport.cpp:230`); the payload that follows an invalid
  header ends the drain at once, so that the reply may be discarded unread
  (`ipc_session.cpp:157`); in the session modes a rejection is not reported if the
  connection fails afterwards (`ipc_session.cpp:332`).
- Agent: a report whose reply was lost is delivered again (`ipc_session.cpp:844`), and a
  rejected one counts towards Safe Mode each time; the agent outstays its window by up to
  one gap (`ipc_session.cpp:795`).
- Presence: a Ping is recorded with the idle time of the last facts, whoever sent those
  (`main.cpp:3999`), and facts of a client that was rejected are among them; a tick that
  times out or rejects does not advance the summary (`main.cpp:4018`); forgetAfter stays
  0, so that the row of an agent that has gone never expires (`presence.cpp:115`).
- Activity: a time without input of 2^31 ms or more reads as 0 (`user_activity.cpp:357`);
  a sample during which the session changes twice can mix the two (`user_activity.cpp:262`).
- Forms: two replacing installations with different aims, run at once, can leave no form
  (`main.cpp:5350`).

## Proofs

TLAPS proves these for every value of the constants; where a run checks the same
property, it does so on its instance. All safety invariants and action properties of the
passing runs are proved, but for the type invariants of the parts, `EntriesConserved` and
`EventsTellLives` (see below). The assumptions are the components' named ASSUMEs, which TLC
evaluates on the runs. They say of the constants what the code gives: numbers that are
positive, subsets that are subsets, and stand-ins (`None`, `"nobody"`, `"host"`) that differ
from what they stand beside. The proofs keep the bounds of the models (`MaxFrames`,
`MaxCommands`, ...) as constants of any value.

Most properties are not inductive as they stand; the larger invariants below were checked by
TLC before they were proved.

The log queue (`AsyncLogQueueProofs`):

- `TypeCorrect`, `DrainsOnStop`, `FlushIsABarrier`, for any callers, levels, capacity and
  number of records. The types are not enough for the barrier, so `IInv` adds how the
  sequence numbers relate to what is queued and in flight (`SeqInv`), that every record has
  an identity that was issued (`IdInv`), what the worker's place says of the queue
  (`WorkerInv`), and that writtenSeq reaches a waiting Flush's target only after every
  record it covers (`FlushInv`).
- `QueueKeepsContract`, that the queue with its callers, worker and owner implements
  `LogContract`, step by step. What waits in the contract is what the queue, the worker and
  the callers hold between them. A step of the queue that moves a record from one to the
  other is then a stutter, and the contract's steps need to know that a record is in one of
  these places only: `UInv` says so, on top of `IInv`, with `HeldInv` for the record a
  caller must write itself and `UniqueInv` for all places.
- `ContractAccounts`, that whatever implements `LogContract` has every record written,
  waiting or lost and counted. With the refinement it holds of the queue.

The backends and the policy command (`BackendProofs`, `PolicyLoopProofs`):

- `LeasesStayExact`, for any games, processes and nesting. `Exact` relates any leases to any
  state of the system, so that it can be followed through the middle of AcquireBoost and of
  ReleaseAll, which goes through the leases one by one (`releasing`). It says of every open
  handle which lease has it, by a numbering of the leases on a process (`Sized`) instead of
  Cardinality. What it says of raised processes holds when all valid calls ask for one
  level (`OneLevel`), as `LeaseIsExact` itself does.
- `LockerKeepsRequests`, for any lock types and handles. `LockerInv` adds `HandlesDiffer`:
  two counted types have different handles, without which closing one could cancel the
  other's request.
- `LoopTypesHold`, `RecordsAlwaysAgree`, `CriticalPressureIsFollowed`, `GameExitIsFollowed`
  and `CommandLeavesNothing`, for any games, processes, thresholds and settings. `LoopInv`
  adds to the types and to `RecordsAgree` what the executor knows between its steps
  (`ExecutorInv`): it asks for a boost only when it holds none, and has let go of what this
  tick does not want.
- `LoopDrivesBackends`: every step of the loop is a step of `PriorityBooster` and one of
  `PowerLocker`, or leaves them alone; the mapping is the INSTANCE that the loop is composed
  with, and `releasing` is "the command is being destroyed and a lease is left". So the loop
  calls the backends only as they expect. `LoopKeepsBackends` carries their promises over.

The host (`HostProofs`):

- `SignalsFindTheHost`. The signal handler works under the mutex of the active host's
  pointer, and RunConsole withdraws the host under the same mutex before it returns;
  `MutexInv` and `PointerInv` tie the places of both threads to it.
- `TrayLeavesNothing`. The invariant ties the places of owner and UI thread to the thread,
  the window and the icon that exist.
- `CooldownDampsExactly`, for any cooldown and any rules' input. `DampingInv` says that the
  filter's state is the output's, that its clock is the history's, and that the output has
  been behind for no longer than it has been steady.
- `PresenceIsBacked`, `RowsAreOwnReports`, for any agents, thresholds, forgetAfter and tick
  range. The remainders are computed in `Remainder` and `TicksAreExact`: a reading is true
  (`ReadingIsTrue`) unless the user has been idle for half of the range. `Sound` says of every
  row and of the last facts that what calls a user present has a basis: the facts, because a
  Ping makes another client's row of them.
- `SamplesStayTrue`. `ActivityInv` follows a sample: what its calls have read so far belongs
  to the session before its only change or after it (`Seen`), the two are one change apart
  (`Near`), and so one of the two is what the sample says (`Told`).

The service and its clients (`ServiceProofs`):

- `ObserverHearsReplies`. `VerdictInv` says at each place of ServeLoop what the client was
  told and that `authRejected` stands for it until the observer hears of it.
- `ServersReleaseClients`. `PipeInv` pairs instances with clients (`Paired`) and says that
  frames and replies take turns (`TakesTurns`), so that a reply nobody has read belongs to
  the client that is cut off.
- `CrashesAreTold`, for any number of hosts in any number of Windows sessions. Hosts of two
  sessions are kept apart by no mutex, and of hosts that met the statement says nothing.
  `IntakeInv` says that of two hosts that run both have met (`TwoHaveMet`), what the marker
  says when no file operation failed (`MarkerTrue`), and what each place of a host that met
  none knows of it (`HostKnows`).
- `GuardAnswersInTime`, for any threshold, window and cooldown. PruneExpired only looks at
  the front, so that the invariant has to say that the oldest failures come first, for every
  age (`OldestFirst`), and that those left are the last ones (`Remembers`).

The agent (`AgentProofs`):

- `FormsAreHandedOver`, for any number of shells. `Knows` says of a command that nobody gets
  in the way of that its form is registered or will be installed next, and that it will
  remove whatever else is.
- `ReporterAccounts`, `ReporterIsPaced`, for any settings. `GotInv` says how often the host
  has got the report at hand, and what was counted as sent without it; `PaceInv` where the
  clock may be. The gap's doubling needs 2^n, and so an induction: `LeastNat` gets it from
  the well-founded order of finite sets, with a set in the place of a predicate.

Commands (`GatedActionsProofs`, `RestoreProofs`):

- `CooldownsAreEarned`, for any number of commands at once. The ledger's own contents are
  not inductive: `EarnedInv` says the same of the records each command has prepared, of its
  plan once it is being recorded, and of the temporary file that they share, and `StepInv`
  that a command is at a step of its plan.
- `CooldownsAreKept`. As long as no two commands recorded at once, the ledger has every run
  that was reported (`LedgerKeeps`), and a command has prepared no less than the ledger has
  and found its earlier steps cooled down (`CommandKeeps`).
- `RecordLeadsBack`, `SchemeVerdictsHold`, for any number of commands and schemes.
  `SchemeInv` says what a command knows at each place by itself (`Poised`) and as long as
  every call did what it said (`Calm`), that the record leads back (`LeadsBack`), and that
  whatever a file or a command holds names a scheme that was active (`SavedInv`).
- `RestoresExactly`. The invariant says what the tuner knows: the snapshot is still true of
  threads that are not excused, a raised thread has the target and its adjustment has the
  priority wanted, or others have set it to something else.

Model-checked only:

- Liveness (`StopTerminates`, `ProgressUnlessOverwritten`, `ServiceStops`, `WatcherSettles`,
  `PipeServersReturn`, `TrayReturns`, `DeclaredFormPrevails`): outside of what TLAPS does.
- `EntriesConserved`: sums over the lines of the summary (MapThenSumSet) and the selection
  of lines (SelectSeq), whose values for every input need an induction over operators that
  the provers cannot instantiate.
- `EventsTellLives`: the events of a poll are two folds over sequences, for the same reason.
- `PartsTypeOK`, the types of the parts that no proof needs in this form.

## Not modelled

- The log's file sink, whose rotation is spdlog's: sequential file I/O.
- ResetHalt, ClearAnomaly and ApplyScheme have no caller in the program; only
  ClearAnomaly is modelled, as part of the guard. The guard's option `enabled` is taken
  to be true. RestorePriorities has none either, and is modelled as the library offers it.
- Recording a cooldown at the end of a power-scheme command (the ledger itself is in
  `GatedActions`), and the `--gates` table, which only displays.
- A write to the audit log that fails half way; lines that do not parse come from
  elsewhere. The limit on reading the summary (64 MiB, above its own threshold). The ring
  in memory and the journal: sequential, without a reader at work meanwhile.
- The watcher's PollOnce called by its owner, which the policy command does without a
  polling thread: see `PolicyLoop`. The building of rules and of a game's id.
- The executor's branch for pid 0, which the watcher never reports.
- The parsing of facts and the token's generation and storage: a frame is good, has
  another token, facts that do not parse, an unsupported kind or an invalid header, or is
  cut short. The tray's status texts. The
  task's XML and the registry's value: a form is registered or not. The demonstration
  window of `--raw-input`.
- Configuration parsing, metrics, disk, GPU, platform queries: no state to check.

## Plan

1. Further abstract specifications: an atomic scheme switch that PowerScheme implements, a
   log with counts that AuditFile implements.
2. The tick of the service as one composition of IntakeHost, IpcSession and HostPresence,
   where now each is checked with every outcome the others may have.
