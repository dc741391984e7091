---------------------------- MODULE UserActivity ----------------------------
(***************************************************************************)
(* The --activity command (activity/user_activity.cpp): a sample asks      *)
(* Windows, one call after the other, for the session's connection, for    *)
(* its lock, for the last input and for the window in front, while the     *)
(* session and its user go on changing.                                    *)
(***************************************************************************)
EXTENDS InputTicks, FiniteSets

CONSTANTS
    Apps,       \* processes with a window
    IdleAfter,  \* idleThresholdMs
    MaxQuiet,   \* bound on the time since the last input
    MaxSamples  \* sampleCount

ASSUME ActivityAssumption ==
    /\ IdleAfter \in Nat \ {0} /\ 2 * IdleAfter < TickRange
    /\ MaxQuiet \in 0..TickRange - 1
    /\ MaxSamples \in Nat \ {0}

ActivityStates == {"Unknown", "Active", "Idle", "Locked", "Disconnected"}
Attributions == {"NotApplicable", "Unknown", "NoWindow", "Pid"}

VARIABLES
    options,    \* --session and --foreground
    spot,       \* the call that comes next, or between, or done
    context,    \* the sample's session context, and whether it could be read
    observed,   \* the last sample: state, attribution and process
    summary,    \* the samples, and how many of each state and of each attribution
    session,    \* the session: disconnected, locked, time since the last input, window
    changes,    \* history: how often the session changed since the sample began, up to 2
    held        \* history: what was true since then, up to the second change

activityVars == <<options, spot, context, observed, summary, session, changes, held>>

NoContext == [ok |-> TRUE, disconnected |-> FALSE, locked |-> FALSE]
NoSampleYet == [state |-> "Unknown", attribution |-> "NotApplicable", process |-> "none"]

NoSamples == [samples |-> 0, states |-> [s \in ActivityStates |-> 0],
              attributions |-> [a \in Attributions |-> 0]]

\* What a sample should say, as far as the options let it look.
Truth(s) ==
    [state |-> CASE options.session /\ s.disconnected -> "Disconnected"
                 [] options.session /\ s.locked /\ ~s.disconnected -> "Locked"
                 [] ~(options.session /\ (s.locked \/ s.disconnected)) ->
                       IF s.quiet < IdleAfter THEN "Active" ELSE "Idle",
     process |-> s.process,
     overlong |-> 2 * s.quiet >= TickRange]

FirstCall == IF options.session THEN "link" ELSE "input"

ActivityInit ==
    /\ options \in [session : BOOLEAN, foreground : BOOLEAN]
    /\ session = [disconnected |-> FALSE, locked |-> FALSE, quiet |-> 0, process |-> "none"]
    /\ spot = FirstCall
    /\ context = NoContext
    /\ observed = NoSampleYet
    /\ summary = NoSamples
    /\ changes = 0
    /\ held = {Truth(session)}

----------------------------------------------------------------------------
(* Classification.                                                         *)

ClassifyActivity(nowTick, lastInputTick) ==
    IF IdleMilliseconds(nowTick, lastInputTick) >= IdleAfter THEN "Idle" ELSE "Active"

\* Mutant of ClassifyContextState: the lock is looked at first.
ClassifyContextStateLockFirst(inputState) ==
    CASE context.locked -> "Locked"
      [] context.disconnected /\ ~context.locked -> "Disconnected"
      [] OTHER -> inputState

ClassifyContextState(inputState) ==
    CASE context.disconnected -> "Disconnected"
      [] context.locked /\ ~context.disconnected -> "Locked"
      [] OTHER -> inputState

IsForegroundAttributable(state) == state \in {"Active", "Idle"}

----------------------------------------------------------------------------
(* The calls of a sample.                                                  *)

BeginSample ==
    /\ spot = "between"
    /\ spot' = FirstCall
    /\ context' = NoContext
    /\ observed' = NoSampleYet
    /\ changes' = 0
    /\ held' = {Truth(session)}
    /\ UNCHANGED <<options, summary, session>>

\* WTSConnectState; if it cannot be read, the lock is not asked for.
QueryLink ==
    /\ spot = "link"
    /\ \/ /\ context' = [context EXCEPT !.disconnected = session.disconnected]
          /\ spot' = "lock"
       \/ context' = [context EXCEPT !.ok = FALSE] /\ spot' = "input"
    /\ UNCHANGED <<options, observed, summary, session, changes, held>>

QueryLock ==
    /\ spot = "lock"
    /\ \/ context' = [context EXCEPT !.locked = session.locked]
       \/ context' = [context EXCEPT !.ok = FALSE]
    /\ spot' = "input"
    /\ UNCHANGED <<options, observed, summary, session, changes, held>>

\* The sample is counted and printed.
Count(state, attribution, process) ==
    /\ observed' = [state |-> state, attribution |-> attribution, process |-> process]
    /\ summary' = [summary EXCEPT !.samples = @ + 1,
                                  !.states[state] = @ + 1,
                                  !.attributions[attribution] = @ + 1]
    /\ spot' = IF summary.samples + 1 < MaxSamples THEN "between" ELSE "done"

\* What the input and the context come to: unknown as soon as one could not be read.
InputStates ==
    (IF context.ok
     THEN {ClassifyContextState(ClassifyActivity(now, (now - session.quiet) % TickRange)) :
              now \in 0..TickRange - 1}
     ELSE {}) \cup {"Unknown"}

QueryInput ==
    /\ spot = "input"
    /\ \E state \in InputStates :
          IF options.foreground /\ IsForegroundAttributable(state)
          THEN /\ observed' = [observed EXCEPT !.state = state]
               /\ spot' = "foreground"
               /\ UNCHANGED summary
          ELSE Count(state, "NotApplicable", "none")
    /\ UNCHANGED <<options, context, session, changes, held>>

\* The process of the window in front; there may be none, or it may be gone just now.
QueryForeground ==
    /\ spot = "foreground"
    /\ \/ Count(observed.state, "Unknown", "none")
       \/ /\ session.process = "none"
          /\ Count(observed.state, "NoWindow", "none")
       \/ /\ session.process # "none"
          /\ Count(observed.state, "Pid", session.process)
    /\ UNCHANGED <<options, context, session, changes, held>>

----------------------------------------------------------------------------
(* The session.  Locked or disconnected it has no window in front and      *)
(* takes no input.                                                         *)

SessionChanges(s) ==
    /\ spot # "done"
    /\ session' = s
    /\ IF spot = "between"
       THEN UNCHANGED <<changes, held>>
       ELSE /\ changes' = IF changes < 2 THEN changes + 1 ELSE 2
            /\ held' = IF changes = 0 THEN held \cup {Truth(s)} ELSE {}
    /\ UNCHANGED <<options, spot, context, observed, summary>>

Reachable == ~session.locked /\ ~session.disconnected

UserActs ==
    /\ Reachable /\ session.quiet > 0
    /\ SessionChanges([session EXCEPT !.quiet = 0])

WindowComes ==
    /\ Reachable
    /\ \E p \in (Apps \cup {"none"}) \ {session.process} :
          SessionChanges([session EXCEPT !.process = p])

LockChanges ==
    SessionChanges([session EXCEPT !.locked = ~@, !.process = "none"])

LinkChanges ==
    SessionChanges([session EXCEPT !.disconnected = ~@, !.process = "none"])

QuietPasses ==
    /\ session.quiet < MaxQuiet
    /\ SessionChanges([session EXCEPT !.quiet = @ + 1])

ActivityDone == spot = "done" /\ UNCHANGED activityVars

ActivityNext ==
    \/ BeginSample \/ QueryLink \/ QueryLock \/ QueryInput \/ QueryForeground
    \/ UserActs \/ WindowComes \/ LockChanges \/ LinkChanges \/ QuietPasses
    \/ ActivityDone

ActivitySpec == ActivityInit /\ [][ActivityNext]_activityVars

----------------------------------------------------------------------------
(* Properties.                                                             *)

\* Types of the sample, the summary and the session.
ActivityTypeOK ==
    /\ spot \in {"link", "lock", "input", "foreground", "between", "done"}
    /\ observed.state \in ActivityStates
    /\ observed.attribution \in Attributions
    /\ observed.process \in Apps \cup {"none"}
    /\ \A s \in ActivityStates : summary.states[s] \in 0..MaxSamples
    /\ \A a \in Attributions : summary.attributions[a] \in 0..MaxSamples
    /\ session.quiet \in 0..MaxQuiet
    /\ changes \in 0..2
    /\ Cardinality(held) <= 2

\* A sample that is put together from up to four calls says what was true at one moment
\* while it was taken, its process included, if the session changed at most once
\* meanwhile; a time without input too long for the tick count reads as none.  A process
\* is only named with a state that has one ("不伪造 pid"), and both halves of the summary
\* count every sample once ("归属计数合计 == states.samples").
SamplesAreTrue ==
    /\ /\ spot \in {"between", "done"} /\ changes < 2 /\ observed.state # "Unknown"
       /\ \A h \in held : ~h.overlong
       => \E h \in held :
             /\ h.state = observed.state
             /\ observed.attribution = "Pid" => h.process = observed.process
    /\ observed.attribution # "NotApplicable" => observed.state \in {"Active", "Idle"}
    /\ LET n == summary.states IN summary.samples =
          n["Unknown"] + n["Active"] + n["Idle"] + n["Locked"] + n["Disconnected"]
    /\ LET n == summary.attributions IN summary.samples =
          n["Pid"] + n["NoWindow"] + n["Unknown"] + n["NotApplicable"]
=============================================================================
