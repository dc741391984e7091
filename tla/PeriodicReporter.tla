-------------------------- MODULE PeriodicReporter --------------------------
(***************************************************************************)
(* The agent (main.cpp, RunAgentCommand): for a window of time it samples  *)
(* a report, tries a few times to deliver it, and sleeps until the next    *)
(* slot, longer after failures and while its user is away                  *)
(* (ipc/ipc_session.cpp, RunPeriodicReporter and the IpcReport... gaps).   *)
(*                                                                         *)
(* Time is in units; the clock moves where the agent blocks.  A round trip *)
(* is taken by its outcome (IpcSession has its steps): the host may have   *)
(* handled a report whose reply the agent never saw.                       *)
(***************************************************************************)
EXTENDS Integers, Sequences, FiniteSets

CONSTANTS
    ReportWindow,      \* window
    Interval,          \* interval
    IntervalCap,       \* intervalCap
    UserAwayAfter,     \* userAwayAfterSeconds
    UserAwayStep,      \* userAwayStepSeconds
    UserAwayCap,       \* userAwayCap
    MaxAttempts,       \* maxConnectAttempts
    Backoff,           \* reconnectBackoff
    RoundTripBound,    \* the longest round trip: its waits, ioTimeout each
    MaxUserIdle,       \* bound on the idle times sampled
    Overrun            \* bound on how late a sleep returns

ASSUME ReporterAssumption ==
    /\ {ReportWindow, Interval, UserAwayStep, MaxAttempts} \subseteq Nat \ {0}
    /\ {UserAwayAfter, Backoff, RoundTripBound, MaxUserIdle, Overrun} \subseteq Nat
    /\ IntervalCap \in Nat /\ IntervalCap >= Interval
    /\ UserAwayCap \in Nat /\ UserAwayCap >= Interval

NoSample == -1  \* idleProvider failed

VARIABLES
    agentAt,       \* loop, attempt, backoff, pace or done
    now,           \* the steady clock
    nextSlot,
    attempt,       \* the attempts made for this report
    delivered,
    failuresInRow, \* consecutiveFailures
    counts,        \* the summary: reportsSent and connectFailures
    requestId,     \* nextRequestId
    hostGot,       \* history: the ids of the reports that the host handled, in order
    pacing         \* history: what the last gap was computed from, and the gap

reporterVars ==
    <<agentAt, now, nextSlot, attempt, delivered, failuresInRow, counts, requestId, hostGot,
      pacing>>

ReporterInit ==
    /\ agentAt = "loop"
    /\ now = 0 /\ nextSlot = 0
    /\ attempt = 0 /\ delivered = FALSE
    /\ failuresInRow = 0
    /\ counts = [sent |-> 0, failed |-> 0]
    /\ requestId = 0
    /\ hostGot = <<>>
    /\ pacing = [failures |-> 0, idle |-> NoSample, gap |-> Interval]

----------------------------------------------------------------------------
(* The gaps between reports.                                               *)

\* Mutant of Doubled: one doubling short of the cap goes to the cap.
DoubledEarly(base, cap, times) ==
    LET grown[n \in 0..times] ==
            IF n = 0 THEN base
            ELSE LET gap == grown[n - 1] IN
                 IF gap >= cap THEN gap ELSE IF gap >= cap \div 2 THEN cap ELSE gap * 2
    IN  grown[times]

\* The loop that both gaps share: double, and stop at the cap without overflow.
Doubled(base, cap, times) ==
    LET grown[n \in 0..times] ==
            IF n = 0 THEN base
            ELSE LET gap == grown[n - 1] IN
                 IF gap >= cap THEN gap ELSE IF gap > cap \div 2 THEN cap ELSE gap * 2
    IN  grown[times]

IpcReportGapAfterFailures(failures, base, cap) ==
    IF cap <= 0 THEN base ELSE Doubled(IF base > cap THEN cap ELSE base, cap, failures)

IpcReportGapAfterUserIdle(idleFor, base, cap) ==
    CASE cap <= 0 \/ UserAwayAfter <= 0 \/ idleFor < UserAwayAfter -> base
      [] cap > 0 /\ UserAwayAfter > 0 /\ idleFor >= UserAwayAfter /\ base > cap -> cap
      [] OTHER -> Doubled(base, cap, 1 + (idleFor - UserAwayAfter) \div UserAwayStep)

IpcReportNextGap(failures, idleFor) ==
    LET failureGap == IF IntervalCap > Interval /\ failures > 0
                      THEN IpcReportGapAfterFailures(failures, Interval, IntervalCap)
                      ELSE Interval
        awayGap == IF idleFor = NoSample
                   THEN Interval
                   ELSE IpcReportGapAfterUserIdle(idleFor, Interval, UserAwayCap)
    IN  IF failureGap > awayGap THEN failureGap ELSE awayGap

----------------------------------------------------------------------------
(* The agent's loop.                                                       *)

WindowIsOver ==
    /\ agentAt = "loop" /\ now >= ReportWindow
    /\ agentAt' = "done"
    /\ UNCHANGED <<now, nextSlot, attempt, delivered, failuresInRow, counts, requestId, hostGot,
                   pacing>>

SleepToSlot ==
    /\ agentAt = "loop" /\ now < ReportWindow /\ now < nextSlot
    /\ \E late \in 0..Overrun : now' = nextSlot + late
    /\ UNCHANGED <<agentAt, nextSlot, attempt, delivered, failuresInRow, counts, requestId,
                   hostGot, pacing>>

\* buildRequest; a sample that fails is fatal.
BuildRequest ==
    /\ agentAt = "loop" /\ now < ReportWindow /\ now >= nextSlot
    /\ \/ /\ agentAt' = "attempt"
          /\ requestId' = requestId + 1
          /\ attempt' = 0 /\ delivered' = FALSE
       \/ agentAt' = "done" /\ UNCHANGED <<requestId, attempt, delivered>>
    /\ UNCHANGED <<now, nextSlot, failuresInRow, counts, hostGot, pacing>>

AttemptsAreOver == delivered \/ attempt >= MaxAttempts \/ now >= ReportWindow

\* Mutant of Attempt: a reply that is an error still counts as a report sent.
AttemptCountsErrors ==
    /\ agentAt = "attempt" /\ ~AttemptsAreOver
    /\ \E took \in 0..RoundTripBound, handled, answered \in BOOLEAN :
          /\ now' = now + took
          /\ hostGot' = IF handled THEN Append(hostGot, requestId) ELSE hostGot
          /\ delivered' = answered
          /\ counts' = [counts EXCEPT !.sent = @ + (IF answered THEN 1 ELSE 0)]
          /\ agentAt' = IF ~answered /\ attempt + 1 < MaxAttempts THEN "backoff" ELSE "attempt"
    /\ attempt' = attempt + 1
    /\ UNCHANGED <<nextSlot, failuresInRow, requestId, pacing>>

\* One round trip: the host handles the report or not, and the agent sees a good reply,
\* which only a handled report has, or not.
Attempt ==
    /\ agentAt = "attempt" /\ ~AttemptsAreOver
    /\ \E took \in 0..RoundTripBound, handled, answered \in BOOLEAN :
          /\ answered => handled
          /\ now' = now + took
          /\ hostGot' = IF handled THEN Append(hostGot, requestId) ELSE hostGot
          /\ delivered' = answered
          /\ counts' = [counts EXCEPT !.sent = @ + (IF answered THEN 1 ELSE 0)]
          /\ agentAt' = IF ~answered /\ attempt + 1 < MaxAttempts THEN "backoff" ELSE "attempt"
    /\ attempt' = attempt + 1
    /\ UNCHANGED <<nextSlot, failuresInRow, requestId, pacing>>

BackoffSleep ==
    /\ agentAt = "backoff"
    /\ \E late \in 0..Overrun : now' = now + Backoff + late
    /\ agentAt' = "attempt"
    /\ UNCHANGED <<nextSlot, attempt, delivered, failuresInRow, counts, requestId, hostGot,
                   pacing>>

\* The report is counted and the next slot set.
Pace ==
    /\ agentAt = "attempt" /\ AttemptsAreOver
    /\ counts' = [counts EXCEPT !.failed = @ + (IF delivered THEN 0 ELSE 1)]
    /\ failuresInRow' = IF delivered THEN 0 ELSE failuresInRow + 1
    /\ \E idleFor \in {NoSample} \cup 0..MaxUserIdle :
          LET gap == IpcReportNextGap(failuresInRow', idleFor) IN
          /\ nextSlot' = now + gap
          /\ pacing' = [failures |-> failuresInRow', idle |-> idleFor, gap |-> gap]
    /\ agentAt' = "loop"
    /\ UNCHANGED <<now, attempt, delivered, requestId, hostGot>>

AgentDone == agentAt = "done" /\ UNCHANGED reporterVars

ReporterNext ==
    \/ WindowIsOver \/ SleepToSlot \/ BuildRequest \/ Attempt \/ BackoffSleep \/ Pace
    \/ AgentDone

ReporterSpec == ReporterInit /\ [][ReporterNext]_reporterVars

----------------------------------------------------------------------------
(* Properties.                                                             *)

\* Types of the reporter's locals and of the summary.
ReporterTypeOK ==
    /\ agentAt \in {"loop", "attempt", "backoff", "done"}
    /\ {now, nextSlot, failuresInRow, requestId, counts.sent, counts.failed} \subseteq Nat
    /\ attempt \in 0..MaxAttempts
    /\ delivered \in BOOLEAN

LargerOf(a, b) == IF a > b THEN a ELSE b
SmallerOf(a, b) == IF a < b THEN a ELSE b

\* Every finished report is counted once, as sent or as failed; one counted as sent did
\* reach the host; and the host gets reports in the order they were made, each at most
\* MaxAttempts times: a retry after a lost reply repeats one, under the same id.
ReportsAccounted ==
    /\ agentAt = "loop" => counts.sent + counts.failed = requestId
    /\ \A i \in 1..Len(hostGot) - 1 : hostGot[i] <= hostGot[i + 1]
    /\ \A i \in 1..Len(hostGot) - MaxAttempts : hostGot[i] < hostGot[i + MaxAttempts]
    /\ counts.sent <= Cardinality({hostGot[i] : i \in 1..Len(hostGot)})

\* What GapAfterFailures and GapAfterUserIdle are to compute.
GrownTo(cap, doublings) == SmallerOf(cap, Interval * 2^doublings)

\* The agent keeps its pace and ends with its window.  The gap is the interval doubled for
\* each failure in a row up to IntervalCap, or doubled for each step that the user has
\* been away up to UserAwayCap, whichever is larger: a success with the user there brings
\* back the interval.  And the agent outstays its window at most by one gap, or by one
\* round trip and one backoff ("窗口到期必然返回（有界重连，不无限重试）"): the sleep to the next
\* slot is not cut short, but no attempt starts after the window.
ReporterKeepsPace ==
    /\ LET away == IF pacing.idle < UserAwayAfter \/ UserAwayAfter = 0
                   THEN 0 ELSE 1 + (pacing.idle - UserAwayAfter) \div UserAwayStep
       IN  pacing.gap = LargerOf(GrownTo(IntervalCap, pacing.failures),
                                 IF away = 0 THEN Interval ELSE GrownTo(UserAwayCap, away))
    /\ now < ReportWindow + Overrun + LargerOf(LargerOf(IntervalCap, UserAwayCap),
                                               RoundTripBound + Backoff)
=============================================================================
