---------------------------- MODULE SafeModeTiming ----------------------------
(***************************************************************************)
(* The guard beside an eager one, which notices expiry as time passes and  *)
(* looks at single failures: the host pauses when the last FailuresToEnter *)
(* of them are all within the window.  Callers see no difference, however  *)
(* rarely they call.                                                       *)
(***************************************************************************)
EXTENDS SafeModeGuard

VARIABLES
    guard,    \* the SafeModeGuard
    recent,   \* the eager one: how long ago the last failures were, the latest first
    pause     \* the eager one: what is left of the pause, 0 when there is none

timingVars == <<guard, recent, pause>>

Former == 1..FailuresToEnter - 1
LongAgo == [i \in Former |-> Window]

TimingInit ==
    /\ guard = NewGuard
    /\ recent = LongAgo
    /\ pause = 0

Tick ==
    /\ guard' = Elapse(guard)
    /\ pause' = IF pause > 0 THEN pause - 1 ELSE 0
    /\ recent' = [i \in Former |-> IF recent[i] < Window THEN recent[i] + 1 ELSE Window]

\* A client is rejected: it counts while clients are accepted.  The failures that
\* begin a pause do not count after it.
Reject ==
    /\ guard' = OnClientRejected(guard)
    /\ IF pause > 0 \/ guard.latched THEN UNCHANGED <<recent, pause>>
       ELSE IF \A i \in Former : recent[i] < Window
            THEN pause' = Cooldown /\ recent' = LongAgo
       ELSE /\ recent' = [i \in Former |-> IF i = 1 THEN 0 ELSE recent[i - 1]]
            /\ UNCHANGED pause

Ask ==
    /\ guard' = Refresh(guard)
    /\ UNCHANGED <<recent, pause>>

Latch ==
    /\ guard' = OnAnomalyDetected(guard)
    /\ UNCHANGED <<recent, pause>>

Unlatch ==
    /\ guard' = ClearAnomaly(guard)
    /\ UNCHANGED <<recent, pause>>

TimingNext == Tick \/ Reject \/ Ask \/ Latch \/ Unlatch

TimingSpec == TimingInit /\ [][TimingNext]_timingVars

\* Types of the guard's members and of the eager guard.
TimingTypeOK ==
    /\ guard \in Guard
    /\ recent \in [Former -> 0..Window]
    /\ pause \in 0..Cooldown

\* The lazy guard answers like the eager one at every moment, also about what remains of a
\* pause: no failure outside the window counts, none is forgotten, none from before a
\* pause triggers another, and a pause is neither shortened nor extended by later calls or
\* by a latch.
AnswersLikeEager ==
    /\ ShouldAcceptClients(guard) <=> pause = 0 /\ ~guard.latched
    /\ CooldownRemaining(guard) = IF guard.latched THEN 0 ELSE pause
=============================================================================
