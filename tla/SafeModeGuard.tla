---------------------------- MODULE SafeModeGuard ----------------------------
(***************************************************************************)
(* The intake gate (service_host.cpp, class SafeModeGuard): rejected       *)
(* clients within a window put the host into Safe Mode for a cooldown; an  *)
(* anomaly latches it.  The guard is a value and each method an operator   *)
(* from guard to guard.  Nothing runs by itself: expiry is noticed by the  *)
(* next call, which begins with Refresh.                                   *)
(*                                                                         *)
(* Times are kept as ages: how long ago a failure was, how much of the     *)
(* cooldown is left.                                                       *)
(***************************************************************************)
EXTENDS Naturals, Sequences

CONSTANTS
    FailuresToEnter,   \* Options::failuresToEnter
    Window,            \* Options::countingWindow
    Cooldown           \* Options::cooldown

ASSUME GuardAssumption ==
    FailuresToEnter \in Nat \ {0} /\ Window \in Nat \ {0} /\ Cooldown \in Nat

NewGuard == [safeMode |-> FALSE, latched |-> FALSE, ages |-> <<>>, left |-> 0]

Guard == [safeMode : BOOLEAN, latched : BOOLEAN,
          ages : UNION {[1..n -> 0..Window] : n \in 0..FailuresToEnter}, left : 0..Cooldown]

\* One unit of time.
Elapse(g) ==
    [g EXCEPT !.ages = [i \in DOMAIN @ |-> IF @[i] < Window THEN @[i] + 1 ELSE Window],
              !.left = IF @ > 0 THEN @ - 1 ELSE 0]

\* Mutant of FirstWithin: a failure as old as the window still counts.
FirstWithinLate(ages) ==
    CHOOSE k \in 1..Len(ages) + 1 : /\ \A i \in 1..k - 1 : ages[i] > Window
                                    /\ k <= Len(ages) => ages[k] <= Window

\* The first failure that has not left the window.
FirstWithin(ages) ==
    CHOOSE k \in 1..Len(ages) + 1 : /\ \A i \in 1..k - 1 : ages[i] >= Window
                                    /\ k <= Len(ages) => ages[k] < Window

\* The failures are erased from the front up to the first within the window.
PruneExpired(ages) == SubSeq(ages, FirstWithin(ages), Len(ages))

Refresh(g) ==
    IF g.latched THEN g
    ELSE IF g.safeMode
         THEN IF g.left = 0 THEN [g EXCEPT !.safeMode = FALSE, !.ages = <<>>] ELSE g
    ELSE [g EXCEPT !.ages = PruneExpired(@)]

ShouldAcceptClients(g) == ~Refresh(g).safeMode /\ ~Refresh(g).latched

CooldownRemaining(g) ==
    LET r == Refresh(g) IN IF r.latched \/ ~r.safeMode THEN 0 ELSE r.left

OnClientRejected(g) ==
    LET r == Refresh(g)
        counted == PruneExpired(Append(r.ages, 0))
    IN  IF r.safeMode \/ r.latched THEN r
        ELSE IF Len(counted) >= FailuresToEnter
             THEN [r EXCEPT !.ages = counted, !.safeMode = TRUE, !.left = Cooldown]
        ELSE [r EXCEPT !.ages = counted]

OnAnomalyDetected(g) == [g EXCEPT !.latched = TRUE]

ClearAnomaly(g) == [g EXCEPT !.latched = FALSE]
=============================================================================
