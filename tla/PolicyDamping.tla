---------------------------- MODULE PolicyDamping ----------------------------
(***************************************************************************)
(* What the hysteresis of PolicyEngine promises over time, for any inputs  *)
(* at any intervals.  The variables added here are history: they measure   *)
(* how long the output has been what it is, and change nothing.            *)
(***************************************************************************)
EXTENDS PolicyEngine

VARIABLES
    sample,   \* the input of the last evaluation
    lag,      \* ticks for which the output has not followed the rules
    steady,   \* ticks since the output last changed its acting state, at most Cooldown
    quiet     \* what steady was when the acting state last changed

vars == <<engineVars, sample, lag, steady, quiet>>

Init ==
    /\ EngineInit
    /\ sample = [game |-> NoGame, foreground |-> FALSE, present |-> TRUE, margin |-> 100]
    /\ lag = 0
    /\ steady = 0
    /\ quiet = Cooldown

Step(i, elapsed) ==
    LET turned == hasLast /\ Acting(effective') # Acting(effective) IN
    /\ Evaluate(i, elapsed)
    /\ sample' = i
    /\ lag' = IF effective' = EvaluatePolicy(i) THEN 0 ELSE lag + elapsed
    /\ steady' = IF ~hasLast \/ turned THEN 0 ELSE Upto(steady + elapsed)
    /\ quiet' = IF turned THEN Upto(steady + elapsed) ELSE quiet

StartOver ==
    /\ Reset
    /\ lag' = 0
    /\ UNCHANGED <<sample, steady, quiet>>

Next ==
    \/ \E i \in {j \in Input : j.margin \in Margins}, elapsed \in 1..MaxElapsed :
          Step(i, elapsed)
    \/ StartOver

Spec == Init /\ [][Next]_vars

\* Types of the evaluator's members and of the history.
TypeOK ==
    /\ hasLast \in BOOLEAN
    /\ lastDecision \in Decision
    /\ filterState \in BOOLEAN
    /\ sinceChange \in 0..Cooldown
    /\ effective \in Decision
    /\ sample \in Input
    /\ lag \in Nat
    /\ steady \in 0..Cooldown
    /\ quiet \in 0..Cooldown

\* The cooldown damps neither too little nor too much: the output starts or stops acting
\* only when it had been steady for the whole cooldown (the first evaluation after a Reset
\* excepted), and it is never behind the rules for as long as the cooldown.
DampingIsExact ==
    /\ quiet = Cooldown
    /\ lag = 0 \/ lag < Cooldown
=============================================================================
