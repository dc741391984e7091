----------------------------- MODULE PolicyEngine -----------------------------
(***************************************************************************)
(* The policy engine (policy_engine.cpp): pressure classification, the     *)
(* rules, and PolicyEvaluator, which damps the changes between acting and  *)
(* not acting with HysteresisFilter.                                       *)
(*                                                                         *)
(* Time is the number of ticks since the filter last switched, which is    *)
(* all that HysteresisFilter::Update looks at; it is cut off at Cooldown.  *)
(***************************************************************************)
EXTENDS Integers

CONSTANTS
    Games,         \* gameId values
    NoGame,        \* the empty gameId
    PausedGames,   \* games with pause_when_background
    Thresholds,    \* PolicyThresholds [tight, adequate, comfortable]
    Total,         \* totalPhysicalBytes
    Available,     \* the values of availablePhysicalBytes that are sampled
    Cooldown,      \* the filter's cooldown, in ticks
    MaxElapsed     \* bound: ticks between two evaluations

ASSUME EngineAssumption ==
    /\ NoGame \notin Games
    /\ PausedGames \subseteq Games
    /\ \A f \in {"tight", "adequate", "comfortable"} : Thresholds[f] \in Int
    /\ Total \in Nat
    /\ Available \subseteq Nat
    /\ Cooldown \in Nat
    /\ MaxElapsed \in Nat \ {0}

VARIABLES
    hasLast,       \* hasLast_, and the filter's hasState_: set together
    lastDecision,  \* lastDecision_
    filterState,   \* filter_.state_
    sinceChange,   \* ticks since filter_.lastChange_, at most Cooldown
    effective      \* the decision of the last evaluation

engineVars == <<hasLast, lastDecision, filterState, sinceChange, effective>>

----------------------------------------------------------------------------
(* Pure functions.  -1 and "invalid" stand for a Validation error.         *)

ComputeMemoryMarginPercent(available, total) ==
    IF total = 0 \/ available > total THEN -1 ELSE (available * 100) \div total

ValidThresholds ==
    /\ 0 <= Thresholds.tight
    /\ Thresholds.tight < Thresholds.adequate
    /\ Thresholds.adequate < Thresholds.comfortable
    /\ Thresholds.comfortable <= 100

ClassifyPressure(margin) ==
    IF margin < 0 \/ margin > 100 \/ ~ValidThresholds THEN "invalid"
    ELSE IF margin > Thresholds.comfortable THEN "comfortable"
    ELSE IF margin > Thresholds.adequate THEN "adequate"
    ELSE IF margin > Thresholds.tight THEN "tight"
    ELSE "critical"

Decision == [action : {"NoOp", "Notify", "SuggestMemoryTune", "SuggestPriorityBoost"},
             game : Games \cup {NoGame},
             reason : {"", "no_game", "mem_critical", "user_away", "game_background",
                       "mem_tight", "prio_boost", "mem_ok"}]

\* A default-constructed PolicyDecision.
DefaultDecision == [action |-> "NoOp", game |-> NoGame, reason |-> ""]

Acting(d) == d.action # "NoOp"

\* What one evaluation is given: the game in focus, whether it is in the
\* foreground, whether the user is present, and the memory margin.
Input == [game : Games \cup {NoGame}, foreground : BOOLEAN, present : BOOLEAN, margin : 0..100]

\* Mutant of Rule: the foreground is asked for before the memory pressure.
RuleForegroundFirst(i) ==
    IF i.game = NoGame THEN <<"NoOp", "no_game">>
    ELSE IF i.foreground THEN <<"SuggestPriorityBoost", "prio_boost">>
    ELSE IF ClassifyPressure(i.margin) = "critical" THEN <<"Notify", "mem_critical">>
    ELSE <<"NoOp", "mem_ok">>

\* The rule that applies: the first whose condition holds.
Rule(i) ==
    LET pressure == ClassifyPressure(i.margin)
    IN  IF i.game = NoGame THEN <<"NoOp", "no_game">>
        ELSE IF pressure = "critical" THEN <<"Notify", "mem_critical">>
        ELSE IF ~i.present THEN <<"NoOp", "user_away">>
        ELSE IF ~i.foreground /\ i.game \in PausedGames THEN <<"NoOp", "game_background">>
        ELSE IF pressure = "tight" THEN <<"SuggestMemoryTune", "mem_tight">>
        ELSE IF i.foreground THEN <<"SuggestPriorityBoost", "prio_boost">>
        ELSE <<"NoOp", "mem_ok">>

EvaluatePolicy(i) == [action |-> Rule(i)[1], game |-> i.game, reason |-> Rule(i)[2]]

----------------------------------------------------------------------------
(* PolicyEvaluator::Evaluate, elapsed ticks after the previous call.       *)

Upto(t) == IF t < Cooldown THEN t ELSE Cooldown

\* The first evaluation takes effect and sets the filter's baseline.
EvaluateFirst(fresh) ==
    /\ ~hasLast
    /\ hasLast' = TRUE
    /\ lastDecision' = fresh
    /\ filterState' = Acting(fresh)
    /\ sinceChange' = 0
    /\ effective' = fresh

\* The same action, game and reason: the filter is not asked.
EvaluateSame(fresh, elapsed) ==
    /\ hasLast
    /\ lastDecision = fresh
    /\ sinceChange' = Upto(sinceChange + elapsed)
    /\ effective' = fresh
    /\ UNCHANGED <<hasLast, lastDecision, filterState>>

\* The decision changes and the acting state does not: it takes effect at once.
EvaluateOther(fresh, elapsed) ==
    /\ hasLast
    /\ lastDecision # fresh
    /\ Acting(fresh) = filterState
    /\ lastDecision' = fresh
    /\ sinceChange' = Upto(sinceChange + elapsed)
    /\ effective' = fresh
    /\ UNCHANGED <<hasLast, filterState>>

\* The acting state changes after the cooldown.
EvaluateSwitch(fresh, elapsed) ==
    /\ hasLast
    /\ lastDecision # fresh
    /\ Acting(fresh) # filterState
    /\ sinceChange + elapsed >= Cooldown
    /\ lastDecision' = fresh
    /\ filterState' = Acting(fresh)
    /\ sinceChange' = 0
    /\ effective' = fresh
    /\ UNCHANGED hasLast

\* Mutant of EvaluateSuppress: a suppressed switch restarts the cooldown.
EvaluateSuppressRestarting(fresh, elapsed) ==
    /\ hasLast
    /\ lastDecision # fresh
    /\ Acting(fresh) # filterState
    /\ sinceChange + elapsed < Cooldown
    /\ sinceChange' = 0
    /\ effective' = lastDecision
    /\ UNCHANGED <<hasLast, lastDecision, filterState>>

\* The acting state would change within the cooldown: the last decision stands.
EvaluateSuppress(fresh, elapsed) ==
    /\ hasLast
    /\ lastDecision # fresh
    /\ Acting(fresh) # filterState
    /\ sinceChange + elapsed < Cooldown
    /\ sinceChange' = sinceChange + elapsed
    /\ effective' = lastDecision
    /\ UNCHANGED <<hasLast, lastDecision, filterState>>

Evaluate(i, elapsed) ==
    LET fresh == EvaluatePolicy(i) IN
    \/ EvaluateFirst(fresh)
    \/ EvaluateSame(fresh, elapsed)
    \/ EvaluateOther(fresh, elapsed)
    \/ EvaluateSwitch(fresh, elapsed)
    \/ EvaluateSuppress(fresh, elapsed)

EngineInit ==
    /\ hasLast = FALSE
    /\ lastDecision = DefaultDecision
    /\ filterState = FALSE
    /\ sinceChange = 0
    /\ effective = DefaultDecision

\* PolicyEvaluator::Reset.
Reset ==
    /\ hasLast' = FALSE
    /\ lastDecision' = DefaultDecision
    /\ filterState' = FALSE
    /\ sinceChange' = 0
    /\ UNCHANGED effective

\* The margins a memory sample can give; an invalid sample is not evaluated.
Margins == {ComputeMemoryMarginPercent(a, Total) : a \in Available} \ {-1}
=============================================================================
