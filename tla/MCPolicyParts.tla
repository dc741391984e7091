---------------------------- MODULE MCPolicyParts ----------------------------
(***************************************************************************)
(* The parts of the policy loop, each by itself and with more freedom than *)
(* the loop gives it: evaluations at any intervals, nested leases, other   *)
(* programs that change priority classes, nested power requests; and the   *)
(* presence table that the service's tick feeds, the thread tuner, and     *)
(* the observation of the user's activity.  The parts share no state, so a *)
(* behaviour is one of one part.                                           *)
(***************************************************************************)
EXTENDS PolicyDamping, PriorityBooster, PowerLocker, HostPresence, ThreadTuner, UserActivity,
        TLC

VARIABLE part

partsVars == <<part, vars, boosterVars, lockerVars, presenceVars, tunerVars, activityVars>>

PartsInit ==
    /\ part \in {"engine", "booster", "locker", "presence", "tuner", "activity"}
    /\ Init
    /\ BoosterInit
    /\ LockerInit
    /\ PresenceInit
    /\ part # "presence" => raw = "off" /\ forgetAfter = 0
    /\ TunerInit
    /\ part # "tuner" => priority = [t \in ThreadIds |-> 0]
    /\ ActivityInit
    /\ part # "activity" => ~options.session /\ ~options.foreground

PartsNext ==
    \/ /\ part = "engine" /\ Next
       /\ UNCHANGED <<part, boosterVars, lockerVars, presenceVars, tunerVars, activityVars>>
    \/ /\ part = "booster" /\ BoosterNext
       /\ UNCHANGED <<part, vars, lockerVars, presenceVars, tunerVars, activityVars>>
    \/ /\ part = "locker" /\ LockerNext
       /\ UNCHANGED <<part, vars, boosterVars, presenceVars, tunerVars, activityVars>>
    \/ /\ part = "presence" /\ PresenceNext
       /\ UNCHANGED <<part, vars, boosterVars, lockerVars, tunerVars, activityVars>>
    \/ /\ part = "tuner" /\ TunerNext
       /\ UNCHANGED <<part, vars, boosterVars, lockerVars, presenceVars, activityVars>>
    \/ /\ part = "activity" /\ ActivityNext
       /\ UNCHANGED <<part, vars, boosterVars, lockerVars, presenceVars, tunerVars>>

PartsSpec == PartsInit /\ [][PartsNext]_partsVars

\* Types of what the part at work keeps.
PartsTypeOK ==
    CASE part = "engine" -> TypeOK
      [] part = "booster" -> BoosterTypeOK
      [] part = "locker" -> LockerTypeOK
      [] part = "presence" -> PresenceTypeOK
      [] part = "tuner" -> TunerTypeOK
      [] part = "activity" -> ActivityTypeOK

\* The processes of the booster differ by nothing but their name, and so do the agents,
\* which are called like them: no part has both.
Symmetry == Permutations(Pids)

MCThresholds == [tight |-> 5, adequate |-> 15, comfortable |-> 30]
=============================================================================
