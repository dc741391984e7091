----------------------------- MODULE ThreadTuner -----------------------------
(***************************************************************************)
(* The scheduler tuner (scheduler/thread_tuner.cpp): the threads of a      *)
(* process that run below a target priority are raised to it, one by one,  *)
(* from a snapshot, and given back later unless somebody else has changed  *)
(* them.  The process and its user go on in the meantime, also between the *)
(* reading of a priority and the setting of it: threads change priority,   *)
(* end, and their ids are used again.                                      *)
(*                                                                         *)
(* --scheduler raises priorities and stops there; RestorePriorities has no *)
(* caller in the program ("--scheduler-restore" in its comment), and is    *)
(* modelled as a caller of the library uses it.                            *)
(***************************************************************************)
EXTENDS Integers, FiniteSets

CONSTANTS
    ThreadIds,   \* threads of the process
    Target,      \* the target priority: THREAD_PRIORITY_ABOVE_NORMAL
    MaxMeddling  \* bound on what the others do

ASSUME TunerAssumption ==
    /\ Target \in 0..14
    /\ MaxMeddling \in Nat

Priorities == -1..Target + 1  \* below normal (0) up to above the target
Ended == 99                   \* no such thread

VARIABLES
    tuner,     \* list, boost, boosted, restore, restored or failed
    priority,  \* of each thread, or Ended
    snapshot,  \* the priorities ListThreads read, for the threads still to be looked at
    adjusted,  \* the adjustments: the original priority of each thread that was raised
    checked,   \* the thread RestorePriorities has found at the target and is about to set
    meddling,  \* what the others may still do
    wanted,    \* history: the priority of each thread but for the tuner
    excused    \* history: threads the tuner cannot know enough of to give them back

tunerVars == <<tuner, priority, snapshot, adjusted, checked, meddling, wanted, excused>>

Nothing == [t \in {} |-> 0]

TunerInit ==
    /\ tuner = "list"
    /\ priority \in [ThreadIds -> Priorities]
    /\ snapshot = Nothing /\ adjusted = Nothing /\ checked = {}
    /\ meddling = MaxMeddling
    /\ wanted = priority
    /\ excused = {}

Without(f, t) == [u \in DOMAIN f \ {t} |-> f[u]]
With(f, t, p) == [u \in DOMAIN f \cup {t} |-> IF u = t THEN p ELSE f[u]]

----------------------------------------------------------------------------

ShouldRaisePriority(current) == current < Target

\* Threads that cannot be opened are left out; a priority that cannot be read is 0.
ListThreads ==
    /\ tuner = "list"
    /\ \E opened \in SUBSET {t \in ThreadIds : priority[t] # Ended} :
       \E unread \in SUBSET opened :
          /\ snapshot' = [t \in opened |-> IF t \in unread THEN 0 ELSE priority[t]]
          /\ excused' = {t \in unread : priority[t] # 0}
    /\ tuner' = "boost"
    /\ UNCHANGED <<priority, adjusted, checked, meddling, wanted>>

\* No snapshot of the threads: nothing has been done.
ListFails ==
    /\ tuner = "list"
    /\ tuner' = "failed"
    /\ UNCHANGED <<priority, snapshot, adjusted, checked, meddling, wanted, excused>>

SkipThread(t) ==
    /\ tuner = "boost" /\ t \in DOMAIN snapshot /\ ~ShouldRaisePriority(snapshot[t])
    /\ snapshot' = Without(snapshot, t)
    /\ UNCHANGED <<tuner, priority, adjusted, checked, meddling, wanted, excused>>

\* Mutant of RaiseThread: the adjustment remembers the priority it applied.
RaiseThreadForgets(t) ==
    /\ tuner = "boost" /\ t \in DOMAIN snapshot /\ ShouldRaisePriority(snapshot[t])
    /\ priority[t] # Ended
    /\ priority' = [priority EXCEPT ![t] = Target]
    /\ adjusted' = With(adjusted, t, Target)
    /\ snapshot' = Without(snapshot, t)
    /\ UNCHANGED <<tuner, checked, meddling, wanted, excused>>

RaiseThread(t) ==
    /\ tuner = "boost" /\ t \in DOMAIN snapshot /\ ShouldRaisePriority(snapshot[t])
    /\ priority[t] # Ended
    /\ priority' = [priority EXCEPT ![t] = Target]
    /\ adjusted' = With(adjusted, t, snapshot[t])
    /\ snapshot' = Without(snapshot, t)
    /\ UNCHANGED <<tuner, checked, meddling, wanted, excused>>

\* The first thread that cannot be raised, or the last thread: what was done is reported.
BoostReturns ==
    /\ tuner = "boost"
    /\ DOMAIN snapshot = {} \/ \E t \in DOMAIN snapshot : ShouldRaisePriority(snapshot[t])
    /\ tuner' = "boosted"
    /\ snapshot' = Nothing
    /\ UNCHANGED <<priority, adjusted, checked, meddling, wanted, excused>>

RestoreStarts ==
    /\ tuner = "boosted"
    /\ tuner' = "restore"
    /\ UNCHANGED <<priority, snapshot, adjusted, checked, meddling, wanted, excused>>

\* GetPriority: a thread that has ended or cannot be read is passed over, and stays raised
\* if it was; so is one that has another priority by now.
CheckThread(t) ==
    /\ tuner = "restore" /\ checked = {} /\ t \in DOMAIN adjusted
    /\ \/ /\ adjusted' = Without(adjusted, t)
          /\ excused' = IF priority[t] = Target THEN excused \cup {t} ELSE excused
          /\ UNCHANGED checked
       \/ /\ priority[t] \notin {Target, Ended}
          /\ adjusted' = Without(adjusted, t)
          /\ UNCHANGED <<checked, excused>>
       \/ /\ priority[t] = Target
          /\ checked' = {t}
          /\ UNCHANGED <<adjusted, excused>>
    /\ UNCHANGED <<tuner, priority, snapshot, meddling, wanted>>

\* SetPriority, whatever the priority is by now.
RestoreThread(t) ==
    /\ t \in checked /\ priority[t] # Ended
    /\ priority' = [priority EXCEPT ![t] = adjusted[t]]
    /\ adjusted' = Without(adjusted, t)
    /\ checked' = {}
    /\ UNCHANGED <<tuner, snapshot, meddling, wanted, excused>>

\* SetPriority fails: this thread and the rest stay as they are.
RestoreFails ==
    /\ checked # {}
    /\ tuner' = "failed"
    /\ checked' = {}
    /\ UNCHANGED <<priority, snapshot, adjusted, meddling, wanted, excused>>

RestoreReturns ==
    /\ tuner = "restore" /\ DOMAIN adjusted = {}
    /\ tuner' = "restored"
    /\ UNCHANGED <<priority, snapshot, adjusted, checked, meddling, wanted, excused>>

----------------------------------------------------------------------------
(* The others.                                                             *)

\* A change is lost to the tuner between the snapshot or GetPriority and the SetPriority
\* that rests on it, and when it looks like the tuner's own.
Meddle(t, p) ==
    /\ meddling > 0 /\ meddling' = meddling - 1
    /\ priority' = [priority EXCEPT ![t] = p]
    /\ wanted' = [wanted EXCEPT ![t] = p]
    /\ excused' = IF \/ t \in DOMAIN snapshot \cup checked
                     \/ t \in DOMAIN adjusted /\ p = Target
                  THEN excused \cup {t} ELSE excused \ {t}
    /\ UNCHANGED <<tuner, snapshot, adjusted, checked>>

OtherSets(t) ==
    /\ priority[t] # Ended
    /\ \E p \in Priorities \ {priority[t]} : Meddle(t, p)

\* A thread whose id is in the snapshot or among the adjustments may be another thread.
ThreadStartsOrEnds(t) ==
    \/ priority[t] # Ended /\ Meddle(t, Ended)
    \/ priority[t] = Ended /\ \E p \in Priorities : Meddle(t, p)

TunerDone ==
    /\ tuner \in {"restored", "failed"}
    /\ UNCHANGED tunerVars

TunerNext ==
    \/ ListThreads \/ ListFails \/ BoostReturns \/ RestoreStarts \/ RestoreFails \/ RestoreReturns
    \/ \E t \in ThreadIds :
          \/ SkipThread(t) \/ RaiseThread(t) \/ CheckThread(t) \/ RestoreThread(t)
          \/ OtherSets(t) \/ ThreadStartsOrEnds(t)
    \/ TunerDone

TunerSpec == TunerInit /\ [][TunerNext]_tunerVars

----------------------------------------------------------------------------
(* Properties.                                                             *)

\* Types of the snapshot, the adjustments and the threads.
TunerTypeOK ==
    /\ tuner \in {"list", "boost", "boosted", "restore", "restored", "failed"}
    /\ priority \in [ThreadIds -> Priorities \cup {Ended}]
    /\ DOMAIN snapshot \subseteq ThreadIds /\ DOMAIN adjusted \subseteq ThreadIds
    /\ checked \subseteq DOMAIN adjusted /\ Cardinality(checked) <= 1
    /\ meddling \in 0..MaxMeddling
    /\ excused \subseteq ThreadIds

\* Boost and restore together leave every thread as if the tuner had never run, also one
\* that others change in the meantime ("外部已改过：不覆盖他人修改"), that ends or whose id is
\* used again, and after a boost that stopped half-way.  The exceptions are in excused: a
\* thread whose priority could not be read, at the listing or at the restore; one that
\* others changed between a reading of it and the SetPriority that rests on it, which
\* overwrites them; and one that others set to just the target.
RestoreIsExact ==
    tuner = "restored" => \A t \in ThreadIds \ excused : priority[t] = wanted[t]
=============================================================================
