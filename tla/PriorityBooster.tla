--------------------------- MODULE PriorityBooster ---------------------------
(***************************************************************************)
(* The priority booster (priority_booster.cpp, class PriorityBooster): one *)
(* lease per game on one process, with a handle on it, and a conditional   *)
(* restore of the priority class when the last lease goes.                 *)
(*                                                                         *)
(* The operating system is part of the model: processes start, exit and    *)
(* are changed by other tools between any two calls; a pid is used again   *)
(* only when its process is gone and no handle is open on it, as Windows   *)
(* guarantees.  Every backend call may fail.                               *)
(***************************************************************************)
EXTENDS Integers, FiniteSets

CONSTANTS
    GameIds,     \* gameId values
    Pids,        \* process identifiers
    LevelsAsked, \* levels AcquireBoost is called with, a subset of 0..2
    MaxLevel,    \* Options::maxLevel
    MaxCount,    \* bound: leases held on one game at a time
    MaxBirths,   \* bound: processes that ever use one pid
    None         \* no lease, no class

VARIABLES
    leases,     \* leases_: GameIds -> a lease, or None
    os,         \* the operating system's side, see OsType
    releasing   \* ReleaseAll is on its way through leases_

boosterVars == <<leases, os, releasing>>

\* config::PriorityLevel None, AboveNormal, High to Win32 priority classes.
PriorityLevelToWin32Class == [l \in 1..2 |-> IF l = 1 THEN "above_normal" ELSE "high"]
Classes == {"normal", "above_normal", "high"}

\* expected and over are history: the creation time the caller had observed, and
\* whether the process was already raised when the lease was taken.
Lease == [pid : Pids, born : 0..MaxBirths, expected : 0..MaxBirths,
          over : BOOLEAN, original : Classes, target : Classes, count : 1..MaxCount]

ASSUME BoosterAssumption ==
    /\ LevelsAsked \subseteq 0..2
    /\ MaxLevel \in 0..2
    /\ MaxCount \in Nat \ {0}
    /\ MaxBirths \in Nat
    /\ None \notin Lease

\* born: the creation time of the process at a pid (0: never used).  raised is
\* history: the class is one the booster set, nobody has changed it since, and the
\* booster has not given the process up (a class that cannot be queried, a forced
\* clean-up whose SetPriorityClass fails: both are logged and let go by design).
OsType == [born : [Pids -> 0..MaxBirths], alive : [Pids -> BOOLEAN],
           class : [Pids -> Classes], handles : [Pids -> Nat],
           raised : [Pids -> BOOLEAN]]

BoosterInit ==
    /\ leases = [g \in GameIds |-> None]
    /\ os = [born |-> [p \in Pids |-> 0], alive |-> [p \in Pids |-> FALSE],
             class |-> [p \in Pids |-> "normal"], handles |-> [p \in Pids |-> 0],
             raised |-> [p \in Pids |-> FALSE]]
    /\ releasing = FALSE

----------------------------------------------------------------------------
(* Backend calls, as sets of outcomes on a system state w.                 *)

\* Mutant of CloseProcess: the handle is closed twice.
CloseProcessTwice(w, p) == [w EXCEPT !.handles[p] = @ - 2]

CloseProcess(w, p) == [w EXCEPT !.handles[p] = @ - 1]

\* A process whose class cannot be queried is given up, as documented.
GiveUp(w, p) == [CloseProcess(w, p) EXCEPT !.raised[p] = FALSE]

\* OpenProcess, QueryCreationTime, QueryPriorityClass and SetPriorityClass of a
\* fresh acquisition, when all of them succeed.  A creation time that cannot be
\* read is accepted only when the caller had none to compare with.
Opened(w, p, expected, target) ==
    {[w |-> [w EXCEPT !.handles[p] = @ + 1, !.class[p] = target,
                      !.raised[p] = w.alive[p]],
      lease |-> [pid |-> p, born |-> born, expected |-> expected, over |-> w.raised[p],
                 original |-> w.class[p], target |-> target, count |-> 1]] :
       born \in {b \in {0, w.born[p]} : /\ w.alive[p] \/ w.handles[p] > 0
                                        /\ expected \in {0, b}
                                        /\ expected = 0 \/ b # 0}}

\* Mutant of RestoreLastLease: the class is never put back.
RestoreForgotten(w, l) == {[ok |-> TRUE, w |-> CloseProcess(w, l.pid)]}

\* RestoreLastLease: give up when the process cannot be queried, leave a class
\* that is no longer ours alone, otherwise put the original back; a failure to
\* put it back keeps everything.
RestoreLastLease(w, l) ==
    LET closed == CloseProcess(w, l.pid)
        back   == [closed EXCEPT !.class[l.pid] = l.original,
                                 !.raised[l.pid] = @ /\ l.over]
    IN  {[ok |-> TRUE, w |-> GiveUp(w, l.pid)]}
        \cup IF w.class[l.pid] # l.target
             THEN {[ok |-> TRUE, w |-> closed]}
             ELSE {[ok |-> TRUE, w |-> back], [ok |-> FALSE, w |-> w]}

\* ForceCleanLease: the same without the identity check; the handle is closed
\* whatever happens.
ForceCleanLease(w, l) ==
    {[r.w EXCEPT !.handles[l.pid] = w.handles[l.pid] - 1,
                 !.raised[l.pid] = @ /\ r.ok] :
        r \in RestoreLastLease(w, l)}

----------------------------------------------------------------------------
(* The booster's operations.  ok says what the call returns.               *)

Held(g) == leases[g] # None

ReleaseBoost(g, p, ok) ==
    \/ /\ ~Held(g)
       /\ ok
       /\ UNCHANGED <<leases, os>>
    \/ /\ Held(g)
       /\ leases[g].pid # p
       /\ ~ok
       /\ UNCHANGED <<leases, os>>
    \/ /\ Held(g)
       /\ leases[g].pid = p
       /\ leases[g].count > 1
       /\ ok
       /\ leases' = [leases EXCEPT ![g].count = @ - 1]
       /\ UNCHANGED os
    \/ /\ Held(g)
       /\ leases[g].pid = p
       /\ leases[g].count = 1
       /\ \E r \in RestoreLastLease(os, leases[g]) :
             /\ ok = r.ok
             /\ os' = r.w
             /\ leases' = IF r.ok THEN [leases EXCEPT ![g] = None] ELSE leases

\* What AcquireBoost's release of the lease on a game's previous process leaves:
\* the lease if it still counts, and the system state.
ReleasedOld(g) ==
    IF leases[g].count > 1
    THEN {[ok |-> TRUE, w |-> os, old |-> [leases[g] EXCEPT !.count = @ - 1]]}
    ELSE {[ok |-> r.ok, w |-> r.w, old |-> IF r.ok THEN None ELSE leases[g]] :
             r \in RestoreLastLease(os, leases[g])}

AcquireBoost(g, p, expected, level, ok) ==
    LET valid  == level # 0 /\ level <= MaxLevel
        target == PriorityLevelToWin32Class[level]
    IN
    \/ /\ ~valid
       /\ ~ok
       /\ UNCHANGED <<leases, os>>
    \/ /\ valid
       /\ Held(g)
       /\ leases[g].pid = p
       /\ ok
       /\ leases' = [leases EXCEPT ![g].count = @ + 1]
       /\ UNCHANGED os
    \/ /\ valid
       /\ ~Held(g)
       /\ \/ ~ok /\ UNCHANGED <<leases, os>>
          \/ /\ ok
             /\ \E o \in Opened(os, p, expected, target) :
                   /\ os' = o.w
                   /\ leases' = [leases EXCEPT ![g] = o.lease]
    \/ /\ valid
       /\ Held(g)
       /\ leases[g].pid # p
       /\ \E r \in ReleasedOld(g) :
             \/ /\ ~ok
                /\ os' = r.w
                /\ leases' = [leases EXCEPT ![g] = r.old]
             \/ /\ ok
                /\ r.ok
                /\ \E o \in Opened(r.w, p, expected, target) :
                      /\ os' = o.w
                      /\ leases' = [leases EXCEPT ![g] = o.lease]

\* ReleaseAll, also run by the destructor: one lease after the other is cleaned, in an
\* order that is left open, while processes go on.  Nobody calls the booster meanwhile,
\* so that a lease that was cleaned may go at once.
AnyHeld == \E g \in GameIds : Held(g)

BeginReleaseAll ==
    /\ AnyHeld
    /\ releasing' = TRUE
    /\ UNCHANGED <<leases, os>>

ForceClean(g) ==
    /\ Held(g)
    /\ os' \in ForceCleanLease(os, leases[g])
    /\ leases' = [leases EXCEPT ![g] = None]

----------------------------------------------------------------------------
(* The operating system and other tools.                                   *)

Spawn(p) ==
    /\ ~os.alive[p]
    /\ os.handles[p] = 0
    /\ os.born[p] < MaxBirths
    /\ os' = [os EXCEPT !.born[p] = @ + 1, !.alive[p] = TRUE,
                        !.class[p] = "normal", !.raised[p] = FALSE]
    /\ UNCHANGED leases

Exit(p) ==
    /\ os.alive[p]
    /\ os' = [os EXCEPT !.alive[p] = FALSE, !.raised[p] = FALSE]
    /\ UNCHANGED leases

ExternalSetClass(p, c) ==
    /\ os.alive[p]
    /\ os.class[p] # c
    /\ os' = [os EXCEPT !.class[p] = c, !.raised[p] = FALSE]
    /\ UNCHANGED leases

OsStep == \E p \in Pids : Spawn(p) \/ Exit(p) \/ (\E c \in Classes : ExternalSetClass(p, c))

\* Any caller: the expected creation time is the one some process had at that
\* pid, or none.  A game with nested leases does not move to another process: no
\* caller in the program nests and moves.
Call(g, p, ok) ==
    \/ ReleaseBoost(g, p, ok)
    \/ /\ Held(g) => IF leases[g].pid = p THEN leases[g].count < MaxCount
                                          ELSE leases[g].count = 1
       /\ \E level \in LevelsAsked, expected \in 0..os.born[p] :
             AcquireBoost(g, p, expected, level, ok)

BoosterNext ==
    \/ /\ ~releasing
       /\ \/ BeginReleaseAll
          \/ /\ \E g \in GameIds, p \in Pids, ok \in BOOLEAN : Call(g, p, ok)
             /\ UNCHANGED releasing
    \/ /\ releasing
       /\ \E g \in GameIds : ForceClean(g)
       /\ releasing' = AnyHeld'
    \/ OsStep /\ UNCHANGED releasing

BoosterSpec == BoosterInit /\ [][BoosterNext]_boosterVars

----------------------------------------------------------------------------
(* Properties.                                                             *)

\* Types of leases_ and of the system's side.
BoosterTypeOK ==
    /\ leases \in [GameIds -> Lease \cup {None}]
    /\ os \in OsType
    /\ releasing \in BOOLEAN

\* The booster is asked for one level, as the executor does with its configured one.
OneLevel == \A l, m \in LevelsAsked \cap 1..MaxLevel : l = m

\* Leases, processes, handles and boosts stay in step, whichever calls fail and however
\* pids are used again.  AcquireBoost never acts on a process other than the one its
\* caller observed, and the process under a lease stays that process until the lease goes:
\* the creation times agree wherever they are known.  Every open process handle belongs to
\* exactly one lease: no path leaves a dangling handle or closes one twice.  And a process
\* that is boosted, that nobody else has changed and that the booster has not explicitly
\* given up, has a lease: ReleaseBoost and AcquireBoost restore the class, or keep the
\* lease so that it can be tried again.  That needs OneLevel: of two games that raise one
\* process to different classes, the second restores what the first has set, although the
\* first may have gone before.
LeaseIsExact ==
    /\ \A g \in GameIds : Held(g) =>
          {leases[g].born, leases[g].expected} \subseteq {0, os.born[leases[g].pid]}
    /\ \A p \in Pids :
          LET holders == {g \in GameIds : Held(g) /\ leases[g].pid = p} IN
          /\ os.handles[p] = Cardinality(holders)
          /\ OneLevel /\ os.raised[p] => holders # {}
=============================================================================
