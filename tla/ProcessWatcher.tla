--------------------------- MODULE ProcessWatcher ---------------------------
(***************************************************************************)
(* ProcessWatcher (process_watcher.cpp): a thread polls the processes,     *)
(* matches them with the rules of the games, compares the result with what *)
(* it tracks and tells the subscribers what changed, outside its mutex.    *)
(*                                                                         *)
(* A process is known by the number of its start, which is what its        *)
(* creation time tells; the time reads as 0 when it cannot be queried.     *)
(* One thread owns the watcher and calls SetRules, Start and Stop; one     *)
(* subscriber is there from the start.                                     *)
(***************************************************************************)
EXTENDS Naturals, Sequences, SequencesExt, FiniteSetsExt

CONSTANTS
    Games,
    Pids,       \* numbers from 1, in the order processes are listed
    Names,      \* process names the rules mention
    RuleSets,   \* what SetRules may be given: sequences of rules
    MaxMoves    \* bound: changes among the processes and calls of Start and SetRules

Rule == [game : Games, names : SUBSET Names, titled : BOOLEAN]

ASSUME WatcherAssumption ==
    /\ Pids \subseteq Nat \ {0}
    /\ \A rules \in RuleSets : \A i \in DOMAIN rules : rules[i] \in Rule
    /\ MaxMoves \in Nat

VARIABLES
    world,            \* the process of each pid: its start, its name, whether its title fits
    births, moves,    \* starts, and all changes, so far
    rules, tracked, nextGeneration, running, stopRequested,  \* the members
    worker,           \* where the polling thread is; "off" when worker_ is not joinable
    batch,            \* transitions it has still to tell
    owner,            \* "free" or "joining" in Stop
    told,             \* history: state and generation the subscriber was last told of
    crossed,          \* history: SetRules came between a poll and its callbacks
    silent            \* history: Stop has returned since the last Start

membersButRunning == <<rules, tracked, nextGeneration, stopRequested>>
worldVars == <<world, births, moves>>
historyVars == <<told, crossed, silent>>
watchVars == <<worldVars, membersButRunning, running, worker, batch, owner, historyVars>>

None == [born |-> 0, name |-> "", titled |-> FALSE]
Keys == Games \X Pids
NothingTold == [key \in Keys |-> [state |-> "NotRunning", gen |-> 0]]

WatchInit ==
    /\ world = [p \in Pids |-> None]
    /\ births = 0 /\ moves = 0
    /\ rules \in RuleSets
    /\ tracked = {}
    /\ nextGeneration = 1
    /\ running = FALSE
    /\ stopRequested = FALSE
    /\ worker = "off"
    /\ batch = <<>>
    /\ owner = "free"
    /\ told = NothingTold
    /\ crossed = FALSE
    /\ silent = FALSE

Move == moves < MaxMoves /\ moves' = moves + 1

----------------------------------------------------------------------------
(* Processes start and end, and a process's window changes its title.      *)

ProcessStarts(p) ==
    /\ world[p] = None
    /\ Move
    /\ births' = births + 1
    /\ \E n \in Names, fits \in BOOLEAN :
          world' = [world EXCEPT ![p] = [born |-> births', name |-> n, titled |-> fits]]
    /\ UNCHANGED <<membersButRunning, running, worker, batch, owner, historyVars>>

ProcessEnds(p) ==
    /\ world[p] # None
    /\ Move
    /\ world' = [world EXCEPT ![p] = None]
    /\ UNCHANGED <<births, membersButRunning, running, worker, batch, owner, historyVars>>

TitleChanges(p) ==
    /\ world[p] # None
    /\ Move
    /\ world' = [world EXCEPT ![p].titled = ~@]
    /\ UNCHANGED <<births, membersButRunning, running, worker, batch, owner, historyVars>>

----------------------------------------------------------------------------
(* One poll.                                                               *)

Fits(rule, p) == world[p].name \in rule.names /\ (rule.titled => world[p].titled)

\* MatchRulesToEntries: each rule takes the first process that fits.
Matched(rule) == {p \in Pids : Fits(rule, p) /\ \A q \in Pids : Fits(rule, q) => p <= q}

\* MatchRulesToEntries over all rules, with what QueryProcessCreationTime reads.
MatchRulesToEntries(unreadable) ==
    LET Item(rule, p) ==
            [game |-> rule.game, pid |-> p,
             born |-> IF p \in unreadable THEN 0 ELSE world[p].born]
    IN FlattenSeq([i \in DOMAIN rules |->
          [j \in 1..Cardinality(Matched(rules[i])) |->
              Item(rules[i], CHOOSE p \in Matched(rules[i]) : TRUE)]])

SameKey(a, b) == a.game = b.game /\ a.pid = b.pid
Find(entries, item) == {t \in entries : SameKey(t, item)}

\* An entry for what was seen.  "first" is history: the process the generation began
\* with, or 0 once a creation time could not be read.
Info(item, state, gen, first) ==
    [game |-> item.game, pid |-> item.pid, born |-> item.born, state |-> state, gen |-> gen,
     first |-> IF item.born = 0 THEN 0 ELSE first]

Event(info, from, to) == [key |-> <<info.game, info.pid>>, from |-> from, to |-> to, gen |-> info.gen]

Restarted(prev, item) == prev.born # 0 /\ item.born # 0 /\ prev.born # item.born

Told(diff, info, events) ==
    [diff EXCEPT !.tracked = @ \cup {info}, !.events = @ \o events]

\* Mutant of Begin: the generation is not counted.
BeginUncounted(diff, item, ending) ==
    LET info == Info(item, "Starting", diff.next, item.born)
    IN Told(diff, info, Append(ending, Event(info, "NotRunning", "Starting")))

\* A new life cycle, after the end of the old one if there was one.
Begin(diff, item, ending) ==
    LET info == Info(item, "Starting", diff.next, item.born)
    IN [Told(diff, info, Append(ending, Event(info, "NotRunning", "Starting")))
           EXCEPT !.next = @ + 1]

Continue(diff, prev, item) ==
    LET info == Info(item, "Running", prev.gen, prev.first)
    IN Told(diff, info,
            IF prev.state = "Running" THEN <<>> ELSE <<Event(info, prev.state, "Running")>>)

\* Mutant of Miss: an entry that is missed once is dropped.
MissAtOnce(diff, prev) ==
    [diff EXCEPT !.events = Append(@, Event(prev, prev.state, "Exiting"))]

\* An entry that is missed is kept as Exiting for one poll.
Miss(diff, prev) ==
    IF prev.state = "Exiting"
    THEN [diff EXCEPT !.events = Append(@, Event(prev, "Exiting", "NotRunning"))]
    ELSE Told(diff, [prev EXCEPT !.state = "Exiting"], <<Event(prev, prev.state, "Exiting")>>)

\* First what is present, in the order of the rules, then what is missing.  The
\* order of the missing is that of tracked_, and no two of them share a key.
DiffProcessPresence(presence) ==
    LET Present(diff, item) ==
            IF Find(tracked, item) = {} THEN Begin(diff, item, <<>>)
            ELSE LET prev == CHOOSE t \in Find(tracked, item) : TRUE IN
                 IF Restarted(prev, item)
                 THEN Begin(diff, item, <<Event(prev, prev.state, "Exiting")>>)
                 ELSE Continue(diff, prev, item)
        present == FoldLeft(Present, [tracked |-> {}, events |-> <<>>, next |-> nextGeneration],
                            presence)
        missing == {t \in tracked : \A i \in DOMAIN presence : ~SameKey(t, presence[i])}
    IN FoldLeft(Miss, present, SetToSeq(missing))

\* PollOnce, under the mutex.
PollOnce ==
    /\ worker = "poll"
    /\ \E unreadable \in SUBSET Pids :
          LET diff == DiffProcessPresence(MatchRulesToEntries(unreadable)) IN
          /\ tracked' = diff.tracked
          /\ nextGeneration' = diff.next
          /\ batch' = diff.events
    /\ worker' = "check"
    /\ UNCHANGED <<worldVars, rules, running, stopRequested, owner, historyVars>>

\* The processes could not be listed: the round is skipped.
PollFails ==
    /\ worker = "poll"
    /\ worker' = "skip"
    /\ UNCHANGED <<worldVars, membersButRunning, running, batch, owner, historyVars>>

----------------------------------------------------------------------------
(* WorkerLoop after the poll.                                              *)

\* The transitions of a poll are dropped once a stop is requested.
CheckStop ==
    /\ worker \in {"check", "skip"}
    /\ worker' = IF stopRequested THEN "ended" ELSE "deliver"
    /\ batch' = IF stopRequested THEN <<>> ELSE batch
    /\ UNCHANGED <<worldVars, membersButRunning, running, owner, historyVars>>

Deliver ==
    /\ worker = "deliver" /\ batch # <<>>
    /\ told' = [told EXCEPT ![Head(batch).key] = [state |-> Head(batch).to, gen |-> Head(batch).gen]]
    /\ batch' = Tail(batch)
    /\ UNCHANGED <<worldVars, membersButRunning, running, worker, owner, crossed, silent>>

Delivered ==
    /\ worker = "deliver" /\ batch = <<>>
    /\ worker' = IF stopRequested THEN "ended" ELSE "wait"
    /\ UNCHANGED <<worldVars, membersButRunning, running, batch, owner, historyVars>>

\* The interval passes, or Stop notifies.
WaitEnds ==
    /\ worker = "wait"
    /\ worker' = IF stopRequested THEN "ended" ELSE "poll"
    /\ UNCHANGED <<worldVars, membersButRunning, running, batch, owner, historyVars>>

WorkerStep == PollOnce \/ PollFails \/ CheckStop \/ Deliver \/ Delivered \/ WaitEnds

----------------------------------------------------------------------------
(* The owner.                                                              *)

SetRules ==
    /\ owner = "free"
    /\ Move
    /\ rules' \in RuleSets
    /\ tracked' = {}
    /\ nextGeneration' = 1
    /\ told' = NothingTold
    /\ crossed' = (crossed \/ batch # <<>>)
    /\ UNCHANGED <<world, births, running, stopRequested, worker, batch, owner, silent>>

\* Mutant of Start: what the last session tracked is kept.
StartKeeping ==
    /\ owner = "free" /\ worker = "off"
    /\ Move
    /\ running' = TRUE /\ worker' = "poll" /\ silent' = FALSE
    /\ stopRequested' = FALSE
    /\ told' = NothingTold
    /\ crossed' = FALSE
    /\ UNCHANGED <<world, births, rules, tracked, nextGeneration, batch, owner>>

\* Start does nothing while the thread is joinable; creating the thread may fail.
Start ==
    /\ owner = "free" /\ worker = "off"
    /\ Move
    /\ \/ running' = TRUE /\ worker' = "poll" /\ silent' = FALSE
       \/ running' = FALSE /\ UNCHANGED <<worker, silent>>
    /\ stopRequested' = FALSE
    /\ tracked' = {}
    /\ told' = NothingTold
    /\ crossed' = FALSE
    /\ UNCHANGED <<world, births, rules, nextGeneration, batch, owner>>

StopRequested ==
    /\ owner = "free" /\ worker # "off"
    /\ stopRequested' = TRUE
    /\ running' = FALSE
    /\ owner' = "joining"
    /\ UNCHANGED <<worldVars, rules, tracked, nextGeneration, worker, batch, historyVars>>

StopIdle ==
    /\ owner = "free" /\ worker = "off"
    /\ running' = FALSE
    /\ silent' = TRUE
    /\ UNCHANGED <<worldVars, membersButRunning, worker, batch, owner, told, crossed>>

StopJoins ==
    /\ owner = "joining" /\ worker = "ended"
    /\ worker' = "off"
    /\ owner' = "free"
    /\ silent' = TRUE
    /\ UNCHANGED <<worldVars, membersButRunning, running, batch, told, crossed>>

\* A callback calls Stop, against the contract: the thread does not join itself.
CallbackStops ==
    /\ worker = "deliver"
    /\ ~stopRequested
    /\ stopRequested' = TRUE
    /\ running' = FALSE
    /\ UNCHANGED <<worldVars, rules, tracked, nextGeneration, worker, batch, owner, historyVars>>

OwnerStep == SetRules \/ Start \/ StopRequested \/ StopIdle \/ StopJoins

WorldStep == \E p \in Pids : ProcessStarts(p) \/ ProcessEnds(p) \/ TitleChanges(p)

WatchNext == WorldStep \/ WorkerStep \/ OwnerStep \/ CallbackStops

WatchSpec == WatchInit /\ [][WatchNext]_watchVars

WorkerMoves == worker' # worker \/ batch' # batch

\* The polling thread is scheduled: while it has a step to take it takes one.  This is
\* weak fairness of WorkerStep, which is enabled unless the thread is off or has
\* ended.  And the processes can be listed again and again.
WatchFairness ==
    /\ []<>(worker \in {"off", "ended"}) \/ []<><<WorkerMoves>>_watchVars
    /\ []<>(worker = "poll") => []<>(worker = "check")

----------------------------------------------------------------------------
(* Properties.                                                             *)

TrackedStates == {"Starting", "Running", "Exiting"}

\* Types of the members; an entry is known by its game and its pid, and every
\* generation in use has been given out.
WatchTypeOK ==
    /\ \A p \in Pids : world[p].born \in 0..births
    /\ moves \in 0..MaxMoves /\ births \in 0..moves
    /\ rules \in RuleSets
    /\ \A t \in tracked : t.game \in Games /\ t.pid \in Pids /\ t.state \in TrackedStates
    /\ \A t, u \in tracked : SameKey(t, u) \/ t.gen = u.gen => t = u
    /\ \A t \in tracked : t.gen < nextGeneration
    /\ {running, stopRequested, crossed, silent} \subseteq BOOLEAN
    /\ worker \in {"off", "poll", "check", "skip", "deliver", "wait", "ended"}
    /\ owner \in {"free", "joining"}

Follows(event, last) ==
    IF event.to = "Starting"
    THEN event.gen > last.gen /\ last.state \in {"NotRunning", "Exiting"}
    ELSE event.gen = last.gen /\ event.from = last.state

\* What a subscriber is told is one story per game and process: each event begins where
\* the last one ended, in the same generation or with a new one, unless SetRules came
\* between a poll and its callbacks.  A generation is one process: a pid that is used
\* again by the same game begins a new one, as long as the creation times could be read.
\* And the story ends with Stop: once it has returned there is no polling thread, also
\* when a callback had called Stop before.
EventsTellLives ==
    /\ worker = "deliver" /\ batch # <<>> /\ ~crossed
          => Follows(Head(batch), told[Head(batch).key])
    /\ \A t \in tracked : t.first # 0 => t.first = t.born
    /\ silent => worker = "off"

\* What the subscriber should believe once nothing changes any more.
Settled ==
    \A g \in Games, p \in Pids :
        told[g, p].state =
            IF \E i \in DOMAIN rules : rules[i].game = g /\ p \in Matched(rules[i])
            THEN "Running" ELSE "NotRunning"

\* A watcher that keeps running tells its subscriber in the end of every game that
\* runs and of every game that has ended, although the processes change during
\* polls and callbacks and a poll may fail.
SubscribersSettle == <>[](running /\ ~crossed) => <>[]Settled
=============================================================================
