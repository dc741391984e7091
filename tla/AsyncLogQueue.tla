--------------------------- MODULE AsyncLogQueue ---------------------------
(***************************************************************************)
(* The bounded asynchronous log queue (logger.cpp, class AsyncLogQueue)    *)
(* and the two Logger operations that use it: Write, which falls back to a *)
(* synchronous write when Push fails, and Flush.                           *)
(*                                                                         *)
(* Any number of caller threads push and flush, one worker thread takes    *)
(* records and hands them to the sink outside the mutex, and the owner     *)
(* stops the queue.  All of them sleep on ONE condition variable, cv_: it  *)
(* is modelled by the set of threads asleep on it, so that a notify_one    *)
(* that reaches the wrong thread is a behaviour of the model.              *)
(***************************************************************************)
EXTENDS Naturals, Sequences, FiniteSets

CONSTANTS
    Callers,     \* threads that call Logger::Write and Logger::Flush
    Worker,      \* the writer thread
    Levels,      \* the levels that are written, as the enum's integers
    Capacity,    \* Options::capacity
    MaxRecords   \* bound: records issued in one behaviour

ASSUME ConstantsAssumption ==
    /\ Worker \notin Callers
    /\ Levels \subseteq 0..5
    /\ Capacity \in Nat \ {0}
    /\ MaxRecords \in Nat

VARIABLES
    queue,        \* queue_
    stopping,     \* stopping_
    finished,     \* finished_
    pushedSeq,    \* pushedSeq_
    writtenSeq,   \* writtenSeq_ (written_ always has the same value)
    dropped,      \* dropped_
    asleep,       \* threads blocked in cv_.wait
    workerAt,     \* where the worker is: "wait", "sink", "count", "done"
    inFlight,     \* the records the worker has taken and not yet counted
    callerAt,     \* where each caller is: "run", "direct", "flush"
    held,         \* the record a caller must write synchronously
    target,       \* Flush's local `target`
    issued,       \* number of records issued so far (record identities)
    sunk,         \* history: the records the sink has received
    discarded,    \* history: the records the queue has dropped
    covered       \* history: the records queued when Flush was called

vars == <<queue, stopping, finished, pushedSeq, writtenSeq, dropped, asleep,
          workerAt, inFlight, callerAt, held, target, issued, sunk, discarded,
          covered>>

queueVars  == <<queue, pushedSeq, dropped, discarded>>
workerVars == <<workerAt, inFlight, writtenSeq, finished>>
flushVars  == <<target, covered>>

Record == [id : Nat, level : 0..5]
Threads == Callers \cup {Worker}
Recs(s) == {s[i] : i \in DOMAIN s}

Init ==
    /\ queue = <<>>
    /\ stopping = FALSE
    /\ finished = FALSE
    /\ pushedSeq = 0
    /\ writtenSeq = 0
    /\ dropped = 0
    /\ asleep = {}
    /\ workerAt = "wait"
    /\ inFlight = <<>>
    /\ callerAt = [c \in Callers |-> "run"]
    /\ held = [c \in Callers |-> <<>>]
    /\ target = [c \in Callers |-> 0]
    /\ issued = 0
    /\ sunk = {}
    /\ discarded = {}
    /\ covered = [c \in Callers |-> {}]

----------------------------------------------------------------------------
(* The condition variable.                                                 *)

NotifyOne ==
    IF asleep = {} THEN asleep' = {}
                   ELSE \E t \in asleep : asleep' = asleep \ {t}

NotifyAll == asleep' = {}

\* A sleeper may wake without a notification; its predicate is evaluated again.
SpuriousWakeup ==
    /\ \E t \in asleep : asleep' = asleep \ {t}
    /\ UNCHANGED <<queueVars, workerVars, flushVars, stopping, callerAt, held,
                   issued, sunk>>

----------------------------------------------------------------------------
(* AsyncLogQueue::Push, one critical section with five outcomes, called    *)
(* from Logger::Write.                                                     *)

IsProtectedLevel(level) == level \in {4, 5}   \* Error, Critical

\* Queue positions that Push may overwrite to make room for rec.
Victims(rec) == {i \in DOMAIN queue : /\ ~IsProtectedLevel(queue[i].level)
                                      /\ queue[i].level < rec.level}

\* Mutant of Accept: one record too many.
AcceptOverCapacity(rec) ==
    /\ ~stopping
    /\ Len(queue) <= Capacity
    /\ queue' = Append(queue, rec)
    /\ pushedSeq' = pushedSeq + 1
    /\ NotifyOne
    /\ UNCHANGED <<dropped, discarded>>

Accept(rec) ==
    /\ ~stopping
    /\ Len(queue) < Capacity
    /\ queue' = Append(queue, rec)
    /\ pushedSeq' = pushedSeq + 1
    /\ NotifyOne
    /\ UNCHANGED <<dropped, discarded>>

\* The queue is full: a protected record takes the place of the oldest
\* unprotected one, which is dropped.  No notification.
Replace(rec) ==
    /\ ~stopping
    /\ Len(queue) >= Capacity
    /\ IsProtectedLevel(rec.level)
    /\ \E i \in Victims(rec) :
          /\ \A j \in Victims(rec) : i <= j
          /\ queue' = [queue EXCEPT ![i] = rec]
          /\ discarded' = discarded \cup {queue[i]}
    /\ dropped' = dropped + 1
    /\ pushedSeq' = pushedSeq + 1
    /\ UNCHANGED asleep

\* The queue is full and the record unprotected: it is dropped, and Push
\* still returns Success.
DropIncoming(rec) ==
    /\ ~stopping
    /\ Len(queue) >= Capacity
    /\ ~IsProtectedLevel(rec.level)
    /\ dropped' = dropped + 1
    /\ discarded' = discarded \cup {rec}
    /\ UNCHANGED <<queue, pushedSeq, asleep>>

\* Push fails: the queue is stopping, or it is full of protected records.
Refuse(rec) ==
    /\ \/ stopping
       \/ /\ Len(queue) >= Capacity
          /\ IsProtectedLevel(rec.level)
          /\ Victims(rec) = {}
    /\ UNCHANGED <<queueVars, asleep>>

\* Mutant of Write: the failure of Push is ignored.
WriteIgnoringRefusal(c, level) ==
    /\ callerAt[c] = "run"
    /\ issued < MaxRecords
    /\ issued' = issued + 1
    /\ LET rec == [id |-> issued + 1, level |-> level] IN
          Accept(rec) \/ Replace(rec) \/ DropIncoming(rec) \/ Refuse(rec)
    /\ UNCHANGED <<callerAt, held, stopping, workerVars, flushVars, sunk>>

Write(c, level) ==
    /\ callerAt[c] = "run"
    /\ issued < MaxRecords
    /\ issued' = issued + 1
    /\ LET rec == [id |-> issued + 1, level |-> level] IN
          \/ /\ Accept(rec) \/ Replace(rec) \/ DropIncoming(rec)
             /\ UNCHANGED <<callerAt, held>>
          \/ /\ Refuse(rec)
             /\ callerAt' = [callerAt EXCEPT ![c] = "direct"]
             /\ held' = [held EXCEPT ![c] = <<rec>>]
    /\ UNCHANGED <<stopping, workerVars, flushVars, sunk>>

\* WriteNow in the calling thread, after Push has failed.
WriteNow(c) ==
    /\ callerAt[c] = "direct"
    /\ sunk' = sunk \cup Recs(held[c])
    /\ held' = [held EXCEPT ![c] = <<>>]
    /\ callerAt' = [callerAt EXCEPT ![c] = "run"]
    /\ UNCHANGED <<queueVars, workerVars, flushVars, stopping, asleep, issued>>

----------------------------------------------------------------------------
(* AsyncLogQueue::Flush.  The predicate of its wait is evaluated under the *)
(* mutex at the call and after every wakeup.                               *)

\* Mutant of FlushDone: one record short.
FlushDoneEarly(t) == writtenSeq + 1 >= t \/ finished

FlushDone(t) == writtenSeq >= t \/ finished

FlushCall(c) ==
    /\ callerAt[c] = "run"
    /\ ~FlushDone(pushedSeq)
    /\ callerAt' = [callerAt EXCEPT ![c] = "flush"]
    /\ target' = [target EXCEPT ![c] = pushedSeq]
    /\ covered' = [covered EXCEPT ![c] = Recs(queue) \cup Recs(inFlight)]
    /\ asleep' = asleep \cup {c}
    /\ UNCHANGED <<queueVars, workerVars, stopping, held, issued, sunk>>

\* A Flush whose predicate holds at the call returns at once.
FlushNothing(c) ==
    /\ callerAt[c] = "run"
    /\ FlushDone(pushedSeq)
    /\ UNCHANGED vars

FlushReturn(c) ==
    /\ callerAt[c] = "flush"
    /\ c \notin asleep
    /\ FlushDone(target[c])
    /\ callerAt' = [callerAt EXCEPT ![c] = "run"]
    /\ UNCHANGED <<queueVars, workerVars, flushVars, stopping, asleep, held,
                   issued, sunk>>

FlushSleepAgain(c) ==
    /\ callerAt[c] = "flush"
    /\ c \notin asleep
    /\ ~FlushDone(target[c])
    /\ asleep' = asleep \cup {c}
    /\ UNCHANGED <<queueVars, workerVars, flushVars, stopping, callerAt, held,
                   issued, sunk>>

----------------------------------------------------------------------------
(* AsyncLogQueue::WorkerLoop.                                              *)

WorkerSleep ==
    /\ workerAt = "wait"
    /\ Worker \notin asleep
    /\ queue = <<>>
    /\ ~stopping
    /\ asleep' = asleep \cup {Worker}
    /\ UNCHANGED <<queueVars, workerVars, flushVars, stopping, callerAt, held,
                   issued, sunk>>

WorkerTake ==
    /\ workerAt = "wait"
    /\ Worker \notin asleep
    /\ queue # <<>>
    /\ inFlight' = <<Head(queue)>>
    /\ queue' = Tail(queue)
    /\ workerAt' = "sink"
    /\ UNCHANGED <<pushedSeq, dropped, discarded, writtenSeq, finished,
                   flushVars, stopping, asleep, callerAt, held, issued, sunk>>

\* The sink runs without the mutex: every other step can come in between.
WorkerSink ==
    /\ workerAt = "sink"
    /\ sunk' = sunk \cup Recs(inFlight)
    /\ workerAt' = "count"
    /\ UNCHANGED <<queueVars, inFlight, writtenSeq, finished, flushVars,
                   stopping, asleep, callerAt, held, issued>>

\* Mutant of WorkerCount: nobody is told.
WorkerCountSilently ==
    /\ workerAt = "count"
    /\ writtenSeq' = writtenSeq + 1
    /\ inFlight' = <<>>
    /\ workerAt' = "wait"
    /\ UNCHANGED <<queueVars, finished, flushVars, stopping, asleep, callerAt,
                   held, issued, sunk>>

WorkerCount ==
    /\ workerAt = "count"
    /\ writtenSeq' = writtenSeq + 1
    /\ NotifyAll
    /\ inFlight' = <<>>
    /\ workerAt' = "wait"
    /\ UNCHANGED <<queueVars, finished, flushVars, stopping, callerAt, held,
                   issued, sunk>>

\* Stopping and drained: the loop ends and releases every Flush.
WorkerFinish ==
    /\ workerAt = "wait"
    /\ Worker \notin asleep
    /\ queue = <<>>
    /\ stopping
    /\ finished' = TRUE
    /\ NotifyAll
    /\ workerAt' = "done"
    /\ UNCHANGED <<queueVars, inFlight, writtenSeq, flushVars, stopping,
                   callerAt, held, issued, sunk>>

WorkerStep == WorkerSleep \/ WorkerTake \/ WorkerSink \/ WorkerCount \/ WorkerFinish

\* Mutant of Stop: the worker is not woken.
StopSilently ==
    /\ ~stopping
    /\ stopping' = TRUE
    /\ UNCHANGED <<queueVars, workerVars, flushVars, asleep, callerAt, held,
                   issued, sunk>>

\* AsyncLogQueue::Stop, from the owner's thread, up to its join.
Stop ==
    /\ ~stopping
    /\ stopping' = TRUE
    /\ NotifyAll
    /\ UNCHANGED <<queueVars, workerVars, flushVars, callerAt, held, issued, sunk>>

----------------------------------------------------------------------------
Next ==
    \/ \E c \in Callers : \/ \E l \in Levels : Write(c, l)
                          \/ WriteNow(c)
                          \/ FlushCall(c)
                          \/ FlushNothing(c)
                          \/ FlushReturn(c)
                          \/ FlushSleepAgain(c)
    \/ WorkerStep
    \/ Stop
    \/ SpuriousWakeup

Spec == Init /\ [][Next]_vars

\* The operating system runs a thread that is not blocked: the worker, and a
\* caller inside WriteNow or inside Flush.  Nobody has to write, flush or stop.
Fairness ==
    /\ WF_vars(WorkerStep)
    /\ \A c \in Callers :
          WF_vars(WriteNow(c) \/ FlushReturn(c) \/ FlushSleepAgain(c))

FairSpec == Spec /\ Fairness

----------------------------------------------------------------------------
(* Properties.                                                             *)

\* Types of the members and locals, and the capacity bound on queue_.
TypeOK ==
    /\ queue \in Seq(Record)
    /\ Len(queue) <= Capacity
    /\ stopping \in BOOLEAN
    /\ finished \in BOOLEAN
    /\ pushedSeq \in Nat
    /\ writtenSeq \in Nat
    /\ dropped \in Nat
    /\ asleep \subseteq Threads
    /\ workerAt \in {"wait", "sink", "count", "done"}
    /\ inFlight \in Seq(Record)
    /\ Len(inFlight) = (IF workerAt \in {"sink", "count"} THEN 1 ELSE 0)
    /\ callerAt \in [Callers -> {"run", "direct", "flush"}]
    /\ held \in [Callers -> Seq(Record)]
    /\ target \in [Callers -> Nat]
    /\ issued \in Nat
    /\ sunk \subseteq Record
    /\ discarded \subseteq Record
    /\ covered \in [Callers -> SUBSET Record]

\* The records that are neither written nor dropped yet.
Pending == Recs(queue) \cup (IF workerAt = "sink" THEN Recs(inFlight) ELSE {})
              \cup UNION {Recs(held[c]) : c \in Callers}

Contract == INSTANCE LogContract WITH
    Room <- Capacity, count <- issued, waiting <- Pending, written <- sunk, lost <- discarded,
    drops <- dropped

\* Push, the worker and the synchronous fallback together keep the Logger's contract: each
\* step issues one record, writes one that was waiting, drops one where the contract allows
\* it and counts it, or is invisible.  So no record is lost silently or written twice, and
\* no Error or Critical record is dropped.
KeepsContract == Contract!ContractSpec

\* When Flush returns, no record that was queued at its call is still waiting:
\* each has been handed to the sink or was overwritten while the queue was full.
FlushCoversItsCall ==
    [][\A c \in Callers :
          callerAt[c] = "flush" /\ callerAt'[c] = "run"
             => covered[c] \subseteq sunk \cup discarded]_vars

\* Once the worker thread has ended, nothing is left in the queue: all that
\* can still be unwritten is what callers write themselves after a failed Push.
StopDrains ==
    finished => Pending = UNION {Recs(held[c]) : c \in Callers}

\* Stop terminates: the worker drains the queue and ends, whatever callers do.
StopTerminates == stopping ~> finished

\* Flush returns.
FlushTerminates == \A c \in Callers : (callerAt[c] = "flush") ~> (callerAt[c] = "run")

\* Some record has been overwritten: pushedSeq_ counts it and writtenSeq_ never will.
Overwritten == pushedSeq > writtenSeq + Len(queue) + Len(inFlight)

\* As long as no record has been overwritten in a full queue, Flush returns: the worker's
\* notify_all reaches it, and a wakeup it takes from the worker does not keep the worker
\* asleep.  And what Push has queued is taken by the worker, without a Stop or a Flush to
\* help it.
ProgressUnlessOverwritten ==
    /\ \A c \in Callers :
          (callerAt[c] = "flush") ~> (callerAt[c] = "run" \/ Overwritten)
    /\ \A i \in 1..MaxRecords, l \in Levels :
          LET r == [id |-> i, level |-> l]
          IN  (r \in Recs(queue)) ~> (r \notin Recs(queue) \/ Overwritten)
=============================================================================
