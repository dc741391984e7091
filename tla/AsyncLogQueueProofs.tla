------------------------ MODULE AsyncLogQueueProofs ------------------------
(***************************************************************************)
(* Proofs about AsyncLogQueue for any set of callers, any capacity and any *)
(* number of records: its types, Stop, Flush, that it implements           *)
(* LogContract, and what LogContract implies.                              *)
(*                                                                         *)
(* IInv strengthens TypeOK with what Flush relies on: the sequence numbers *)
(* bound the position of every record a pending Flush waits for.           *)
(***************************************************************************)
EXTENDS AsyncLogQueue, LogContract, TLAPS

\* writtenSeq_, the record in flight and the queue never exceed pushedSeq_.
SeqInv == writtenSeq + Len(inFlight) + Len(queue) <= pushedSeq

\* Every record that exists has an identity that was issued.
IdInv ==
    /\ \A i \in DOMAIN queue : queue[i].id <= issued
    /\ \A i \in DOMAIN inFlight : inFlight[i].id <= issued
    /\ \A c \in Callers : \A r \in covered[c] : r.id <= issued

\* What the worker's position says of the queue.
WorkerInv ==
    /\ workerAt = "count" => Recs(inFlight) \subseteq sunk
    /\ finished <=> workerAt = "done"
    /\ finished => stopping /\ queue = <<>>

\* A record that a waiting Flush covers is written, dropped, or so far ahead in
\* the queue that writtenSeq_ reaches the target only after it.
FlushInv ==
    \A c \in Callers :
       callerAt[c] = "flush" =>
          /\ covered[c] \subseteq
                sunk \cup discarded \cup Recs(queue) \cup Recs(inFlight)
          /\ \A i \in DOMAIN queue :
                queue[i] \in covered[c] => writtenSeq + Len(inFlight) + i <= target[c]
          /\ \A i \in DOMAIN inFlight :
                inFlight[i] \in covered[c] => writtenSeq + 1 <= target[c]

IInv == TypeOK /\ SeqInv /\ IdInv /\ WorkerInv /\ FlushInv

USE ConstantsAssumption

\* The queue starts empty, with nobody waiting.
LEMMA InitIInv == Init => IInv
<1> SUFFICES ASSUME Init PROVE IInv
  OBVIOUS
<1> USE DEF Init
<1>1. TypeOK
  <2>1. <<>> \in Seq(Record) /\ Len(<<>>) = 0
    OBVIOUS
  <2>2. held \in [Callers -> Seq(Record)]
    BY <2>1
  <2>3. Len(queue) <= Capacity /\ Len(inFlight) = 0
    BY <2>1
  <2> QED BY <2>1, <2>2, <2>3, Zenon DEF TypeOK
<1>2. SeqInv
  BY DEF SeqInv
<1>3. IdInv
  BY DEF IdInv
<1>4. WorkerInv
  BY DEF WorkerInv
<1>5. FlushInv
  BY DEF FlushInv
<1> QED BY <1>1, <1>2, <1>3, <1>4, <1>5 DEF IInv

\* The numbers the sequence arithmetic is about.
LEMMA Lengths ==
  ASSUME TypeOK
  PROVE  /\ Len(queue) \in Nat /\ Len(inFlight) \in Nat
         /\ pushedSeq \in Nat /\ writtenSeq \in Nat
         /\ DOMAIN queue = 1..Len(queue) /\ DOMAIN inFlight = 1..Len(inFlight)
         /\ \A c \in Callers : target[c] \in Nat
<1>1. queue \in Seq(Record) /\ inFlight \in Seq(Record) /\ target \in [Callers -> Nat]
  BY DEF TypeOK
<1>2. Len(queue) \in Nat /\ DOMAIN queue = 1..Len(queue)
  BY <1>1
<1>3. Len(inFlight) \in Nat /\ DOMAIN inFlight = 1..Len(inFlight)
  BY <1>1
<1> QED BY <1>1, <1>2, <1>3 DEF TypeOK

\* A notification only takes threads out of cv_'s wait set.
LEMMA NotifyShrinks == (NotifyOne \/ NotifyAll) => asleep' \subseteq asleep
  BY DEF NotifyOne, NotifyAll

\* Push, whatever its outcome, and the caller's bookkeeping around it.
LEMMA WriteIInv ==
  ASSUME IInv, NEW c \in Callers, NEW l \in Levels, Write(c, l)
  PROVE  IInv'
<1> DEFINE rec == [id |-> issued + 1, level |-> l]
<1> USE DEF IInv, TypeOK
<1>1. rec \in Record /\ rec.id = issued + 1 /\ issued \in Nat /\ issued' = issued + 1
  BY DEF Write, Record
<1>2. UNCHANGED <<stopping, workerAt, inFlight, writtenSeq, finished, target, covered, sunk>>
  BY DEF Write, workerVars, flushVars
<1>3. \A d \in Callers : rec \notin covered[d]
  BY <1>1 DEF IdInv
<1>4. \A r \in Record : r.id <= issued => r.id <= issued'
  BY <1>1 DEF Record
<1>5. /\ \A i \in DOMAIN queue : queue[i] \in Record
      /\ \A i \in DOMAIN inFlight : inFlight[i] \in Record
      /\ \A d \in Callers : \A r \in covered[d] : r \in Record
  OBVIOUS
<1>6. rec.id <= issued'
  BY <1>1
<1>7. CASE Accept(rec) /\ UNCHANGED <<callerAt, held>>
  <2>1. /\ ~stopping
        /\ queue' = Append(queue, rec)
        /\ Len(queue) < Capacity
        /\ pushedSeq' = pushedSeq + 1
        /\ UNCHANGED <<dropped, discarded, callerAt, held>>
        /\ asleep' \subseteq asleep
    BY <1>7, NotifyShrinks DEF Accept
  <2> HIDE DEF rec
  <2>2. /\ queue' \in Seq(Record)
        /\ Len(queue') = Len(queue) + 1
        /\ \A i \in DOMAIN queue' : \/ i \in DOMAIN queue /\ queue'[i] = queue[i]
                                    \/ i = Len(queue) + 1 /\ queue'[i] = rec
        /\ Recs(queue) \subseteq Recs(queue')
    <3>1. queue \in Seq(Record) /\ rec \in Record
      BY <1>1
    <3>2. queue' = Append(queue, rec)
      BY <2>1
    <3>3. queue' \in Seq(Record) /\ Len(queue') = Len(queue) + 1
      BY ONLY <3>1, <3>2
    <3>4. (\A i \in 1..Len(queue) : queue'[i] = queue[i]) /\ queue'[Len(queue) + 1] = rec
      BY ONLY <3>1, <3>2
    <3>5. /\ DOMAIN queue' = 1..(Len(queue) + 1)
          /\ DOMAIN queue = 1..Len(queue)
          /\ Len(queue) \in Nat
      BY ONLY <3>1, <3>3
    <3>6. Recs(queue) \subseteq Recs(queue')
      BY ONLY <3>4, <3>5 DEF Recs
    <3> QED BY ONLY <3>3, <3>4, <3>5, <3>6
  <2>3. TypeOK'
    BY <2>1, <2>2, <1>1, <1>2
  <2>4. SeqInv'
    BY <2>1, <2>2, <1>2, Lengths DEF SeqInv
  <2>5. IdInv'
    BY <2>1, <2>2, <1>2, <1>4, <1>5, <1>6 DEF IdInv
  <2>6. WorkerInv'
    BY <2>1, <1>2 DEF WorkerInv
  <2>7. FlushInv'
    <3> SUFFICES ASSUME NEW d \in Callers, callerAt[d] = "flush"
                 PROVE  /\ covered[d] \subseteq
                              sunk \cup discarded \cup Recs(queue') \cup Recs(inFlight)
                        /\ \A i \in DOMAIN queue' : queue'[i] \in covered[d]
                              => writtenSeq + Len(inFlight) + i <= target[d]
                        /\ \A i \in DOMAIN inFlight :
                              inFlight[i] \in covered[d] => writtenSeq + 1 <= target[d]
      BY <2>1, <1>2, Zenon DEF FlushInv
    <3>1. /\ covered[d] \subseteq
                sunk \cup discarded \cup Recs(queue) \cup Recs(inFlight)
          /\ \A i \in DOMAIN queue :
                queue[i] \in covered[d] => writtenSeq + Len(inFlight) + i <= target[d]
          /\ \A i \in DOMAIN inFlight :
                inFlight[i] \in covered[d] => writtenSeq + 1 <= target[d]
      BY DEF FlushInv
    <3> QED BY ONLY <3>1, <2>2, <1>3
  <2> QED BY <2>3, <2>4, <2>5, <2>6, <2>7, Zenon
<1>8. CASE Replace(rec) /\ UNCHANGED <<callerAt, held>>
  <2>1. PICK k \in DOMAIN queue : /\ queue' = [queue EXCEPT ![k] = rec]
                                  /\ discarded' = discarded \cup {queue[k]}
    BY <1>8, Zenon DEF Replace, Victims
  <2>2. /\ ~stopping
        /\ pushedSeq' = pushedSeq + 1
        /\ dropped' = dropped + 1
        /\ UNCHANGED <<asleep, callerAt, held>>
    BY <1>8 DEF Replace
  <2> HIDE DEF rec
  <2>3. /\ queue' \in Seq(Record)
        /\ Len(queue') = Len(queue)
        /\ DOMAIN queue' = DOMAIN queue
        /\ queue[k] \in Record
        /\ \A i \in DOMAIN queue : queue'[i] = IF i = k THEN rec ELSE queue[i]
    BY <2>1, <1>1
  <2>4. Recs(queue) \subseteq Recs(queue') \cup {queue[k]}
    BY <2>3 DEF Recs
  <2>5. TypeOK'
    BY <2>1, <2>2, <2>3, <1>1, <1>2
  <2>6. SeqInv'
    BY <2>2, <2>3, <1>2, Lengths DEF SeqInv
  <2>7. IdInv'
    BY <2>2, <2>3, <1>2, <1>4, <1>5, <1>6, Zenon DEF IdInv
  <2>8. WorkerInv'
    BY <2>2, <2>3, <1>2 DEF WorkerInv
  <2>9. FlushInv'
    BY <2>1, <2>2, <2>3, <2>4, <1>2, <1>3, Zenon DEF FlushInv
  <2> QED BY <2>5, <2>6, <2>7, <2>8, <2>9, Zenon
<1>9. CASE DropIncoming(rec) /\ UNCHANGED <<callerAt, held>>
  <2>1. /\ UNCHANGED <<queue, pushedSeq, asleep, callerAt, held>>
        /\ dropped' = dropped + 1
        /\ discarded' = discarded \cup {rec}
    BY <1>9 DEF DropIncoming
  <2> HIDE DEF rec
  <2>2. TypeOK'
    BY <2>1, <1>1, <1>2
  <2>3. IdInv'
    BY <2>1, <1>2, <1>4, <1>5 DEF IdInv
  <2>4. SeqInv' /\ WorkerInv'
    BY <2>1, <1>2, Zenon DEF SeqInv, WorkerInv
  <2>5. FlushInv'
    BY <2>1, <1>2, Zenon DEF FlushInv
  <2> QED BY <2>2, <2>3, <2>4, <2>5, Zenon
<1>10. CASE /\ Refuse(rec)
           /\ callerAt[c] = "run"
           /\ callerAt' = [callerAt EXCEPT ![c] = "direct"]
           /\ held' = [held EXCEPT ![c] = <<rec>>]
  <2>1. UNCHANGED <<queue, pushedSeq, dropped, discarded, asleep>>
    BY <1>10 DEF Refuse, queueVars
  <2> HIDE DEF rec
  <2>2. TypeOK'
    BY <2>1, <1>1, <1>2, <1>10
  <2>3. IdInv'
    BY <2>1, <1>2, <1>4, <1>5 DEF IdInv
  <2>4. SeqInv' /\ WorkerInv'
    BY <2>1, <1>2, Zenon DEF SeqInv, WorkerInv
  <2>5. FlushInv'
    BY <2>1, <1>2, <1>10, Zenon DEF FlushInv
  <2> QED BY <2>2, <2>3, <2>4, <2>5
<1> QED BY <1>7, <1>8, <1>9, <1>10, Zenon DEF Write

\* The caller's steps after a failed Push and inside Flush.
LEMMA CallerIInv ==
  ASSUME IInv, NEW c \in Callers,
         \/ WriteNow(c) \/ FlushCall(c) \/ FlushNothing(c)
         \/ FlushReturn(c) \/ FlushSleepAgain(c)
  PROVE  IInv'
<1> USE DEF IInv, TypeOK, queueVars, workerVars, flushVars
<1>1. CASE WriteNow(c)
  <2> USE <1>1 DEF WriteNow
  <2>1. Recs(held[c]) \subseteq Record
    BY DEF Recs
  <2>2. TypeOK'
    BY <2>1
  <2>3. FlushInv'
    BY Zenon DEF FlushInv
  <2>4. SeqInv' /\ IdInv' /\ WorkerInv'
    BY Zenon DEF SeqInv, IdInv, WorkerInv
  <2> QED BY <2>2, <2>3, <2>4
<1>2. CASE FlushCall(c)
  <2> USE <1>2 DEF FlushCall
  <2>1. Recs(queue) \subseteq Record /\ Recs(inFlight) \subseteq Record
    BY DEF Recs
  <2>2. TypeOK'
    BY <2>1 DEF Threads
  <2>3. SeqInv' /\ WorkerInv'
    BY Zenon DEF SeqInv, WorkerInv
  <2>4. \A r \in Recs(queue) \cup Recs(inFlight) : r.id <= issued
    BY DEF IdInv, Recs
  <2>5. IdInv'
    BY <2>4 DEF IdInv
  <2>6. \A i \in DOMAIN queue : writtenSeq + Len(inFlight) + i <= pushedSeq
    BY Lengths DEF SeqInv
  <2>7. \A i \in DOMAIN inFlight : writtenSeq + 1 <= pushedSeq
    BY Lengths DEF SeqInv
  <2>8. FlushInv'
    BY <2>6, <2>7, Zenon DEF FlushInv
  <2> QED BY <2>2, <2>3, <2>5, <2>8
<1>3. CASE FlushNothing(c)
  BY <1>3, Zenon DEF FlushNothing, vars, SeqInv, IdInv, WorkerInv, FlushInv
<1>4. CASE FlushReturn(c) \/ FlushSleepAgain(c)
  <2>1. UNCHANGED <<queue, pushedSeq, dropped, discarded, workerAt, inFlight, writtenSeq,
                    finished, target, covered, stopping, held, issued, sunk>>
    BY <1>4 DEF FlushReturn, FlushSleepAgain
  <2>2. TypeOK'
    BY <1>4, <2>1, Zenon DEF FlushReturn, FlushSleepAgain, Threads
  <2>3. \A d \in Callers : callerAt'[d] = "flush" => callerAt[d] = "flush"
    BY <1>4 DEF FlushReturn, FlushSleepAgain
  <2>4. FlushInv'
    BY <2>1, <2>3, Zenon DEF FlushInv
  <2>5. SeqInv' /\ IdInv' /\ WorkerInv'
    BY <2>1, Zenon DEF SeqInv, IdInv, WorkerInv
  <2> QED BY <2>2, <2>4, <2>5, Zenon
<1> QED BY <1>1, <1>2, <1>3, <1>4, Zenon

\* The worker's steps.
LEMMA WorkerIInv ==
  ASSUME IInv, WorkerStep
  PROVE  IInv'
<1> USE DEF IInv, TypeOK, queueVars, workerVars, flushVars
<1>1. CASE WorkerSleep
  BY <1>1 DEF WorkerSleep, Threads, SeqInv, IdInv, WorkerInv, FlushInv
<1>2. CASE WorkerTake
  <2>1. /\ inFlight' = <<Head(queue)>>
        /\ queue' = Tail(queue)
        /\ queue # <<>> /\ queue \in Seq(Record)
        /\ workerAt = "wait" /\ workerAt' = "sink"
        /\ UNCHANGED <<pushedSeq, dropped, discarded, writtenSeq, finished, target, covered,
                       stopping, asleep, callerAt, held, issued, sunk>>
    BY <1>2 DEF WorkerTake
  <2>2. /\ queue' \in Seq(Record)
        /\ Len(queue') = Len(queue) - 1
        /\ Len(queue) \in Nat /\ Len(queue) >= 1
    BY <2>1
  <2>3. \A i \in 1..Len(queue') : queue'[i] = queue[i + 1]
    BY <2>1, <2>2
  <2>4. /\ inFlight' \in Seq(Record) /\ Len(inFlight') = 1
        /\ DOMAIN inFlight' = {1} /\ inFlight'[1] = queue[1] /\ queue[1] \in Record
    BY <2>1, <2>2
  <2>5. DOMAIN queue = 1..Len(queue) /\ DOMAIN queue' = 1..Len(queue')
    BY <2>1, <2>2
  <2>6. inFlight = <<>> /\ Len(inFlight) = 0 /\ Recs(inFlight) = {}
    BY <2>1 DEF Recs
  <2>7. Recs(queue) \subseteq Recs(queue') \cup Recs(inFlight')
    <3> SUFFICES ASSUME NEW i \in 1..Len(queue)
                 PROVE  queue[i] \in Recs(queue') \cup Recs(inFlight')
      BY <2>5 DEF Recs
    <3>1. CASE i = 1
      BY <3>1, <2>4 DEF Recs
    <3>2. CASE i # 1
      <4>1. i - 1 \in 1..Len(queue') /\ queue'[i - 1] = queue[i]
        BY <3>2, <2>2, <2>3
      <4> QED BY <4>1, <2>5, Zenon DEF Recs
    <3> QED BY <3>1, <3>2
  <2>8. TypeOK'
    BY <2>1, <2>2, <2>4
  <2>9. SeqInv'
    BY <2>1, <2>2, <2>4, <2>6, Lengths DEF SeqInv
  <2>10. IdInv'
    <3>1. \A i \in 1..Len(queue) : queue[i].id <= issued
      BY <2>5 DEF IdInv
    <3>2. \A i \in 1..Len(queue') : i + 1 \in 1..Len(queue)
      BY <2>2
    <3>3. 1 \in 1..Len(queue)
      BY <2>2
    <3> QED BY <2>1, <2>3, <2>4, <2>5, <3>1, <3>2, <3>3 DEF IdInv
  <2>11. WorkerInv'
    BY <2>1 DEF WorkerInv
  <2>12. FlushInv'
    <3> SUFFICES ASSUME NEW d \in Callers, callerAt[d] = "flush"
                 PROVE  /\ covered[d] \subseteq
                              sunk \cup discarded \cup Recs(queue') \cup Recs(inFlight')
                        /\ \A i \in DOMAIN queue' : queue'[i] \in covered[d]
                              => writtenSeq + Len(inFlight') + i <= target[d]
                        /\ \A i \in DOMAIN inFlight' :
                              inFlight'[i] \in covered[d] => writtenSeq + 1 <= target[d]
      BY <2>1, Zenon DEF FlushInv
    <3>1. /\ covered[d] \subseteq
                sunk \cup discarded \cup Recs(queue) \cup Recs(inFlight)
          /\ \A i \in DOMAIN queue :
                queue[i] \in covered[d] => writtenSeq + Len(inFlight) + i <= target[d]
      BY DEF FlushInv
    <3>2. covered[d] \subseteq sunk \cup discarded \cup Recs(queue') \cup Recs(inFlight')
      BY <3>1, <2>6, <2>7
    <3>3. writtenSeq \in Nat
      OBVIOUS
    <3>4. ASSUME NEW i \in 1..Len(queue'), queue'[i] \in covered[d]
          PROVE  writtenSeq + Len(inFlight') + i <= target[d]
      <4>1. i + 1 \in 1..Len(queue) /\ queue[i + 1] \in covered[d]
        BY <3>4, <2>2, <2>3
      <4>2. writtenSeq + 0 + (i + 1) <= target[d]
        BY <4>1, <3>1, <2>5, <2>6, Zenon
      <4> QED BY <4>2, <2>4, <3>3, target[d] \in Nat
    <3>5. queue[1] \in covered[d] => writtenSeq + 1 <= target[d]
      <4>1. 1 \in DOMAIN queue
        BY <2>2, <2>5
      <4>2. queue[1] \in covered[d] => writtenSeq + 0 + 1 <= target[d]
        BY <4>1, <3>1, <2>6
      <4> QED BY <4>2, <3>3
    <3> QED BY <3>2, <3>4, <3>5, <2>4, <2>5
  <2> QED BY <2>8, <2>9, <2>10, <2>11, <2>12
<1>3. CASE WorkerSink
  <2>1. Recs(inFlight) \subseteq Record
    <3>1. inFlight \in Seq(Record)
      OBVIOUS
    <3> QED BY ONLY <3>1 DEF Recs
  <2> USE <1>3 DEF WorkerSink
  <2>2. TypeOK'
    BY <2>1
  <2>3. SeqInv' /\ IdInv' /\ WorkerInv'
    BY Zenon DEF SeqInv, IdInv, WorkerInv
  <2>4. FlushInv'
    BY Zenon DEF FlushInv
  <2> QED BY <2>2, <2>3, <2>4
<1>4. CASE WorkerCount
  <2>1. /\ workerAt = "count" /\ workerAt' = "wait"
        /\ writtenSeq' = writtenSeq + 1
        /\ inFlight' = <<>> /\ asleep' = {}
        /\ UNCHANGED <<queue, pushedSeq, dropped, discarded, finished, target, covered,
                       stopping, callerAt, held, issued, sunk>>
    BY <1>4 DEF WorkerCount, NotifyAll
  <2>2. /\ Len(inFlight) = 1 /\ Recs(inFlight) \subseteq sunk
        /\ inFlight' \in Seq(Record) /\ Len(inFlight') = 0 /\ DOMAIN inFlight' = {}
    BY <2>1 DEF WorkerInv
  <2>3. TypeOK'
    BY <2>1, <2>2
  <2>4. SeqInv'
    BY <2>1, <2>2, Lengths DEF SeqInv
  <2>5. IdInv' /\ WorkerInv'
    BY <2>1, <2>2 DEF IdInv, WorkerInv
  <2>6. FlushInv'
    BY <2>1, <2>2, Lengths DEF FlushInv
  <2> QED BY <2>3, <2>4, <2>5, <2>6
<1>5. CASE WorkerFinish
  BY <1>5 DEF WorkerFinish, NotifyAll, SeqInv, IdInv, WorkerInv, FlushInv
<1> QED BY <1>1, <1>2, <1>3, <1>4, <1>5, Zenon DEF WorkerStep

\* Every step preserves the inductive invariant.
LEMMA NextIInv == IInv /\ [Next]_vars => IInv'
<1> SUFFICES ASSUME IInv, [Next]_vars PROVE IInv'
  OBVIOUS
<1>1. CASE Stop
  BY <1>1, Zenon DEF Stop, NotifyAll, queueVars, workerVars, flushVars,
              IInv, TypeOK, SeqInv, IdInv, WorkerInv, FlushInv
<1>2. CASE SpuriousWakeup
  BY <1>2, Zenon DEF SpuriousWakeup, queueVars, workerVars, flushVars,
              IInv, TypeOK, SeqInv, IdInv, WorkerInv, FlushInv
<1>3. CASE UNCHANGED vars
  BY <1>3, Zenon DEF vars, IInv, TypeOK, SeqInv, IdInv, WorkerInv, FlushInv
<1> QED BY <1>1, <1>2, <1>3, WriteIInv, CallerIInv, WorkerIInv DEF Next

\* IInv holds after any number of steps of callers, worker and owner.
LEMMA AlwaysIInv == Spec => []IInv
  BY InitIInv, NextIInv, PTL DEF Spec

\* AsyncLogQueue keeps its types, and queue_ never outgrows Options::capacity,
\* for any number of callers and any capacity.
THEOREM TypeCorrect == Spec => []TypeOK
<1>1. IInv => TypeOK
  BY DEF IInv
<1> QED BY <1>1, AlwaysIInv, PTL

\* When WorkerLoop has set finished_, nothing is left in queue_ or in flight:
\* Stop drains.
THEOREM DrainsOnStop == Spec => []StopDrains
<1>1. IInv => StopDrains
  BY DEF IInv, WorkerInv, StopDrains, Pending, Recs
<1> QED BY <1>1, AlwaysIInv, PTL

\* When Flush returns, every record that was queued or in flight at its call
\* has been handed to the sink or was overwritten by Push.
THEOREM FlushIsABarrier == Spec => FlushCoversItsCall
<1> DEFINE A == \A c \in Callers : callerAt[c] = "flush" /\ callerAt'[c] = "run"
                   => covered[c] \subseteq sunk \cup discarded
<1>1. IInv /\ [Next]_vars => [A]_vars
  <2> SUFFICES ASSUME IInv, Next, NEW c \in Callers,
                      callerAt[c] = "flush", callerAt'[c] = "run"
               PROVE  covered[c] \subseteq sunk \cup discarded
    OBVIOUS
  <2>1. FlushReturn(c)
    <3>1. callerAt \in [Callers -> {"run", "direct", "flush"}]
      BY DEF IInv, TypeOK
    <3>2. ASSUME NEW d \in Callers, NEW l \in Levels, Write(d, l)
          PROVE  FALSE
      BY <3>1, <3>2 DEF Write
    <3>3. ASSUME NEW d \in Callers,
                 \/ WriteNow(d) \/ FlushCall(d) \/ FlushNothing(d)
                 \/ FlushReturn(d) \/ FlushSleepAgain(d)
          PROVE  FlushReturn(c)
      BY <3>1, <3>3 DEF WriteNow, FlushCall, FlushNothing, FlushReturn, FlushSleepAgain, vars
    <3>4. ~(WorkerStep \/ Stop \/ SpuriousWakeup)
      BY DEF WorkerStep, WorkerSleep, WorkerTake, WorkerSink, WorkerCount, WorkerFinish,
             Stop, SpuriousWakeup
    <3> QED BY <3>2, <3>3, <3>4 DEF Next
  <2>2. /\ covered[c] \subseteq sunk \cup discarded \cup Recs(queue) \cup Recs(inFlight)
        /\ \A i \in DOMAIN queue :
              queue[i] \in covered[c] => writtenSeq + Len(inFlight) + i <= target[c]
        /\ \A i \in DOMAIN inFlight :
              inFlight[i] \in covered[c] => writtenSeq + 1 <= target[c]
    BY DEF IInv, FlushInv
  <2>3. CASE writtenSeq >= target[c]
    <3>1. TypeOK
      BY DEF IInv
    <3>2. \A i \in DOMAIN queue : queue[i] \notin covered[c]
      BY <2>2, <2>3, <3>1, Lengths
    <3>3. \A i \in DOMAIN inFlight : inFlight[i] \notin covered[c]
      BY <2>2, <2>3, <3>1, Lengths
    <3> QED BY <2>2, <3>2, <3>3 DEF Recs
  <2>4. CASE finished
    <3>1. queue = <<>> /\ workerAt = "done"
      BY <2>4 DEF IInv, WorkerInv
    <3>2. inFlight = <<>>
      BY <3>1 DEF IInv, TypeOK
    <3> QED BY <2>2, <3>1, <3>2 DEF Recs
  <2> QED BY <2>1, <2>3, <2>4 DEF FlushReturn, FlushDone
<1> QED BY <1>1, AlwaysIInv, PTL DEF Spec, FlushCoversItsCall

----------------------------------------------------------------------------
(* AsyncLogQueue implements LogContract.  The invariant is strengthened by *)
(* UInv: a record is in one place only, so that what leaves its place is   *)
(* waiting nowhere else.                                                   *)

\* A caller holds a record exactly while it must write it itself.
HeldInv ==
    \A c \in Callers :
        /\ Len(held[c]) = IF callerAt[c] = "direct" THEN 1 ELSE 0
        /\ \A r \in Recs(held[c]) : r.id <= issued

\* No record is in the queue twice, or in two of the queue, the worker and the callers.
UniqueInv ==
    /\ \A i, j \in DOMAIN queue : queue[i] = queue[j] => i = j
    /\ Recs(queue) \cap Recs(inFlight) = {}
    /\ \A c \in Callers : Recs(held[c]) \cap (Recs(queue) \cup Recs(inFlight)) = {}
    /\ \A c, d \in Callers : c # d => Recs(held[c]) \cap Recs(held[d]) = {}

UInv == IInv /\ HeldInv /\ UniqueInv

\* The records of a sequence of none or one.
LEMMA RecsOf ==
  /\ Recs(<<>>) = {}
  /\ \A r : Recs(<<r>>) = {r}
  BY DEF Recs

\* A sequence of length one is its first element.
LEMMA OneRec ==
  ASSUME NEW s \in Seq(Record), Len(s) = 1
  PROVE  s[1] \in Record /\ Recs(s) = {s[1]}
  BY DEF Recs

\* A full queue holds as many records as it has room for.
LEMMA FullQueue ==
  ASSUME TypeOK, UniqueInv, Len(queue) >= Capacity
  PROVE  Contract!Full
<1>1. queue \in Seq(Record) /\ Len(queue) = Capacity /\ Capacity \in Nat
  <2>1. Len(queue) \in Nat /\ Capacity \in Nat
    BY Lengths, ConstantsAssumption
  <2>2. queue \in Seq(Record) /\ Len(queue) <= Capacity
    BY DEF TypeOK
  <2> QED BY <2>1, <2>2
<1>2. DOMAIN queue = 1..Capacity
  BY <1>1
<1>3. queue \in [1..Capacity -> Pending]
  BY <1>1, <1>2 DEF Pending, Recs
<1>4. \A i, j \in 1..Capacity : queue[i] = queue[j] => i = j
  BY <1>2 DEF UniqueInv
<1> QED
  BY <1>3, <1>4 DEF Contract!Full

\* The invariant at the start.
LEMMA InitUInv == Init => UInv
<1> SUFFICES ASSUME Init PROVE UInv
  OBVIOUS
<1>1. IInv
  BY InitIInv
<1>2. \A c \in Callers : held[c] = <<>> /\ Recs(held[c]) = {} /\ callerAt[c] = "run"
  BY RecsOf DEF Init
<1>3. Recs(queue) = {} /\ Recs(inFlight) = {} /\ DOMAIN queue = {}
  BY RecsOf DEF Init
<1> QED
  BY <1>1, <1>2, <1>3 DEF UInv, HeldInv, UniqueInv

----------------------------------------------------------------------------
(* The steps: each keeps the invariant and is a step of the contract.      *)

\* Push, and what its caller does about a refusal.
LEMMA WriteStep ==
  ASSUME UInv, NEW c \in Callers, NEW l \in Levels, Write(c, l)
  PROVE  HeldInv' /\ UniqueInv' /\ Contract!ContractNext
<1> DEFINE rec == [id |-> issued + 1, level |-> l]
<1>1. rec \in Record /\ rec.id = issued + 1 /\ rec.level = l /\ issued \in Nat
        /\ issued' = issued + 1 /\ l \in 0..5
  BY ConstantsAssumption DEF UInv, IInv, TypeOK, Write, Record
<1>2. /\ UNCHANGED <<workerAt, inFlight, sunk>>
      /\ callerAt[c] = "run"
  BY DEF Write, workerVars
<1>3. /\ rec \notin Recs(queue) /\ rec \notin Recs(inFlight)
      /\ \A d \in Callers : rec \notin Recs(held[d])
  <2>1. \A r \in Recs(queue) \cup Recs(inFlight) : r.id <= issued
    BY DEF UInv, IInv, IdInv, Recs
  <2>2. \A d \in Callers : \A r \in Recs(held[d]) : r.id <= issued
    BY DEF UInv, HeldInv
  <2>3. ~(issued + 1 <= issued)
    BY <1>1
  <2> QED BY <1>1, <2>1, <2>2, <2>3
<1>4. \A d \in Callers : \A r \in Recs(held[d]) : r.id <= issued'
  <2>1. \A d \in Callers : \A r \in Recs(held[d]) : r.id <= issued /\ r \in Record
    BY DEF UInv, HeldInv, IInv, TypeOK, Recs
  <2> QED BY <1>1, <2>1 DEF Record
<1>5. TypeOK /\ queue \in Seq(Record) /\ held \in [Callers -> Seq(Record)]
        /\ callerAt \in [Callers -> {"run", "direct", "flush"}]
  BY DEF UInv, IInv, TypeOK
<1>6. SUFFICES HeldInv' /\ UniqueInv' /\ Contract!Issue(rec)
  BY <1>1 DEF Contract!ContractNext
<1>7. CASE Accept(rec) /\ UNCHANGED <<callerAt, held>>
  <2>1. queue' = Append(queue, rec) /\ UNCHANGED <<dropped, discarded, callerAt, held>>
    BY <1>7 DEF Accept
  <2> HIDE DEF rec
  <2>2. /\ Len(queue) \in Nat /\ DOMAIN queue = 1..Len(queue)
        /\ DOMAIN queue' = 1..(Len(queue) + 1)
        /\ \A i \in 1..Len(queue) : queue'[i] = queue[i]
        /\ queue'[Len(queue) + 1] = rec
    BY ONLY <1>1, <1>5, <2>1
  <2>3. Recs(queue') = Recs(queue) \cup {rec}
    BY ONLY <2>2 DEF Recs
  <2>4. UniqueInv'
    <3>1. \A i \in 1..Len(queue) : queue[i] # rec
      BY <1>3, <2>2 DEF Recs
    <3>2. \A i, j \in DOMAIN queue : queue[i] = queue[j] => i = j
      BY DEF UInv, UniqueInv
    <3>3. \A i, j \in DOMAIN queue' : queue'[i] = queue'[j] => i = j
      BY ONLY <2>2, <3>1, <3>2
    <3>4. Recs(queue') \cap Recs(inFlight) = {}
      BY <1>3, <2>3 DEF UInv, UniqueInv
    <3>5. \A d \in Callers : Recs(held[d]) \cap (Recs(queue') \cup Recs(inFlight)) = {}
      BY <1>3, <2>3 DEF UInv, UniqueInv
    <3>6. \A d, e \in Callers : d # e => Recs(held[d]) \cap Recs(held[e]) = {}
      BY DEF UInv, UniqueInv
    <3> QED BY <1>2, <2>1, <3>3, <3>4, <3>5, <3>6, Zenon DEF UniqueInv
  <2>5. HeldInv'
    BY <1>4, <2>1 DEF UInv, HeldInv
  <2>6. Pending' = Pending \cup {rec}
    BY <1>2, <2>1, <2>3 DEF Pending
  <2> QED BY <1>1, <1>2, <2>1, <2>4, <2>5, <2>6 DEF Contract!Issue
<1>8. CASE Replace(rec) /\ UNCHANGED <<callerAt, held>>
  <2>1. PICK k \in Victims(rec) : /\ queue' = [queue EXCEPT ![k] = rec]
                                  /\ discarded' = discarded \cup {queue[k]}
    BY <1>8, Zenon DEF Replace
  <2>2. /\ Len(queue) >= Capacity
        /\ dropped' = dropped + 1 /\ UNCHANGED <<callerAt, held>>
        /\ IsProtectedLevel(rec.level)
    BY <1>8 DEF Replace
  <2>3. ~Contract!MayBeLost(rec)
    BY <1>1, <2>2 DEF IsProtectedLevel, Contract!MayBeLost
  <2>4. k \in DOMAIN queue /\ ~IsProtectedLevel(queue[k].level)
    BY <2>1 DEF Victims
  <2> HIDE DEF rec
  <2>5. queue[k] \in Record /\ queue[k] \in Recs(queue)
    BY <1>5, <2>4 DEF Recs
  <2>6. Contract!MayBeLost(queue[k])
    BY <2>4, <2>5 DEF IsProtectedLevel, Contract!MayBeLost, Record
  <2>7. /\ DOMAIN queue' = DOMAIN queue
        /\ \A i \in DOMAIN queue : queue'[i] = IF i = k THEN rec ELSE queue[i]
    BY <1>5, <2>1
  <2>8. \A i, j \in DOMAIN queue : queue[i] = queue[j] => i = j
    BY DEF UInv, UniqueInv
  <2>9. Recs(queue') = (Recs(queue) \ {queue[k]}) \cup {rec}
    BY ONLY <2>4, <2>7, <2>8 DEF Recs
  <2>10. UniqueInv'
    <3>1. \A i \in DOMAIN queue : queue[i] # rec
      BY <1>3 DEF Recs
    <3>2. \A i, j \in DOMAIN queue' : queue'[i] = queue'[j] => i = j
      BY ONLY <2>4, <2>7, <2>8, <3>1
    <3>3. Recs(queue') \cap Recs(inFlight) = {}
      BY <1>3, <2>9 DEF UInv, UniqueInv
    <3>4. \A d \in Callers : Recs(held[d]) \cap (Recs(queue') \cup Recs(inFlight)) = {}
      BY <1>3, <2>9 DEF UInv, UniqueInv
    <3>5. \A d, e \in Callers : d # e => Recs(held[d]) \cap Recs(held[e]) = {}
      BY DEF UInv, UniqueInv
    <3> QED BY <1>2, <2>2, <3>2, <3>3, <3>4, <3>5, Zenon DEF UniqueInv
  <2>11. HeldInv'
    BY <1>4, <2>2 DEF UInv, HeldInv
  <2>12. Pending' = (Pending \ {queue[k]}) \cup {rec} /\ queue[k] \in Pending
    <3>1. queue[k] \notin Recs(inFlight) /\ \A d \in Callers : queue[k] \notin Recs(held[d])
      BY <2>5 DEF UInv, UniqueInv
    <3> QED BY <1>2, <2>2, <2>5, <2>9, <3>1 DEF Pending
  <2>13. Contract!Full
    BY <1>5, <2>2, FullQueue DEF UInv
  <2> QED BY <1>1, <1>2, <2>1, <2>2, <2>3, <2>6, <2>10, <2>11, <2>12, <2>13 DEF Contract!Issue
<1>9. CASE DropIncoming(rec) /\ UNCHANGED <<callerAt, held>>
  <2>1. /\ Len(queue) >= Capacity /\ ~IsProtectedLevel(rec.level)
        /\ dropped' = dropped + 1 /\ discarded' = discarded \cup {rec}
        /\ UNCHANGED <<queue, callerAt, held>>
    BY <1>9 DEF DropIncoming
  <2>2. Contract!MayBeLost(rec)
    BY <1>1, <2>1 DEF IsProtectedLevel, Contract!MayBeLost
  <2> HIDE DEF rec
  <2>3. UniqueInv'
    BY <1>2, <2>1, Zenon DEF UInv, UniqueInv
  <2>4. HeldInv'
    BY <1>4, <2>1 DEF UInv, HeldInv
  <2>5. Pending' = Pending
    BY <1>2, <2>1 DEF Pending
  <2>6. Contract!Full
    BY <1>5, <2>1, FullQueue DEF UInv
  <2> QED BY <1>1, <1>2, <2>1, <2>2, <2>3, <2>4, <2>5, <2>6 DEF Contract!Issue
<1>10. CASE /\ Refuse(rec)
            /\ callerAt' = [callerAt EXCEPT ![c] = "direct"]
            /\ held' = [held EXCEPT ![c] = <<rec>>]
  <2>1. UNCHANGED <<queue, dropped, discarded>>
    BY <1>10 DEF Refuse, queueVars
  <2> HIDE DEF rec
  <2>2. held[c] = <<>> /\ Recs(held[c]) = {}
    BY <1>2, <1>5, RecsOf DEF UInv, HeldInv
  <2>3. /\ Recs(held'[c]) = {rec} /\ Len(held'[c]) = 1
        /\ \A d \in Callers : d # c => held'[d] = held[d]
    BY <1>5, <1>10, RecsOf
  <2>4. UniqueInv'
    BY <1>2, <1>3, <2>1, <2>3 DEF UInv, UniqueInv
  <2>5. HeldInv'
    <3>1. callerAt'[c] = "direct" /\ \A d \in Callers : d # c => callerAt'[d] = callerAt[d]
      BY <1>5, <1>10
    <3>2. rec.id <= issued'
      BY <1>1
    <3>3. \A d \in Callers : Len(held[d]) = IF callerAt[d] = "direct" THEN 1 ELSE 0
      BY DEF UInv, HeldInv
    <3>4. \A d \in Callers : Len(held'[d]) = IF callerAt'[d] = "direct" THEN 1 ELSE 0
      BY <2>3, <3>1, <3>3, Zenon
    <3>5. \A d \in Callers : \A r \in Recs(held'[d]) : r.id <= issued'
      BY <1>4, <2>3, <3>2
    <3> QED BY <3>4, <3>5 DEF HeldInv
  <2>6. Pending' = Pending \cup {rec}
    BY <1>2, <2>1, <2>2, <2>3 DEF Pending
  <2> QED BY <1>1, <1>2, <2>1, <2>4, <2>5, <2>6 DEF Contract!Issue
<1> QED BY <1>7, <1>8, <1>9, <1>10 DEF Write

\* The synchronous write after a refusal delivers the record the caller holds.
LEMMA WriteNowStep ==
  ASSUME UInv, NEW c \in Callers, WriteNow(c)
  PROVE  HeldInv' /\ UniqueInv' /\ Contract!ContractNext
<1>1. /\ callerAt[c] = "direct"
      /\ held' = [held EXCEPT ![c] = <<>>]
      /\ callerAt' = [callerAt EXCEPT ![c] = "run"]
      /\ sunk' = sunk \cup Recs(held[c])
      /\ UNCHANGED <<queue, workerAt, inFlight, issued, discarded, dropped>>
  BY DEF WriteNow, queueVars, workerVars
<1>2. held \in [Callers -> Seq(Record)] /\ callerAt \in [Callers -> {"run", "direct", "flush"}]
  BY DEF UInv, IInv, TypeOK
<1>3. Recs(held[c]) = {held[c][1]}
  BY <1>1, <1>2, OneRec DEF UInv, HeldInv
<1>4. /\ Recs(held'[c]) = {} /\ Len(held'[c]) = 0 /\ callerAt'[c] = "run"
      /\ \A d \in Callers : d # c => held'[d] = held[d] /\ callerAt'[d] = callerAt[d]
  BY <1>1, <1>2, RecsOf
<1>5. HeldInv'
  <2>1. \A d \in Callers : Len(held'[d]) = IF callerAt'[d] = "direct" THEN 1 ELSE 0
    BY <1>4 DEF UInv, HeldInv
  <2>2. \A d \in Callers : \A r \in Recs(held'[d]) : r.id <= issued
    BY <1>4 DEF UInv, HeldInv
  <2> QED BY <1>1, <2>1, <2>2 DEF HeldInv
<1>6. UniqueInv'
  BY <1>1, <1>4, Zenon DEF UInv, UniqueInv
<1>7. held[c][1] \in Pending /\ Pending' = Pending \ {held[c][1]}
  <2>1. /\ held[c][1] \notin Recs(queue) \cup Recs(inFlight)
        /\ \A d \in Callers : d # c => held[c][1] \notin Recs(held[d])
    BY <1>3 DEF UInv, UniqueInv
  <2> QED BY <1>1, <1>3, <1>4, <2>1 DEF Pending
<1> QED
  BY <1>1, <1>3, <1>5, <1>6, <1>7 DEF Contract!ContractNext, Contract!Deliver

\* The worker's sink delivers the record in flight; taking and counting it are invisible.
LEMMA WorkerSteps ==
  ASSUME UInv, WorkerStep
  PROVE  HeldInv' /\ UniqueInv' /\ [Contract!ContractNext]_Contract!contractVars
<1>1. CASE WorkerSleep \/ WorkerFinish
  <2>1. /\ UNCHANGED <<queue, inFlight, held, callerAt, issued, sunk, discarded, dropped>>
        /\ workerAt # "sink" /\ workerAt' # "sink"
    BY <1>1 DEF WorkerSleep, WorkerFinish, queueVars, workerVars
  <2> QED BY <2>1, Zenon DEF UInv, HeldInv, UniqueInv, Pending, Contract!contractVars
<1>2. CASE WorkerTake
  <2>1. /\ queue # <<>> /\ queue \in Seq(Record)
        /\ inFlight' = <<Head(queue)>> /\ queue' = Tail(queue)
        /\ workerAt = "wait" /\ workerAt' = "sink"
        /\ UNCHANGED <<held, callerAt, issued, sunk, discarded, dropped>>
    BY <1>2 DEF WorkerTake, UInv, IInv, TypeOK
  <2>2. /\ Len(queue) \in Nat /\ DOMAIN queue = 1..Len(queue) /\ 1 \in DOMAIN queue
        /\ DOMAIN queue' = 1..(Len(queue) - 1)
        /\ \A i \in DOMAIN queue' : queue'[i] = queue[i + 1]
        /\ Head(queue) = queue[1]
    BY ONLY <2>1
  <2>3. \A i, j \in DOMAIN queue : queue[i] = queue[j] => i = j
    BY DEF UInv, UniqueInv
  <2>4. \A i, j \in DOMAIN queue' : queue'[i] = queue'[j] => i = j
    BY ONLY <2>2, <2>3
  <2>5. Recs(inFlight') = {queue[1]}
    BY <2>1, <2>2, RecsOf
  <2>6. queue[1] \notin Recs(queue')
    BY ONLY <2>2, <2>3 DEF Recs
  <2>7. Recs(queue) = Recs(queue') \cup {queue[1]}
    <3>1. \A i \in DOMAIN queue : i = 1 \/ (i - 1 \in DOMAIN queue' /\ queue[i] = queue'[i - 1])
      BY ONLY <2>2
    <3>2. \A i \in DOMAIN queue' : i + 1 \in DOMAIN queue /\ queue'[i] = queue[i + 1]
      BY ONLY <2>2
    <3> QED BY ONLY <2>2, <3>1, <3>2 DEF Recs
  <2>8. UniqueInv'
    <3>1. \A c \in Callers : Recs(held[c]) \cap (Recs(queue') \cup Recs(inFlight')) = {}
      BY <2>5, <2>7 DEF UInv, UniqueInv
    <3>2. \A c, d \in Callers : c # d => Recs(held[c]) \cap Recs(held[d]) = {}
      BY DEF UInv, UniqueInv
    <3>3. Recs(queue') \cap Recs(inFlight') = {}
      BY <2>5, <2>6
    <3> QED BY <2>1, <2>4, <3>1, <3>2, <3>3, Zenon DEF UniqueInv
  <2>9. HeldInv'
    BY <2>1 DEF UInv, HeldInv
  <2>10. Pending' = Pending
    BY <2>1, <2>5, <2>7 DEF Pending
  <2> QED BY <2>1, <2>8, <2>9, <2>10 DEF Contract!contractVars
<1>3. CASE WorkerSink
  <2>1. /\ workerAt = "sink" /\ workerAt' = "count"
        /\ sunk' = sunk \cup Recs(inFlight)
        /\ UNCHANGED <<queue, inFlight, held, callerAt, issued, discarded, dropped>>
    BY <1>3 DEF WorkerSink, queueVars
  <2>2. Recs(inFlight) = {inFlight[1]}
    BY <2>1, OneRec DEF UInv, IInv, TypeOK
  <2>3. HeldInv' /\ UniqueInv'
    BY <2>1, Zenon DEF UInv, HeldInv, UniqueInv
  <2>4. inFlight[1] \in Pending /\ Pending' = Pending \ {inFlight[1]}
    <3>1. /\ inFlight[1] \notin Recs(queue)
          /\ \A c \in Callers : inFlight[1] \notin Recs(held[c])
      BY <2>2 DEF UInv, UniqueInv
    <3> QED BY <2>1, <2>2, <3>1 DEF Pending
  <2> QED
    BY <2>1, <2>2, <2>3, <2>4 DEF Contract!ContractNext, Contract!Deliver
<1>4. CASE WorkerCount
  <2>1. /\ workerAt = "count" /\ workerAt' = "wait" /\ inFlight' = <<>>
        /\ UNCHANGED <<queue, held, callerAt, issued, sunk, discarded, dropped>>
    BY <1>4 DEF WorkerCount, queueVars
  <2>2. Recs(inFlight') = {}
    BY <2>1, RecsOf
  <2>3. UniqueInv'
    BY <2>1, <2>2, Zenon DEF UInv, UniqueInv
  <2>4. HeldInv'
    BY <2>1 DEF UInv, HeldInv
  <2>5. Pending' = Pending
    BY <2>1 DEF Pending
  <2> QED BY <2>1, <2>3, <2>4, <2>5 DEF Contract!contractVars
<1> QED BY <1>1, <1>2, <1>3, <1>4 DEF WorkerStep

\* Flush, Stop and a wakeup move no record.
LEMMA OtherSteps ==
  ASSUME UInv,
         \/ \E c \in Callers : \/ FlushCall(c) \/ FlushNothing(c)
                               \/ FlushReturn(c) \/ FlushSleepAgain(c)
         \/ Stop \/ SpuriousWakeup \/ UNCHANGED vars
  PROVE  HeldInv' /\ UniqueInv' /\ UNCHANGED Contract!contractVars
<1>1. /\ UNCHANGED <<queue, workerAt, inFlight, held, issued, sunk, discarded, dropped>>
      /\ \A d \in Callers : callerAt'[d] = "direct" <=> callerAt[d] = "direct"
  BY Zenon DEF UInv, IInv, TypeOK, FlushCall, FlushNothing, FlushReturn, FlushSleepAgain, Stop,
         SpuriousWakeup, vars, queueVars, workerVars
<1>2. HeldInv' /\ UniqueInv'
  BY <1>1, Zenon DEF UInv, HeldInv, UniqueInv
<1>3. Pending' = Pending
  BY <1>1 DEF Pending
<1> QED
  BY <1>1, <1>2, <1>3, Zenon DEF Contract!contractVars

\* AsyncLogQueue with Logger::Write implements the Logger's contract: every step of a
\* caller, of the worker or of the owner is a step of LogContract or changes nothing there.
THEOREM QueueKeepsContract == Spec => KeepsContract
<1>1. Init => Contract!ContractInit
  BY RecsOf DEF Init, Contract!ContractInit, Pending
<1>2. UInv /\ [Next]_vars => UInv' /\ [Contract!ContractNext]_Contract!contractVars
  <2> SUFFICES ASSUME UInv, [Next]_vars
               PROVE  UInv' /\ [Contract!ContractNext]_Contract!contractVars
    OBVIOUS
  <2>1. IInv'
    BY NextIInv DEF UInv
  <2>2. HeldInv' /\ UniqueInv' /\ [Contract!ContractNext]_Contract!contractVars
    BY WriteStep, WriteNowStep, WorkerSteps, OtherSteps DEF Next
  <2> QED BY <2>1, <2>2 DEF UInv
<1> QED
  BY InitUInv, <1>1, <1>2, PTL DEF Spec, KeepsContract, Contract!ContractSpec

----------------------------------------------------------------------------
(* The contract's accounting, for any number of records.                   *)

Finite == INSTANCE FiniteSetTheorems

\* The library's finite sets are those of the contract.
LEMMA SameFinite ==
  ASSUME NEW S
  PROVE  /\ Finite!IsFiniteSet(S) <=> IsFiniteSet(S)
         /\ Finite!Cardinality(S) = Cardinality(S)
  BY DEF Finite!IsFiniteSet, IsFiniteSet, Finite!Cardinality, Cardinality

\* The next record's identity is new, and the dropped ones can be counted.
ContractInv ==
    /\ count \in Nat
    /\ IsFiniteSet(lost)
    /\ \A r \in waiting \cup written \cup lost : r.id \in 1..count
    /\ Accounted

\* Nothing was issued.
LEMMA ContractStarts == ContractInit => ContractInv
<1> SUFFICES ASSUME ContractInit PROVE ContractInv
  OBVIOUS
<1>1. IsFiniteSet(lost) /\ drops = Cardinality(lost)
  BY Finite!FS_EmptySet, SameFinite DEF ContractInit
<1>2. 1..count = {} /\ count \in Nat
  BY DEF ContractInit
<1> QED
  BY <1>1, <1>2 DEF ContractInv, Accounted, ContractInit

\* A dropped record is counted once.
LEMMA OneMoreLost ==
  ASSUME ContractInv, NEW r, r \notin lost, lost' = lost \cup {r}, drops' = drops + 1
  PROVE  IsFiniteSet(lost') /\ drops' = Cardinality(lost')
  BY Finite!FS_AddElement, SameFinite, Zenon DEF ContractInv, Accounted

\* A new record, whatever becomes of it.
LEMMA IssueAccounts ==
  ASSUME ContractInv, NEW level \in 0..5, Issue([id |-> count + 1, level |-> level])
  PROVE  ContractInv'
<1> DEFINE rec == [id |-> count + 1, level |-> level]
<1>1. rec.id = count + 1 /\ count \in Nat /\ count' = count + 1 /\ written' = written
  BY DEF ContractInv, Issue
<1>2. rec \notin waiting \cup written \cup lost
  BY <1>1 DEF ContractInv
<1>3. Issue(rec)
  OBVIOUS
<1> HIDE DEF rec
<1>4. 1..count' = 1..count \cup {rec.id}
  BY <1>1
<1>5. ASSUME waiting' \cup written' \cup lost' = waiting \cup written \cup lost \cup {rec}
      PROVE  /\ count' \in Nat
             /\ \A r \in waiting' \cup written' \cup lost' : r.id \in 1..count'
             /\ 1..count' = {r.id : r \in waiting' \cup written' \cup lost'}
  <2>1. 1..count = {r.id : r \in waiting \cup written \cup lost}
    BY Zenon DEF ContractInv, Accounted
  <2>2. \A r \in waiting \cup written \cup lost : r.id \in 1..count
    BY DEF ContractInv
  <2> QED BY <1>1, <1>4, <1>5, <2>1, <2>2, SMTT(30)
<1>6. CASE waiting' = waiting \cup {rec} /\ UNCHANGED <<lost, drops>>
  BY <1>1, <1>2, <1>5, <1>6, Zenon DEF ContractInv, Accounted
<1>7. CASE MayBeLost(rec) /\ lost' = lost \cup {rec} /\ drops' = drops + 1 /\ UNCHANGED waiting
  BY <1>1, <1>2, <1>5, <1>7, OneMoreLost, Zenon DEF ContractInv, Accounted
<1>8. ASSUME NEW v \in waiting, MayBeLost(v), waiting' = (waiting \ {v}) \cup {rec},
             lost' = lost \cup {v}, drops' = drops + 1
      PROVE  ContractInv'
  <2>1. v \notin lost
    BY Zenon DEF ContractInv, Accounted
  <2> QED BY <1>1, <1>2, <1>5, <1>8, <2>1, OneMoreLost, ZenonT(40) DEF ContractInv, Accounted
<1> QED
  BY <1>3, <1>6, <1>7, <1>8 DEF Issue

\* A waiting record is written.
LEMMA DeliverAccounts ==
  ASSUME ContractInv, Deliver
  PROVE  ContractInv'
<1>1. PICK rec \in waiting : waiting' = waiting \ {rec} /\ written' = written \cup {rec}
  BY DEF Deliver
<1>2. UNCHANGED <<count, lost, drops>>
  BY DEF Deliver
<1>3. waiting' \cup written' \cup lost' = waiting \cup written \cup lost
  BY <1>1, <1>2
<1> QED
  BY <1>1, <1>2, <1>3, Zenon DEF ContractInv, Accounted

\* Whoever keeps the contract loses no record silently, writes none twice, counts what it
\* drops and drops no Error or Critical record, for any room and any number of records.
THEOREM ContractAccounts == ContractSpec => []Accounted
<1>1. ContractInv /\ [ContractNext]_contractVars => ContractInv'
  <2>1. ContractInv /\ UNCHANGED contractVars => ContractInv'
    BY DEF ContractInv, Accounted, contractVars
  <2> QED BY <2>1, IssueAccounts, DeliverAccounts DEF ContractNext
<1>2. ContractInv => Accounted
  BY DEF ContractInv
<1> QED
  BY ContractStarts, <1>1, <1>2, PTL DEF ContractSpec
=============================================================================
