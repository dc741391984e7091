---------------------------- MODULE LogContract ----------------------------
(***************************************************************************)
(* What the asynchronous Logger promises about a record (the contract in   *)
(* logger.hpp): it is written once, or it is dropped and counted, and only *)
(* a record below Error is dropped, only while as many records wait as the *)
(* queue has room for.  Threads, the queue's order and the condition       *)
(* variable are left out: AsyncLogQueue implements this.                   *)
(***************************************************************************)
EXTENDS Naturals, FiniteSets

CONSTANT Room  \* the records that may wait before one is dropped

VARIABLES
    count,     \* the records issued so far
    waiting,   \* taken over, and neither written nor dropped
    written,   \* handed to the sink
    lost,      \* dropped
    drops      \* DroppedCount

contractVars == <<count, waiting, written, lost, drops>>

MayBeLost(rec) == rec.level < 4

ContractInit ==
    /\ count = 0
    /\ waiting = {} /\ written = {} /\ lost = {}
    /\ drops = 0

\* As many records wait as there is room for.
Full == \E slot \in [1..Room -> waiting] : \A i, j \in 1..Room : slot[i] = slot[j] => i = j

\* A caller issues rec, which waits; is dropped; or takes the place of one below Error.
Issue(rec) ==
    /\ count' = count + 1
    /\ \/ /\ waiting' = waiting \cup {rec}
          /\ UNCHANGED <<lost, drops>>
       \/ /\ Full /\ MayBeLost(rec)
          /\ lost' = lost \cup {rec}
          /\ drops' = drops + 1
          /\ UNCHANGED waiting
       \/ /\ Full /\ ~MayBeLost(rec)
          /\ \E v \in waiting :
                /\ MayBeLost(v)
                /\ waiting' = (waiting \ {v}) \cup {rec}
                /\ lost' = lost \cup {v}
          /\ drops' = drops + 1
    /\ UNCHANGED written

Deliver ==
    /\ \E rec \in waiting : /\ waiting' = waiting \ {rec}
                            /\ written' = written \cup {rec}
    /\ UNCHANGED <<count, lost, drops>>

ContractNext ==
    \/ \E level \in 0..5 : Issue([id |-> count + 1, level |-> level])
    \/ Deliver

ContractSpec == ContractInit /\ [][ContractNext]_contractVars

\* Every record issued is written, waiting or dropped, and one of the three only; the
\* drops are counted, and no Error or Critical record is among them.
Accounted ==
    /\ 1..count = {r.id : r \in waiting \cup written \cup lost}
    /\ waiting \cap (written \cup lost) = {} /\ written \cap lost = {}
    /\ drops = Cardinality(lost)
    /\ \A r \in lost : MayBeLost(r)
=============================================================================
