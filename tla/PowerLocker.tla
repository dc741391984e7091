----------------------------- MODULE PowerLocker -----------------------------
(***************************************************************************)
(* The reference-counted power requests (power_locker.cpp, class           *)
(* PowerLocker).  The system's side is the set of open request handles and *)
(* the requests set on them; creating, setting and clearing may fail.      *)
(***************************************************************************)
EXTENDS Naturals

CONSTANTS
    LockTypes,    \* PowerLockType
    MaxLocks,     \* bound: locks held on one type at a time
    Handles       \* request handles; one that was closed may be given out again

ASSUME LockerAssumption == MaxLocks \in Nat /\ 0 \notin Handles

VARIABLES
    lockCount,    \* states_[type].count
    lockHandle,   \* states_[type].handle, 0 when there is none
    openHandles,  \* the system's side: open request handles
    requests      \* the system's side: requests in force, <<handle, type>>

lockerVars == <<lockCount, lockHandle, openHandles, requests>>

LockerInit ==
    /\ lockCount = [t \in LockTypes |-> 0]
    /\ lockHandle = [t \in LockTypes |-> 0]
    /\ openHandles = {}
    /\ requests = {}

\* CreateRequest or SetRequest fails; after a failed SetRequest the new handle is
\* closed again.
CreateFails == UNCHANGED lockerVars

AcquireLock(t, ok) ==
    \/ /\ lockCount[t] > 0
       /\ ok
       /\ lockCount' = [lockCount EXCEPT ![t] = @ + 1]
       /\ UNCHANGED <<lockHandle, openHandles, requests>>
    \/ /\ lockCount[t] = 0
       /\ ~ok
       /\ CreateFails
    \/ /\ lockCount[t] = 0
       /\ ok
       /\ \E h \in Handles \ openHandles :
             /\ openHandles' = openHandles \cup {h}
             /\ requests' = requests \cup {<<h, t>>}
             /\ lockHandle' = [lockHandle EXCEPT ![t] = h]
       /\ lockCount' = [lockCount EXCEPT ![t] = 1]

\* CloseRequest cancels whatever is set on the handle.
CloseRequest(h) ==
    /\ openHandles' = openHandles \ {h}
    /\ requests' = {r \in requests : r[1] # h}

\* Mutant of ReleaseLock: a failed ClearRequest does not restore the count.
ReleaseLockForgetting(t, ok) ==
    \/ /\ lockCount[t] = 0
       /\ ok
       /\ UNCHANGED lockerVars
    \/ /\ lockCount[t] > 0
       /\ lockCount' = [lockCount EXCEPT ![t] = @ - 1]
       /\ IF lockCount[t] > 1
          THEN ok /\ UNCHANGED <<lockHandle, openHandles, requests>>
          ELSE \/ ~ok /\ UNCHANGED <<lockHandle, openHandles, requests>>
               \/ /\ ok
                  /\ CloseRequest(lockHandle[t])
                  /\ lockHandle' = [lockHandle EXCEPT ![t] = 0]

ReleaseLock(t, ok) ==
    \/ /\ lockCount[t] = 0
       /\ ok
       /\ UNCHANGED lockerVars
    \/ /\ lockCount[t] > 1
       /\ ok
       /\ lockCount' = [lockCount EXCEPT ![t] = @ - 1]
       /\ UNCHANGED <<lockHandle, openHandles, requests>>
    \/ /\ lockCount[t] = 1
       /\ ~ok                     \* ClearRequest fails: the count is restored
       /\ UNCHANGED lockerVars
    \/ /\ lockCount[t] = 1
       /\ ok
       /\ CloseRequest(lockHandle[t])
       /\ lockCount' = [lockCount EXCEPT ![t] = 0]
       /\ lockHandle' = [lockHandle EXCEPT ![t] = 0]

\* ReleaseAll, also run by the destructor: the outcome of ClearRequest is ignored
\* because closing the handle cancels the request.
LockerReleaseAll ==
    /\ openHandles' = openHandles \ {lockHandle[t] : t \in LockTypes}
    /\ requests' = {r \in requests : r[1] \in openHandles'}
    /\ lockCount' = [t \in LockTypes |-> 0]
    /\ lockHandle' = [t \in LockTypes |-> 0]

LockerNext ==
    \/ \E t \in LockTypes, ok \in BOOLEAN :
          \/ ReleaseLock(t, ok)
          \/ /\ lockCount[t] < MaxLocks
             /\ AcquireLock(t, ok)
    \/ LockerReleaseAll

LockerSpec == LockerInit /\ [][LockerNext]_lockerVars

\* Types of states_ and of the system's side.
LockerTypeOK ==
    /\ lockCount \in [LockTypes -> Nat]
    /\ lockHandle \in [LockTypes -> Handles \cup {0}]
    /\ openHandles \subseteq Handles
    /\ requests \subseteq openHandles \X LockTypes

\* A power request is in force exactly while its type is counted: none is
\* cancelled under a holder, none survives its last release, and the handle that
\* is closed is the one the request was set on.
RequestMatchesCount ==
    /\ requests = {<<lockHandle[t], t>> : t \in {u \in LockTypes : lockCount[u] > 0}}
    /\ \A t \in LockTypes : lockCount[t] = 0 <=> lockHandle[t] = 0

\* No handle stays open without a request: a failed AcquireLock leaves none.
NoDanglingHandle == openHandles = {r[1] : r \in requests}

\* What PowerLocker promises its callers: the system stays awake exactly while a lock is
\* counted, and every open request handle belongs to a counted lock.
RequestsAreOwned == RequestMatchesCount /\ NoDanglingHandle
=============================================================================
