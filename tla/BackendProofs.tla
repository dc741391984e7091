---------------------------- MODULE BackendProofs ----------------------------
(***************************************************************************)
(* The two backends that the policy executor drives, for any games,        *)
(* processes, levels, lock types and handles: PriorityBooster's leases     *)
(* stay in step with processes, handles and boosts, and PowerLocker's      *)
(* requests are in force exactly while their type is counted.              *)
(***************************************************************************)
EXTENDS PriorityBooster, PowerLocker, TLAPS

----------------------------------------------------------------------------
(* PriorityBooster.                                                        *)

\* The games with a lease on a process.
Holders(ls, p) == {g \in GameIds : ls[g] # None /\ ls[g].pid = p}

\* S has n elements: they can be numbered from 1 to n.  What Cardinality says of finite
\* sets, in the form that the steps below use.
Numbering(S, n) ==
    {f \in [1..n -> S] : /\ \A x \in S : \E i \in 1..n : f[i] = x
                         /\ \A i, j \in 1..n : f[i] = f[j] => i = j}
Sized(S, n) == Numbering(S, n) # {}

\* The only class that a valid call raises a process to.
Valid == LevelsAsked \cap 1..MaxLevel

\* The invariant, of leases and a system state that need not be current.
Exact(ls, w) ==
    /\ ls \in [GameIds -> Lease \cup {None}]
    /\ w \in OsType
    /\ \A g \in GameIds : ls[g] # None =>
          {ls[g].born, ls[g].expected} \subseteq {0, w.born[ls[g].pid]}
    /\ \A p \in Pids : Sized(Holders(ls, p), w.handles[p])
    /\ OneLevel =>
          /\ \A g \in GameIds : ls[g] # None =>
                /\ \E l \in Valid : ls[g].target = PriorityLevelToWin32Class[l]
                /\ ls[g].over => ls[g].original = ls[g].target
          /\ \A p \in Pids : w.raised[p] =>
                \E g \in Holders(ls, p) : ls[g].target = w.class[p] /\ ~ls[g].over

\* The empty set has size 0.
LEMMA SizedEmpty == Sized({}, 0)
<1> DEFINE f == [i \in 1..0 |-> 0]
<1>1. 1..0 = {}
  OBVIOUS
<1>2. f \in Numbering({}, 0)
  BY <1>1 DEF Numbering
<1> QED BY <1>2 DEF Sized

\* A set is numbered up to zero exactly when it is empty.
LEMMA SizedZero ==
  ASSUME NEW S, NEW n \in Nat, Sized(S, n)
  PROVE  n = 0 <=> S = {}
<1>1. PICK f : f \in Numbering(S, n)
  BY DEF Sized
<1>2. ASSUME n = 0 PROVE S = {}
  BY <1>1, <1>2 DEF Numbering
<1>3. ASSUME n # 0 PROVE S # {}
  <2>1. 1 \in 1..n
    BY <1>3
  <2> QED BY <2>1, <1>1 DEF Numbering
<1> QED BY <1>2, <1>3

\* A new element makes a set one larger.
LEMMA SizedAdd ==
  ASSUME NEW S, NEW n \in Nat, Sized(S, n), NEW x, x \notin S
  PROVE  Sized(S \cup {x}, n + 1)
<1>1. PICK f : f \in Numbering(S, n)
  BY DEF Sized
<1> DEFINE e == [i \in 1..(n + 1) |-> IF i = n + 1 THEN x ELSE f[i]]
<1>2. \A i \in 1..n : i \in 1..(n + 1) /\ i # n + 1 /\ e[i] = f[i] /\ f[i] \in S
  BY <1>1 DEF Numbering
<1>3. n + 1 \in 1..(n + 1) /\ e[n + 1] = x
  OBVIOUS
<1>4. \A i \in 1..(n + 1) : i = n + 1 \/ i \in 1..n
  OBVIOUS
<1>5. DOMAIN e = 1..(n + 1) /\ e = [i \in 1..(n + 1) |-> e[i]]
  OBVIOUS
<1> HIDE DEF e
<1>6. e \in [1..(n + 1) -> S \cup {x}]
  BY <1>2, <1>3, <1>4, <1>5, Zenon
<1>7. \A y \in S \cup {x} : \E i \in 1..(n + 1) : e[i] = y
  BY <1>1, <1>2, <1>3 DEF Numbering
<1>8. \A i, j \in 1..(n + 1) : e[i] = e[j] => i = j
  BY <1>1, <1>2, <1>3, <1>4 DEF Numbering
<1> QED BY <1>6, <1>7, <1>8, Zenon DEF Numbering, Sized

\* A set with an element is not empty, and without it one smaller.
LEMMA SizedRemove ==
  ASSUME NEW S, NEW n \in Nat, Sized(S, n), NEW x \in S
  PROVE  n > 0 /\ Sized(S \ {x}, n - 1)
<1>1. PICK f : f \in Numbering(S, n)
  BY DEF Sized
<1>2. PICK k \in 1..n : f[k] = x
  BY <1>1 DEF Numbering
<1>3. n > 0
  BY <1>2
\* The last element takes the number of the one that goes.
<1> DEFINE e == [i \in 1..(n - 1) |-> IF i = k THEN f[n] ELSE f[i]]
<1>4. n \in 1..n /\ \A i \in 1..(n - 1) : i \in 1..n /\ i # n
  BY <1>3
<1>5. \A i \in 1..n : i = n \/ i \in 1..(n - 1)
  BY <1>3
<1>6. \A i \in 1..(n - 1) : e[i] = IF i = k THEN f[n] ELSE f[i]
  OBVIOUS
<1>7. DOMAIN e = 1..(n - 1) /\ e = [i \in 1..(n - 1) |-> e[i]]
  OBVIOUS
<1> HIDE DEF e
<1>8. \A i, j \in 1..n : f[i] = f[j] => i = j
  BY <1>1 DEF Numbering
<1>9. \A i \in 1..n : f[i] \in S
  BY <1>1 DEF Numbering
<1>10. \A i \in 1..(n - 1) : e[i] \in S \ {x}
  BY <1>2, <1>4, <1>6, <1>8, <1>9
<1>11. e \in [1..(n - 1) -> S \ {x}]
  BY <1>7, <1>10
<1>12. ASSUME NEW y \in S \ {x} PROVE \E i \in 1..(n - 1) : e[i] = y
  <2>1. PICK i \in 1..n : f[i] = y
    BY <1>1 DEF Numbering
  <2>2. CASE i = n
    <3>1. k \in 1..(n - 1)
      BY <1>2, <1>5, <2>1, <2>2
    <3> QED BY <3>1, <1>6, <2>1, <2>2
  <2>3. CASE i # n
    BY <1>2, <1>5, <1>6, <2>1, <2>3
  <2> QED BY <2>2, <2>3
<1>13. \A i, j \in 1..(n - 1) : e[i] = e[j] => i = j
  BY <1>4, <1>6, <1>8
<1> QED BY <1>3, <1>11, <1>12, <1>13, Zenon DEF Numbering, Sized

\* With one level, all leases have one target.
LEMMA OneTarget ==
  ASSUME NEW ls, NEW w, Exact(ls, w), OneLevel,
         NEW g \in GameIds, NEW h \in GameIds, ls[g] # None, ls[h] # None
  PROVE  ls[g].target = ls[h].target
  BY DEF Exact, OneLevel, Valid

\* Before the first lease nothing is held and nothing is open.
LEMMA InitExact == BoosterInit => Exact(leases, os)
<1> SUFFICES ASSUME BoosterInit PROVE Exact(leases, os)
  OBVIOUS
<1>1. leases \in [GameIds -> Lease \cup {None}]
  BY DEF BoosterInit
<1>2. os \in OsType
  BY BoosterAssumption DEF BoosterInit, OsType, Classes
<1>3. \A p \in Pids : Holders(leases, p) = {}
  BY DEF BoosterInit, Holders
<1>4. \A p \in Pids : Sized(Holders(leases, p), os.handles[p])
  BY <1>3, SizedEmpty DEF BoosterInit
<1>5. \A g \in GameIds : leases[g] = None
  BY DEF BoosterInit
<1>6. \A p \in Pids : ~os.raised[p]
  BY DEF BoosterInit
<1> QED
  BY <1>1, <1>2, <1>4, <1>5, <1>6 DEF Exact

\* The lease of game g goes: one handle of its process is closed, and the process is no
\* longer raised, or another lease has raised it before.
LEMMA LeaseGoes ==
  ASSUME NEW ls, NEW w, Exact(ls, w), NEW g \in GameIds, ls[g] # None,
         NEW v \in OsType,
         v.born = w.born,
         v.handles = [w.handles EXCEPT ![ls[g].pid] = @ - 1],
         \A p \in Pids : p # ls[g].pid => v.class[p] = w.class[p] /\ v.raised[p] = w.raised[p],
         v.raised[ls[g].pid] => /\ w.raised[ls[g].pid]
                                /\ \/ v.class[ls[g].pid] = w.class[ls[g].pid]
                                      /\ w.class[ls[g].pid] # ls[g].target
                                   \/ v.class[ls[g].pid] = ls[g].original /\ ls[g].over
                                      /\ w.class[ls[g].pid] = ls[g].target
  PROVE  Exact([ls EXCEPT ![g] = None], v)
<1> DEFINE l == ls[g]
           ms == [ls EXCEPT ![g] = None]
<1>1. ls \in [GameIds -> Lease \cup {None}] /\ l \in Lease /\ l.pid \in Pids /\ w \in OsType
  BY DEF Exact, Lease
<1>2. ms \in [GameIds -> Lease \cup {None}] /\ ms[g] = None
       /\ \A h \in GameIds : h # g => ms[h] = ls[h]
  BY <1>1
<1>3. \A h \in GameIds : ms[h] # None => h # g /\ ms[h] = ls[h] /\ ls[h] # None
  BY <1>2
<1>4. \A h \in GameIds : ms[h] # None =>
         {ms[h].born, ms[h].expected} \subseteq {0, v.born[ms[h].pid]}
  BY <1>3 DEF Exact
<1>5. ASSUME NEW p \in Pids PROVE Sized(Holders(ms, p), v.handles[p])
  <2>1. w.handles \in [Pids -> Nat] /\ Sized(Holders(ls, p), w.handles[p])
    BY <1>1 DEF Exact, OsType
  <2>2. CASE p = l.pid
    <3>1. Holders(ms, p) = Holders(ls, p) \ {g} /\ g \in Holders(ls, p)
      BY <1>2, <2>2 DEF Holders
    <3>2. v.handles[p] = w.handles[p] - 1
      BY <2>1, <2>2
    <3>3. Sized(Holders(ls, p) \ {g}, w.handles[p] - 1)
      BY <2>1, <3>1, SizedRemove
    <3> QED BY <3>1, <3>2, <3>3, <2>1, Zenon
  <2>3. CASE p # l.pid
    <3>1. Holders(ms, p) = Holders(ls, p)
      BY <1>2, <2>3 DEF Holders
    <3> QED BY <3>1, <2>1, <2>3
  <2> QED BY <2>2, <2>3
<1>6. ASSUME OneLevel, NEW h \in GameIds, ms[h] # None
      PROVE  /\ \E k \in Valid : ms[h].target = PriorityLevelToWin32Class[k]
             /\ ms[h].over => ms[h].original = ms[h].target
  BY <1>3, <1>6 DEF Exact
<1>7. ASSUME OneLevel, NEW p \in Pids, v.raised[p]
      PROVE  \E h \in Holders(ms, p) : ms[h].target = v.class[p] /\ ~ms[h].over
  <2>1. w.raised[p]
    BY <1>7
  <2>2. PICK h \in Holders(ls, p) : ls[h].target = w.class[p] /\ ~ls[h].over
    BY <1>7, <2>1 DEF Exact
  <2>3. h \in GameIds /\ ls[h] # None /\ ls[h].pid = p
    BY <2>2 DEF Holders
  <2>4. l.target = ls[h].target
    BY <2>3, <1>7, OneTarget
  <2>5. CASE p # l.pid
    <3>1. h # g
      BY <2>3, <2>5
    <3>2. ms[h] = ls[h] /\ h \in Holders(ms, p)
      BY <3>1, <2>3, <1>2 DEF Holders
    <3> QED BY <3>2, <2>2, <2>5
  <2>6. CASE p = l.pid
    <3>1. v.class[p] = l.original /\ l.over
      BY <1>7, <2>2, <2>4, <2>6
    <3>2. l.original = l.target
      BY <3>1, <1>7 DEF Exact
    <3>3. h # g
      BY <3>1, <2>2
    <3>4. ms[h] = ls[h] /\ h \in Holders(ms, p)
      BY <3>3, <2>3, <1>2 DEF Holders
    <3> QED BY <3>1, <3>2, <3>4, <2>2, <2>4
  <2> QED BY <2>5, <2>6, Zenon
<1> HIDE DEF ms
<1>8. Exact(ms, v)
  BY <1>2, <1>4, <1>5, <1>6, <1>7 DEF Exact
<1> QED BY <1>8 DEF ms

\* RestoreLastLease lets the lease go in step with the process, or changes nothing.
LEMMA RestoreExact ==
  ASSUME NEW ls, NEW w, Exact(ls, w), NEW g \in GameIds, ls[g] # None,
         NEW r \in RestoreLastLease(w, ls[g])
  PROVE  /\ r.ok \in BOOLEAN
         /\ r.w \in OsType
         /\ r.w.born = w.born
         /\ r.ok => /\ Exact([ls EXCEPT ![g] = None], r.w)
                    /\ r.w.handles = [w.handles EXCEPT ![ls[g].pid] = @ - 1]
         /\ ~r.ok => r.w = w
<1> DEFINE l == ls[g]
<1>1. /\ ls \in [GameIds -> Lease \cup {None}] /\ l \in Lease /\ l.pid \in Pids
      /\ l.original \in Classes /\ l.over \in BOOLEAN
      /\ w \in OsType /\ w.handles[l.pid] \in Nat
      /\ Sized(Holders(ls, l.pid), w.handles[l.pid])
  BY DEF Exact, Lease, OsType
<1>2. w.handles[l.pid] > 0
  <2>1. g \in Holders(ls, l.pid)
    BY DEF Holders
  <2> QED BY <2>1, <1>1, SizedRemove, Zenon
<1> DEFINE closed == CloseProcess(w, l.pid)
           given  == GiveUp(w, l.pid)
           back   == [closed EXCEPT !.class[l.pid] = l.original,
                                    !.raised[l.pid] = closed.raised[l.pid] /\ l.over]
<1>3. /\ closed \in OsType
      /\ closed.born = w.born /\ closed.class = w.class /\ closed.raised = w.raised
      /\ closed.handles = [w.handles EXCEPT ![l.pid] = @ - 1]
  BY <1>1, <1>2 DEF CloseProcess, OsType
<1>4. /\ given \in OsType
      /\ given.born = w.born /\ given.class = w.class
      /\ given.raised = [w.raised EXCEPT ![l.pid] = FALSE]
      /\ given.handles = [w.handles EXCEPT ![l.pid] = @ - 1]
  <2>1. given = [closed EXCEPT !.raised[l.pid] = FALSE]
    BY DEF GiveUp
  <2> HIDE DEF given, closed
  <2> QED BY <1>1, <1>3, <2>1, Zenon DEF OsType
<1>5. /\ back \in OsType
      /\ back.born = w.born
      /\ back.class = [w.class EXCEPT ![l.pid] = l.original]
      /\ back.raised = [w.raised EXCEPT ![l.pid] = w.raised[l.pid] /\ l.over]
      /\ back.handles = [w.handles EXCEPT ![l.pid] = @ - 1]
  <2> HIDE DEF closed
  <2> QED BY <1>1, <1>3, Zenon DEF OsType
<1>6. /\ w.raised \in [Pids -> BOOLEAN] /\ w.class \in [Pids -> Classes]
  BY <1>1 DEF OsType
<1>7. Exact([ls EXCEPT ![g] = None], given)
  <2>1. ~given.raised[l.pid]
    BY <1>1, <1>4, <1>6
  <2>2. \A p \in Pids : p # l.pid => given.class[p] = w.class[p] /\ given.raised[p] = w.raised[p]
    BY <1>4, <1>6
  <2>3. given.raised[ls[g].pid] => /\ w.raised[ls[g].pid]
                                /\ \/ given.class[ls[g].pid] = w.class[ls[g].pid]
                                      /\ w.class[ls[g].pid] # ls[g].target
                                   \/ given.class[ls[g].pid] = ls[g].original /\ ls[g].over
                                      /\ w.class[ls[g].pid] = ls[g].target
    BY <2>1
  <2> HIDE DEF given
  <2>4. /\ given \in OsType /\ given.born = w.born
        /\ given.handles = [w.handles EXCEPT ![ls[g].pid] = @ - 1]
    BY <1>4
  <2> QED BY <2>4, <2>2, <2>3, LeaseGoes
<1>8. w.class[l.pid] # l.target => Exact([ls EXCEPT ![g] = None], closed)
  <2> HIDE DEF closed
  <2> QED BY <1>3, LeaseGoes
<1>9. w.class[l.pid] = l.target => Exact([ls EXCEPT ![g] = None], back)
  <2> HAVE w.class[l.pid] = l.target
  <2>1. back.raised[l.pid] => /\ w.raised[l.pid] /\ back.class[l.pid] = l.original /\ l.over
    BY <1>1, <1>5, <1>6
  <2>2. \A p \in Pids : p # l.pid => back.class[p] = w.class[p] /\ back.raised[p] = w.raised[p]
    BY <1>5, <1>6
  <2>3. back.raised[ls[g].pid] => /\ w.raised[ls[g].pid]
                                /\ \/ back.class[ls[g].pid] = w.class[ls[g].pid]
                                      /\ w.class[ls[g].pid] # ls[g].target
                                   \/ back.class[ls[g].pid] = ls[g].original /\ ls[g].over
                                      /\ w.class[ls[g].pid] = ls[g].target
    BY <2>1
  <2> HIDE DEF back
  <2>4. /\ back \in OsType /\ back.born = w.born
        /\ back.handles = [w.handles EXCEPT ![ls[g].pid] = @ - 1]
    BY <1>5
  <2> QED BY <2>4, <2>2, <2>3, LeaseGoes
<1>10. \/ r.ok = TRUE /\ r.w = given
       \/ r.ok = TRUE /\ r.w = closed /\ w.class[l.pid] # l.target
       \/ r.ok = TRUE /\ r.w = back /\ w.class[l.pid] = l.target
       \/ r.ok = FALSE /\ r.w = w
  <2>1. back = [closed EXCEPT !.class[l.pid] = l.original, !.raised[l.pid] = @ /\ l.over]
    OBVIOUS
  <2> HIDE DEF back, closed, given
  <2> QED BY <2>1 DEF RestoreLastLease, closed, given
<1> HIDE DEF given, closed, back
<1> QED BY <1>1, <1>3, <1>4, <1>5, <1>7, <1>8, <1>9, <1>10, Zenon

\* A fresh lease comes with one more handle, on the process that the caller observed.
LEMMA OpenedExact ==
  ASSUME NEW ls, NEW w, Exact(ls, w), NEW g \in GameIds, ls[g] = None,
         NEW p \in Pids, NEW expected \in 0..w.born[p], NEW level \in Valid,
         NEW o \in Opened(w, p, expected, PriorityLevelToWin32Class[level])
  PROVE  /\ Exact([ls EXCEPT ![g] = o.lease], o.w)
         /\ o.w.born = w.born
         /\ o.lease \in Lease /\ o.lease.pid = p /\ o.lease.count = 1
<1> DEFINE target == PriorityLevelToWin32Class[level]
           ms == [ls EXCEPT ![g] = o.lease]
<1>1. /\ ls \in [GameIds -> Lease \cup {None}]
      /\ w \in OsType
      /\ w.handles[p] \in Nat /\ w.class[p] \in Classes /\ w.raised[p] \in BOOLEAN
      /\ w.alive[p] \in BOOLEAN /\ w.born[p] \in 0..MaxBirths
  BY DEF Exact, OsType
<1>2. target \in Classes
  BY BoosterAssumption DEF Valid, PriorityLevelToWin32Class, Classes
<1>3. PICK born \in {0, w.born[p]} :
         /\ expected \in {0, born}
         /\ o = [w |-> [w EXCEPT !.handles[p] = w.handles[p] + 1, !.class[p] = target,
                                 !.raised[p] = w.alive[p]],
                 lease |-> [pid |-> p, born |-> born, expected |-> expected,
                            over |-> w.raised[p], original |-> w.class[p],
                            target |-> target, count |-> 1]]
  BY DEF Opened
<1> DEFINE v == o.w
           l == o.lease
<1> HIDE DEF target
<1>4. /\ v = [w EXCEPT !.handles[p] = w.handles[p] + 1, !.class[p] = target,
                       !.raised[p] = w.alive[p]]
      /\ l = [pid |-> p, born |-> born, expected |-> expected, over |-> w.raised[p],
              original |-> w.class[p], target |-> target, count |-> 1]
  BY <1>3
<1> HIDE DEF v, l
<1>5. /\ v \in OsType
      /\ v.born = w.born
      /\ v.handles = [w.handles EXCEPT ![p] = w.handles[p] + 1]
      /\ v.class = [w.class EXCEPT ![p] = target]
      /\ v.raised = [w.raised EXCEPT ![p] = w.alive[p]]
  <2> DEFINE hs == [w.handles EXCEPT ![p] = w.handles[p] + 1]
             cs == [w.class EXCEPT ![p] = target]
             rs == [w.raised EXCEPT ![p] = w.alive[p]]
  <2>1. hs \in [Pids -> Nat] /\ cs \in [Pids -> Classes] /\ rs \in [Pids -> BOOLEAN]
    BY <1>1, <1>2 DEF OsType
  <2>2. v = [w EXCEPT !.handles = hs, !.class = cs, !.raised = rs]
    BY <1>1, <1>4 DEF OsType
  <2> HIDE DEF hs, cs, rs
  <2>3. /\ v \in OsType
        /\ v.born = w.born /\ v.handles = hs /\ v.class = cs /\ v.raised = rs
    BY <1>1, <2>1, <2>2, Zenon DEF OsType
  <2> QED BY <2>3 DEF hs, cs, rs
<1>6. /\ born \in 0..MaxBirths
      /\ expected \in 0..MaxBirths
  BY <1>1, <1>3, BoosterAssumption
<1>7. /\ l \in Lease
      /\ l.pid = p /\ l.count = 1 /\ l.target = target /\ l.original = w.class[p] /\ l.over = w.raised[p]
      /\ {l.born, l.expected} \subseteq {0, w.born[p]}
  BY <1>1, <1>2, <1>3, <1>4, <1>6, BoosterAssumption DEF Lease
<1>8. l # None
  BY <1>7, BoosterAssumption
<1>9. /\ ms \in [GameIds -> Lease \cup {None}] /\ ms[g] = l
      /\ \A h \in GameIds : h # g => ms[h] = ls[h]
  BY <1>1, <1>7 DEF l
<1> HIDE DEF ms
<1>10. ASSUME NEW h \in GameIds, ms[h] # None
       PROVE  {ms[h].born, ms[h].expected} \subseteq {0, v.born[ms[h].pid]}
  BY <1>5, <1>7, <1>9, <1>10 DEF Exact
<1>11. ASSUME NEW q \in Pids PROVE Sized(Holders(ms, q), v.handles[q])
  <2>1. w.handles \in [Pids -> Nat] /\ Sized(Holders(ls, q), w.handles[q])
    BY <1>1 DEF Exact, OsType
  <2>2. CASE q = p
    <3>1. Holders(ms, q) = Holders(ls, q) \cup {g} /\ g \notin Holders(ls, q)
      BY <1>7, <1>8, <1>9, <2>2 DEF Holders
    <3>2. Sized(Holders(ls, q) \cup {g}, w.handles[q] + 1)
      BY <2>1, <3>1, SizedAdd
    <3> QED BY <3>1, <3>2, <2>1, <2>2, <1>5
  <2>3. CASE q # p
    <3>1. Holders(ms, q) = Holders(ls, q)
      BY <1>7, <1>9, <2>3 DEF Holders
    <3> QED BY <3>1, <2>1, <2>3, <1>5
  <2> QED BY <2>2, <2>3
<1>12. ASSUME OneLevel, NEW h \in GameIds, ms[h] # None
       PROVE  /\ \E k \in Valid : ms[h].target = PriorityLevelToWin32Class[k]
              /\ ms[h].over => ms[h].original = ms[h].target
  <2>1. CASE h # g
    BY <1>9, <1>12, <2>1 DEF Exact
  <2>2. CASE h = g
    <3>1. ms[h] = l
      BY <2>2, <1>9
    <3>2. \E k \in Valid : ms[h].target = PriorityLevelToWin32Class[k]
      BY <3>1, <1>7 DEF target
    <3>3. ASSUME w.raised[p] PROVE w.class[p] = target
      <4>1. PICK k \in Holders(ls, p) : ls[k].target = w.class[p]
        BY <1>12, <3>3 DEF Exact
      <4>2. PICK m \in Valid : ls[k].target = PriorityLevelToWin32Class[m]
        BY <1>12, <4>1 DEF Exact, Holders
      <4>3. m = level
        BY <1>12 DEF OneLevel, Valid
      <4> QED BY <4>1, <4>2, <4>3 DEF target
    <3> QED BY <3>1, <3>2, <3>3, <1>7
  <2> QED BY <2>1, <2>2
<1>13. ASSUME OneLevel, NEW q \in Pids, v.raised[q]
       PROVE  \E h \in Holders(ms, q) : ms[h].target = v.class[q] /\ ~ms[h].over
  <2>1. w.raised \in [Pids -> BOOLEAN] /\ w.class \in [Pids -> Classes]
    BY <1>1 DEF OsType
  <2>2. CASE q = p /\ ~w.raised[p]
    <3>1. g \in Holders(ms, q) /\ ms[g].target = v.class[q] /\ ~ms[g].over
      BY <1>5, <1>7, <1>8, <1>9, <2>1, <2>2 DEF Holders
    <3> QED BY <3>1
  <2>3. CASE q # p \/ w.raised[p]
    <3>1. w.raised[q]
      BY <1>5, <1>13, <2>1, <2>3
    <3>2. PICK h \in Holders(ls, q) : ls[h].target = w.class[q] /\ ~ls[h].over
      BY <1>13, <3>1 DEF Exact
    <3>3. h \in GameIds /\ ls[h] # None /\ ls[h].pid = q /\ h # g
      BY <3>2 DEF Holders
    <3>4. ms[h] = ls[h] /\ h \in Holders(ms, q) /\ ms[h] # None
      BY <3>3, <1>9 DEF Holders
    <3>5. v.class[q] = w.class[q]
      <4>1. CASE q # p
        BY <4>1, <1>5, <2>1
      <4>2. CASE q = p
        <5>1. PICK m \in Valid : ls[h].target = PriorityLevelToWin32Class[m]
          BY <1>13, <3>3 DEF Exact
        <5>2. m = level
          BY <1>13 DEF OneLevel, Valid
        <5> QED BY <5>1, <5>2, <4>2, <3>2, <1>5, <2>1 DEF target
      <4> QED BY <4>1, <4>2
    <3> QED BY <3>2, <3>4, <3>5
  <2> QED BY <2>2, <2>3 
<1>14. Exact(ms, v)
  BY <1>5, <1>9, <1>10, <1>11, <1>12, <1>13, Zenon DEF Exact
<1> QED BY <1>5, <1>7, <1>14 DEF ms, v, l

\* A nested acquisition or release changes a count and nothing else.
LEMMA CountExact ==
  ASSUME NEW ls, NEW w, Exact(ls, w), NEW g \in GameIds, ls[g] # None,
         NEW n \in 1..MaxCount
  PROVE  Exact([ls EXCEPT ![g].count = n], w)
<1> DEFINE ms == [ls EXCEPT ![g].count = n]
<1>1. ls \in [GameIds -> Lease \cup {None}] /\ ls[g] \in Lease
  BY DEF Exact
<1>2. ms[g] \in Lease /\ ms[g].pid = ls[g].pid /\ ms[g].born = ls[g].born
      /\ ms[g].expected = ls[g].expected /\ ms[g].over = ls[g].over
      /\ ms[g].original = ls[g].original /\ ms[g].target = ls[g].target
  BY <1>1 DEF Lease
<1>3. ms \in [GameIds -> Lease \cup {None}] /\ \A h \in GameIds : h # g => ms[h] = ls[h]
  BY <1>1, <1>2
<1>4. ms[g] # None
  BY <1>2, BoosterAssumption
<1> HIDE DEF ms
<1>5. \A p \in Pids : Holders(ms, p) = Holders(ls, p)
  BY <1>2, <1>3, <1>4 DEF Holders
<1>6. ASSUME NEW h \in GameIds
      PROVE  /\ ms[h] # None <=> ls[h] # None
             /\ ls[h] # None => /\ ms[h].pid = ls[h].pid /\ ms[h].born = ls[h].born
                                /\ ms[h].expected = ls[h].expected
                                /\ ms[h].over = ls[h].over
                                /\ ms[h].original = ls[h].original
                                /\ ms[h].target = ls[h].target
  BY <1>2, <1>3, <1>4
<1>7. \A h \in GameIds : ms[h] # None =>
          {ms[h].born, ms[h].expected} \subseteq {0, w.born[ms[h].pid]}
  BY <1>6 DEF Exact
<1>8. OneLevel => \A h \in GameIds : ms[h] # None =>
                /\ \E l \in Valid : ms[h].target = PriorityLevelToWin32Class[l]
                /\ ms[h].over => ms[h].original = ms[h].target
  BY <1>6 DEF Exact
<1>9. OneLevel => \A p \in Pids : w.raised[p] =>
                \E h \in Holders(ms, p) : ms[h].target = w.class[p] /\ ~ms[h].over
  BY <1>5, <1>6 DEF Exact, Holders
<1>10. Exact(ms, w)
  BY <1>3, <1>5, <1>7, <1>8, <1>9 DEF Exact
<1> QED BY <1>10 DEF ms

\* ForceCleanLease lets the lease go whatever happens.
LEMMA ForceCleanExact ==
  ASSUME NEW ls, NEW w, Exact(ls, w), NEW g \in GameIds, ls[g] # None,
         NEW v \in ForceCleanLease(w, ls[g])
  PROVE  Exact([ls EXCEPT ![g] = None], v)
<1> DEFINE l == ls[g]
<1>1. PICK r \in RestoreLastLease(w, l) :
         v = [r.w EXCEPT !.handles[l.pid] = w.handles[l.pid] - 1,
                         !.raised[l.pid] = r.w.raised[l.pid] /\ r.ok]
  BY Zenon DEF ForceCleanLease
<1>2. /\ r.ok \in BOOLEAN /\ r.w \in OsType
      /\ r.ok => /\ Exact([ls EXCEPT ![g] = None], r.w)
                 /\ r.w.handles = [w.handles EXCEPT ![l.pid] = @ - 1]
      /\ ~r.ok => r.w = w
  BY <1>1, RestoreExact
<1>3. /\ l.pid \in Pids
      /\ w \in OsType
      /\ w.handles[l.pid] \in Nat /\ Sized(Holders(ls, l.pid), w.handles[l.pid])
  BY DEF Exact, Lease, OsType
<1>4. CASE r.ok
  <2>1. r.w.handles[l.pid] = w.handles[l.pid] - 1 /\ r.w.raised[l.pid] \in BOOLEAN
    BY <1>2, <1>3, <1>4 DEF OsType
  <2>2. /\ [r.w.handles EXCEPT ![l.pid] = w.handles[l.pid] - 1] = r.w.handles
        /\ [r.w.raised EXCEPT ![l.pid] = r.w.raised[l.pid] /\ r.ok] = r.w.raised
    BY <1>2, <1>3, <1>4, <2>1 DEF OsType
  <2>3. v = [r.w EXCEPT !.handles = r.w.handles, !.raised = r.w.raised]
    BY <1>1, <1>2, <2>2, Zenon DEF OsType
  <2>4. v = r.w
    BY <1>2, <2>3, Zenon DEF OsType
  <2> QED BY <2>4, <1>2, <1>4
<1>5. CASE ~r.ok
  <2>1. w.handles[l.pid] > 0
    <3>1. g \in Holders(ls, l.pid)
      BY DEF Holders
    <3> QED BY <3>1, <1>3, SizedRemove, Zenon
  <2> DEFINE hs == [w.handles EXCEPT ![l.pid] = w.handles[l.pid] - 1]
             rs == [w.raised EXCEPT ![l.pid] = FALSE]
  <2>2. hs \in [Pids -> Nat] /\ rs \in [Pids -> BOOLEAN] /\ ~rs[l.pid]
        /\ \A p \in Pids : p # l.pid => rs[p] = w.raised[p]
    BY <1>3, <2>1 DEF OsType
  <2>3. v = [w EXCEPT !.handles = hs, !.raised = rs]
    BY <1>1, <1>2, <1>3, <1>5, Zenon DEF OsType
  <2>4. hs = [w.handles EXCEPT ![ls[g].pid] = @ - 1]
    OBVIOUS
  <2> HIDE DEF hs, rs
  <2>5. v \in OsType /\ v.born = w.born /\ v.handles = hs /\ v.class = w.class /\ v.raised = rs
    BY <1>3, <2>2, <2>3, Zenon DEF OsType
  <2>6. ~v.raised[ls[g].pid]
    BY <2>2, <2>5
  <2>7. \A p \in Pids : p # ls[g].pid => v.class[p] = w.class[p] /\ v.raised[p] = w.raised[p]
    BY <2>2, <2>5
  <2> QED BY <2>4, <2>5, <2>6, <2>7, LeaseGoes
<1> QED BY <1>2, <1>4, <1>5

\* ReleaseBoost keeps leases and system in step, whatever the backend answers.
LEMMA ReleaseBoostExact ==
  ASSUME Exact(leases, os), NEW g \in GameIds, NEW p, NEW ok \in BOOLEAN,
         ReleaseBoost(g, p, ok)
  PROVE  Exact(leases', os')
<1>1. CASE UNCHANGED <<leases, os>>
  BY <1>1
<1>2. CASE /\ Held(g) /\ leases[g].count > 1
           /\ leases' = [leases EXCEPT ![g].count = @ - 1]
           /\ UNCHANGED os
  <2>1. leases[g].count \in 1..MaxCount
    BY <1>2 DEF Exact, Lease, Held
  <2>2. leases[g].count - 1 \in 1..MaxCount
    BY <2>1, <1>2, BoosterAssumption
  <2>3. Exact([leases EXCEPT ![g].count = leases[g].count - 1], os)
    BY <1>2, <2>2, CountExact, Zenon DEF Held
  <2> QED BY <1>2, <2>3
<1>3. CASE /\ Held(g)
           /\ \E r \in RestoreLastLease(os, leases[g]) :
                 /\ os' = r.w
                 /\ leases' = IF r.ok THEN [leases EXCEPT ![g] = None] ELSE leases
  <2>1. PICK r \in RestoreLastLease(os, leases[g]) :
                 /\ os' = r.w
                 /\ leases' = IF r.ok THEN [leases EXCEPT ![g] = None] ELSE leases
    BY <1>3
  <2>2. leases[g] # None
    BY <1>3 DEF Held
  <2>3. /\ r.ok \in BOOLEAN
        /\ r.w \in OsType
        /\ r.w.born = os.born
        /\ r.ok => /\ Exact([leases EXCEPT ![g] = None], r.w)
                   /\ r.w.handles = [os.handles EXCEPT ![leases[g].pid] = @ - 1]
        /\ ~r.ok => r.w = os
    BY <2>2, RestoreExact
  <2> QED BY <2>1, <2>3
<1> QED BY <1>1, <1>2, <1>3 DEF ReleaseBoost

\* AcquireBoost keeps leases and system in step, with the release of another process on its way.
LEMMA AcquireBoostExact ==
  ASSUME Exact(leases, os), NEW g \in GameIds, NEW p \in Pids, NEW ok \in BOOLEAN,
         NEW level \in LevelsAsked, NEW expected \in 0..os.born[p],
         Held(g) => IF leases[g].pid = p THEN leases[g].count < MaxCount
                                         ELSE leases[g].count = 1,
         AcquireBoost(g, p, expected, level, ok)
  PROVE  Exact(leases', os')
<1> DEFINE target == PriorityLevelToWin32Class[level]
<1>a. level # 0 /\ level <= MaxLevel => level \in Valid
  BY BoosterAssumption DEF Valid
<1>b. leases \in [GameIds -> Lease \cup {None}]
  BY DEF Exact
<1>1. CASE UNCHANGED <<leases, os>>
  BY <1>1
<1>2. CASE /\ Held(g) /\ leases[g].pid = p
           /\ leases' = [leases EXCEPT ![g].count = @ + 1]
           /\ UNCHANGED os
  <2>1. leases[g].count \in 1..MaxCount
    BY <1>2 DEF Exact, Lease, Held
  <2>2. leases[g].count + 1 \in 1..MaxCount
    BY <2>1, <1>2, BoosterAssumption
  <2>3. Exact([leases EXCEPT ![g].count = leases[g].count + 1], os)
    BY <1>2, <2>2, CountExact, Zenon DEF Held
  <2> QED BY <1>2, <2>3
<1>3. CASE /\ level \in Valid /\ ~Held(g)
           /\ \E o \in Opened(os, p, expected, target) :
                 os' = o.w /\ leases' = [leases EXCEPT ![g] = o.lease]
  <2>1. leases[g] = None
    BY <1>3 DEF Held
  <2>2. PICK o \in Opened(os, p, expected, target) :
                 os' = o.w /\ leases' = [leases EXCEPT ![g] = o.lease]
    BY <1>3, Zenon
  <2>3. Exact([leases EXCEPT ![g] = o.lease], o.w)
    BY <1>3, <2>1, OpenedExact, Zenon
  <2> QED BY <2>2, <2>3
<1>4. CASE /\ level \in Valid /\ Held(g) /\ leases[g].pid # p
           /\ \E r \in ReleasedOld(g) :
                 \/ /\ os' = r.w
                    /\ leases' = [leases EXCEPT ![g] = r.old]
                 \/ /\ r.ok
                    /\ \E o \in Opened(r.w, p, expected, target) :
                          os' = o.w /\ leases' = [leases EXCEPT ![g] = o.lease]
  <2>1. leases[g].count = 1
    BY <1>4
  <2>2. PICK r \in RestoreLastLease(os, leases[g]) :
                 \/ /\ os' = r.w
                    /\ leases' = [leases EXCEPT ![g] = IF r.ok THEN None ELSE leases[g]]
                 \/ /\ r.ok
                    /\ \E o \in Opened(r.w, p, expected, target) :
                          os' = o.w /\ leases' = [leases EXCEPT ![g] = o.lease]
    BY <1>4, <2>1 DEF ReleasedOld
  <2>3. /\ r.ok \in BOOLEAN
        /\ r.w \in OsType
        /\ r.w.born = os.born
        /\ r.ok => /\ Exact([leases EXCEPT ![g] = None], r.w)
                   /\ r.w.handles = [os.handles EXCEPT ![leases[g].pid] = @ - 1]
        /\ ~r.ok => r.w = os
    <3>1. leases[g] # None
      BY <1>4 DEF Held
    <3> QED BY <3>1, RestoreExact
  <2>4. CASE /\ os' = r.w
             /\ leases' = [leases EXCEPT ![g] = IF r.ok THEN None ELSE leases[g]]
    <3>1. ~r.ok => leases' = leases
      BY <2>4, <1>b
    <3> QED BY <2>3, <2>4, <3>1, Zenon
  <2>5. CASE /\ r.ok
             /\ \E o \in Opened(r.w, p, expected, target) :
                   os' = o.w /\ leases' = [leases EXCEPT ![g] = o.lease]
    <3> DEFINE ms == [leases EXCEPT ![g] = None]
    <3>1. PICK o \in Opened(r.w, p, expected, target) :
                   os' = o.w /\ leases' = [leases EXCEPT ![g] = o.lease]
      BY <2>5, Zenon
    <3>2. Exact(ms, r.w) /\ ms[g] = None /\ expected \in 0..r.w.born[p]
      BY <1>b, <2>3, <2>5
    <3>3. [ms EXCEPT ![g] = o.lease] = leases'
      BY <1>b, <3>1, Zenon
    <3> HIDE DEF ms
    <3>4. Exact([ms EXCEPT ![g] = o.lease], o.w)
      BY <1>4, <3>1, <3>2, OpenedExact, Zenon
    <3> QED BY <3>1, <3>3, <3>4
  <2> QED BY <2>2, <2>4, <2>5
<1> QED BY <1>a, <1>1, <1>2, <1>3, <1>4 DEF AcquireBoost

\* The system may change a process in any way as long as it is not raised afterwards; its
\* creation time only while no lease is on it.
LEMMA ProcessChanges ==
  ASSUME NEW ls, NEW w, Exact(ls, w), NEW p \in Pids, NEW v \in OsType,
         \A q \in Pids : q # p => /\ v.born[q] = w.born[q] /\ v.class[q] = w.class[q]
                                  /\ v.raised[q] = w.raised[q],
         v.born[p] = w.born[p] \/ w.handles[p] = 0,
         ~v.raised[p], v.handles = w.handles
  PROVE  Exact(ls, v)
<1>1. ASSUME NEW g \in GameIds, ls[g] # None PROVE v.born[ls[g].pid] = w.born[ls[g].pid]
  <2>1. ls[g].pid \in Pids
    BY <1>1 DEF Exact, Lease
  <2>2. ls[g].pid = p => w.handles[p] # 0
    <3> HAVE ls[g].pid = p
    <3>1. g \in Holders(ls, p)
      BY <1>1 DEF Holders
    <3>2. w.handles[p] \in Nat /\ Sized(Holders(ls, p), w.handles[p])
      BY DEF Exact, OsType
    <3>3. w.handles[p] > 0
      BY <3>1, <3>2, SizedRemove, Zenon
    <3> QED BY <3>3
  <2> QED BY <2>1, <2>2
<1>2. \A g \in GameIds : ls[g] # None =>
          {ls[g].born, ls[g].expected} \subseteq {0, v.born[ls[g].pid]}
  BY <1>1 DEF Exact
<1>3. OneLevel => \A q \in Pids : v.raised[q] =>
                \E g \in Holders(ls, q) : ls[g].target = v.class[q] /\ ~ls[g].over
  BY DEF Exact
<1> QED BY <1>2, <1>3 DEF Exact

\* Processes that start, exit or are changed by others leave leases and system in step.
LEMMA OsExact ==
  ASSUME Exact(leases, os), OsStep
  PROVE  Exact(leases', os')
<1>0. os \in OsType
  BY DEF Exact
<1>1. PICK p \in Pids : Spawn(p) \/ Exit(p) \/ (\E c \in Classes : ExternalSetClass(p, c))
  BY DEF OsStep
<1>2. CASE Spawn(p)
  <2>1. /\ os' = [os EXCEPT !.born[p] = os.born[p] + 1, !.alive[p] = TRUE,
                            !.class[p] = "normal", !.raised[p] = FALSE]
        /\ os.handles[p] = 0 /\ os.born[p] < MaxBirths /\ leases' = leases
    BY <1>2 DEF Spawn
  <2> DEFINE bs == [os.born EXCEPT ![p] = os.born[p] + 1]
             as == [os.alive EXCEPT ![p] = TRUE]
             cs == [os.class EXCEPT ![p] = "normal"]
             rs == [os.raised EXCEPT ![p] = FALSE]
  <2>2. /\ bs \in [Pids -> 0..MaxBirths] /\ as \in [Pids -> BOOLEAN]
        /\ cs \in [Pids -> Classes] /\ rs \in [Pids -> BOOLEAN] /\ ~rs[p]
        /\ \A q \in Pids : q # p => /\ bs[q] = os.born[q] /\ cs[q] = os.class[q]
                                     /\ rs[q] = os.raised[q]
    BY <1>0, <2>1, BoosterAssumption DEF OsType, Classes
  <2>3. os' = [os EXCEPT !.born = bs, !.alive = as, !.class = cs, !.raised = rs]
    BY <1>0, <2>1 DEF OsType
  <2> HIDE DEF bs, as, cs, rs
  <2>4. os' \in OsType /\ os'.born = bs /\ os'.class = cs /\ os'.raised = rs
        /\ os'.handles = os.handles
    BY <1>0, <2>2, <2>3, Zenon DEF OsType
  <2>5. /\ \A q \in Pids : q # p => /\ os'.born[q] = os.born[q] /\ os'.class[q] = os.class[q]
                                     /\ os'.raised[q] = os.raised[q]
        /\ ~os'.raised[p] /\ os'.handles = os.handles /\ os.handles[p] = 0
    BY <2>1, <2>2, <2>4
  <2>6. Exact(leases, os')
    BY <2>4, <2>5, ProcessChanges
  <2> QED BY <2>1, <2>6
<1>3. CASE Exit(p) \/ (\E c \in Classes : ExternalSetClass(p, c))
  <2>1. PICK c \in Classes, b \in BOOLEAN :
           /\ os' = [os EXCEPT !.alive[p] = b, !.class[p] = c, !.raised[p] = FALSE]
           /\ leases' = leases
    <3>1. CASE Exit(p)
      <4>1. os.class[p] \in Classes /\ [os.class EXCEPT ![p] = os.class[p]] = os.class
        BY <1>0 DEF OsType
      <4>2. os' = [os EXCEPT !.alive[p] = FALSE, !.class[p] = os.class[p], !.raised[p] = FALSE]
        BY <1>0, <3>1, <4>1, Zenon DEF Exit, OsType
      <4> QED BY <3>1, <4>1, <4>2, Zenon DEF Exit
    <3>2. CASE \E c \in Classes : ExternalSetClass(p, c)
      <4>1. PICK c \in Classes : ExternalSetClass(p, c)
        BY <3>2
      <4>2. os.alive[p] \in BOOLEAN /\ [os.alive EXCEPT ![p] = os.alive[p]] = os.alive
        BY <1>0 DEF OsType
      <4>3. os' = [os EXCEPT !.alive[p] = os.alive[p], !.class[p] = c, !.raised[p] = FALSE]
        BY <1>0, <4>1, <4>2, Zenon DEF ExternalSetClass, OsType
      <4> QED BY <4>1, <4>2, <4>3, Zenon DEF ExternalSetClass
    <3> QED BY <1>3, <3>1, <3>2, Zenon
  <2> DEFINE as == [os.alive EXCEPT ![p] = b]
             cs == [os.class EXCEPT ![p] = c]
             rs == [os.raised EXCEPT ![p] = FALSE]
  <2>2. /\ as \in [Pids -> BOOLEAN]
        /\ cs \in [Pids -> Classes] /\ rs \in [Pids -> BOOLEAN] /\ ~rs[p]
        /\ \A q \in Pids : q # p => cs[q] = os.class[q] /\ rs[q] = os.raised[q]
    BY <1>0, <2>1 DEF OsType
  <2>3. os' = [os EXCEPT !.alive = as, !.class = cs, !.raised = rs]
    BY <1>0, <2>1 DEF OsType
  <2> HIDE DEF as, cs, rs
  <2>4. os' \in OsType /\ os'.born = os.born /\ os'.class = cs /\ os'.raised = rs
        /\ os'.handles = os.handles
    BY <1>0, <2>2, <2>3, Zenon DEF OsType
  <2>5. Exact(leases, os')
    BY <2>2, <2>4, ProcessChanges
  <2> QED BY <2>1, <2>5
<1> QED BY <1>1, <1>2, <1>3

\* Without leases no handle is open and no process is raised.
LEMMA NothingHeld ==
  ASSUME NEW ls, NEW w, Exact(ls, w), \A g \in GameIds : ls[g] = None
  PROVE  \A p \in Pids : w.handles[p] = 0 /\ (OneLevel => ~w.raised[p])
<1>1. \A p \in Pids : Holders(ls, p) = {}
  BY DEF Holders
<1>2. \A p \in Pids : w.handles[p] \in Nat /\ Sized(Holders(ls, p), w.handles[p])
  BY DEF Exact, OsType
<1>3. \A p \in Pids : w.handles[p] = 0
  BY <1>1, <1>2, SizedZero
<1> QED BY <1>1, <1>3 DEF Exact

\* What the booster's steps preserve.
BoosterInv == Exact(leases, os) /\ releasing \in BOOLEAN

\* Leases and system stay in step, also while ReleaseAll is on its way.
LEMMA BoosterInvariant == BoosterSpec => []BoosterInv
<1>1. BoosterInit => BoosterInv
  BY InitExact, Zenon DEF BoosterInit, BoosterInv
<1>2. BoosterInv /\ [BoosterNext]_boosterVars => BoosterInv'
  <2> SUFFICES ASSUME BoosterInv, [BoosterNext]_boosterVars PROVE BoosterInv'
    OBVIOUS
  <2> USE DEF BoosterInv
  <2>1. CASE UNCHANGED boosterVars
    BY <2>1 DEF boosterVars
  <2>2. CASE BeginReleaseAll
    BY <2>2 DEF BeginReleaseAll
  <2>3. CASE (\E g \in GameIds, p \in Pids, ok \in BOOLEAN : Call(g, p, ok)) /\ UNCHANGED releasing
    <3>1. PICK g \in GameIds, p \in Pids, ok \in BOOLEAN : Call(g, p, ok)
      BY <2>3
    <3>2. CASE ReleaseBoost(g, p, ok)
      BY <2>3, <3>2, ReleaseBoostExact
    <3>3. CASE /\ Held(g) => IF leases[g].pid = p THEN leases[g].count < MaxCount
                                                  ELSE leases[g].count = 1
               /\ \E level \in LevelsAsked, expected \in 0..os.born[p] :
                     AcquireBoost(g, p, expected, level, ok)
      BY <2>3, <3>3, AcquireBoostExact
    <3> QED BY <3>1, <3>2, <3>3 DEF Call
  <2>4. CASE (\E g \in GameIds : ForceClean(g)) /\ releasing' = AnyHeld'
    <3>1. PICK g \in GameIds : ForceClean(g)
      BY <2>4
    <3>2. leases[g] # None
      BY <3>1 DEF ForceClean, Held
    <3>3. Exact([leases EXCEPT ![g] = None], os')
      BY <3>1, <3>2, ForceCleanExact, Zenon DEF ForceClean
    <3>4. Exact(leases', os')
      BY <3>1, <3>3 DEF ForceClean
    <3> QED BY <2>4, <3>4 DEF AnyHeld
  <2>5. CASE OsStep /\ UNCHANGED releasing
    BY <2>5, OsExact
  <2> QED BY <2>1, <2>2, <2>3, <2>4, <2>5 DEF BoosterNext
<1> QED BY <1>1, <1>2, PTL DEF BoosterSpec

----------------------------------------------------------------------------
(* PowerLocker.                                                            *)

\* Two types that are counted have different handles: without this, closing the
\* handle of one could cancel the request of another.
HandlesDiffer ==
    \A t, u \in LockTypes :
       lockCount[t] > 0 /\ lockHandle[t] = lockHandle[u] => t = u

LockerInv == LockerTypeOK /\ RequestMatchesCount /\ NoDanglingHandle /\ HandlesDiffer

\* What the invariant says of a request and of an open handle, one at a time.
LEMMA InForce ==
    ASSUME RequestMatchesCount, NoDanglingHandle
    PROVE  /\ \A h, t : <<h, t>> \in requests <=>
                 t \in LockTypes /\ lockCount[t] > 0 /\ h = lockHandle[t]
           /\ \A h : h \in openHandles <=>
                 \E t \in LockTypes : lockCount[t] > 0 /\ h = lockHandle[t]
<1>1. \A h, t : <<h, t>> \in requests <=>
         t \in LockTypes /\ lockCount[t] > 0 /\ h = lockHandle[t]
  BY DEF RequestMatchesCount
<1>2. ASSUME NEW h
      PROVE  h \in openHandles <=> \E t \in LockTypes : lockCount[t] > 0 /\ h = lockHandle[t]
  <2>1. ASSUME h \in openHandles
        PROVE  \E t \in LockTypes : lockCount[t] > 0 /\ h = lockHandle[t]
    <3>1. PICK r \in requests : h = r[1]
      BY <2>1 DEF NoDanglingHandle
    <3>2. PICK t \in LockTypes : lockCount[t] > 0 /\ r = <<lockHandle[t], t>>
      BY <3>1 DEF RequestMatchesCount
    <3> QED
      BY <3>1, <3>2
  <2>2. ASSUME NEW t \in LockTypes, lockCount[t] > 0, h = lockHandle[t]
        PROVE  h \in openHandles
    <3>1. <<h, t>> \in requests
      BY <2>2, <1>1
    <3> QED
      BY <3>1 DEF NoDanglingHandle
  <2> QED
    BY <2>1, <2>2
<1> QED
  BY <1>1, <1>2

\* A locker that was just made holds nothing.
LEMMA LockerInitInv == LockerInit => LockerInv
<1> SUFFICES ASSUME LockerInit PROVE LockerInv
  OBVIOUS
<1>1. LockerTypeOK
  BY DEF LockerInit, LockerTypeOK
<1>2. RequestMatchesCount
  BY DEF LockerInit, RequestMatchesCount
<1>3. NoDanglingHandle
  BY DEF LockerInit, NoDanglingHandle
<1>4. HandlesDiffer
  BY DEF LockerInit, HandlesDiffer
<1> QED
  BY <1>1, <1>2, <1>3, <1>4 DEF LockerInv

\* AcquireLock: a nested lock, a failure, or a request on a handle nobody has.
LEMMA AcquireInv ==
    ASSUME LockerInv, NEW t \in LockTypes, NEW ok \in BOOLEAN, AcquireLock(t, ok)
    PROVE  LockerInv'
<1>1. CASE lockCount[t] > 0 /\ lockCount' = [lockCount EXCEPT ![t] = @ + 1]
           /\ UNCHANGED <<lockHandle, openHandles, requests>>
  <2>1. \A u \in LockTypes : lockCount'[u] > 0 <=> lockCount[u] > 0
    BY <1>1 DEF LockerInv, LockerTypeOK
  <2>2. \A u \in LockTypes : lockCount'[u] = 0 <=> lockCount[u] = 0
    BY <1>1 DEF LockerInv, LockerTypeOK
  <2>3. LockerTypeOK'
    BY <1>1 DEF LockerInv, LockerTypeOK
  <2>4. RequestMatchesCount'
    BY <1>1, <2>1, <2>2 DEF LockerInv, RequestMatchesCount
  <2>5. NoDanglingHandle' /\ HandlesDiffer'
    BY <1>1, <2>1 DEF LockerInv, NoDanglingHandle, HandlesDiffer
  <2> QED
    BY <2>3, <2>4, <2>5 DEF LockerInv
<1>2. CASE UNCHANGED lockerVars
  BY <1>2 DEF LockerInv, lockerVars, LockerTypeOK, RequestMatchesCount, NoDanglingHandle, HandlesDiffer
<1>3. ASSUME lockCount[t] = 0, NEW h \in Handles \ openHandles,
             openHandles' = openHandles \cup {h},
             requests' = requests \cup {<<h, t>>},
             lockHandle' = [lockHandle EXCEPT ![t] = h],
             lockCount' = [lockCount EXCEPT ![t] = 1]
      PROVE  LockerInv'
  <2>1. /\ lockCount \in [LockTypes -> Nat]
        /\ lockHandle \in [LockTypes -> Handles \cup {0}]
    BY DEF LockerInv, LockerTypeOK
  <2>2. LockerTypeOK'
    BY <1>3 DEF LockerInv, LockerTypeOK
  <2>3. \A u \in LockTypes : lockCount[u] > 0 => lockHandle[u] # h /\ u # t
    BY <1>3, InForce DEF LockerInv
  <2>4. /\ \A u \in LockTypes : u # t => lockCount'[u] = lockCount[u] /\ lockHandle'[u] = lockHandle[u]
        /\ lockCount'[t] = 1 /\ lockHandle'[t] = h
    BY <1>3, <2>1
  <2>5. RequestMatchesCount'
    <3>1. requests' = {<<lockHandle'[u], u>> : u \in {v \in LockTypes : lockCount'[v] > 0}}
      <4>1. \A r \in requests' : \E u \in LockTypes : lockCount'[u] > 0 /\ r = <<lockHandle'[u], u>>
        BY <1>3, <2>1, <2>3, <2>4 DEF LockerInv, RequestMatchesCount
      <4>2. \A u \in LockTypes : lockCount'[u] > 0 => <<lockHandle'[u], u>> \in requests'
        BY <1>3, <2>1, <2>4 DEF LockerInv, RequestMatchesCount
      <4> QED
        BY <4>1, <4>2
    <3>2. \A u \in LockTypes : lockCount'[u] = 0 <=> lockHandle'[u] = 0
      BY <2>4, LockerAssumption DEF LockerInv, RequestMatchesCount
    <3> QED
      BY <3>1, <3>2 DEF RequestMatchesCount
  <2>6. NoDanglingHandle'
    <3>1. openHandles = {r[1] : r \in requests}
      BY DEF LockerInv, NoDanglingHandle
    <3>2. \A k \in openHandles' : \E r \in requests' : k = r[1]
      <4> SUFFICES ASSUME NEW k \in openHandles' PROVE \E r \in requests' : k = r[1]
        OBVIOUS
      <4>1. CASE k = h
        <5>1. <<h, t>> \in requests' /\ <<h, t>>[1] = k
          BY <4>1, <1>3
        <5> QED
          BY <5>1
      <4>2. CASE k \in openHandles
        BY <4>2, <3>1, <1>3
      <4> QED
        BY <4>1, <4>2, <1>3
    <3>3. \A r \in requests' : r[1] \in openHandles'
      BY <3>1, <1>3
    <3> QED
      BY <3>2, <3>3 DEF NoDanglingHandle
  <2>7. HandlesDiffer'
    <3> SUFFICES ASSUME NEW u \in LockTypes, NEW v \in LockTypes,
                        lockCount'[u] > 0, lockHandle'[u] = lockHandle'[v]
                 PROVE  u = v
      BY DEF HandlesDiffer
    <3>1. CASE u = t
      <4>1. v # t => lockHandle[v] = h
        BY <3>1, <2>4
      <4>2. lockHandle[v] = h => lockCount[v] # 0
        BY <2>1, LockerAssumption DEF LockerInv, RequestMatchesCount
      <4> QED
        BY <3>1, <4>1, <4>2, <2>1, <2>3
    <3>2. CASE u # t
      <4>1. lockCount[u] > 0 /\ lockHandle'[u] = lockHandle[u] /\ lockHandle[u] # h
        BY <3>2, <2>3, <2>4
      <4>2. v # t /\ lockHandle'[v] = lockHandle[v]
        BY <4>1, <2>4, Zenon
      <4> QED
        BY <4>1, <4>2, Zenon DEF LockerInv, HandlesDiffer
    <3> QED
      BY <3>1, <3>2
  <2> QED
    BY <2>2, <2>5, <2>6, <2>7 DEF LockerInv
<1> QED
  BY <1>1, <1>2, <1>3 DEF AcquireLock, CreateFails

\* ReleaseLock: a nested lock, a failure that keeps everything, or the last lock,
\* whose handle goes with its request and with no other.
LEMMA ReleaseInv ==
    ASSUME LockerInv, NEW t \in LockTypes, NEW ok \in BOOLEAN, ReleaseLock(t, ok)
    PROVE  LockerInv'
<1>1. CASE UNCHANGED lockerVars
  BY <1>1 DEF LockerInv, lockerVars, LockerTypeOK, RequestMatchesCount, NoDanglingHandle, HandlesDiffer
<1>2. CASE lockCount[t] > 1 /\ lockCount' = [lockCount EXCEPT ![t] = @ - 1]
           /\ UNCHANGED <<lockHandle, openHandles, requests>>
  <2>1. \A u \in LockTypes : lockCount'[u] > 0 <=> lockCount[u] > 0
    BY <1>2 DEF LockerInv, LockerTypeOK
  <2>2. \A u \in LockTypes : lockCount'[u] = 0 <=> lockCount[u] = 0
    BY <1>2 DEF LockerInv, LockerTypeOK
  <2>3. LockerTypeOK'
    BY <1>2 DEF LockerInv, LockerTypeOK
  <2>4. RequestMatchesCount'
    BY <1>2, <2>1, <2>2 DEF LockerInv, RequestMatchesCount
  <2>5. NoDanglingHandle' /\ HandlesDiffer'
    BY <1>2, <2>1 DEF LockerInv, NoDanglingHandle, HandlesDiffer
  <2> QED
    BY <2>3, <2>4, <2>5 DEF LockerInv
<1>3. CASE lockCount[t] = 1 /\ CloseRequest(lockHandle[t])
           /\ lockCount' = [lockCount EXCEPT ![t] = 0]
           /\ lockHandle' = [lockHandle EXCEPT ![t] = 0]
  <2>1. /\ lockCount \in [LockTypes -> Nat]
        /\ lockHandle \in [LockTypes -> Handles \cup {0}]
        /\ requests \subseteq openHandles \X LockTypes
    BY DEF LockerInv, LockerTypeOK
  <2>2. /\ \A u \in LockTypes : u # t => lockCount'[u] = lockCount[u] /\ lockHandle'[u] = lockHandle[u]
        /\ lockCount'[t] = 0 /\ lockHandle'[t] = 0
    BY <1>3, <2>1
  <2>3. \A u \in LockTypes : lockCount[u] > 0 /\ u # t => lockHandle[u] # lockHandle[t]
    BY <1>3 DEF LockerInv, HandlesDiffer
  <2>4. LockerTypeOK'
    BY <1>3, <2>1 DEF LockerInv, LockerTypeOK, CloseRequest
  <2>5. RequestMatchesCount'
    <3>1. \A r \in requests' : \E u \in LockTypes : lockCount'[u] > 0 /\ r = <<lockHandle'[u], u>>
      BY <1>3, <2>1, <2>2 DEF LockerInv, RequestMatchesCount, CloseRequest
    <3>2. \A u \in LockTypes : lockCount'[u] > 0 => <<lockHandle'[u], u>> \in requests'
      BY <1>3, <2>1, <2>2, <2>3 DEF LockerInv, RequestMatchesCount, CloseRequest
    <3>3. requests' = {<<lockHandle'[u], u>> : u \in {v \in LockTypes : lockCount'[v] > 0}}
      BY <3>1, <3>2
    <3>4. \A u \in LockTypes : lockCount'[u] = 0 <=> lockHandle'[u] = 0
      BY <2>2 DEF LockerInv, RequestMatchesCount
    <3> QED
      BY <3>3, <3>4 DEF RequestMatchesCount
  <2>6. NoDanglingHandle'
    BY <1>3 DEF LockerInv, NoDanglingHandle, CloseRequest
  <2>7. HandlesDiffer'
    <3> SUFFICES ASSUME NEW u \in LockTypes, NEW v \in LockTypes,
                        lockCount'[u] > 0, lockHandle'[u] = lockHandle'[v]
                 PROVE  u = v
      BY DEF HandlesDiffer
    <3>1. u # t /\ lockCount[u] > 0 /\ lockHandle[u] # 0
      BY <2>1, <2>2 DEF LockerInv, RequestMatchesCount
    <3>2. v # t
      BY <3>1, <2>2
    <3> QED
      BY <3>1, <3>2, <2>2 DEF LockerInv, HandlesDiffer
  <2> QED
    BY <2>4, <2>5, <2>6, <2>7 DEF LockerInv
<1> QED
  BY <1>1, <1>2, <1>3 DEF ReleaseLock

\* ReleaseAll leaves no request and no handle: every open one belongs to a type.
LEMMA ReleaseAllInv ==
    ASSUME LockerInv, LockerReleaseAll
    PROVE  LockerInv'
<1>1. openHandles' = {} /\ requests' = {}
  BY InForce DEF LockerInv, LockerTypeOK, LockerReleaseAll
<1>2. LockerTypeOK'
  BY <1>1 DEF LockerReleaseAll, LockerTypeOK
<1>3. RequestMatchesCount' /\ NoDanglingHandle' /\ HandlesDiffer'
  BY <1>1 DEF LockerReleaseAll, RequestMatchesCount, NoDanglingHandle, HandlesDiffer
<1> QED
  BY <1>2, <1>3 DEF LockerInv

\* The invariant holds in every state of the locker.
LEMMA LockerInvariant == LockerSpec => []LockerInv
<1>1. LockerInv /\ [LockerNext]_lockerVars => LockerInv'
  <2> SUFFICES ASSUME LockerInv, [LockerNext]_lockerVars PROVE LockerInv'
    OBVIOUS
  <2>1. CASE UNCHANGED lockerVars
    BY <2>1 DEF LockerInv, lockerVars, LockerTypeOK, RequestMatchesCount, NoDanglingHandle, HandlesDiffer
  <2>2. ASSUME NEW t \in LockTypes, NEW ok \in BOOLEAN, ReleaseLock(t, ok) PROVE LockerInv'
    BY <2>2, ReleaseInv
  <2>3. ASSUME NEW t \in LockTypes, NEW ok \in BOOLEAN, AcquireLock(t, ok) PROVE LockerInv'
    BY <2>3, AcquireInv
  <2>4. CASE LockerReleaseAll
    BY <2>4, ReleaseAllInv
  <2> QED
    BY <2>1, <2>2, <2>3, <2>4 DEF LockerNext
<1> QED
  BY <1>1, LockerInitInv, PTL DEF LockerSpec

\* A power request is in force exactly while its type is counted, and no request handle is
\* left open, whatever calls fail and however the locks are nested.
THEOREM LockerKeepsRequests == LockerSpec => []RequestsAreOwned
BY LockerInvariant, PTL DEF LockerInv, RequestsAreOwned
----------------------------------------------------------------------------
(* The cardinality of the holders.                                         *)

Finite == INSTANCE FiniteSetTheorems

\* A set that is numbered up to n has n elements.
LEMMA SizedCardinality ==
  ASSUME NEW S, NEW n \in Nat, Sized(S, n)
  PROVE  n = Cardinality(S)
<1>1. Finite!ExistsBijection(1..n, S)
  BY DEF Sized, Numbering, Finite!ExistsBijection, Finite!Bijection, Finite!Injection,
         Finite!Surjection, Finite!IsInjective
<1>2. Finite!Cardinality(S) = n
  BY <1>1, Finite!FS_CountingElements
<1> QED BY <1>2 DEF Finite!Cardinality, Cardinality

\* The invariant contains what LeaseIsExact states.
LEMMA ExactMeansLeaseIsExact ==
  ASSUME Exact(leases, os) PROVE LeaseIsExact
<1>1. \A p \in Pids : {g \in GameIds : Held(g) /\ leases[g].pid = p} = Holders(leases, p)
  BY DEF Holders, Held
<1>2. \A p \in Pids : OneLevel /\ os.raised[p] => Holders(leases, p) # {}
  BY Zenon DEF Exact
<1>3. \A p \in Pids : os.handles[p] \in Nat /\ Sized(Holders(leases, p), os.handles[p])
  BY Zenon DEF Exact, OsType
<1>4. \A p \in Pids : os.handles[p] = Cardinality(Holders(leases, p))
  BY <1>3, SizedCardinality
<1> QED BY <1>1, <1>2, <1>4, Zenon DEF Exact, LeaseIsExact, Held

\* For every set of games, processes and levels: the booster's leases stay in step with
\* processes, handles and boosts, whichever backend calls fail, however pids are used
\* again, and while ReleaseAll is on its way.
THEOREM LeasesStayExact == BoosterSpec => [](BoosterTypeOK /\ LeaseIsExact)
<1>1. BoosterInv => BoosterTypeOK /\ LeaseIsExact
  BY ExactMeansLeaseIsExact, Zenon DEF BoosterInv, BoosterTypeOK, Exact
<1> QED BY <1>1, BoosterInvariant, PTL
=============================================================================
