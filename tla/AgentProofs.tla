----------------------------- MODULE AgentProofs -----------------------------
(***************************************************************************)
(* The agent's side: the commands that register the agent (AgentForm),     *)
(* any number of them at once, and the loop that reports to the host       *)
(* (PeriodicReporter), for any interval and any number of failures.        *)
(***************************************************************************)
EXTENDS AgentForm, PeriodicReporter, TLAPS

----------------------------------------------------------------------------
(* How the agent is registered.                                            *)

CommandFields == {"at", "verb", "target", "replace", "asked", "seen", "plan", "blind", "contended"}

\* The leaf commands in a plan.
Items(s) == {s[i] : i \in 1..Len(s)}

\* Leaf commands.
Installs(f) == Step(f, TRUE)
Removes(f) == Step(f, FALSE)

\* How a command ends.
Succeeds(c) == Return(c, TRUE)
Fails(c) == Return(c, FALSE)

\* Plans, and their first command and what follows it.
Plans(S) == Seq(S)
First(s) == Head(s)
Rest(s) == Tail(s)

\* What a command that wants one form may do: install it, or remove another.
Leaves(target) == {Installs(target)} \cup {Removes(f) : f \in Forms \ {target}}
AllLeaves == {Installs(f) : f \in Forms} \cup {Removes(f) : f \in Forms}

Wants(c) == c.at \notin {"off", "succeeded"} /\ c.verb # "remove"
Alone(c) == Wants(c) /\ ~c.contended

CommandShape(c) ==
    /\ DOMAIN c = CommandFields
    /\ c.at \in {"off", "query", "gate", "act", "record", "succeeded"}
    /\ c.contended \in BOOLEAN /\ c.blind \in BOOLEAN
    /\ Wants(c) => c.verb \in {"install", "apply"} /\ c.target \in Forms
    /\ c.at = "query" => Wants(c) /\ c.asked \in 0..2 /\ c.seen \subseteq Forms
    /\ c.at \in {"gate", "act", "record"} =>
          /\ c.plan \in Plans(AllLeaves) /\ Items(c.plan) # {}
          /\ Wants(c) => c.plan \in Plans(Leaves(c.target))

\* What a command that nobody gets in the way of knows of the forms in reg: that its form
\* is there or will be installed next, and that it will remove what else is there.
Knows(c, reg) ==
    /\ c.at = "query" =>
          /\ c.target \in c.seen => c.target \in reg
          /\ ~c.blind => \A i \in 1..c.asked :
                FormOrder[i] \in reg \ {c.target} => FormOrder[i] \in c.seen
    /\ c.at \in {"gate", "act"} =>
          /\ c.target \in reg \/ First(c.plan) = Installs(c.target)
          /\ ~c.blind => \A f \in reg \ {c.target} : Removes(f) \in Items(c.plan)
    /\ c.at = "record" =>
          /\ c.target \in reg
          /\ ~c.blind => \A f \in reg \ {c.target} : Removes(f) \in Items(Rest(c.plan))

FormsInv ==
    /\ registeredForms \subseteq Forms
    /\ declared \in Forms
    /\ DOMAIN cmd = Shells
    /\ \A p \in Shells : CommandShape(cmd[p])
    /\ \A p \in Shells : Alone(cmd[p]) => Knows(cmd[p], registeredForms)
    /\ \A p, q \in Shells : p # q /\ Alone(cmd[p]) /\ AtWork(q) => SameAim(cmd[q], cmd[p])

----------------------------------------------------------------------------
(* Plans.                                                                  *)

\* The three forms, in the order in which they are asked for.
LEMMA FormsAre == Forms = {"startup_tray", "task", "service"} /\ Len(FormOrder) = 3
                  /\ FormOrder[1] = "startup_tray" /\ FormOrder[2] = "task" /\ FormOrder[3] = "service"
<1>1. Len(FormOrder) = 3 /\ DOMAIN FormOrder = 1..3
      /\ FormOrder[1] = "startup_tray" /\ FormOrder[2] = "task" /\ FormOrder[3] = "service"
  BY DEF FormOrder
<1>2. QED
  BY <1>1 DEF Forms

\* A plan is its first command and the rest.
LEMMA ItemsOf ==
    ASSUME NEW S, NEW s \in Seq(S)
    PROVE  /\ Items(s) \subseteq S
           /\ Items(s) = {} <=> s = <<>>
           /\ s # <<>> => /\ Head(s) \in S /\ Tail(s) \in Seq(S)
                          /\ Items(s) = {Head(s)} \cup Items(Tail(s))
<1>1. Items(s) \subseteq S /\ (Items(s) = {} <=> s = <<>>)
  BY DEF Items
<1>2. ASSUME s # <<>>
      PROVE  /\ Head(s) \in S /\ Tail(s) \in Seq(S)
             /\ Items(s) = {Head(s)} \cup Items(Tail(s))
  <2>1. /\ Head(s) = s[1] /\ Len(s) \in Nat /\ Len(s) >= 1 /\ Head(s) \in S
        /\ Tail(s) \in Seq(S) /\ Len(Tail(s)) = Len(s) - 1
        /\ \A i \in 1..Len(s) - 1 : Tail(s)[i] = s[i + 1]
    BY <1>2
  <2>2. Items(s) \subseteq {Head(s)} \cup Items(Tail(s))
    <3> SUFFICES ASSUME NEW i \in 1..Len(s), i # 1
                 PROVE  s[i] \in Items(Tail(s))
      BY <2>1 DEF Items
    <3>1. i - 1 \in 1..Len(s) - 1 /\ (i - 1) + 1 = i
      BY <2>1
    <3>2. Tail(s)[i - 1] = s[i]
      BY <2>1, <3>1
    <3>3. QED
      BY <2>1, <3>1, <3>2 DEF Items
  <2>3. {Head(s)} \cup Items(Tail(s)) \subseteq Items(s)
    <3>1. \A i \in 1..Len(s) - 1 : i + 1 \in 1..Len(s)
      BY <2>1
    <3>2. QED
      BY <2>1, <3>1 DEF Items
  <2>4. QED
    BY <2>1, <2>2, <2>3
<1>3. QED
  BY <1>1, <1>2

\* The same of plans as the steps below see them.
LEMMA PlanIs ==
    ASSUME NEW S, NEW s \in Plans(S)
    PROVE  /\ Items(s) \subseteq S
           /\ Items(s) = {} <=> s = <<>>
           /\ Items(s) # {} => /\ First(s) \in S /\ Rest(s) \in Plans(S)
                              /\ Items(s) = {First(s)} \cup Items(Rest(s))
BY ItemsOf DEF Plans, First, Rest

\* Two plans, one after the other.
LEMMA ConcatIs ==
    ASSUME NEW S, NEW s \in Seq(S), NEW t \in Seq(S)
    PROVE  /\ s \o t \in Seq(S) /\ Len(s \o t) = Len(s) + Len(t)
           /\ Len(s) \in Nat /\ Len(t) \in Nat
           /\ \A i \in 1..Len(s) : (s \o t)[i] = s[i]
           /\ \A i \in 1..Len(t) : (s \o t)[Len(s) + i] = t[i]
OBVIOUS

\* It has the commands of both.
LEMMA ItemsConcat ==
    ASSUME NEW S, NEW s \in Seq(S), NEW t \in Seq(S)
    PROVE  s \o t \in Seq(S) /\ Items(s \o t) = Items(s) \cup Items(t)
<1>1. /\ s \o t \in Seq(S) /\ Len(s \o t) = Len(s) + Len(t) /\ Len(s) \in Nat /\ Len(t) \in Nat
      /\ \A i \in 1..Len(s) : (s \o t)[i] = s[i]
      /\ \A i \in 1..Len(t) : (s \o t)[Len(s) + i] = t[i]
  BY ConcatIs
<1>2. Items(s) \cup Items(t) \subseteq Items(s \o t)
  <2>1. \A i \in 1..Len(s) : i \in 1..(Len(s) + Len(t))
    BY <1>1
  <2>2. \A i \in 1..Len(t) : Len(s) + i \in 1..(Len(s) + Len(t))
    BY <1>1
  <2>3. QED
    BY <1>1, <2>1, <2>2, Zenon DEF Items
<1>3. Items(s \o t) \subseteq Items(s) \cup Items(t)
  <2> SUFFICES ASSUME NEW i \in 1..(Len(s) + Len(t))
               PROVE  (s \o t)[i] \in Items(s) \cup Items(t)
    BY <1>1 DEF Items
  <2>1. CASE i \in 1..Len(s)
    BY <1>1, <2>1 DEF Items
  <2>2. CASE i \notin 1..Len(s)
    <3>1. i - Len(s) \in 1..Len(t) /\ Len(s) + (i - Len(s)) = i
      BY <1>1, <2>2
    <3>2. (s \o t)[i] = t[i - Len(s)]
      BY <1>1, <3>1
    <3>3. QED
      BY <3>1, <3>2 DEF Items
  <2>3. QED
    BY <2>1, <2>2
<1>4. QED
  BY <1>1, <1>2, <1>3

\* A plan of one command.
LEMMA OneItem ==
    ASSUME NEW S, NEW x \in S
    PROVE  /\ <<x>> \in Seq(S) /\ Items(<<x>>) = {x} /\ <<x>> # <<>>
           /\ <<x>>[1] = x /\ Len(<<x>>) = 1
BY DEF Items

\* A plan that begins with one.
LEMMA HeadConcat ==
    ASSUME NEW S, NEW s \in Seq(S), NEW t \in Seq(S), Len(s) = 1
    PROVE  s \o t # <<>> /\ Head(s \o t) = s[1]
<1>1. /\ s \o t \in Seq(S) /\ Len(s \o t) = Len(s) + Len(t) /\ Len(t) \in Nat
      /\ \A i \in 1..Len(s) : (s \o t)[i] = s[i]
  BY ConcatIs
<1>2. Len(s \o t) >= 1 /\ 1 \in 1..Len(s)
  BY <1>1
<1>3. (s \o t)[1] = s[1]
  BY <1>1, <1>2
<1> QED
  BY <1>1, <1>2, <1>3

\* A plan that puts one command before the others.
LEMMA ItemFirst ==
    ASSUME NEW S, NEW x \in S, NEW s \in Seq(S)
    PROVE  /\ <<x>> \o s \in Seq(S) /\ Items(<<x>> \o s) = {x} \cup Items(s)
           /\ <<x>> \o s # <<>> /\ Head(<<x>> \o s) = x
<1>1. PICK one : one = <<x>>
  BY Zenon
<1>2. one \in Seq(S) /\ Items(one) = {x} /\ one[1] = x /\ Len(one) = 1
  BY <1>1, OneItem
<1>3. one \o s \in Seq(S) /\ Items(one \o s) = Items(one) \cup Items(s)
  BY <1>2, ItemsConcat
<1>4. one \o s # <<>> /\ Head(one \o s) = one[1]
  BY <1>2, HeadConcat
<1>5. QED
  BY <1>1, <1>2, <1>3, <1>4

\* ConflictingAgentForms lists the other forms that were found, and no more.
LEMMA ConflictsAre ==
    ASSUME NEW target \in Forms, NEW seen \in SUBSET Forms
    PROVE  /\ ConflictingAgentForms(target, seen) \in Seq(Forms)
           /\ Items(ConflictingAgentForms(target, seen)) = seen \ {target}
<1> DEFINE Conflict(f) == IF f # target /\ f \in seen THEN <<f>> ELSE <<>>
<1>1. ASSUME NEW f \in Forms
      PROVE  Conflict(f) \in Seq(Forms) /\ Items(Conflict(f)) = (seen \ {target}) \cap {f}
  <2>1. CASE f # target /\ f \in seen
    <3>1. Conflict(f) = <<f>> /\ <<f>> \in Seq(Forms) /\ Items(<<f>>) = {f}
      BY <2>1 DEF Items
    <3>2. QED
      BY <2>1, <3>1
  <2>2. CASE ~(f # target /\ f \in seen)
    <3>1. Conflict(f) = <<>> /\ <<>> \in Seq(Forms) /\ Items(<<>>) = {}
      BY <2>2 DEF Items
    <3>2. QED
      BY <2>2, <3>1
  <2>3. QED
    BY <2>1, <2>2
<1>2. ConflictingAgentForms(target, seen) =
         Conflict("startup_tray") \o Conflict("task") \o Conflict("service")
  BY DEF ConflictingAgentForms
<1> HIDE DEF Conflict
<1>3. /\ Conflict("startup_tray") \o Conflict("task") \in Seq(Forms)
      /\ Items(Conflict("startup_tray") \o Conflict("task")) =
            (seen \ {target}) \cap {"startup_tray", "task"}
  BY <1>1, FormsAre, ItemsConcat
<1>4. Items(Conflict("service")) = (seen \ {target}) \cap {"service"}
      /\ Conflict("service") \in Seq(Forms)
  BY <1>1, FormsAre
<1>5. /\ ConflictingAgentForms(target, seen) \in Seq(Forms)
      /\ Items(ConflictingAgentForms(target, seen)) =
            (seen \ {target}) \cap {"startup_tray", "task", "service"}
  <2> DEFINE two == Conflict("startup_tray") \o Conflict("task")
  <2>1. /\ two \o Conflict("service") \in Seq(Forms)
        /\ Items(two \o Conflict("service")) = Items(two) \cup Items(Conflict("service"))
    <3>1. two \in Seq(Forms) /\ Conflict("service") \in Seq(Forms)
      BY <1>3, <1>4
    <3> HIDE DEF two
    <3>2. QED
      BY <3>1, ItemsConcat
  <2>2. QED
    BY <1>2, <1>3, <1>4, <2>1
<1>6. QED
  BY <1>5, FormsAre, Zenon

\* A removal for each of them.
LEMMA RemovalsAre ==
    ASSUME NEW target \in Forms, NEW forms \in Seq(Forms), Items(forms) \subseteq Forms \ {target}
    PROVE  /\ Removals(forms) \in Seq(Leaves(target))
           /\ Items(Removals(forms)) = {Removes(f) : f \in Items(forms)}
<1>1. /\ DOMAIN forms = 1..Len(forms) /\ Len(forms) \in Nat
      /\ Removals(forms) = [i \in 1..Len(forms) |-> Removes(forms[i])]
  BY DEF Removals, Removes
<1>2. \A i \in 1..Len(forms) : Removes(forms[i]) \in Leaves(target)
  BY DEF Items, Leaves
<1>3. Removals(forms) \in Seq(Leaves(target)) /\ Len(Removals(forms)) = Len(forms)
  <2> DEFINE n == Len(forms)  L == Leaves(target)  e(i) == Removes(forms[i])
  <2>1. n \in Nat /\ \A i \in 1..n : e(i) \in L
    BY <1>1, <1>2
  <2>2. Removals(forms) = [i \in 1..n |-> e(i)]
    BY <1>1
  <2> HIDE DEF n, L, e
  <2>3. [i \in 1..n |-> e(i)] \in Seq(L) /\ Len([i \in 1..n |-> e(i)]) = n
    BY <2>1
  <2>4. QED
    BY <2>2, <2>3 DEF n, L
<1>4. \A i \in 1..Len(forms) : Removals(forms)[i] = Removes(forms[i])
  BY <1>1
<1>5. QED
  BY <1>3, <1>4 DEF Items

----------------------------------------------------------------------------
(* What becomes of a command.                                              *)

\* A leaf command is its form and what is done with it.
LEMMA StepIs ==
    ASSUME NEW f, NEW g
    PROVE  /\ Installs(f).form = f /\ Installs(f).install = TRUE
           /\ Removes(f).form = f /\ Removes(f).install = FALSE
           /\ Installs(f) # Removes(g)
           /\ Installs(f) = Installs(g) => f = g
           /\ Removes(f) = Removes(g) => f = g
<1>1. /\ Installs(f).form = f /\ Installs(f).install = TRUE
      /\ Removes(f).form = f /\ Removes(f).install = FALSE
      /\ Installs(g).form = g /\ Removes(g).form = g /\ Removes(g).install = FALSE
  BY Zenon DEF Installs, Removes, Step
<1>2. QED
  BY <1>1, Zenon

\* A command that has ended is nobody's rival.
LEMMA EndedIs ==
    ASSUME NEW c
    PROVE  /\ CommandShape(Succeeds(c)) /\ ~Wants(Succeeds(c))
           /\ Succeeds(c).at = (IF c.blind THEN "off" ELSE "succeeded")
           /\ CommandShape(Fails(c)) /\ ~Wants(Fails(c)) /\ Fails(c).at = "off"
           /\ CommandShape(NoCommand) /\ ~Wants(NoCommand) /\ NoCommand.at = "off"
<1>1. /\ DOMAIN NoCommand = CommandFields /\ NoCommand.at = "off"
      /\ DOMAIN Succeeds(c) = CommandFields /\ DOMAIN Fails(c) = CommandFields
      /\ Succeeds(c).at = (IF c.blind THEN "off" ELSE "succeeded") /\ Fails(c).at = "off"
  BY DEF Succeeds, Fails, Return, NoCommand, CommandFields
<1>2. NoCommand.contended \in BOOLEAN /\ NoCommand.blind \in BOOLEAN
  BY Zenon DEF NoCommand
<1>3. /\ Succeeds(c).contended = NoCommand.contended /\ Succeeds(c).blind = NoCommand.blind
      /\ Fails(c).contended = NoCommand.contended /\ Fails(c).blind = NoCommand.blind
  BY DEF Succeeds, Fails, Return, NoCommand
<1>4. QED
  BY <1>1, <1>2, <1>3 DEF CommandShape, Wants

\* What a command knows stays true when its form stays and no other one comes.
LEMMA KnowsStill ==
    ASSUME NEW c, NEW reg, NEW left, Knows(c, reg),
           c.target \in reg => c.target \in left,
           left \ {c.target} \subseteq reg
    PROVE  Knows(c, left)
BY DEF Knows

\* A command goes on, or ends.
Follows(c, d) ==
    \/ d.at \in {"off", "succeeded"}
    \/ /\ c.at \notin {"off", "succeeded"}
       /\ d.verb = c.verb /\ d.target = c.target /\ d.contended = c.contended

\* One command moves on; what the others know must still be true.
LEMMA CommandMoves ==
    ASSUME FormsInv, declared' = declared,
           registeredForms' \subseteq Forms,
           NEW p \in Shells, NEW d, cmd' = [cmd EXCEPT ![p] = d],
           CommandShape(d), Follows(cmd[p], d),
           Alone(d) => Knows(d, registeredForms'),
           \A q \in Shells \ {p} : Alone(cmd[q]) => Knows(cmd[q], registeredForms')
    PROVE  FormsInv'
<1>1. DOMAIN cmd' = Shells /\ cmd'[p] = d /\ \A q \in Shells \ {p} : cmd'[q] = cmd[q]
  BY DEF FormsInv
<1>2. \A q \in Shells : CommandShape(cmd'[q]) /\ (Alone(cmd'[q]) => Knows(cmd'[q], registeredForms'))
  BY <1>1 DEF FormsInv
<1>3. \A q \in Shells : (AtWork(q)' => AtWork(q)) /\ (AtWork(q)' => cmd'[q].verb = cmd[q].verb
         /\ cmd'[q].target = cmd[q].target /\ cmd'[q].contended = cmd[q].contended)
  BY <1>1 DEF AtWork, Follows
<1>4. \A q \in Shells : Alone(cmd'[q]) => Alone(cmd[q])
  BY <1>3 DEF Alone, Wants, AtWork
<1>5. ASSUME NEW q \in Shells, NEW r \in Shells, q # r, Alone(cmd'[q]), AtWork(r)'
      PROVE  SameAim(cmd'[r], cmd'[q])
  <2>1. AtWork(q)' /\ Alone(cmd[q]) /\ AtWork(r)
    BY <1>3, <1>4, <1>5 DEF Alone, Wants, AtWork
  <2>2. SameAim(cmd[r], cmd[q])
    BY <1>5, <2>1 DEF FormsInv
  <2>3. QED
    BY <1>3, <1>5, <2>1, <2>2 DEF SameAim
<1>6. QED
  BY <1>1, <1>2, <1>5 DEF FormsInv

\* A plan is taken up, or there is nothing left to do.
LEMMA StartIs ==
    ASSUME NEW c, NEW reg \in SUBSET Forms, DOMAIN c = CommandFields,
           c.at \notin {"off", "succeeded"}, c.contended \in BOOLEAN, c.blind \in BOOLEAN,
           Wants(c) => c.verb \in {"install", "apply"} /\ c.target \in Forms,
           NEW plan \in Plans(AllLeaves),
           Wants(c) => plan \in Plans(Leaves(c.target)),
           Alone(c) => /\ c.target \in reg \/ (Items(plan) # {} /\ First(plan) = Installs(c.target))
                       /\ ~c.blind => \A f \in reg \ {c.target} : Removes(f) \in Items(plan)
    PROVE  /\ CommandShape(StartCommand(c, plan)) /\ Follows(c, StartCommand(c, plan))
           /\ Alone(StartCommand(c, plan)) => Knows(StartCommand(c, plan), reg)
           /\ Alone(c) /\ StartCommand(c, plan).at = "succeeded" => reg = {c.target}
<1>1. CASE plan = <<>>
  <2>1. StartCommand(c, plan) = Succeeds(c)
    BY <1>1 DEF StartCommand, Succeeds
  <2>2. /\ CommandShape(Succeeds(c)) /\ ~Wants(Succeeds(c))
        /\ Succeeds(c).at = (IF c.blind THEN "off" ELSE "succeeded")
    BY EndedIs, Zenon
  <2>3. Items(plan) = {}
    BY <1>1, PlanIs, Zenon
  <2>4. Alone(c) /\ ~c.blind => reg = {c.target}
    BY <1>1, <2>3
  <2>5. QED
    BY <2>1, <2>2, <2>4 DEF Alone, Follows
<1>2. CASE plan # <<>>
  <2> DEFINE d == [c EXCEPT !.at = "gate", !.replace = FALSE, !.asked = 0, !.seen = {}, !.plan = plan]
  <2>1. StartCommand(c, plan) = d
    BY <1>2 DEF StartCommand
  <2>2. /\ DOMAIN d = CommandFields /\ d.at = "gate" /\ d.verb = c.verb /\ d.target = c.target
        /\ d.plan = plan /\ d.blind = c.blind /\ d.contended = c.contended
    BY DEF CommandFields
  <2> HIDE DEF d
  <2>3. Wants(d) = Wants(c) /\ Alone(d) = Alone(c)
    BY <2>2 DEF Wants, Alone
  <2>4. CommandShape(d)
    <3>1. Items(plan) = {} <=> plan = <<>>
      BY PlanIs, Zenon
    <3>2. QED
      BY <1>2, <2>2, <2>3, <3>1 DEF CommandShape
  <2>5. Alone(d) => Knows(d, reg)
    BY <2>2, <2>3 DEF Knows
  <2>6. QED
    BY <2>1, <2>2, <2>4, <2>5 DEF Follows
<1>3. QED
  BY <1>1, <1>2

\* A command that wants one form runs leaf commands like any other.
LEMMA LeavesAre ==
    ASSUME NEW t \in Forms
    PROVE  Leaves(t) \subseteq AllLeaves /\ Plans(Leaves(t)) \subseteq Plans(AllLeaves)
<1>1. Leaves(t) \subseteq AllLeaves
  BY DEF Leaves, AllLeaves
<1>2. QED
  BY <1>1 DEF Plans

\* Decide, when all three forms were asked for.
LEMMA DecideIs ==
    ASSUME NEW c, NEW reg \in SUBSET Forms, DOMAIN c = CommandFields, c.at = "query",
           c.contended \in BOOLEAN, c.blind \in BOOLEAN,
           c.verb \in {"install", "apply"}, c.target \in Forms, c.seen \subseteq Forms,
           Alone(c) /\ c.target \in c.seen => c.target \in reg,
           Alone(c) /\ ~c.blind => reg \ {c.target} \subseteq c.seen
    PROVE  /\ CommandShape(Decide(c)) /\ Follows(c, Decide(c))
           /\ Alone(Decide(c)) => Knows(Decide(c), reg)
           /\ Alone(c) /\ Decide(c).at = "succeeded" => reg = {c.target}
<1> DEFINE t == c.target
           removals == Removals(ConflictingAgentForms(t, c.seen))
           install == <<Installs(t)>>
           Good(plan) ==
              /\ CommandShape(StartCommand(c, plan)) /\ Follows(c, StartCommand(c, plan))
              /\ Alone(StartCommand(c, plan)) => Knows(StartCommand(c, plan), reg)
              /\ Alone(c) /\ StartCommand(c, plan).at = "succeeded" => reg = {c.target}
<1>1. /\ removals \in Plans(Leaves(t))
      /\ Items(removals) = {Removes(f) : f \in c.seen \ {t}}
  <2>1. /\ ConflictingAgentForms(t, c.seen) \in Seq(Forms)
        /\ Items(ConflictingAgentForms(t, c.seen)) = c.seen \ {t}
    BY ConflictsAre
  <2>2. QED
    BY <2>1, RemovalsAre DEF Plans
<1>2. Installs(t) \in Leaves(t)
  BY DEF Leaves
<1>3. ASSUME NEW plan \in Plans(Leaves(t)),
             t \in c.seen \/ (Items(plan) # {} /\ First(plan) = Installs(t)),
             Items(removals) \subseteq Items(plan)
      PROVE  Good(plan)
  <2>1. plan \in Plans(AllLeaves)
    BY <1>3, LeavesAre
  <2>2. Wants(c)
    BY DEF Wants
  <2>3. Alone(c) => /\ t \in reg \/ (Items(plan) # {} /\ First(plan) = Installs(t))
                    /\ ~c.blind => \A f \in reg \ {t} : Removes(f) \in Items(plan)
    BY <1>1, <1>3
  <2>4. QED
    BY <1>3, <2>1, <2>2, <2>3, StartIs
<1>4. /\ install \o removals \in Plans(Leaves(t))
      /\ Items(install \o removals) = {Installs(t)} \cup Items(removals)
      /\ First(install \o removals) = Installs(t)
  <2> HIDE DEF removals, Good, t
  <2>1. QED
    BY <1>1, <1>2, ItemFirst DEF Plans, First
<1> DEFINE both == install \o removals
<1>5. Good(both)
  <2> HIDE DEF Good, both
  <2>1. both \in Plans(Leaves(t)) /\ Items(removals) \subseteq Items(both)
        /\ Items(both) # {} /\ First(both) = Installs(t)
    BY <1>4 DEF both
  <2>2. QED
    BY <1>3, <2>1
<1>6. t \in c.seen => Good(removals)
  <2> HIDE DEF Good, removals
  <2>1. QED
    BY <1>1, <1>3
<1>7. <<>> \o removals = removals
  <2> HIDE DEF removals
  <2>1. QED
    BY <1>1 DEF Plans
<1>8. CASE c.verb = "apply"
  <2>1. Decide(c) = StartCommand(c, ResolveFormApplyActions(t, c.seen))
    BY <1>8 DEF Decide, Installs, Fails
  <2>2. ResolveFormApplyActions(t, c.seen) = IF t \in c.seen THEN removals ELSE both
    BY <1>7, Zenon DEF ResolveFormApplyActions, Installs
  <2> HIDE DEF both, removals
  <2>3. QED
    BY <1>5, <1>6, <2>1, <2>2
<1>9. CASE c.verb = "install"
  <2>1. Decide(c) = Fails(c) \/ Decide(c) = StartCommand(c, both)
    BY <1>9, Zenon DEF Decide, Installs, Fails
  <2>2. /\ CommandShape(Fails(c)) /\ ~Wants(Fails(c))
        /\ Fails(c).at = "off"
    BY EndedIs
  <2> HIDE DEF both
  <2>3. QED
    BY <1>5, <2>1, <2>2 DEF Alone, Follows
<1>10. QED
  BY <1>8, <1>9

----------------------------------------------------------------------------
(* The steps.                                                              *)

\* What OneFormIsHandedOver says of a step.
HandsOver ==
    /\ registeredForms # {} /\ registeredForms' = {} =>
          \E p \in Shells :
              /\ cmd[p].at = "act" /\ cmd'[p].at = "record"
              /\ cmd[p].verb = "remove" \/ cmd[p].contended
    /\ \A p \in Shells :
          /\ AtWork(p) /\ cmd[p].verb # "remove" /\ ~cmd[p].contended
          /\ cmd'[p].at = "succeeded"
          => registeredForms' = {cmd[p].target}

\* A command moves and Windows' registrations stay as they are.
LEMMA CommandStands ==
    ASSUME FormsInv, declared' = declared, registeredForms' = registeredForms,
           NEW p \in Shells, NEW d, cmd' = [cmd EXCEPT ![p] = d],
           CommandShape(d), Follows(cmd[p], d),
           Alone(d) => Knows(d, registeredForms),
           Alone(cmd[p]) /\ d.at = "succeeded" => registeredForms = {cmd[p].target}
    PROVE  FormsInv' /\ HandsOver
<1>1. registeredForms \subseteq Forms /\ DOMAIN cmd = Shells
      /\ \A q \in Shells : Alone(cmd[q]) => Knows(cmd[q], registeredForms)
  BY DEF FormsInv
<1>2. FormsInv'
  BY <1>1, CommandMoves, Zenon
<1>3. cmd'[p] = d /\ \A q \in Shells \ {p} : cmd'[q] = cmd[q]
  BY <1>1
<1>4. HandsOver
  BY <1>3 DEF HandsOver, AtWork, Alone, Wants
<1>5. QED
  BY <1>2, <1>4

\* A command is killed.
LEMMA KillHands ==
    ASSUME FormsInv, NEW p \in Shells, KillCommand(p)
    PROVE  FormsInv' /\ HandsOver
<1>1. CommandShape(NoCommand) /\ ~Wants(NoCommand) /\ NoCommand.at = "off"
  BY EndedIs
<1>2. /\ declared' = declared /\ registeredForms' = registeredForms
      /\ cmd' = [cmd EXCEPT ![p] = NoCommand]
  BY DEF KillCommand
<1>3. Follows(cmd[p], NoCommand) /\ ~Alone(NoCommand)
  BY <1>1 DEF Follows, Alone
<1>4. QED
  BY <1>1, <1>2, <1>3, CommandStands, Zenon

\* A leaf command asks before it touches Windows.
LEMMA GateHands ==
    ASSUME FormsInv, NEW p \in Shells, GateForm(p)
    PROVE  FormsInv' /\ HandsOver
<1> DEFINE c == cmd[p]  d == [c EXCEPT !.at = "act"]
<1>1. c.at = "gate" /\ declared' = declared /\ registeredForms' = registeredForms
      /\ (cmd' = [cmd EXCEPT ![p] = d] \/ cmd' = [cmd EXCEPT ![p] = Fails(c)])
  BY Zenon DEF GateForm, Fails
<1>2. CommandShape(c) /\ (Alone(c) => Knows(c, registeredForms))
  BY DEF FormsInv
<1>3. CASE cmd' = [cmd EXCEPT ![p] = d]
  <2>1. /\ DOMAIN d = CommandFields /\ d.at = "act" /\ d.verb = c.verb /\ d.target = c.target
        /\ d.plan = c.plan /\ d.blind = c.blind /\ d.contended = c.contended
    BY <1>2 DEF CommandShape, CommandFields
  <2>2. PICK e : e = d
    BY Zenon
  <2> HIDE DEF d
  <2>3. Wants(d) = Wants(c) /\ Alone(d) = Alone(c)
    BY <1>1, <2>1 DEF Wants, Alone
  <2>4. CommandShape(d)
    BY <1>1, <1>2, <2>1, <2>3 DEF CommandShape
  <2>5. Alone(d) => Knows(d, registeredForms)
    BY <1>1, <1>2, <2>1, <2>3 DEF Knows
  <2>6. Follows(c, d) /\ d.at # "succeeded"
    BY <1>1, <2>1 DEF Follows
  <2>7. QED
    BY <1>1, <1>3, <2>2, <2>4, <2>5, <2>6, CommandStands, Zenon
<1>4. CASE cmd' = [cmd EXCEPT ![p] = Fails(c)]
  <2>1. PICK e : e = Fails(c)
    OBVIOUS
  <2>2. CommandShape(e) /\ ~Wants(e) /\ e.at = "off"
    BY <2>1, EndedIs, Zenon
  <2>3. Follows(c, e) /\ ~Alone(e)
    BY <2>2 DEF Follows, Alone
  <2>4. QED
    BY <1>1, <1>4, <2>1, <2>2, <2>3, CommandStands, Zenon
<1>5. QED
  BY <1>1, <1>3, <1>4

\* It has been recorded, and the rest of the plan is taken up.
LEMMA RecordHands ==
    ASSUME FormsInv, NEW p \in Shells, RecordForm(p)
    PROVE  FormsInv' /\ HandsOver
<1> DEFINE c == cmd[p]
<1>1. c.at = "record" /\ declared' = declared /\ registeredForms' = registeredForms
      /\ cmd' = [cmd EXCEPT ![p] = StartCommand(c, Rest(c.plan))]
  BY DEF RecordForm, Rest
<1>2. CommandShape(c) /\ (Alone(c) => Knows(c, registeredForms)) /\ registeredForms \in SUBSET Forms
  BY DEF FormsInv
<1>3. Rest(c.plan) \in Plans(AllLeaves) /\ (Wants(c) => Rest(c.plan) \in Plans(Leaves(c.target)))
  BY <1>1, <1>2, PlanIs DEF CommandShape
<1>4. Alone(c) => /\ c.target \in registeredForms
                  /\ ~c.blind => \A f \in registeredForms \ {c.target} :
                                    Removes(f) \in Items(Rest(c.plan))
  BY <1>1, <1>2 DEF Knows
<1>5. /\ DOMAIN c = CommandFields /\ c.at \notin {"off", "succeeded"}
      /\ c.contended \in BOOLEAN /\ c.blind \in BOOLEAN
      /\ Wants(c) => c.verb \in {"install", "apply"} /\ c.target \in Forms
  BY <1>1, <1>2 DEF CommandShape
<1>6. PICK d : d = StartCommand(c, Rest(c.plan))
  BY Zenon
<1>7. /\ CommandShape(d) /\ Follows(c, d) /\ (Alone(d) => Knows(d, registeredForms))
      /\ Alone(c) /\ d.at = "succeeded" => registeredForms = {c.target}
  BY <1>2, <1>3, <1>4, <1>5, <1>6, StartIs, Zenon
<1>8. QED
  BY <1>1, <1>6, <1>7, CommandStands, Zenon

\* It installs or removes a form: the step that could leave none.
LEMMA ActHands ==
    ASSUME FormsInv, NEW p \in Shells, ActOnForm(p)
    PROVE  FormsInv' /\ HandsOver
<1> DEFINE c == cmd[p]  a == First(c.plan)  d == [c EXCEPT !.at = "record"]
<1>1. /\ CommandShape(c) /\ (Alone(c) => Knows(c, registeredForms))
      /\ registeredForms \in SUBSET Forms /\ DOMAIN cmd = Shells
  BY DEF FormsInv
<1>2. c.at = "act" /\ declared' = declared
      /\ \/ /\ registeredForms' = IF a.install THEN registeredForms \cup {a.form}
                                               ELSE registeredForms \ {a.form}
            /\ cmd' = [cmd EXCEPT ![p].at = "record"]
         \/ registeredForms' = registeredForms /\ cmd' = [cmd EXCEPT ![p] = Fails(c)]
  BY Zenon DEF ActOnForm, First, Fails
<1>3. CASE registeredForms' = registeredForms /\ cmd' = [cmd EXCEPT ![p] = Fails(c)]
  <2>1. PICK e : e = Fails(c)
    OBVIOUS
  <2>2. CommandShape(e) /\ ~Wants(e) /\ e.at = "off"
    BY <2>1, EndedIs, Zenon
  <2>3. Follows(c, e) /\ ~Alone(e)
    BY <2>2 DEF Follows, Alone
  <2>4. QED
    BY <1>2, <1>3, <2>1, <2>2, <2>3, CommandStands, Zenon
<1>4. CASE /\ registeredForms' = IF a.install THEN registeredForms \cup {a.form}
                                              ELSE registeredForms \ {a.form}
           /\ cmd' = [cmd EXCEPT ![p].at = "record"]
  <2>1. cmd' = [cmd EXCEPT ![p] = d]
    BY <1>4
  <2>2. /\ c.plan \in Plans(AllLeaves) /\ Items(c.plan) # {}
        /\ Wants(c) => c.plan \in Plans(Leaves(c.target)) /\ c.target \in Forms
    BY <1>1, <1>2 DEF CommandShape
  <2>3. a \in AllLeaves /\ (Wants(c) => a \in Leaves(c.target))
        /\ Items(c.plan) = {a} \cup Items(Rest(c.plan))
    BY <2>2, PlanIs
  <2>4. PICK f \in Forms : a = Installs(f) \/ a = Removes(f)
    BY <2>3 DEF AllLeaves
  <2>5. Wants(c) => (a = Installs(f) /\ f = c.target) \/ (a = Removes(f) /\ f # c.target)
    <3> SUFFICES ASSUME Wants(c)
                 PROVE  (a = Installs(f) /\ f = c.target) \/ (a = Removes(f) /\ f # c.target)
      OBVIOUS
    <3>1. CASE a = Installs(c.target)
      BY <2>4, <3>1, StepIs, Zenon
    <3>2. CASE a # Installs(c.target)
      <4>1. PICK g \in Forms \ {c.target} : a = Removes(g)
        BY <2>3, <3>2 DEF Leaves
      <4>2. QED
        BY <2>4, <4>1, StepIs, ZenonT(40)
    <3>3. QED
      BY <3>1, <3>2
  <2>6. registeredForms' = registeredForms \cup {f} \/ registeredForms' = registeredForms \ {f}
    BY <1>4, <2>4, StepIs, Zenon
  <2>7. /\ a = Installs(f) => registeredForms' = registeredForms \cup {f}
        /\ a = Removes(f) => registeredForms' = registeredForms \ {f}
    BY <1>4, StepIs, Zenon
  <2>8. registeredForms' \subseteq Forms
    BY <1>1, <2>6
  <2>9. /\ DOMAIN d = CommandFields /\ d.at = "record" /\ d.verb = c.verb /\ d.target = c.target
        /\ d.plan = c.plan /\ d.blind = c.blind /\ d.contended = c.contended
    BY <1>1 DEF CommandShape, CommandFields
  <2>10. PICK e : e = d
    BY Zenon
  <2> HIDE DEF d, a
  <2>11. Wants(e) = Wants(c) /\ Alone(e) = Alone(c)
    BY <1>2, <2>9, <2>10 DEF Wants, Alone
  <2>12. CommandShape(e) /\ Follows(c, e)
    BY <1>1, <1>2, <2>9, <2>10, <2>11 DEF CommandShape, Follows
  \* A command on its own has its form when it removes another.
  <2>13. Alone(c) => c.target \in registeredForms'
    <3>1. Alone(c) => c.target \in registeredForms \/ a = Installs(c.target)
      BY <1>1, <1>2 DEF Knows, a
    <3>2. Alone(c) => Wants(c)
      BY DEF Alone
    <3>3. CASE a = Installs(f)
      BY <2>5, <2>7, <3>1, <3>2, <3>3, StepIs
    <3>4. CASE a = Removes(f)
      <4>1. Alone(c) => f # c.target
        BY <2>5, <3>2, <3>4, StepIs, Zenon
      <4>2. a # Installs(c.target)
        BY <3>4, StepIs, Zenon
      <4>3. QED
        BY <2>7, <3>1, <3>4, <4>1, <4>2
    <3>5. QED
      BY <2>4, <3>3, <3>4
  <2>14. Alone(e) => Knows(e, registeredForms')
    <3> SUFFICES ASSUME Alone(c) PROVE Knows(e, registeredForms')
      BY <2>11
    <3>1. ASSUME ~c.blind, NEW g \in registeredForms' \ {c.target}
          PROVE  Removes(g) \in Items(Rest(c.plan))
      <4>1. Wants(c) /\ (~c.blind => \A h \in registeredForms \ {c.target} : Removes(h) \in Items(c.plan))
        BY <1>1, <1>2 DEF Knows, Alone
      <4>2. g \in registeredForms
        BY <2>4, <2>5, <2>7, <3>1, <4>1
      <4>3. Removes(g) \in Items(c.plan)
        BY <3>1, <4>1, <4>2
      <4>4. Removes(g) # a
        <5>1. CASE a = Installs(f)
          BY <5>1, StepIs, Zenon
        <5>2. CASE a = Removes(f)
          <6>1. g # f
            BY <2>7, <3>1, <5>2
          <6>2. Removes(g) = Removes(f) => g = f
            BY StepIs, Zenon
          <6>3. QED
            BY <5>2, <6>1, <6>2
        <5>3. QED
          BY <2>4, <5>1, <5>2
      <4>5. QED
        BY <2>3, <4>3, <4>4
    <3>2. QED
      BY <2>9, <2>10, <2>13, <3>1 DEF Knows
  <2>15. ASSUME NEW q \in Shells \ {p}, Alone(cmd[q])
         PROVE  Knows(cmd[q], registeredForms')
    <3>1. Knows(cmd[q], registeredForms) /\ SameAim(c, cmd[q])
      BY <1>2, <2>15 DEF FormsInv, AtWork
    <3>2. Wants(c) /\ c.target = cmd[q].target
      BY <1>2, <3>1 DEF SameAim, Wants
    <3>3. /\ cmd[q].target \in registeredForms => cmd[q].target \in registeredForms'
          /\ registeredForms' \ {cmd[q].target} \subseteq registeredForms
      BY <2>4, <2>5, <2>7, <3>2
    <3>4. QED
      BY <3>1, <3>3, KnowsStill
  <2>16. FormsInv'
    BY <1>2, <2>1, <2>8, <2>10, <2>12, <2>14, <2>15, CommandMoves, Zenon
  <2>17. HandsOver
    <3>1. cmd'[p].at = "record" /\ \A q \in Shells \ {p} : cmd'[q] = cmd[q]
      BY <1>1, <2>1, <2>9
    <3>2. registeredForms' = {} => c.verb = "remove" \/ c.contended
      BY <1>2, <2>13 DEF Alone, Wants
    <3>3. QED
      BY <1>2, <3>1, <3>2 DEF HandsOver, AtWork
  <2>18. QED
    BY <2>16, <2>17
<1>5. QED
  BY <1>2, <1>3, <1>4

\* A form is asked for, and after the last one the command decides.
LEMMA QueryHands ==
    ASSUME FormsInv, NEW p \in Shells, QueryForm(p)
    PROVE  FormsInv' /\ HandsOver
<1> DEFINE c == cmd[p]
           f == FormOrder[c.asked + 1]
           d(ok) == [c EXCEPT !.asked = c.asked + 1,
                              !.seen = c.seen \cup (IF ok THEN Query(f) ELSE {}),
                              !.blind = c.blind \/ ~ok]
<1>1. /\ CommandShape(c) /\ (Alone(c) => Knows(c, registeredForms))
      /\ registeredForms \in SUBSET Forms /\ DOMAIN cmd = Shells
  BY DEF FormsInv
<1>2. PICK ok \in BOOLEAN :
         /\ c.at = "query" /\ declared' = declared /\ registeredForms' = registeredForms
         /\ cmd' = [cmd EXCEPT ![p] = IF d(ok).asked < Len(FormOrder) THEN d(ok) ELSE Decide(d(ok))]
  BY Zenon DEF QueryForm
<1>3. PICK e : e = d(ok)
  OBVIOUS
<1>4. PICK found : found = Query(f)
  OBVIOUS
<1>5. /\ DOMAIN c = CommandFields /\ c.asked \in 0..2 /\ c.seen \subseteq Forms /\ c.at = "query"
      /\ c.verb \in {"install", "apply"} /\ c.target \in Forms
      /\ c.contended \in BOOLEAN /\ c.blind \in BOOLEAN
  BY <1>1, <1>2 DEF CommandShape
<1>6. f \in Forms /\ found = registeredForms \cap {f}
  BY <1>4, <1>5, FormsAre DEF Query, QueryStartupEntry, QueryScheduledTask, QueryService
<1>7. /\ DOMAIN e = CommandFields /\ e.at = "query" /\ e.verb = c.verb /\ e.target = c.target
      /\ e.asked = c.asked + 1 /\ e.seen = c.seen \cup (IF ok THEN found ELSE {})
      /\ e.contended = c.contended
  BY <1>3, <1>4, <1>5 DEF CommandFields
<1>8. e.blind = (c.blind \/ ~ok)
  BY <1>3, <1>5 DEF CommandFields
<1> HIDE DEF f, d
<1>9. e.blind \in BOOLEAN /\ (~e.blind => ~c.blind /\ ok)
  BY <1>8, Zenon
<1>10. Wants(e) /\ Wants(c) /\ (Alone(e) <=> Alone(c))
  BY <1>5, <1>7 DEF Wants, Alone
<1>11. e.seen \subseteq Forms /\ e.asked \in 1..3
  BY <1>5, <1>6, <1>7
<1>12. Alone(c) /\ e.target \in e.seen => e.target \in registeredForms
  BY <1>1, <1>5, <1>6, <1>7 DEF Knows
<1>13. ASSUME Alone(c), ~e.blind, NEW i \in 1..e.asked, FormOrder[i] \in registeredForms \ {e.target}
       PROVE  FormOrder[i] \in e.seen
  <2>1. CASE i \in 1..c.asked
    BY <1>1, <1>5, <1>7, <1>9, <1>13, <2>1 DEF Knows
  <2>2. CASE i = c.asked + 1
    BY <1>6, <1>7, <1>9, <1>13, <2>2 DEF f
  <2>3. QED
    BY <1>5, <1>7, <2>1, <2>2
<1>14. CASE e.asked < Len(FormOrder)
  <2>1. cmd' = [cmd EXCEPT ![p] = e] /\ e.asked \in 0..2
    BY <1>2, <1>3, <1>11, <1>14, FormsAre
  <2>2. CommandShape(e) /\ Follows(c, e)
    BY <1>5, <1>7, <1>9, <1>10, <1>11, <2>1 DEF CommandShape, Follows
  <2>3. Alone(e) => Knows(e, registeredForms)
    BY <1>7, <1>10, <1>12, <1>13 DEF Knows
  <2>4. QED
    BY <1>2, <1>7, <2>1, <2>2, <2>3, CommandStands, Zenon
<1>15. CASE ~(e.asked < Len(FormOrder))
  <2>1. cmd' = [cmd EXCEPT ![p] = Decide(e)] /\ e.asked = 3
    BY <1>2, <1>3, <1>11, <1>15, FormsAre
  <2>2. Alone(e) /\ ~e.blind => registeredForms \ {e.target} \subseteq e.seen
    <3> SUFFICES ASSUME Alone(c), ~e.blind, NEW g \in registeredForms \ {e.target}
                 PROVE  g \in e.seen
      BY <1>10
    <3>1. PICK i \in 1..3 : g = FormOrder[i]
      BY <1>1, FormsAre
    <3>2. QED
      BY <1>13, <2>1, <3>1
  <2>3. PICK g : g = Decide(e)
    OBVIOUS
  <2>4. Alone(e) /\ e.target \in e.seen => e.target \in registeredForms
    BY <1>10, <1>12
  <2>5. /\ CommandShape(g) /\ Follows(e, g) /\ (Alone(g) => Knows(g, registeredForms))
        /\ Alone(e) /\ g.at = "succeeded" => registeredForms = {e.target}
    BY <1>1, <1>5, <1>7, <1>9, <1>11, <2>2, <2>3, <2>4, DecideIs
  <2>6. Follows(c, g) /\ (Alone(c) /\ g.at = "succeeded" => registeredForms = {c.target})
    BY <1>5, <1>7, <1>10, <2>5 DEF Follows
  <2>7. QED
    BY <1>2, <2>1, <2>3, <2>5, <2>6, CommandStands, Zenon
<1>16. QED
  BY <1>14, <1>15

\* What a command knows is not about its verb, nor about whether others get in its way.
LEMMA KnowsAlike ==
    ASSUME NEW reg, NEW c, NEW d, c.at = d.at, c.target = d.target, c.seen = d.seen,
           c.asked = d.asked, c.plan = d.plan, c.blind = d.blind, Knows(c, reg)
    PROVE  Knows(d, reg)
BY Zenon DEF Knows

\* A command begins, and becomes the rival of those with another aim.
LEMMA BeginHands ==
    ASSUME FormsInv, NEW p \in Shells, ~AtWork(p), NEW c, BeginWork(p, c),
           DOMAIN c = CommandFields, c.target \in Forms, c.blind = FALSE,
           \/ /\ c.at = "query" /\ c.verb \in {"install", "apply"} /\ c.asked = 0 /\ c.seen = {}
           \/ c.at = "gate" /\ c.verb = "remove" /\ c.plan = <<Removes(c.target)>>,
           registeredForms' = registeredForms, declared' = declared
    PROVE  FormsInv' /\ HandsOver
<1> DEFINE rivals == {q \in Shells \ {p} : AtWork(q) /\ ~SameAim(cmd[q], c)}
           new == [c EXCEPT !.contended = c.verb # "remove" /\ rivals # {}]
           old(q) == [cmd[q] EXCEPT !.contended =
                         cmd[q].contended \/ (q \in rivals /\ cmd[q].verb # "remove")]
<1>1. DOMAIN cmd' = Shells /\ cmd'[p] = new /\ \A q \in Shells \ {p} : cmd'[q] = old(q)
  BY DEF BeginWork
<1>2. /\ DOMAIN new = CommandFields /\ new.at = c.at /\ new.verb = c.verb
      /\ new.target = c.target /\ new.asked = c.asked /\ new.seen = c.seen /\ new.plan = c.plan
      /\ new.blind = c.blind
  BY DEF CommandFields
<1>3. new.contended = (c.verb # "remove" /\ rivals # {})
  BY DEF CommandFields
<1>4. ASSUME NEW q \in Shells \ {p}
      PROVE  /\ CommandShape(cmd[q])
             /\ DOMAIN old(q) = CommandFields /\ old(q).at = cmd[q].at
             /\ old(q).verb = cmd[q].verb /\ old(q).target = cmd[q].target
             /\ old(q).asked = cmd[q].asked /\ old(q).seen = cmd[q].seen
             /\ old(q).plan = cmd[q].plan /\ old(q).blind = cmd[q].blind
             /\ old(q).contended = (cmd[q].contended \/ (q \in rivals /\ cmd[q].verb # "remove"))
  <2>1. CommandShape(cmd[q]) /\ DOMAIN cmd[q] = CommandFields
    BY Zenon DEF FormsInv, CommandShape
  <2>2. QED
    BY <2>1, Zenon DEF CommandFields
<1> HIDE DEF new, old
<1>5. CommandShape(new) /\ (Alone(new) => Knows(new, registeredForms))
  <2>1. CASE c.at = "query"
    <3>1. /\ new.contended \in BOOLEAN /\ new.blind \in BOOLEAN /\ Wants(new)
          /\ c.verb \in {"install", "apply"} /\ c.asked = 0 /\ c.seen = {}
      BY <1>2, <1>3, <2>1, Zenon DEF Wants
    <3>2. CommandShape(new)
      BY <1>2, <2>1, <3>1, SMTT(30) DEF CommandShape
    <3>3. Knows(new, registeredForms)
      BY <1>2, <2>1, <3>1 DEF Knows
    <3>4. QED
      BY <3>2, <3>3
  <2>2. CASE c.at = "gate"
    <3>1. Removes(c.target) \in AllLeaves
      BY DEF AllLeaves
    <3>2. c.plan \in Plans(AllLeaves) /\ Items(c.plan) # {}
      BY <2>2, <3>1, OneItem, Zenon DEF Plans
    <3>3. QED
      BY <1>2, <1>3, <2>2, <3>2, Zenon DEF CommandShape, Wants, Alone
  <2>3. QED
    BY <2>1, <2>2
<1>6. ASSUME NEW q \in Shells \ {p}
      PROVE  /\ CommandShape(old(q)) /\ (Alone(old(q)) => Knows(old(q), registeredForms))
             /\ Alone(old(q)) => Alone(cmd[q]) /\ q \notin rivals
             /\ Wants(old(q)) = Wants(cmd[q])
  <2>1. Wants(old(q)) = Wants(cmd[q])
    BY <1>4 DEF Wants
  <2>2. Alone(old(q)) => Alone(cmd[q]) /\ q \notin rivals
    BY <1>4, <2>1, Zenon DEF Alone, Wants
  <2>3. CommandShape(old(q))
    BY <1>4, <2>1, Zenon DEF CommandShape
  <2>4. Alone(cmd[q]) => Knows(cmd[q], registeredForms)
    BY Zenon DEF FormsInv
  <2>5. Knows(cmd[q], registeredForms) => Knows(old(q), registeredForms)
    BY <1>4, KnowsAlike, Zenon
  <2>6. QED
    BY <2>1, <2>2, <2>3, <2>4, <2>5, Zenon
<1>7. ASSUME NEW q \in Shells, NEW r \in Shells, q # r, Alone(cmd'[q]), AtWork(r)'
      PROVE  SameAim(cmd'[r], cmd'[q])
  <2>1. CASE q = p
    <3>1. cmd'[r] = old(r) /\ AtWork(r) /\ r \in Shells \ {p}
      BY <1>1, <1>4, <1>7, <2>1 DEF AtWork
    <3>2. rivals = {}
      BY <1>1, <1>2, <1>3, <1>7, <2>1, Zenon DEF Alone, Wants
    <3>3. SameAim(cmd[r], c)
      BY <3>1, <3>2, Zenon
    <3>4. QED
      BY <1>1, <1>2, <1>4, <2>1, <3>1, <3>3, SMTT(30) DEF SameAim
  <2>2. CASE q # p /\ r = p
    <3>1. Alone(cmd[q]) /\ q \notin rivals /\ AtWork(q)
      BY <1>1, <1>6, <1>7, <2>2, Zenon DEF Alone, Wants, AtWork
    <3>2. SameAim(cmd[q], c)
      BY <2>2, <3>1
    <3>3. QED
      BY <1>1, <1>2, <1>4, <2>2, <3>2, SMTT(30) DEF SameAim
  <2>3. CASE q # p /\ r # p
    <3>1. Alone(cmd[q]) /\ AtWork(r)
      <4>1. cmd'[q] = old(q) /\ cmd'[r] = old(r)
        BY <1>1, <2>3, Zenon
      <4>2. Alone(cmd[q])
        BY <1>6, <1>7, <2>3, <4>1, Zenon
      <4>3. cmd'[r].at = cmd[r].at
        BY <1>4, <2>3, <4>1, Zenon
      <4>4. QED
        BY <1>7, <4>2, <4>3, Zenon DEF AtWork
    <3>2. SameAim(cmd[r], cmd[q])
      BY <1>7, <3>1, Zenon DEF FormsInv
    <3>3. QED
      BY <1>1, <1>4, <2>3, <3>2, SMTT(30) DEF SameAim
  <2>4. QED
    BY <2>1, <2>2, <2>3
<1>8. FormsInv'
  <2>1. registeredForms' \subseteq Forms /\ declared' \in Forms
    BY Zenon DEF FormsInv
  <2>2. \A q \in Shells : CommandShape(cmd'[q]) /\ (Alone(cmd'[q]) => Knows(cmd'[q], registeredForms'))
    BY <1>1, <1>5, <1>6, Zenon
  <2>3. QED
    BY <1>1, <1>7, <2>1, <2>2, Zenon DEF FormsInv
<1>9. HandsOver
  <2>1. \A q \in Shells : AtWork(q) => cmd'[q].at = cmd[q].at
    BY <1>1, <1>4
  <2>2. QED
    BY <2>1 DEF HandsOver, AtWork
<1>10. QED
  BY <1>8, <1>9

\* What a command begins with.
LEMMA RequestIs ==
    ASSUME declared \in Forms, NEW c \in Requests \cup {ApplyRequest}
    PROVE  /\ DOMAIN c = CommandFields /\ c.target \in Forms /\ c.blind = FALSE
           /\ \/ /\ c.at = "query" /\ c.verb \in {"install", "apply"} /\ c.asked = 0 /\ c.seen = {}
              \/ c.at = "gate" /\ c.verb = "remove" /\ c.plan = <<Removes(c.target)>>
<1>1. CASE c = ApplyRequest
  BY <1>1 DEF ApplyRequest, NoCommand, CommandFields
<1>2. ASSUME NEW g \in Forms, NEW r \in BOOLEAN, c = InstallRequest(g, r)
      PROVE  /\ DOMAIN c = CommandFields /\ c.target \in Forms /\ c.blind = FALSE
             /\ c.at = "query" /\ c.verb \in {"install", "apply"} /\ c.asked = 0 /\ c.seen = {}
  BY <1>2 DEF InstallRequest, NoCommand, CommandFields
<1>3. ASSUME NEW g \in Forms, c = RemoveRequest(g)
      PROVE  /\ DOMAIN c = CommandFields /\ c.target \in Forms /\ c.blind = FALSE
             /\ c.at = "gate" /\ c.verb = "remove" /\ c.plan = <<Removes(c.target)>>
  BY <1>3, Zenon DEF RemoveRequest, Removes, NoCommand, CommandFields
<1>4. c = ApplyRequest \/ (\E g \in Forms, r \in BOOLEAN : c = InstallRequest(g, r))
      \/ \E g \in Forms : c = RemoveRequest(g)
  BY DEF Requests
<1>5. QED
  BY <1>1, <1>2, <1>3, <1>4, Zenon

\* Every step keeps the invariant and hands over.
LEMMA FormsStep ==
    ASSUME FormsInv, [FormsNext]_formVars
    PROVE  FormsInv' /\ HandsOver
<1>1. CASE UNCHANGED formVars
  BY <1>1 DEF FormsInv, HandsOver, AtWork, SameAim, formVars
<1>2. CASE CooldownPasses
  BY <1>2 DEF CooldownPasses, FormsInv, HandsOver, AtWork, SameAim
<1>3. ASSUME NEW p \in Shells, RunAgentFormCommand(p) \/ RunAgentFormApply(p)
      PROVE  FormsInv' /\ HandsOver
  <2>1. /\ ~AtWork(p) /\ registeredForms' = registeredForms /\ declared' = declared
        /\ \E c \in Requests \cup {ApplyRequest} : BeginWork(p, c)
    BY <1>3 DEF RunAgentFormCommand, RunAgentFormApply
  <2>2. PICK c \in Requests \cup {ApplyRequest} : BeginWork(p, c)
    BY <2>1
  <2>3. declared \in Forms
    BY DEF FormsInv
  <2>4. /\ DOMAIN c = CommandFields /\ c.target \in Forms /\ c.blind = FALSE
        /\ \/ /\ c.at = "query" /\ c.verb \in {"install", "apply"} /\ c.asked = 0 /\ c.seen = {}
           \/ c.at = "gate" /\ c.verb = "remove" /\ c.plan = <<Removes(c.target)>>
    BY <2>3, RequestIs, Zenon
  <2>5. QED
    BY <2>1, <2>2, <2>4, BeginHands, Zenon
<1>4. ASSUME NEW p \in Shells, Proceed(p) \/ KillCommand(p)
      PROVE  FormsInv' /\ HandsOver
  BY <1>4, QueryHands, GateHands, ActHands, RecordHands, KillHands DEF Proceed
<1>5. QED
  BY <1>1, <1>2, <1>3, <1>4 DEF FormsNext

\* No command is at work at first.
LEMMA FormsStart == FormsInit => FormsInv
<1> SUFFICES ASSUME FormsInit PROVE FormsInv
  OBVIOUS
<1>1. CommandShape(NoCommand) /\ ~Wants(NoCommand) /\ NoCommand.at = "off"
  BY EndedIs
<1>2. DOMAIN cmd = Shells /\ \A p \in Shells : cmd[p] = NoCommand
  BY DEF FormsInit
<1>3. QED
  BY <1>1, <1>2 DEF FormsInit, FormsInv, Alone, AtWork

\* Installing with --replace and apply hand the registration over, whatever fails.
THEOREM FormsAreHandedOver == FormsSpec => OneFormIsHandedOver
<1>1. FormsInv /\ [FormsNext]_formVars => FormsInv' /\ HandsOver
  BY FormsStep
<1>2. QED
  BY <1>1, FormsStart, PTL DEF FormsSpec, OneFormIsHandedOver, HandsOver

----------------------------------------------------------------------------
(* The loop that reports.                                                  *)

----------------------------------------------------------------------------
(* Induction, and the powers of two: both from the theorems on finite sets.*)

Finite == INSTANCE FiniteSetTheorems

\* The library's finite sets are those of the model.
LEMMA SameFinite ==
    ASSUME NEW S
    PROVE  /\ Finite!IsFiniteSet(S) <=> IsFiniteSet(S)
           /\ Finite!Cardinality(S) = Cardinality(S)
BY DEF Finite!IsFiniteSet, IsFiniteSet, Finite!Cardinality, Cardinality

\* A set of naturals has a least one: its initial segments are finite, and the strict order
\* of finite sets is well-founded.
LEMMA LeastNat ==
    ASSUME NEW T \in SUBSET Nat, T # {}
    PROVE  \E m \in T : \A k \in T : m <= k
<1> DEFINE R == Finite!StrictSubsetOrdering(Nat)
           W == {0..n : n \in T}
<1>1. Finite!IsWellFoundedOn(R, Finite!FiniteSubsetsOf(Nat))
  BY Finite!FS_StrictSubsetOrderingWellFounded
<1>2. W \subseteq Finite!FiniteSubsetsOf(Nat)
  <2> SUFFICES ASSUME NEW n \in T
               PROVE  0..n \in Finite!FiniteSubsetsOf(Nat)
    OBVIOUS
  <2>1. Finite!IsFiniteSet(0..n)
    BY Finite!FS_Interval
  <2>2. QED
    BY <2>1 DEF Finite!FiniteSubsetsOf
<1>3. W # {}
  BY Zenon
<1> HIDE DEF R
<1>4. PICK x \in W : \A y \in W : ~(<<y, x>> \in R)
  BY <1>1, <1>2, <1>3, Finite!WFMin, Zenon
<1>5. PICK m \in T : x = 0..m
  BY <1>4
<1>6. ASSUME NEW k \in T
      PROVE  m <= k
  <2> DEFINE a == 0..k
             b == 0..m
  <2>1. <<a, b>> \notin R
    BY <1>4, <1>5, Zenon
  <2>2. CASE k < m
    <3>1. a \in SUBSET Nat /\ b \in SUBSET Nat /\ a \subseteq b /\ a # b
      <4>1. m \notin a /\ m \in b
        BY <2>2
      <4>2. QED
        BY <2>2, <4>1
    <3> HIDE DEF a, b
    <3>2. QED
      BY <2>1, <3>1, Zenon DEF R, Finite!StrictSubsetOrdering
  <2>3. QED
    BY <2>2
<1>7. QED
  BY <1>6

\* Induction over the naturals, for a property given as a set.
LEMMA Induction ==
    ASSUME NEW S, 0 \in S, \A n \in Nat : n \in S => n + 1 \in S
    PROVE  Nat \subseteq S
<1> SUFFICES ASSUME Nat \ S # {}
             PROVE  FALSE
  OBVIOUS
<1>1. PICK m \in Nat \ S : \A k \in Nat \ S : m <= k
  BY LeastNat, Zenon
<1>2. m - 1 \in Nat /\ ~(m <= m - 1)
  BY <1>1
<1>3. m - 1 \in S
  BY <1>1, <1>2
<1>4. (m - 1) + 1 \in S
  BY <1>2, <1>3
<1>5. QED
  BY <1>1, <1>2, <1>4

\* A set of n + 1 elements has twice as many subsets as one of n.
LEMMA PowersOfTwo ==
    /\ 2^0 = 1
    /\ \A n \in Nat : 2^n \in Nat /\ 2^n >= 1 /\ 2^(n + 1) = 2 * 2^n
<1>1. ASSUME NEW n \in Nat
      PROVE  Finite!IsFiniteSet(1..n) /\ Finite!Cardinality(1..n) = n
  BY Finite!FS_Interval
<1>2. ASSUME NEW n \in Nat
      PROVE  /\ Finite!IsFiniteSet(SUBSET (1..n)) /\ Finite!Cardinality(SUBSET (1..n)) = 2^n
             /\ 2^n \in Nat /\ 2^n >= 1
  <2>1. Finite!IsFiniteSet(SUBSET (1..n)) /\ Finite!Cardinality(SUBSET (1..n)) = 2^n
    BY <1>1, Finite!FS_SUBSET, Zenon
  <2>2. Finite!Cardinality(SUBSET (1..n)) \in Nat
    BY <2>1, Finite!FS_CardinalityType
  <2>3. Finite!Cardinality(SUBSET (1..n)) # 0
    <3>1. {} \in SUBSET (1..n)
      OBVIOUS
    <3>2. QED
      BY <2>1, <3>1, Finite!FS_EmptySet
  <2>4. QED
    BY <2>1, <2>2, <2>3
<1>3. ASSUME NEW n \in Nat
      PROVE  2^(n + 1) = 2 * 2^n
  <2> DEFINE S == SUBSET (1..n)
             T == {x \cup {n + 1} : x \in S}
             f == [x \in S |-> x \cup {n + 1}]
  <2>1. n + 1 \notin 1..n /\ 1..(n + 1) = (1..n) \cup {n + 1}
    OBVIOUS
  <2>2. \A x \in S : n + 1 \notin x
    BY <2>1
  <2>3. f \in Finite!Bijection(S, T)
    <3>1. \A x, y \in S : x \cup {n + 1} = y \cup {n + 1} => x = y
      BY <2>2
    <3> HIDE DEF S
    <3>2. f \in [S -> T] /\ \A x \in S : f[x] = x \cup {n + 1}
      OBVIOUS
    <3>3. \A t \in T : \E x \in S : f[x] = t
      OBVIOUS
    <3> HIDE DEF f, T
    <3>4. QED
      BY <3>1, <3>2, <3>3
      DEF Finite!Bijection, Finite!Injection, Finite!Surjection, Finite!IsInjective
  <2>4. Finite!IsFiniteSet(T) /\ Finite!Cardinality(T) = 2^n
    BY <1>2, <2>3, Finite!FS_Bijection DEF Finite!ExistsBijection
  <2>5. S \cap T = {}
    BY <2>2
  <2>6. S \cup T = SUBSET (1..(n + 1))
    <3>1. S \cup T \subseteq SUBSET (1..(n + 1))
      BY <2>1, Zenon
    <3>2. ASSUME NEW x \in SUBSET (1..(n + 1)), n + 1 \in x
          PROVE  x \in T
      <4>1. x \ {n + 1} \in S /\ x = (x \ {n + 1}) \cup {n + 1}
        BY <2>1, <3>2
      <4>2. QED
        BY <4>1, Zenon
    <3>3. ASSUME NEW x \in SUBSET (1..(n + 1)), n + 1 \notin x
          PROVE  x \in S
      BY <2>1, <3>3
    <3>4. QED
      BY <3>1, <3>2, <3>3, Zenon
  <2> HIDE DEF S, T
  <2>7. Finite!Cardinality(S \cup T) = 2^n + 2^n - 0
    <3>1. Finite!IsFiniteSet(S) /\ Finite!Cardinality(S) = 2^n
      BY <1>2 DEF S
    <3>2. Finite!Cardinality(S \cap T) = 0
      BY <2>5, Finite!FS_EmptySet
    <3>3. Finite!Cardinality(S \cup T) =
             Finite!Cardinality(S) + Finite!Cardinality(T) - Finite!Cardinality(S \cap T)
      BY <3>1, <2>4, Finite!FS_Union
    <3>4. QED
      BY <3>1, <3>2, <3>3, <2>4
  <2>8. n + 1 \in Nat
    OBVIOUS
  <2>9. 2^(n + 1) = 2^n + 2^n - 0
    BY <1>2, <2>6, <2>7, <2>8, Zenon
  <2>10. QED
    BY <1>2, <2>9
<1>4. 2^0 = 1
  OBVIOUS
<1>5. QED
  BY <1>2, <1>3, <1>4, Zenon

----------------------------------------------------------------------------
(* The gaps.                                                               *)

\* The loop of both gaps doubles without overflow and stops at the cap.
LEMMA DoubledIs ==
    ASSUME NEW base \in Nat, NEW cap \in Nat, base <= cap, NEW times \in Nat
    PROVE  Doubled(base, cap, times) = SmallerOf(cap, base * 2^times)
<1> DEFINE Next1(gap) == IF gap >= cap THEN gap ELSE IF gap > cap \div 2 THEN cap ELSE gap * 2
           Body(g) == [n \in 0..times |-> IF n = 0 THEN base ELSE Next1(g[n - 1])]
           grown == CHOOSE g : g = Body(g)
           closed == [n \in 0..times |-> SmallerOf(cap, base * 2^n)]
<1>1. Doubled(base, cap, times) = grown[times]
  BY DEF Doubled
<1>2. ASSUME NEW n \in Nat
      PROVE  /\ SmallerOf(cap, base * 2^n) \in Nat
             /\ SmallerOf(cap, base * 2^(n + 1)) = Next1(SmallerOf(cap, base * 2^n))
  <2>1. PICK q : q = base * 2^n
    OBVIOUS
  <2>2. q \in Nat /\ base * 2^(n + 1) = 2 * q
    <3>1. PICK p \in Nat : p = 2^n
      BY PowersOfTwo
    <3>2. base * p \in Nat /\ base * (2 * p) = 2 * (base * p)
      OBVIOUS
    <3>3. 2^(n + 1) = 2 * p
      BY <3>1, PowersOfTwo
    <3>4. QED
      BY <2>1, <3>1, <3>2, <3>3
  <2>3. SmallerOf(cap, q) \in Nat /\ SmallerOf(cap, 2 * q) = Next1(SmallerOf(cap, q))
    BY <2>2 DEF SmallerOf
  <2>4. QED
    BY <2>1, <2>2, <2>3
<1>3. SmallerOf(cap, base * 2^0) = base
  BY PowersOfTwo DEF SmallerOf
<1>4. ASSUME NEW n \in 0..times, n # 0
      PROVE  closed[n] = Next1(closed[n - 1])
  <2>1. n - 1 \in Nat /\ n - 1 \in 0..times /\ (n - 1) + 1 = n
    BY <1>4
  <2>2. SmallerOf(cap, base * 2^((n - 1) + 1)) = Next1(SmallerOf(cap, base * 2^(n - 1)))
    BY <1>2, <2>1
  <2>3. QED
    BY <2>1, <2>2
<1>5. closed = Body(closed)
  BY <1>3, <1>4, Zenon
<1>6. grown = Body(grown)
  BY <1>5, Zenon
<1> HIDE DEF grown, closed
<1>7. \A n \in 0..times : grown[n] = IF n = 0 THEN base ELSE Next1(grown[n - 1])
  BY <1>6
<1> DEFINE S == {n \in Nat : n <= times => grown[n] = SmallerOf(cap, base * 2^n)}
<1>8. 0 \in S
  BY <1>3, <1>7
<1>9. ASSUME NEW n \in Nat, n \in S
      PROVE  n + 1 \in S
  <2> SUFFICES ASSUME n + 1 <= times
               PROVE  grown[n + 1] = SmallerOf(cap, base * 2^(n + 1))
    OBVIOUS
  <2>1. grown[n] = SmallerOf(cap, base * 2^n)
    BY <1>9
  <2>2. n + 1 \in 0..times /\ n + 1 # 0 /\ (n + 1) - 1 = n
    OBVIOUS
  <2>3. grown[n + 1] = Next1(grown[n])
    BY <1>7, <2>2
  <2>4. QED
    BY <1>2, <2>1, <2>3
<1>10. Nat \subseteq S
  <2> HIDE DEF S
  <2>1. QED
    BY <1>8, <1>9, Induction
<1>11. QED
  BY <1>1, <1>10

Away(idle) ==
    IF idle < UserAwayAfter \/ UserAwayAfter = 0
    THEN 0 ELSE 1 + (idle - UserAwayAfter) \div UserAwayStep

\* The gap that ReporterKeepsPace asks for.
GapFor(failures, idle) ==
    LargerOf(GrownTo(IntervalCap, failures),
             IF Away(idle) = 0 THEN Interval ELSE GrownTo(UserAwayCap, Away(idle)))

Caps == LargerOf(IntervalCap, UserAwayCap)

\* Both gaps start from the interval, so that neither loses against the other.
LEMMA GrownBounds ==
    ASSUME NEW cap \in Nat, cap >= Interval, NEW n \in Nat
    PROVE  /\ GrownTo(cap, n) \in Interval..cap
           /\ GrownTo(cap, 0) = Interval
           /\ cap = Interval => GrownTo(cap, n) = Interval
<1>1. PICK p \in Nat : p = 2^n /\ p >= 1
  BY PowersOfTwo
<1>2. Interval \in Nat
  BY ReporterAssumption
<1>3. PICK q \in Nat : q = Interval * p /\ q >= Interval
  <2>1. Interval * p \in Nat /\ Interval * p >= Interval
    <3>1. PICK m \in Nat : p = m + 1
      <4>1. p - 1 \in Nat /\ p = (p - 1) + 1
        BY <1>1
      <4>2. QED
        BY <4>1
    <3>2. Interval * m \in Nat /\ Interval * (m + 1) = Interval * m + Interval
      BY <1>2
    <3>3. QED
      BY <1>2, <3>1, <3>2
  <2>2. QED
    BY <2>1
<1>4. GrownTo(cap, n) = SmallerOf(cap, q)
  BY <1>1, <1>3 DEF GrownTo
<1>5. GrownTo(cap, 0) = Interval
  <2>1. Interval * 2^0 = Interval
    BY <1>2, PowersOfTwo
  <2>2. QED
    BY <1>2, <2>1 DEF GrownTo, SmallerOf
<1>6. QED
  BY <1>2, <1>3, <1>4, <1>5 DEF SmallerOf

\* IpcReportNextGap computes it.
LEMMA NextGapIs ==
    ASSUME NEW failures \in Nat, NEW idle \in {NoSample} \cup Nat
    PROVE  /\ IpcReportNextGap(failures, idle) = GapFor(failures, idle)
           /\ GapFor(failures, idle) \in Nat /\ GapFor(failures, idle) <= Caps
<1>1. /\ Interval \in Nat /\ Interval > 0 /\ IntervalCap \in Nat /\ IntervalCap >= Interval
      /\ UserAwayCap \in Nat /\ UserAwayCap >= Interval /\ UserAwayAfter \in Nat
      /\ UserAwayStep \in Nat /\ UserAwayStep > 0
  BY ReporterAssumption
<1> DEFINE failureGap == IF IntervalCap > Interval /\ failures > 0
                         THEN IpcReportGapAfterFailures(failures, Interval, IntervalCap)
                         ELSE Interval
           awayGap == IF idle = NoSample
                      THEN Interval
                      ELSE IpcReportGapAfterUserIdle(idle, Interval, UserAwayCap)
<1>2. IpcReportNextGap(failures, idle) = IF failureGap > awayGap THEN failureGap ELSE awayGap
  BY DEF IpcReportNextGap
<1>3. failureGap = GrownTo(IntervalCap, failures) /\ failureGap \in Interval..IntervalCap
  <2>1. CASE IntervalCap > Interval /\ failures > 0
    <3>1. failureGap = Doubled(Interval, IntervalCap, failures)
      BY <1>1, <2>1 DEF IpcReportGapAfterFailures
    <3>2. QED
      BY <1>1, <3>1, DoubledIs, GrownBounds DEF GrownTo
  <2>2. CASE ~(IntervalCap > Interval /\ failures > 0)
    <3>1. failureGap = Interval /\ (IntervalCap = Interval \/ failures = 0)
      BY <1>1, <2>2
    <3>2. QED
      BY <1>1, <3>1, GrownBounds
  <2>3. QED
    BY <2>1, <2>2
<1>4. /\ awayGap = (IF Away(idle) = 0 THEN Interval ELSE GrownTo(UserAwayCap, Away(idle)))
      /\ awayGap \in Interval..UserAwayCap
  <2>1. CASE idle < UserAwayAfter \/ UserAwayAfter = 0
    <3>1. awayGap = Interval
      BY <1>1, <2>1 DEF IpcReportGapAfterUserIdle, NoSample
    <3>2. Away(idle) = 0
      BY <2>1 DEF Away
    <3>3. QED
      BY <1>1, <3>1, <3>2
  <2>2. CASE ~(idle < UserAwayAfter \/ UserAwayAfter = 0)
    <3>1. idle \in Nat /\ idle >= UserAwayAfter /\ UserAwayAfter > 0 /\ idle # NoSample
      BY <1>1, <2>2 DEF NoSample
    <3> DEFINE steps == 1 + (idle - UserAwayAfter) \div UserAwayStep
    <3>2. steps \in Nat /\ steps # 0 /\ Away(idle) = steps
      <4>1. (idle - UserAwayAfter) \div UserAwayStep \in Nat
        BY <1>1, <3>1
      <4>2. QED
        BY <2>2, <4>1 DEF Away
    <3>3. awayGap = Doubled(Interval, UserAwayCap, steps)
      BY <1>1, <3>1 DEF IpcReportGapAfterUserIdle
    <3> HIDE DEF steps
    <3>4. awayGap = GrownTo(UserAwayCap, steps)
      BY <1>1, <3>2, <3>3, DoubledIs DEF GrownTo
    <3>5. QED
      BY <1>1, <3>2, <3>4, GrownBounds
  <2>3. QED
    BY <2>1, <2>2
<1> HIDE DEF failureGap, awayGap
<1>5. IpcReportNextGap(failures, idle) = LargerOf(failureGap, awayGap)
  BY <1>2 DEF LargerOf
<1>6. GapFor(failures, idle) = LargerOf(failureGap, awayGap)
  BY <1>3, <1>4 DEF GapFor
<1>7. LargerOf(failureGap, awayGap) \in Nat /\ LargerOf(failureGap, awayGap) <= Caps
  BY <1>1, <1>3, <1>4 DEF LargerOf, Caps
<1>8. QED
  BY <1>5, <1>6, <1>7

----------------------------------------------------------------------------
(* The agent's loop.                                                       *)

Got == {hostGot[i] : i \in 1..Len(hostGot)}
Busy == agentAt \in {"attempt", "backoff"}

\* Where the clock may be: an attempt starts within the window, and so does a sleep.
PaceInv ==
    /\ agentAt \in {"loop", "attempt", "backoff", "done"}
    /\ now \in Nat /\ nextSlot \in Nat /\ failuresInRow \in Nat
    /\ pacing.gap = GapFor(pacing.failures, pacing.idle)
    /\ now < ReportWindow + Overrun + LargerOf(Caps, RoundTripBound + Backoff)
    /\ agentAt = "loop" /\ now < ReportWindow => nextSlot < ReportWindow + Caps
    /\ agentAt = "backoff" => now < ReportWindow + RoundTripBound

\* The summary: the report at hand is counted when it is delivered, or by Pace.
CountInv ==
    /\ counts \in [sent : Nat, failed : Nat]
    /\ requestId \in Nat /\ attempt \in 0..MaxAttempts /\ delivered \in BOOLEAN
    /\ agentAt = "backoff" => ~delivered
    /\ agentAt = "loop" => counts.sent + counts.failed = requestId
    /\ Busy => counts.sent + counts.failed + (IF delivered THEN 0 ELSE 1) = requestId

\* The host has got the report at hand at most once for each attempt, after all others;
\* and what was counted as sent, it has got without counting the report at hand.
GotInv ==
    /\ hostGot \in Seq(Nat)
    /\ \A i \in 1..Len(hostGot) : hostGot[i] <= requestId
    /\ \A i \in 1..Len(hostGot) - 1 : hostGot[i] <= hostGot[i + 1]
    /\ \A i \in 1..Len(hostGot) - MaxAttempts : hostGot[i] < hostGot[i + MaxAttempts]
    /\ Busy => \A i \in 1..Len(hostGot) - attempt : hostGot[i] < requestId
    /\ IsFiniteSet(Got)
    /\ counts.sent <= Cardinality(Got)
    /\ Busy /\ ~delivered => counts.sent <= Cardinality(Got \ {requestId})

ReporterInv == PaceInv /\ CountInv /\ GotInv

\* The loop begins with nothing to account for.
LEMMA ReporterStart == ReporterInit => ReporterInv
<1> SUFFICES ASSUME ReporterInit
             PROVE  ReporterInv
  OBVIOUS
<1> USE DEF ReporterInit
<1>1. PaceInv
  <2>1. pacing.failures = 0 /\ pacing.idle = NoSample /\ pacing.gap = Interval
    OBVIOUS
  <2>2. GapFor(0, NoSample) = Interval
    <3>1. Away(NoSample) = 0
      BY ReporterAssumption DEF Away, NoSample
    <3>2. GrownTo(IntervalCap, 0) = Interval /\ Interval \in Nat
      BY ReporterAssumption, GrownBounds
    <3>3. QED
      BY <3>1, <3>2 DEF GapFor, LargerOf
  <2>3. agentAt = "loop" /\ now = 0 /\ nextSlot = 0 /\ failuresInRow = 0
    BY Zenon
  <2>4. {Caps, LargerOf(Caps, RoundTripBound + Backoff)} \subseteq Nat \ {0}
    BY ReporterAssumption DEF Caps, LargerOf
  <2>5. QED
    BY ONLY <2>1, <2>2, <2>3, <2>4, ReporterAssumption DEF PaceInv
<1>2. CountInv
  <2>1. counts \in [sent : Nat, failed : Nat] /\ counts.sent = 0 /\ counts.failed = 0
    OBVIOUS
  <2>2. agentAt = "loop" /\ requestId = 0 /\ attempt \in 0..MaxAttempts
    BY ReporterAssumption
  <2>3. delivered \in BOOLEAN
    BY Zenon
  <2>4. QED
    BY <2>1, <2>2, <2>3 DEF CountInv, Busy
<1>3. GotInv
  <2>1. Got = {} /\ Len(hostGot) = 0
    BY DEF Got
  <2>2. IsFiniteSet({}) /\ Cardinality({}) = 0
    BY Finite!FS_EmptySet, SameFinite
  <2>3. counts.sent = 0
    OBVIOUS
  <2>4. hostGot \in Seq(Nat)
    BY SMTT(30)
  <2>5. QED
    BY <2>1, <2>2, <2>3, <2>4, ReporterAssumption DEF GotInv, Busy
<1>4. QED
  BY <1>1, <1>2, <1>3 DEF ReporterInv

\* The clock and the gaps.
LEMMA ReporterPaces ==
    ASSUME PaceInv, ReporterNext
    PROVE  PaceInv'
<1>1. /\ {ReportWindow, Overrun, RoundTripBound, Backoff, IntervalCap, UserAwayCap} \subseteq Nat
      /\ Caps \in Nat
  BY ReporterAssumption DEF Caps, LargerOf
<1> USE DEF PaceInv
<1>2. CASE WindowIsOver
  BY <1>2 DEF WindowIsOver
<1>3. CASE SleepToSlot
  <2>1. PICK late \in 0..Overrun : now' = nextSlot + late
    BY <1>3 DEF SleepToSlot
  <2>2. now' \in Nat /\ now' < ReportWindow + Overrun + LargerOf(Caps, RoundTripBound + Backoff)
    BY <1>1, <1>3, <2>1 DEF SleepToSlot, LargerOf
  <2>3. QED
    BY <1>3, <2>2 DEF SleepToSlot
<1>4. CASE BuildRequest
  BY <1>4 DEF BuildRequest
<1>5. CASE Attempt
  <2>1. PICK took \in 0..RoundTripBound :
           now' = now + took /\ agentAt' \in {"attempt", "backoff"}
    BY <1>5 DEF Attempt
  <2>2. now < ReportWindow
    BY <1>1, <1>5 DEF Attempt, AttemptsAreOver
  <2>3. now' \in Nat /\ now' < ReportWindow + RoundTripBound
    BY <1>1, <2>1, <2>2
  <2>4. now' < ReportWindow + Overrun + LargerOf(Caps, RoundTripBound + Backoff)
    BY <1>1, <2>3 DEF LargerOf
  <2>5. QED
    BY <1>5, <2>1, <2>3, <2>4 DEF Attempt
<1>6. CASE BackoffSleep
  <2>1. PICK late \in 0..Overrun : now' = now + Backoff + late
    BY <1>6 DEF BackoffSleep
  <2>2. now' \in Nat /\ now' < ReportWindow + Overrun + LargerOf(Caps, RoundTripBound + Backoff)
    BY <1>1, <1>6, <2>1 DEF BackoffSleep, LargerOf
  <2>3. QED
    BY <1>6, <2>2 DEF BackoffSleep
<1>7. CASE Pace
  <2>1. failuresInRow' \in Nat
    BY <1>7 DEF Pace
  <2>2. PICK idle \in {NoSample} \cup 0..MaxUserIdle :
           LET gap == IpcReportNextGap(failuresInRow', idle) IN
           /\ nextSlot' = now + gap
           /\ pacing' = [failures |-> failuresInRow', idle |-> idle, gap |-> gap]
    BY <1>7 DEF Pace
  <2>3. idle \in {NoSample} \cup Nat
    BY ReporterAssumption
  <2> DEFINE gap == IpcReportNextGap(failuresInRow', idle)
  <2>4. gap = GapFor(failuresInRow', idle) /\ gap \in Nat /\ gap <= Caps
    BY <2>1, <2>3, NextGapIs
  <2>5. /\ nextSlot' = now + gap
        /\ pacing'.failures = failuresInRow' /\ pacing'.idle = idle /\ pacing'.gap = gap
    BY <2>2, Zenon
  <2> HIDE DEF gap
  <2>6. nextSlot' \in Nat /\ (now < ReportWindow => nextSlot' < ReportWindow + Caps)
    BY <1>1, <2>4, <2>5
  <2>7. pacing'.gap = GapFor(pacing'.failures, pacing'.idle)
    BY <2>4, <2>5
  <2>8. QED
    BY <1>7, <2>1, <2>6, <2>7 DEF Pace
<1>8. CASE AgentDone
  BY <1>8 DEF AgentDone, reporterVars
<1>9. QED
  BY <1>2, <1>3, <1>4, <1>5, <1>6, <1>7, <1>8, Zenon DEF ReporterNext

\* The summary.
LEMMA ReporterCounts ==
    ASSUME CountInv, ReporterNext
    PROVE  CountInv'
<1> USE DEF CountInv, Busy
<1>1. MaxAttempts \in Nat \ {0}
  BY ReporterAssumption
<1>2. CASE WindowIsOver \/ SleepToSlot \/ AgentDone
  BY <1>2 DEF WindowIsOver, SleepToSlot, AgentDone, reporterVars
<1>3. CASE BuildRequest
  <2>1. counts' = counts /\ counts.sent + counts.failed = requestId
    BY <1>3 DEF BuildRequest
  <2>2. CASE agentAt' = "done" /\ UNCHANGED <<requestId, attempt, delivered>>
    BY <2>1, <2>2
  <2>3. CASE agentAt' = "attempt" /\ requestId' = requestId + 1 /\ attempt' = 0 /\ delivered' = FALSE
    <3>1. counts'.sent + counts'.failed + 1 = requestId' /\ requestId' \in Nat
      BY <2>1, <2>3
    <3>2. delivered' \in BOOLEAN /\ ~delivered'
      BY <2>3, Zenon
    <3>3. attempt' \in 0..MaxAttempts
      BY <1>1, <2>3
    <3>4. QED
      BY <2>1, <2>3, <3>1, <3>2, <3>3
  <2>4. QED
    BY <1>3, <2>2, <2>3, Zenon DEF BuildRequest
<1>4. CASE Attempt
  <2>1. PICK answered \in BOOLEAN :
          /\ delivered' = answered
          /\ counts' = [counts EXCEPT !.sent = @ + (IF answered THEN 1 ELSE 0)]
          /\ agentAt' = IF ~answered /\ attempt + 1 < MaxAttempts THEN "backoff" ELSE "attempt"
    BY <1>4, Zenon DEF Attempt
  <2>2. counts' \in [sent : Nat, failed : Nat] /\ counts'.failed = counts.failed
        /\ counts'.sent = counts.sent + (IF answered THEN 1 ELSE 0)
    BY <2>1
  <2>3. ~delivered /\ attempt < MaxAttempts /\ agentAt = "attempt"
        /\ attempt' = attempt + 1 /\ requestId' = requestId
    BY <1>1, <1>4 DEF Attempt, AttemptsAreOver
  <2>4. attempt' \in 0..MaxAttempts
    BY <1>1, <2>3
  <2>5. counts'.sent + counts'.failed + (IF delivered' THEN 0 ELSE 1) = requestId'
    BY <2>1, <2>2, <2>3
  <2>6. QED
    BY <2>1, <2>2, <2>3, <2>4, <2>5
<1>5. CASE BackoffSleep
  BY <1>5 DEF BackoffSleep
<1>6. CASE Pace
  <2>1. counts' \in [sent : Nat, failed : Nat] /\ counts'.sent = counts.sent
        /\ counts'.failed = counts.failed + (IF delivered THEN 0 ELSE 1)
    BY <1>6 DEF Pace
  <2>2. counts'.sent + counts'.failed = requestId
    BY <1>6, <2>1 DEF Pace
  <2>3. QED
    BY <1>6, <2>1, <2>2 DEF Pace
<1>7. QED
  BY <1>2, <1>3, <1>4, <1>5, <1>6 DEF ReporterNext

\* The set of what the host got, when one more comes.
LEMMA GotGrows ==
    ASSUME NEW s \in Seq(Nat), NEW id \in Nat, NEW t, t = Append(s, id)
    PROVE  /\ t \in Seq(Nat) /\ Len(t) = Len(s) + 1
           /\ \A i \in 1..Len(s) : t[i] = s[i]
           /\ t[Len(s) + 1] = id
           /\ {t[i] : i \in 1..Len(t)} = {s[i] : i \in 1..Len(s)} \cup {id}
<1>1. /\ t \in Seq(Nat) /\ Len(t) = Len(s) + 1 /\ Len(s) \in Nat
      /\ \A i \in 1..Len(s) : t[i] = s[i]
      /\ t[Len(s) + 1] = id
  OBVIOUS
<1>2. 1..Len(t) = (1..Len(s)) \cup {Len(s) + 1}
  BY <1>1
<1>3. QED
  BY <1>1, <1>2

\* What the host got.
LEMMA ReporterDelivers ==
    ASSUME CountInv, GotInv, ReporterNext
    PROVE  GotInv'
<1>1. MaxAttempts \in Nat \ {0} /\ attempt \in 0..MaxAttempts /\ requestId \in Nat
      /\ Len(hostGot) \in Nat /\ delivered \in BOOLEAN
  BY ReporterAssumption DEF CountInv, GotInv
<1>2. CASE UNCHANGED <<hostGot, requestId, counts, attempt, delivered>> /\ (Busy' => Busy)
  <2>1. Got' = Got
    BY <1>2 DEF Got
  <2>2. QED
    BY <1>2, <2>1 DEF GotInv
<1>3. CASE Pace
  <2>1. UNCHANGED <<hostGot, requestId>> /\ counts'.sent = counts.sent /\ ~Busy'
    BY <1>3 DEF Pace, CountInv, Busy
  <2>2. Got' = Got
    BY <2>1 DEF Got
  <2>3. QED
    BY <2>1, <2>2 DEF GotInv
<1>4. CASE BuildRequest
  <2>1. CASE agentAt' = "done" /\ UNCHANGED <<requestId, attempt, delivered>>
    BY <1>2, <1>4, <2>1 DEF BuildRequest, Busy
  <2>2. CASE agentAt' = "attempt" /\ requestId' = requestId + 1 /\ attempt' = 0
    <3>1. UNCHANGED <<hostGot, counts>>
      BY <1>4 DEF BuildRequest
    <3>2. Got' = Got
      BY <3>1 DEF Got
    <3>3. \A i \in 1..Len(hostGot) : hostGot[i] < requestId' /\ hostGot[i] <= requestId'
      BY <1>1, <2>2 DEF GotInv
    <3>4. requestId' \notin Got
      BY <3>3 DEF Got, GotInv
    <3>5. Got \ {requestId'} = Got
      BY <3>4
    <3>6. 1..Len(hostGot) - attempt' = 1..Len(hostGot)
      BY <1>1, <2>2
    <3>7. QED
      BY <3>1, <3>2, <3>3, <3>5, <3>6, Zenon DEF GotInv
  <2>3. QED
    BY <1>4, <2>1, <2>2 DEF BuildRequest
<1>5. CASE Attempt
  <2>1. PICK handled \in BOOLEAN, answered \in BOOLEAN :
          /\ answered => handled
          /\ hostGot' = IF handled THEN Append(hostGot, requestId) ELSE hostGot
          /\ delivered' = answered
          /\ counts' = [counts EXCEPT !.sent = @ + (IF answered THEN 1 ELSE 0)]
    BY <1>5 DEF Attempt
  <2>2. /\ ~delivered /\ attempt < MaxAttempts /\ Busy
        /\ attempt' = attempt + 1 /\ requestId' = requestId
    BY <1>1, <1>5 DEF Attempt, AttemptsAreOver, Busy
  <2>3. counts.sent \in Nat /\ counts'.sent = counts.sent + (IF answered THEN 1 ELSE 0)
    BY <2>1 DEF CountInv
  <2>4. IsFiniteSet(Got) /\ counts.sent <= Cardinality(Got \ {requestId})
    BY <2>2 DEF GotInv
  <2>5. CASE ~handled
    <3>1. hostGot' = hostGot /\ counts'.sent = counts.sent
      BY <2>1, <2>3, <2>5
    <3>2. Got' = Got
      BY <3>1 DEF Got
    <3>3. \A i \in 1..Len(hostGot') - attempt' : hostGot'[i] < requestId'
      BY <1>1, <2>2, <3>1 DEF GotInv
    <3>4. QED
      BY <2>2, <2>4, <3>1, <3>2, <3>3 DEF GotInv
  <2>6. CASE handled
    <3> DEFINE n == Len(hostGot)
    <3>1. /\ hostGot' \in Seq(Nat) /\ Len(hostGot') = n + 1
          /\ \A i \in 1..n : hostGot'[i] = hostGot[i]
          /\ hostGot'[n + 1] = requestId
          /\ Got' = Got \cup {requestId}
      <4>1. hostGot' = Append(hostGot, requestId) /\ hostGot \in Seq(Nat)
        BY <2>1, <2>6 DEF GotInv
      <4>2. QED
        BY <1>1, <4>1, GotGrows DEF Got
    <3>2. n \in Nat
      BY <1>1
    <3>3. /\ \A i \in 1..n : hostGot[i] \in Nat /\ hostGot[i] <= requestId
          /\ \A i \in 1..n - 1 : hostGot[i] <= hostGot[i + 1]
          /\ \A i \in 1..n - MaxAttempts : hostGot[i] < hostGot[i + MaxAttempts]
          /\ \A i \in 1..n - attempt : hostGot[i] < requestId
      BY <2>2 DEF GotInv
    <3> HIDE DEF n
    <3>4. \A i \in 1..(n + 1) : hostGot'[i] <= requestId'
      <4>1. \A i \in 1..(n + 1) : i \in 1..n \/ i = n + 1
        BY <3>2
      <4>2. QED
        BY <1>1, <2>2, <3>1, <3>3, <4>1
    <3>5. ASSUME NEW i \in 1..(n + 1) - 1
          PROVE  hostGot'[i] <= hostGot'[i + 1]
      <4>1. CASE i = n
        BY <3>1, <3>2, <3>3, <4>1
      <4>2. CASE i \in 1..n - 1
        <5>1. i \in 1..n /\ i + 1 \in 1..n
          BY <3>2, <4>2
        <5>2. QED
          BY <3>1, <3>3, <4>2, <5>1
      <4>3. QED
        BY <3>2, <4>1, <4>2
    <3>6. ASSUME NEW i \in 1..(n + 1) - MaxAttempts
          PROVE  hostGot'[i] < hostGot'[i + MaxAttempts]
      <4>1. CASE i + MaxAttempts = n + 1
        <5>1. i \in 1..n - attempt /\ i \in 1..n
          BY <1>1, <2>2, <3>2, <4>1
        <5>2. QED
          BY <3>1, <3>3, <4>1, <5>1
      <4>2. CASE i \in 1..n - MaxAttempts
        <5>1. i \in 1..n /\ i + MaxAttempts \in 1..n
          BY <1>1, <3>2, <4>2
        <5>2. QED
          BY <3>1, <3>3, <4>2, <5>1
      <4>3. QED
        BY <1>1, <3>2, <4>1, <4>2
    <3>7. \A i \in 1..(n + 1) - attempt' : hostGot'[i] < requestId'
      <4>1. (n + 1) - attempt' = n - attempt
        BY <1>1, <2>2, <3>2
      <4>2. \A i \in 1..n - attempt : i \in 1..n
        BY <1>1, <3>2
      <4>3. QED
        BY <2>2, <3>1, <3>3, <4>1, <4>2
    <3>8. /\ IsFiniteSet(Got') /\ Got' \ {requestId} = Got \ {requestId}
          /\ Cardinality(Got \ {requestId}) \in Nat
          /\ Cardinality(Got') = Cardinality(Got \ {requestId}) + 1
      <4>1. Finite!IsFiniteSet(Got)
        BY <2>4, SameFinite
      <4>2. Finite!IsFiniteSet(Got')
        BY <3>1, <4>1, Finite!FS_AddElement, Zenon
      <4>3. requestId \in Got' /\ Got' \ {requestId} = Got \ {requestId}
        BY <3>1
      <4>4. /\ Finite!Cardinality(Got' \ {requestId}) = Finite!Cardinality(Got') - 1
            /\ Finite!IsFiniteSet(Got' \ {requestId})
        BY <4>2, <4>3, Finite!FS_RemoveElement
      <4>5. Finite!Cardinality(Got') \in Nat /\ Finite!Cardinality(Got' \ {requestId}) \in Nat
        BY <4>2, <4>4, Finite!FS_CardinalityType
      <4>6. Cardinality(Got' \ {requestId}) = Cardinality(Got') - 1
            /\ Cardinality(Got') \in Nat /\ Cardinality(Got' \ {requestId}) \in Nat
        BY <4>4, <4>5, SameFinite
      <4>7. IsFiniteSet(Got')
        BY <4>2, SameFinite
      <4>8. Cardinality(Got' \ {requestId}) = Cardinality(Got \ {requestId})
        BY <4>3
      <4>9. QED
        BY <4>3, <4>6, <4>7, <4>8
    <3>9. /\ counts'.sent <= Cardinality(Got')
          /\ ~delivered' => counts'.sent <= Cardinality(Got' \ {requestId})
      <4>1. CASE answered
        BY <2>1, <2>3, <2>4, <3>8, <4>1
      <4>2. CASE ~answered
        <5>1. counts'.sent = counts.sent
          BY <2>3, <4>2
        <5>2. Cardinality(Got' \ {requestId}) = Cardinality(Got \ {requestId})
          BY <3>8
        <5>3. QED
          BY <2>3, <2>4, <3>8, <5>1, <5>2
      <4>3. QED
        BY <4>1, <4>2
    <3>10. QED
      BY <2>2, <3>1, <3>4, <3>5, <3>6, <3>7, <3>8, <3>9 DEF GotInv
  <2>7. QED
    BY <2>5, <2>6
<1>6. QED
  BY <1>2, <1>3, <1>4, <1>5
  DEF ReporterNext, WindowIsOver, SleepToSlot, BackoffSleep, AgentDone, reporterVars, Busy

\* The invariant of the agent's loop.
LEMMA ReporterInvariant == ReporterSpec => []ReporterInv
<1>1. ReporterInv /\ [ReporterNext]_reporterVars => ReporterInv'
  <2>1. CASE UNCHANGED reporterVars
    BY <2>1, Zenon DEF ReporterInv, PaceInv, CountInv, GotInv, Got, Busy, reporterVars
  <2>2. CASE ReporterNext
    BY <2>2, ReporterPaces, ReporterCounts, ReporterDelivers DEF ReporterInv
  <2>3. QED
    BY <2>1, <2>2, Zenon
<1>2. QED
  BY <1>1, ReporterStart, PTL DEF ReporterSpec

\* RunPeriodicReporter accounts for its reports, for any window, intervals and attempts:
\* each is counted once, one that is counted as sent has reached the host, and the host
\* gets them in order and none more often than it was tried.
THEOREM ReporterAccounts == ReporterSpec => []ReportsAccounted
<1>1. ReporterInv => ReportsAccounted
  BY Zenon DEF ReporterInv, CountInv, GotInv, ReportsAccounted, Got
<1>2. QED
  BY <1>1, ReporterInvariant, PTL

\* It computes its gaps without overflow, up to the caps and for any number of failures and
\* any absence, and outstays its window by no more than a gap or an attempt.
THEOREM ReporterIsPaced == ReporterSpec => []ReporterKeepsPace
<1>1. ReporterInv => ReporterKeepsPace
  BY DEF ReporterInv, PaceInv, ReporterKeepsPace, GapFor, Away, Caps
<1>2. QED
  BY <1>1, ReporterInvariant, PTL
=============================================================================
