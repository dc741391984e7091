------------------------- MODULE GatedActionsProofs --------------------------
(***************************************************************************)
(* The commands that a cooldown gates, any number of them at once and      *)
(* killed anywhere: a cooldown is charged for nothing but a completed run, *)
(* and it is kept.                                                         *)
(***************************************************************************)
EXTENDS GatedActions, TLAPS

----------------------------------------------------------------------------
(* Cooldowns are earned.                                                   *)

LedgerCounts == [Capabilities -> Nat]

GatedRuns == [at : {"off", "gates", "execute", "record", "open", "flush", "move"},
         kind : {"none", "clean", "selftrim", "scheduler", "install"},
         plan : Seq(Capabilities), open : SUBSET Capabilities, cool : SUBSET Capabilities,
         step : Nat, next : LedgerCounts]

GatedTypes ==
    /\ now \in Nat
    /\ ledger \in LedgerCounts
    /\ draft \in [exists : BOOLEAN, lines : LedgerCounts, open : SUBSET Runners]
    /\ run \in [Runners -> GatedRuns]
    /\ earned \subseteq Capabilities

\* A command that has not ended is at a step of its plan.
StepInv == \A p \in Runners : run[p].at # "off" => run[p].step \in 1..Len(run[p].plan)

\* What is on its way into the ledger has been exercised: the plan once it is recorded, the
\* records a command has prepared, and whatever the temporary file holds.
EarnedInv ==
    /\ Lines(ledger) \subseteq earned /\ Lines(draft.lines) \subseteq earned
    /\ \A p \in Runners :
          /\ Lines(run[p].next) \subseteq earned
          /\ run[p].at \in {"record", "open", "flush", "move"} =>
                \A i \in 1..Len(run[p].plan) : run[p].plan[i] \in earned

GatedInv == GatedTypes /\ StepInv /\ EarnedInv

\* A command at rest, and empty records, charge for nothing.
LEMMA RestingFacts ==
  /\ NoRecords \in LedgerCounts /\ Lines(NoRecords) = {}
  /\ Resting \in GatedRuns /\ Resting.at = "off" /\ Resting.step = 1 /\ Resting.next = NoRecords
<1>1. NoRecords \in LedgerCounts /\ Lines(NoRecords) = {}
  BY DEF NoRecords, LedgerCounts, Lines
<1>2. <<>> \in Seq(Capabilities)
  OBVIOUS
<1> QED
  BY <1>1, <1>2 DEF Resting, GatedRuns

\* The capabilities of the plans.
LEMMA CapabilityFacts ==
  /\ {"trim", "standby", "cache", "tuner", "registration"} \subseteq Capabilities
  /\ \A i \in 1..3 : CleanSteps[i] \in Capabilities
  /\ Len(CleanSteps) = 3
<1>1. Range(CleanSteps) = {CleanSteps[i] : i \in DOMAIN CleanSteps}
  BY DEF Range
<1>2. DOMAIN CleanSteps = 1..3 /\ Len(CleanSteps) = 3
      /\ CleanSteps[1] = "trim" /\ CleanSteps[2] = "standby" /\ CleanSteps[3] = "cache"
  BY DEF CleanSteps
<1>3. {"trim", "standby", "cache"} \subseteq Range(CleanSteps)
  BY <1>1, <1>2
<1>4. {"trim", "standby", "cache", "tuner", "registration"} \subseteq Capabilities
  BY <1>3 DEF Capabilities
<1> QED
  BY <1>2, <1>4

\* A command begins at the first step of a plan that has one.
LEMMA CommandFacts ==
  ASSUME NEW kind \in {"clean", "selftrim", "scheduler", "install"},
         NEW plan \in Seq(Capabilities), Len(plan) > 0,
         NEW open \in SUBSET Capabilities
  PROVE  /\ Command(kind, plan, open) \in GatedRuns
         /\ Command(kind, plan, open).at = "gates"
         /\ Command(kind, plan, open).step \in 1..Len(Command(kind, plan, open).plan)
         /\ Command(kind, plan, open).step = 1
         /\ Command(kind, plan, open).next = NoRecords
<1>1. Command(kind, plan, open) \in GatedRuns
  BY RestingFacts, Zenon DEF Command, GatedRuns
<1>2. /\ Command(kind, plan, open).at = "gates" /\ Command(kind, plan, open).plan = plan
      /\ Command(kind, plan, open).step = 1 /\ Command(kind, plan, open).next = NoRecords
  BY RestingFacts DEF Command, GatedRuns
<1>3. 1 \in 1..Len(plan)
  OBVIOUS
<1> QED
  BY <1>1, <1>2, <1>3

\* Every command that is offered begins that way.
LEMMA OfferedFacts ==
  ASSUME NEW c \in Offered
  PROVE  c \in GatedRuns /\ c.at = "gates" /\ c.step \in 1..Len(c.plan) /\ c.step = 1
         /\ c.next = NoRecords
<1>1. CASE c \in CleanCommands
  <2>1. PICK level \in 1..DeepestClean : \E open \in SUBSET Range(PlanMemoryClean(level)) :
           c = Command("clean", PlanMemoryClean(level), open)
    <3>1. PICK cfg \in {d \in Configs : d.maxLevel > 0}, acknowledged \in BOOLEAN,
               isolated \in BOOLEAN :
             c = Command("clean", PlanMemoryClean(cfg.maxLevel),
                         {s \in Range(PlanMemoryClean(cfg.maxLevel)) :
                             /\ s \in CompiledIn
                             /\ ConfigAllowsCleanStep(cfg, s)
                             /\ acknowledged /\ (s # "trim" => isolated)})
      BY <1>1 DEF CleanCommands
    <3>2. cfg.maxLevel \in 1..DeepestClean
      BY GatedAssumption DEF Configs
    <3> QED BY <3>1, <3>2
  <2>2. level \in 1..3
    BY GatedAssumption, CapabilityFacts
  <2>3. /\ PlanMemoryClean(level) \in Seq(Capabilities)
        /\ Len(PlanMemoryClean(level)) = level
    <3>1. 1 \in Int /\ level \in Int /\ \A i \in 1..level : i \in 1..3
      BY <2>2
    <3>4. \A i \in 1..level : CleanSteps[i] \in Capabilities
      BY <3>1, CapabilityFacts, Zenon
    <3>2. /\ SubSeq(CleanSteps, 1, level) \in Seq(Capabilities)
          /\ Len(SubSeq(CleanSteps, 1, level)) = IF 1 <= level THEN level - 1 + 1 ELSE 0
      BY <2>2, <3>1, <3>4, CapabilityFacts
    <3>3. (IF 1 <= level THEN level - 1 + 1 ELSE 0) = level
      BY <2>2
    <3> QED BY <3>2, <3>3 DEF PlanMemoryClean
  <2>4. Range(PlanMemoryClean(level)) \subseteq Capabilities
    BY <2>3 DEF Range
  <2> QED BY <2>1, <2>2, <2>3, <2>4, CommandFacts
<1>2. ASSUME NEW kind \in {"selftrim", "scheduler", "install"},
             NEW s \in {"trim", "tuner", "registration"}, NEW open \in SUBSET {s},
             c = Command(kind, <<s>>, open)
      PROVE  c \in GatedRuns /\ c.at = "gates" /\ c.step \in 1..Len(c.plan) /\ c.step = 1
         /\ c.next = NoRecords
  <2>1. s \in Capabilities
    BY CapabilityFacts
  <2>2. <<s>> \in Seq(Capabilities) /\ Len(<<s>>) = 1 /\ open \in SUBSET Capabilities
    BY <2>1
  <2>3. kind \in {"clean", "selftrim", "scheduler", "install"}
    OBVIOUS
  <2>4. Len(<<s>>) > 0
    OBVIOUS
  <2> HIDE <1>2
  <2>5. /\ Command(kind, <<s>>, open) \in GatedRuns
        /\ Command(kind, <<s>>, open).at = "gates"
        /\ Command(kind, <<s>>, open).step \in 1..Len(Command(kind, <<s>>, open).plan)
        /\ Command(kind, <<s>>, open).step = 1
        /\ Command(kind, <<s>>, open).next = NoRecords
    BY <2>2, <2>3, <2>4, CommandFacts, Zenon
  <2> QED BY <1>2, <2>5
<1>3. CASE c \in SelfTrimCommands
  <2>1. \E open \in SUBSET {"trim"} : c = Command("selftrim", <<"trim">>, open)
    <3>1. PICK cfg \in Configs, acknowledged \in BOOLEAN :
             c = Command("selftrim", <<"trim">>,
                         {s \in {"trim"} : ConfigAllowsCleanStep(cfg, s) /\ acknowledged})
      BY <1>3 DEF SelfTrimCommands
    <3>2. {s \in {"trim"} : ConfigAllowsCleanStep(cfg, s) /\ acknowledged} \in SUBSET {"trim"}
      OBVIOUS
    <3> QED BY <3>1, <3>2
  <2> QED BY <2>1, <1>2
<1>4. CASE c \in SchedulerCommands
  <2>1. \E open \in SUBSET {"tuner"} : c = Command("scheduler", <<"tuner">>, open)
    <3>1. PICK cfg \in Configs, acknowledged \in BOOLEAN :
             c = Command("scheduler", <<"tuner">>,
                         {s \in CompiledIn \cap {"tuner"} : cfg.scheduler /\ acknowledged})
      BY <1>4 DEF SchedulerCommands
    <3>2. {s \in CompiledIn \cap {"tuner"} : cfg.scheduler /\ acknowledged} \in SUBSET {"tuner"}
      OBVIOUS
    <3> QED BY <3>1, <3>2
  <2> QED BY <2>1, <1>2
<1>5. CASE c \in InstallCommands
  BY <1>5, <1>2 DEF InstallCommands
<1> QED
  BY <1>1, <1>3, <1>4, <1>5 DEF Offered

\* The three conjuncts about a command, for a record that describes one.
Fit(r, exercised) ==
    /\ r \in GatedRuns
    /\ r.at # "off" => r.step \in 1..Len(r.plan)
    /\ Lines(r.next) \subseteq exercised
    /\ r.at \in {"record", "open", "flush", "move"} =>
          \A i \in 1..Len(r.plan) : r.plan[i] \in exercised

FilesFit(records, file, exercised) ==
    /\ records \in LedgerCounts /\ Lines(records) \subseteq exercised
    /\ file \in [exists : BOOLEAN, lines : LedgerCounts, open : SUBSET Runners]
    /\ Lines(file.lines) \subseteq exercised

\* The invariant, command by command.
LEMMA InvByCommand ==
  GatedInv <=> /\ now \in Nat /\ earned \subseteq Capabilities
           /\ FilesFit(ledger, draft, earned)
           /\ run = [p \in Runners |-> run[p]]
           /\ \A p \in Runners : Fit(run[p], earned)
  BY DEF GatedInv, GatedTypes, StepInv, EarnedInv, Fit, FilesFit

\* A step of one command that leaves it fit, charges for nothing new and exercises no less.
LEMMA OneCommandSteps ==
  ASSUME GatedInv, NEW p \in Runners, NEW r, run' = [run EXCEPT ![p] = r],
         earned \subseteq earned', earned' \subseteq Capabilities, now' = now,
         Fit(r, earned'), FilesFit(ledger', draft', earned')
  PROVE  GatedInv'
<1>1. run = [q \in Runners |-> run[q]] /\ \A q \in Runners : Fit(run[q], earned)
  BY InvByCommand
<1>2. \A q \in Runners : Fit(run[q], earned')
  BY <1>1 DEF Fit
<1>3. run' = [q \in Runners |-> run'[q]] /\ \A q \in Runners : Fit(run'[q], earned')
  BY <1>1, <1>2
<1>4. now' \in Nat
  BY InvByCommand
<1>5. (GatedInv <=> /\ now \in Nat /\ earned \subseteq Capabilities
                /\ FilesFit(ledger, draft, earned)
                /\ run = [q \in Runners |-> run[q]]
                /\ \A q \in Runners : Fit(run[q], earned))'
  BY Zenon DEF GatedInv, GatedTypes, StepInv, EarnedInv, Fit, FilesFit
<1> QED
  BY <1>3, <1>4, <1>5

\* A command that changes its place, its step and its records.
Placed(q, place, n, x) == [q EXCEPT !.at = place, !.step = n, !.next = x]

\* A command at rest, and what NextStep makes of one, are fit.
LEMMA NextStepFits ==
  ASSUME GatedInv, NEW p \in Runners, run[p].at \in {"record", "open", "flush", "move"}
  PROVE  /\ Fit(Resting, earned)
         /\ \E r : Fit(r, earned) /\ NextStep(p) = [run EXCEPT ![p] = r]
<1>1. Fit(run[p], earned)
  BY InvByCommand
<1>2. Fit(Resting, earned)
  BY RestingFacts DEF Fit
<1>3. CASE run[p].step = Len(run[p].plan)
  <2>1. NextStep(p) = [run EXCEPT ![p] = Resting]
    BY <1>3 DEF NextStep
  <2> QED BY <1>2, <2>1, Zenon
<1>4. CASE run[p].step # Len(run[p].plan)
  <2> DEFINE r == Placed(run[p], "record", run[p].step + 1, NoRecords)
  <2>0. run[p] \in GatedRuns /\ run[p].step + 1 \in Nat
    BY <1>1 DEF Fit, GatedRuns
  <2>1. /\ r \in GatedRuns /\ r.at = "record" /\ r.plan = run[p].plan
        /\ r.step = run[p].step + 1 /\ r.next = NoRecords
    BY <2>0, RestingFacts, Zenon DEF GatedRuns, Placed
  <2>2. run[p].step \in 1..Len(run[p].plan) /\ Len(run[p].plan) \in Nat
    BY <1>1 DEF Fit, GatedRuns
  <2>3. run[p].step + 1 \in 1..Len(run[p].plan)
    BY <2>2, <1>4
  <2>4. Fit(r, earned)
    BY <1>1, <2>1, <2>3, RestingFacts DEF Fit
  <2>5. NextStep(p) = [run EXCEPT ![p] = r]
    BY <1>4 DEF NextStep, Placed
  <2> QED BY <1>2, <2>4, <2>5, Zenon
<1> QED
  BY <1>3, <1>4

\* The files as they are stay fit when more has been exercised.
LEMMA FilesStay ==
  ASSUME GatedInv, earned \subseteq earned', UNCHANGED <<ledger, draft>>
  PROVE  FilesFit(ledger', draft', earned')
  BY InvByCommand DEF FilesFit

\* The steps before the records.
LEMMA ActsInv ==
  ASSUME GatedInv, NEW p \in Runners, Launch(p) \/ Gate(p) \/ Execute(p)
  PROVE  GatedInv'
<1>0. /\ run[p] \in GatedRuns /\ Fit(run[p], earned) /\ earned \subseteq Capabilities
      /\ Fit(Resting, earned)
  BY InvByCommand, RestingFacts DEF Fit
<1>1. CASE Launch(p)
  <2>1. PICK c \in Offered : run' = [run EXCEPT ![p] = c]
    BY <1>1, Zenon DEF Launch
  <2>2. UNCHANGED <<now, ledger, draft, earned>>
    BY <1>1 DEF Launch
  <2>3. Fit(c, earned')
    BY OfferedFacts, RestingFacts DEF Fit
  <2> QED BY <1>0, <2>1, <2>2, <2>3, FilesStay, OneCommandSteps, Zenon
<1>2. CASE Gate(p)
  <2> DEFINE last == run[p].step = Len(run[p].plan)
             cool == run[p].cool \cup {c \in {run[p].plan[run[p].step]} : CooledDown(c)}
             r == [run[p] EXCEPT !.at = IF last THEN "execute" ELSE "gates",
                                 !.step = IF last THEN 1 ELSE run[p].step + 1,
                                 !.cool = cool]
  <2>1. run' = [run EXCEPT ![p] = r] \/ run' = [run EXCEPT ![p] = Resting]
    BY <1>2, Zenon DEF Gate
  <2>2. run[p].at = "gates" /\ UNCHANGED <<now, ledger, draft, earned>>
    BY <1>2, Zenon DEF Gate
  <2>3. run[p].step \in 1..Len(run[p].plan) /\ run[p].plan \in Seq(Capabilities)
    BY <1>0, <2>2 DEF Fit, GatedRuns
  <2>4. cool \in SUBSET Capabilities
    <3>1. run[p].plan[run[p].step] \in Capabilities
      BY <2>3
    <3> QED BY <1>0, <3>1 DEF GatedRuns
  <2>5. /\ (IF last THEN "execute" ELSE "gates") \in {"execute", "gates"}
        /\ (IF last THEN 1 ELSE run[p].step + 1) \in 1..Len(run[p].plan)
        /\ (IF last THEN 1 ELSE run[p].step + 1) \in Nat
    BY <2>3
  <2> HIDE DEF cool
  <2>6. /\ r \in GatedRuns /\ r.at \in {"execute", "gates"} /\ r.plan = run[p].plan
        /\ r.step = (IF last THEN 1 ELSE run[p].step + 1) /\ r.next = run[p].next
    BY <1>0, <2>4, <2>5, Zenon DEF GatedRuns
  <2>7. Fit(r, earned)
    BY <1>0, <2>5, <2>6 DEF Fit
  <2> HIDE DEF r
  <2> QED BY <1>0, <2>1, <2>2, <2>7, FilesStay, OneCommandSteps
<1>3. CASE Execute(p)
  <2> DEFINE last == run[p].step = Len(run[p].plan)
  <2>1. \/ /\ run' = [run EXCEPT ![p] = Called(p, last)]
           /\ earned' = IF last THEN earned \cup Range(run[p].plan) ELSE earned
        \/ run' = [run EXCEPT ![p] = Resting] /\ earned' = earned
    BY <1>3 DEF Execute
  <2>2. run[p].at = "execute" /\ UNCHANGED <<now, ledger, draft>>
    BY <1>3 DEF Execute
  <2>3. run[p].step \in 1..Len(run[p].plan) /\ run[p].plan \in Seq(Capabilities)
    BY <1>0, <2>2 DEF Fit, GatedRuns
  <2>4. CASE run' = [run EXCEPT ![p] = Resting] /\ earned' = earned
    BY <1>0, <2>2, <2>4, FilesStay, OneCommandSteps, Zenon
  <2>5. CASE run' = [run EXCEPT ![p] = Called(p, last)] /\ ~last /\ earned' = earned
    <3>1. Called(p, last) = [run[p] EXCEPT !.step = run[p].step + 1]
      BY <2>5 DEF Called
    <3>2. /\ Called(p, last) \in GatedRuns /\ Called(p, last).at = "execute"
          /\ Called(p, last).plan = run[p].plan /\ Called(p, last).next = run[p].next
          /\ Called(p, last).step = run[p].step + 1
      BY <1>0, <2>2, <3>1 DEF GatedRuns
    <3>3. run[p].step + 1 \in 1..Len(run[p].plan)
      BY <2>3, <2>5
    <3>4. Fit(Called(p, last), earned')
      BY <1>0, <2>5, <3>2, <3>3 DEF Fit
    <3> QED BY <1>0, <2>2, <2>5, <3>4, FilesStay, OneCommandSteps, Zenon
  <2>6. CASE /\ run' = [run EXCEPT ![p] = Called(p, last)] /\ last
             /\ earned' = earned \cup Range(run[p].plan)
    <3>0. PICK none \in SUBSET Capabilities : none = {}
      BY Zenon
    <3>1. Called(p, last) =
             [run[p] EXCEPT !.at = "record", !.step = 1, !.open = none, !.cool = none]
      BY <2>6, <3>0 DEF Called
    <3>2. /\ Called(p, last) \in GatedRuns /\ Called(p, last).at = "record"
          /\ Called(p, last).plan = run[p].plan /\ Called(p, last).next = run[p].next
          /\ Called(p, last).step = 1
      <4> DEFINE q == [run[p] EXCEPT !.at = "record", !.step = 1]
                 r == [q EXCEPT !.open = none, !.cool = none]
      <4>1. /\ q \in GatedRuns /\ q.at = "record" /\ q.plan = run[p].plan
            /\ q.next = run[p].next /\ q.step = 1
        BY <1>0, Zenon DEF GatedRuns
      <4>2. Called(p, last) = r
        BY <3>1, Zenon
      <4> HIDE DEF q
      <4>3. r \in GatedRuns
        BY <4>1, Zenon DEF GatedRuns
      <4>4. r.at = q.at /\ r.plan = q.plan /\ r.next = q.next /\ r.step = q.step
        BY <4>1 DEF GatedRuns
      <4> HIDE DEF r
      <4> QED BY <4>1, <4>2, <4>3, <4>4
    <3>3. /\ \A i \in 1..Len(run[p].plan) : run[p].plan[i] \in Range(run[p].plan)
          /\ Range(run[p].plan) \subseteq Capabilities
      BY <2>3 DEF Range
    <3>4. 1 \in 1..Len(run[p].plan)
      BY <2>3
    <3>5. Fit(Called(p, last), earned')
      BY <1>0, <2>6, <3>2, <3>3, <3>4 DEF Fit
    <3>6. earned \subseteq earned' /\ earned' \subseteq Capabilities
      BY <1>0, <2>6, <3>3
    <3> QED BY <2>2, <2>6, <3>5, <3>6, FilesStay, OneCommandSteps, Zenon
  <2> QED BY <2>1, <2>4, <2>5, <2>6
<1> QED
  BY <1>1, <1>2, <1>3

\* The steps of RecordCooldownRun.
LEMMA RecordsInv ==
  ASSUME GatedInv, NEW p \in Runners,
         ReadCooldownLedger(p) \/ OpenTemp(p) \/ FlushTemp(p) \/ ReplaceLedger(p)
  PROVE  GatedInv'
<1>0. /\ run[p].at \in {"record", "open", "flush", "move"}
      /\ now' = now /\ earned' = earned
  BY Zenon DEF ReadCooldownLedger, OpenTemp, FlushTemp, ReplaceLedger
<1>1. /\ run[p] \in GatedRuns /\ Fit(run[p], earned) /\ earned \subseteq Capabilities /\ now \in Nat
      /\ FilesFit(ledger, draft, earned) /\ run = [q \in Runners |-> run[q]]
  BY InvByCommand DEF Fit
<1>2. ASSUME run' = NextStep(p), FilesFit(ledger', draft', earned)
      PROVE  GatedInv'
  <2>1. PICK r : Fit(r, earned) /\ NextStep(p) = [run EXCEPT ![p] = r]
    BY <1>0, NextStepFits
  <2> QED BY <1>0, <1>1, <1>2, <2>1, OneCommandSteps
<1>3. ASSUME NEW place \in {"open", "flush", "move"}, NEW x \in LedgerCounts,
             Lines(x) \subseteq earned, FilesFit(ledger', draft', earned),
             run' = [run EXCEPT ![p] = Placed(run[p], place, run[p].step, x)]
      PROVE  GatedInv'
  <2>1. /\ Placed(run[p], place, run[p].step, x) \in GatedRuns
        /\ Placed(run[p], place, run[p].step, x).at = place
        /\ Placed(run[p], place, run[p].step, x).plan = run[p].plan
        /\ Placed(run[p], place, run[p].step, x).step = run[p].step
        /\ Placed(run[p], place, run[p].step, x).next = x
    BY <1>1, Zenon DEF GatedRuns, Placed
  <2>2. Fit(Placed(run[p], place, run[p].step, x), earned)
    BY <1>0, <1>1, <1>3, <2>1 DEF Fit
  <2> QED BY <1>0, <1>1, <1>3, <2>2, OneCommandSteps
<1>4. ASSUME NEW place \in {"open", "flush", "move"}
      PROVE  [run EXCEPT ![p].at = place] =
             [run EXCEPT ![p] = Placed(run[p], place, run[p].step, run[p].next)]
  BY <1>1, Zenon DEF Placed, GatedRuns
<1>5. \A others \in SUBSET Runners : FilesFit(ledger, RemoveTemp(others), earned)
  BY <1>1, RestingFacts DEF RemoveTemp, NoTemp, FilesFit
<1>6. CASE ReadCooldownLedger(p)
  <2> DEFINE c == run[p].plan[run[p].step]
             x == WithCooldownRun(ledger, c)
  <2>1. \/ run' = [run EXCEPT ![p].at = "open", ![p].next = x]
        \/ run' = NextStep(p)
    BY <1>6 DEF ReadCooldownLedger
  <2>2. FilesFit(ledger', draft', earned)
    BY <1>1, <1>6 DEF ReadCooldownLedger
  <2>3. c \in earned
    BY <1>0, <1>1 DEF Fit
  <2>4. x \in LedgerCounts /\ Lines(x) \subseteq earned
    BY <1>1, <2>3 DEF WithCooldownRun, LedgerCounts, Lines, FilesFit
  <2>5. [run EXCEPT ![p].at = "open", ![p].next = x] =
        [run EXCEPT ![p] = Placed(run[p], "open", run[p].step, x)]
    BY <1>1, <2>4, Zenon DEF Placed, GatedRuns
  <2> HIDE DEF x
  <2> QED BY <1>2, <1>3, <2>1, <2>2, <2>4, <2>5
<1>7. CASE OpenTemp(p)
  <2>1. CASE run' = NextStep(p) /\ UNCHANGED <<ledger, draft>>
    BY <1>1, <1>2, <2>1
  <2>2. CASE /\ run' = [run EXCEPT ![p].at = "flush"] /\ ledger' = ledger
             /\ draft' = [exists |-> TRUE, lines |-> NoRecords, open |-> draft.open \cup {p}]
    <3>1. FilesFit(ledger', draft', earned)
      BY <1>1, <2>2, RestingFacts DEF FilesFit
    <3>2. run[p].next \in LedgerCounts /\ Lines(run[p].next) \subseteq earned
      BY <1>1 DEF Fit, GatedRuns
    <3> QED BY <1>3, <1>4, <2>2, <3>1, <3>2, Zenon
  <2> QED BY <1>7, <2>1, <2>2 DEF OpenTemp
<1>8. CASE FlushTemp(p)
  <2> DEFINE others == draft.open \ {p}
  <2>0. others \in SUBSET Runners
    BY <1>1 DEF FilesFit
  <2>1. CASE draft' = RemoveTemp(others) /\ run' = NextStep(p) /\ ledger' = ledger
    BY <1>2, <1>5, <2>0, <2>1
  <2>2. ASSUME NEW rest \in SUBSET Lines(draft.lines), ledger' = ledger,
               run' = [run EXCEPT ![p].at = "move"],
               draft' = [exists |-> TRUE, open |-> others,
                         lines |-> [c \in Capabilities |->
                                      IF c \in rest THEN draft.lines[c] ELSE run[p].next[c]]]
        PROVE  GatedInv'
    <3>1. run[p].next \in LedgerCounts /\ Lines(run[p].next) \subseteq earned
      BY <1>1 DEF Fit, GatedRuns
    <3> DEFINE mixed == [c \in Capabilities |->
                           IF c \in rest THEN draft.lines[c] ELSE run[p].next[c]]
    <3>2. mixed \in LedgerCounts /\ Lines(mixed) \subseteq earned
      BY <1>1, <3>1 DEF LedgerCounts, Lines, FilesFit
    <3> HIDE DEF mixed, others
    <3>3. draft' = [exists |-> TRUE, open |-> others, lines |-> mixed]
      BY <2>2 DEF mixed
    <3>4. FilesFit(ledger', draft', earned)
      BY <1>1, <2>0, <2>2, <3>2, <3>3 DEF FilesFit
    <3> QED BY <1>3, <1>4, <2>2, <3>1, <3>4, Zenon
  <2> QED BY <1>8, <2>1, <2>2 DEF FlushTemp
<1>9. CASE ReplaceLedger(p)
  <2>1. FilesFit(draft.lines, NoTemp, earned)
    BY <1>1, RestingFacts DEF FilesFit, NoTemp
  <2>2. draft.open \in SUBSET Runners
    BY <1>1 DEF FilesFit
  <2>3. FilesFit(ledger', draft', earned)
    BY <1>5, <1>9, <2>1, <2>2, Zenon DEF ReplaceLedger
  <2> QED BY <1>2, <1>9, <2>3, Zenon DEF ReplaceLedger
<1> QED
  BY <1>6, <1>7, <1>8, <1>9, Zenon

\* The kill of a command.
LEMMA KillInv ==
  ASSUME GatedInv, NEW p \in Runners, KillRunner(p)
  PROVE  GatedInv'
<1>1. /\ run' = [run EXCEPT ![p] = Resting] /\ UNCHANGED <<now, ledger, earned>>
      /\ draft' = [draft EXCEPT !.open = draft.open \ {p}]
  BY DEF KillRunner
<1>2. earned \subseteq Capabilities /\ FilesFit(ledger, draft, earned) /\ Fit(Resting, earned)
  BY InvByCommand, RestingFacts DEF Fit
<1>3. FilesFit(ledger, draft', earned)
  BY <1>1, <1>2 DEF FilesFit
<1> QED
  BY <1>1, <1>2, <1>3, OneCommandSteps, Zenon

\* The invariant holds of every behaviour.
LEMMA GatedInvariant == GatedSpec => []GatedInv
<1>1. GatedInit => GatedInv
  <2> SUFFICES ASSUME GatedInit PROVE GatedInv
    OBVIOUS
  <2>1. FilesFit(ledger, draft, earned)
    BY RestingFacts DEF GatedInit, FilesFit, NoTemp
  <2>2. \A p \in Runners : run[p] = Resting
    BY DEF GatedInit
  <2>3. Fit(Resting, earned)
    BY RestingFacts DEF Fit
  <2>4. now \in Nat /\ earned \subseteq Capabilities /\ run = [p \in Runners |-> run[p]]
    BY DEF GatedInit
  <2> QED BY <2>1, <2>2, <2>3, <2>4, InvByCommand
<1>2. GatedInv /\ UNCHANGED gatedVars => GatedInv'
  BY DEF GatedInv, GatedTypes, StepInv, EarnedInv, gatedVars
<1>3. GatedInv /\ SetClock => GatedInv'
  <2> SUFFICES ASSUME GatedInv, SetClock PROVE GatedInv'
    OBVIOUS
  <2>1. now' \in Nat /\ UNCHANGED <<ledger, draft, run, earned>>
    BY GatedAssumption DEF SetClock
  <2> QED BY <2>1 DEF GatedInv, GatedTypes, StepInv, EarnedInv
<1>4. GatedInv /\ [GatedNext]_gatedVars => GatedInv'
  BY <1>2, <1>3, ActsInv, RecordsInv, KillInv DEF GatedNext
<1> QED
  BY <1>1, <1>4, PTL DEF GatedSpec

\* Only capabilities of a completed plan are in the ledger, though nobody locks it: what
\* RecordCooldownRun prepares, writes and moves was exercised, whoever moves it.
THEOREM CooldownsAreEarned == GatedSpec => []LedgerIsEarned
<1>1. GatedInv => LedgerIsEarned
  BY DEF GatedInv, EarnedInv, LedgerIsEarned
<1> QED
  BY <1>1, GatedInvariant, PTL

----------------------------------------------------------------------------
(* Cooldowns are kept.                                                     *)

\* What the cooldown rests on in one command: it has prepared no less than the ledger has,
\* the temporary file is its own, and it has found the steps before this one cooled down.
CommandKeeps(r, records, lines) ==
    /\ r.at \in {"open", "flush", "move"} => \A c \in Capabilities : records[c] <= r.next[c]
    /\ r.at = "flush" => lines = NoRecords
    /\ r.at = "move" => lines = r.next
    /\ r.at = "gates" /\ r.kind # "install" =>
          \A i \in 1..Len(r.plan) : i < r.step => r.plan[i] \in r.cool
    /\ r.at = "execute" /\ r.kind # "install" =>
          \A i \in 1..Len(r.plan) : r.plan[i] \in r.cool

\* As long as no two commands recorded at once, the ledger has every run that was reported
\* as recorded.
LedgerKeeps ==
    /\ \A p, q \in Runners : Recording(p) /\ Recording(q) => p = q
    /\ \A p \in draft.open : run[p].at = "flush"
    /\ \A c \in Capabilities : recorded[c] <= ledger[c]
    /\ \A p \in Runners : CommandKeeps(run[p], ledger, draft.lines)

KeptInv ==
    /\ overlap \in BOOLEAN
    /\ recorded \in LedgerCounts
    /\ ~overlap => LedgerKeeps

\* One command moves on, and the files with it.
LEMMA OneKeeps ==
  ASSUME GatedInv, KeptInv, NEW p \in Runners, NEW r, run' = [run EXCEPT ![p] = r],
         overlap' \in BOOLEAN, recorded' \in LedgerCounts,
         ~overlap' =>
            /\ ~overlap
            /\ r.at \in {"open", "flush", "move"} => \A q \in Runners \ {p} : ~Recording(q)
            /\ draft'.open \subseteq draft.open \cup {p}
            /\ p \in draft'.open => r.at = "flush"
            /\ \A c \in Capabilities : recorded'[c] <= ledger'[c]
            /\ CommandKeeps(r, ledger', draft'.lines)
            /\ \A q \in Runners \ {p} :
                  Recording(q) => ledger' = ledger /\ draft'.lines = draft.lines
  PROVE  KeptInv'
<1> SUFFICES ASSUME ~overlap' PROVE LedgerKeeps'
  BY DEF KeptInv
<1>1. LedgerKeeps /\ run'[p] = r /\ \A q \in Runners \ {p} : run'[q] = run[q]
  BY DEF KeptInv, GatedInv, GatedTypes
<1>2. \A q \in Runners \ {p} : (Recording(q)' <=> Recording(q))
  BY <1>1 DEF Recording
<1>3. Recording(p)' => \A q \in Runners \ {p} : ~Recording(q)
  BY <1>1 DEF Recording
<1>4. (\A q, s \in Runners : Recording(q) /\ Recording(s) => q = s)'
  <2> SUFFICES ASSUME NEW q \in Runners, NEW s \in Runners, Recording(q)', Recording(s)'
               PROVE  q = s
    OBVIOUS
  <2> QED BY <1>1, <1>2, <1>3 DEF LedgerKeeps
<1>5. \A q \in draft'.open : run'[q].at = "flush"
  <2>1. \A q \in draft.open : q \in Runners /\ run[q].at = "flush"
    BY <1>1 DEF LedgerKeeps, GatedInv, GatedTypes
  <2> QED BY <1>1, <2>1
<1>6. \A q \in Runners \ {p} : CommandKeeps(run'[q], ledger', draft'.lines)
  <2> SUFFICES ASSUME NEW q \in Runners \ {p} PROVE CommandKeeps(run[q], ledger', draft'.lines)
    BY <1>1
  <2>1. CommandKeeps(run[q], ledger, draft.lines)
    BY <1>1 DEF LedgerKeeps
  <2>2. CASE Recording(q)
    BY <2>1, <2>2
  <2>3. CASE ~Recording(q)
    BY <2>1, <2>3 DEF CommandKeeps, Recording
  <2> QED BY <2>2, <2>3
<1> QED BY <1>1, <1>4, <1>5, <1>6 DEF LedgerKeeps

\* A command that has passed the cooldown gate of a step had it recorded long enough ago.
LEMMA GateCools ==
  ASSUME GatedInv, KeptInv, ~overlap, NEW p \in Runners, NEW environment, NEW audit, NEW readable,
         run[p].plan[run[p].step] \in Capabilities, run[p].kind # "install",
         EvaluateGates(GatherGates(p, environment, audit, readable))
  PROVE  CooledDown(run[p].plan[run[p].step])
<1> DEFINE c == run[p].plan[run[p].step]
           inputs == GatherGates(p, environment, audit, readable)
<1>1. "cooldown" \in DOMAIN inputs
      /\ inputs["cooldown"] = IF readable THEN EvaluateCooldownGate(ledger, c)
                                          ELSE run[p].kind = "install"
  BY DEF GatherGates
<1>2. EvaluateCooldownGate(ledger, c)
  BY <1>1, Zenon DEF EvaluateGates
<1>3. /\ recorded[c] \in Nat /\ ledger[c] \in Nat /\ recorded[c] <= ledger[c]
      /\ now \in Nat /\ CooldownSpan \in Nat
  BY GatedAssumption DEF KeptInv, LedgerKeeps, GatedInv, GatedTypes, LedgerCounts
<1> QED BY <1>2, <1>3 DEF EvaluateCooldownGate, CooledDown

Rests(r) == r.at \in {"off", "record"}
Acts(r) == r.at \in {"off", "gates", "execute", "record"}

\* A command at rest keeps whatever the files hold.
LEMMA RestingKeeps ==
  ASSUME NEW records, NEW lines, NEW r, Rests(r)
  PROVE  CommandKeeps(r, records, lines)
  BY DEF CommandKeeps, Rests

\* The steps before the records.
LEMMA ActsKeep ==
  ASSUME GatedInv, KeptInv, NEW p \in Runners, Launch(p) \/ Gate(p) \/ Execute(p)
  PROVE  KeptInv'
<1>0. /\ run[p] \in GatedRuns /\ Fit(run[p], earned) /\ draft.open \subseteq Runners
      /\ UNCHANGED <<overlap, recorded, ledger, draft>>
  BY InvByCommand, Zenon DEF Fit, FilesFit, Launch, Gate, Execute
<1>1. ~overlap => p \notin draft.open /\ CommandKeeps(run[p], ledger, draft.lines)
  BY Zenon DEF KeptInv, LedgerKeeps, Launch, Gate, Execute
<1>2. ASSUME NEW r, run' = [run EXCEPT ![p] = r],
             Acts(r), ~overlap => CommandKeeps(r, ledger, draft.lines)
      PROVE  KeptInv'
  <2>1. overlap' \in BOOLEAN /\ recorded' \in LedgerCounts
    BY <1>0 DEF KeptInv
  <2>2. r.at \notin {"open", "flush", "move"}
    BY <1>2 DEF Acts
  <2>3. ~overlap' =>
            /\ ~overlap
            /\ draft'.open \subseteq draft.open \cup {p}
            /\ p \notin draft'.open
            /\ \A c \in Capabilities : recorded'[c] <= ledger'[c]
            /\ CommandKeeps(r, ledger', draft'.lines)
            /\ ledger' = ledger /\ draft'.lines = draft.lines
    BY <1>0, <1>1, <1>2 DEF KeptInv, LedgerKeeps
  <2> QED BY <1>2, <2>1, <2>2, <2>3, OneKeeps, Zenon
<1>3. CASE run' = [run EXCEPT ![p] = Resting]
  <2>1. Acts(Resting) /\ Rests(Resting)
    BY RestingFacts DEF Acts, Rests
  <2> QED BY <1>2, <1>3, <2>1, RestingKeeps, Zenon
<1>4. CASE Launch(p)
  <2>1. PICK c \in Offered : run' = [run EXCEPT ![p] = c]
    BY <1>4, Zenon DEF Launch
  <2>2. c.at = "gates" /\ c.step = 1
    BY OfferedFacts
  <2>3. CommandKeeps(c, ledger, draft.lines)
    BY <2>2 DEF CommandKeeps
  <2> QED BY <1>2, <2>1, <2>2, <2>3, Zenon DEF Acts
<1>5. CASE Gate(p) /\ run' # [run EXCEPT ![p] = Resting]
  <2> DEFINE last == run[p].step = Len(run[p].plan)
             c == run[p].plan[run[p].step]
             cool == run[p].cool \cup {d \in {c} : CooledDown(d)}
             r == [run[p] EXCEPT !.at = IF last THEN "execute" ELSE "gates",
                                 !.step = IF last THEN 1 ELSE run[p].step + 1,
                                 !.cool = cool]
  <2>1. run[p].at = "gates"
    BY <1>5, Zenon DEF Gate
  <2>2. \E environment, audit, readable \in BOOLEAN :
           EvaluateGates(GatherGates(p, environment, audit, readable)) /\ run' = [run EXCEPT ![p] = r]
    BY <1>5, Zenon DEF Gate
  <2>3. run[p].step \in 1..Len(run[p].plan) /\ run[p].plan \in Seq(Capabilities)
    BY <1>0, <2>1 DEF Fit, GatedRuns
  <2>4. c \in Capabilities
    BY <2>3
  <2>5. ~overlap /\ run[p].kind # "install" => c \in cool
    <3>1. ~overlap /\ run[p].kind # "install" => CooledDown(c)
      BY <2>2, <2>4, GateCools
    <3> QED BY <3>1
  <2>6. run[p].cool \subseteq cool
    OBVIOUS
  <2> HIDE DEF cool
  <2>7. /\ r.at = (IF last THEN "execute" ELSE "gates") /\ r.plan = run[p].plan
        /\ r.step = (IF last THEN 1 ELSE run[p].step + 1) /\ r.kind = run[p].kind
        /\ r.cool = cool
    BY <1>0 DEF GatedRuns
  <2> HIDE DEF r
  <2>8. ~overlap => CommandKeeps(r, ledger, draft.lines)
    <3> SUFFICES ASSUME ~overlap PROVE CommandKeeps(r, ledger, draft.lines)
      OBVIOUS
    <3>1. run[p].kind # "install" =>
             \A i \in 1..Len(run[p].plan) : i < run[p].step => run[p].plan[i] \in cool
      BY <1>1, <2>1, <2>6 DEF CommandKeeps
    <3>2. run[p].kind # "install" =>
             \A i \in 1..Len(run[p].plan) : i <= run[p].step => run[p].plan[i] \in cool
      BY <3>1, <2>3, <2>5
    <3>3. CASE last
      <4>1. r.kind # "install" => \A i \in 1..Len(r.plan) : r.plan[i] \in r.cool
        BY <2>3, <2>7, <3>2, <3>3
      <4> QED BY <2>7, <3>3, <4>1 DEF CommandKeeps
    <3>4. CASE ~last
      <4>1. r.kind # "install" => \A i \in 1..Len(r.plan) : i < r.step => r.plan[i] \in r.cool
        BY <2>3, <2>7, <3>2, <3>4
      <4> QED BY <2>7, <3>4, <4>1 DEF CommandKeeps
    <3> QED BY <3>3, <3>4
  <2>9. Acts(r) /\ run' = [run EXCEPT ![p] = r]
    BY <2>2, <2>7 DEF Acts
  <2> QED BY <1>2, <2>8, <2>9, Zenon
<1>6. CASE Execute(p) /\ run' # [run EXCEPT ![p] = Resting]
  <2> DEFINE last == run[p].step = Len(run[p].plan)
  <2>1. run[p].at = "execute" /\ run' = [run EXCEPT ![p] = Called(p, last)]
    BY <1>6 DEF Execute
  <2>2. CASE last
    <3>1. Called(p, last).at = "record"
      BY <1>0, <2>2 DEF Called, GatedRuns
    <3>2. Acts(Called(p, last)) /\ Rests(Called(p, last))
      BY <3>1, Zenon DEF Acts, Rests
    <3> QED BY <1>2, <2>1, <3>2, RestingKeeps, Zenon
  <2>3. CASE ~last
    <3>1. /\ Called(p, last).at = "execute" /\ Called(p, last).kind = run[p].kind
          /\ Called(p, last).plan = run[p].plan /\ Called(p, last).cool = run[p].cool
      BY <1>0, <2>1, <2>3, Zenon DEF Called, GatedRuns
    <3>2. ~overlap => CommandKeeps(Called(p, last), ledger, draft.lines)
      BY <1>1, <2>1, <3>1, Zenon DEF CommandKeeps
    <3>3. Acts(Called(p, last))
      BY <3>1, Zenon DEF Acts
    <3> QED BY <1>2, <2>1, <3>2, <3>3, Zenon
  <2> QED BY <2>2, <2>3
<1> QED BY <1>3, <1>4, <1>5, <1>6

\* What NextStep makes of a command is at rest, or about to read the ledger.
LEMMA NextStepRests ==
  ASSUME GatedInv, NEW p \in Runners
  PROVE  \E r : Rests(r) /\ NextStep(p) = [run EXCEPT ![p] = r]
<1>1. CASE run[p].step = Len(run[p].plan)
  <2>1. NextStep(p) = [run EXCEPT ![p] = Resting] /\ Rests(Resting)
    BY <1>1, RestingFacts DEF NextStep, Rests
  <2> QED BY <2>1, Zenon
<1>2. CASE run[p].step # Len(run[p].plan)
  <2> DEFINE r == Placed(run[p], "record", run[p].step + 1, NoRecords)
  <2>1. NextStep(p) = [run EXCEPT ![p] = r]
    BY <1>2 DEF NextStep, Placed
  <2>2. run[p] \in GatedRuns
    BY DEF GatedInv, GatedTypes
  <2>3. Rests(r)
    BY <2>2 DEF Placed, GatedRuns, Rests
  <2> HIDE DEF r
  <2> QED BY <2>1, <2>3, Zenon
<1> QED BY <1>1, <1>2

\* The steps of RecordCooldownRun.
LEMMA RecordsKeep ==
  ASSUME GatedInv, KeptInv, NEW p \in Runners,
         ReadCooldownLedger(p) \/ OpenTemp(p) \/ FlushTemp(p) \/ ReplaceLedger(p)
  PROVE  KeptInv'
<1>1. /\ run[p] \in GatedRuns /\ run[p].at \in {"record", "open", "flush", "move"}
      /\ overlap \in BOOLEAN /\ ledger \in LedgerCounts /\ recorded \in LedgerCounts
      /\ draft \in [exists : BOOLEAN, lines : LedgerCounts, open : SUBSET Runners]
  BY Zenon DEF GatedInv, GatedTypes, KeptInv, ReadCooldownLedger, OpenTemp, FlushTemp, ReplaceLedger
<1>2. ~overlap => /\ CommandKeeps(run[p], ledger, draft.lines)
                  /\ p \in draft.open => run[p].at = "flush"
                  /\ Recording(p) => \A q \in Runners \ {p} : ~Recording(q)
                  /\ \A c \in Capabilities : recorded[c] <= ledger[c]
  BY DEF KeptInv, LedgerKeeps
<1>3. ASSUME run' = NextStep(p), overlap' = overlap, recorded' \in LedgerCounts,
             draft'.open \subseteq draft.open, ~overlap => p \notin draft'.open,
             ~overlap => \A c \in Capabilities : recorded'[c] <= ledger'[c],
             Recording(p) \/ (ledger' = ledger /\ draft'.lines = draft.lines)
      PROVE  KeptInv'
  <2>1. PICK r : Rests(r) /\ NextStep(p) = [run EXCEPT ![p] = r]
    BY NextStepRests
  <2>2. r.at \notin {"open", "flush", "move"} /\ run' = [run EXCEPT ![p] = r]
    BY <1>3, <2>1 DEF Rests
  <2>3. CommandKeeps(r, ledger', draft'.lines)
    BY <2>1, RestingKeeps
  <2> QED BY <1>1, <1>2, <1>3, <2>2, <2>3, OneKeeps, Zenon
<1>4. ASSUME NEW place \in {"open", "flush", "move"}, NEW x \in LedgerCounts,
             run' = [run EXCEPT ![p] = Placed(run[p], place, run[p].step, x)],
             ledger' = ledger, recorded' \in LedgerCounts, overlap' \in BOOLEAN,
             ~overlap' =>
                /\ ~overlap /\ recorded' = recorded
                /\ \A q \in Runners \ {p} : ~Recording(q)
                /\ draft'.open \subseteq draft.open \cup {p}
                /\ p \in draft'.open => place = "flush"
                /\ \A c \in Capabilities : ledger[c] <= x[c]
                /\ place = "flush" => draft'.lines = NoRecords
                /\ place = "move" => draft'.lines = x
      PROVE  KeptInv'
  <2> DEFINE r == Placed(run[p], place, run[p].step, x)
  <2>1. r.at = place /\ r.next = x
    BY <1>1 DEF GatedRuns, Placed
  <2>2. run' = [run EXCEPT ![p] = r]
    BY <1>4
  <2> HIDE DEF r
  <2>3. ~overlap' => CommandKeeps(r, ledger', draft'.lines)
    BY <1>4, <2>1 DEF CommandKeeps
  <2> QED BY <1>2, <1>4, <2>1, <2>2, <2>3, OneKeeps, Zenon
<1>5. ASSUME NEW place \in {"open", "flush", "move"}
      PROVE  [run EXCEPT ![p].at = place] =
             [run EXCEPT ![p] = Placed(run[p], place, run[p].step, run[p].next)]
  BY <1>1, Zenon DEF Placed, GatedRuns
<1>6. run[p].next \in LedgerCounts
  BY <1>1 DEF GatedRuns
<1>7. \A others \in SUBSET Runners : RemoveTemp(others).open = others
  BY <1>1 DEF RemoveTemp, NoTemp
<1>8. CASE ReadCooldownLedger(p)
  <2> DEFINE c == run[p].plan[run[p].step]
             x == WithCooldownRun(ledger, c)
  <2>1. run[p].at = "record" /\ UNCHANGED <<ledger, draft>>
    BY <1>8 DEF ReadCooldownLedger
  <2>2. CASE run' = NextStep(p) /\ UNCHANGED <<overlap, recorded>>
    BY <1>1, <1>2, <1>3, <2>1, <2>2
  <2>3. CASE /\ run' = [run EXCEPT ![p].at = "open", ![p].next = x]
             /\ overlap' = (overlap \/ \E q \in Runners \ {p} : Recording(q))
             /\ recorded' = IF overlap' THEN NoRecords ELSE recorded
    <3>1. c \in Capabilities /\ now \in Nat
      BY <1>1, <2>1 DEF GatedInv, GatedTypes, StepInv, GatedRuns
    <3>2. x \in LedgerCounts /\ \A d \in Capabilities : ledger[d] <= x[d]
      BY <1>1, <3>1 DEF WithCooldownRun, LedgerCounts
    <3>3. [run EXCEPT ![p].at = "open", ![p].next = x] =
          [run EXCEPT ![p] = Placed(run[p], "open", run[p].step, x)]
      BY <1>1, <3>2, Zenon DEF Placed, GatedRuns
    <3> HIDE DEF x
    <3>4. overlap' \in BOOLEAN /\ recorded' \in LedgerCounts
      BY <1>1, <2>3, RestingFacts
    <3>5. ~overlap' => ~overlap /\ recorded' = recorded /\ \A q \in Runners \ {p} : ~Recording(q)
      BY <2>3, Zenon
    <3> QED BY <1>2, <1>4, <2>1, <2>3, <3>2, <3>3, <3>4, <3>5, Zenon
  <2> QED BY <1>8, <2>2, <2>3 DEF ReadCooldownLedger
<1>9. CASE OpenTemp(p)
  <2>1. run[p].at = "open" /\ UNCHANGED <<ledger, recorded, overlap>> /\ Recording(p)
    BY <1>9 DEF OpenTemp, Recording
  <2>2. CASE run' = NextStep(p) /\ draft' = draft
    BY <1>1, <1>2, <1>3, <2>1, <2>2
  <2>3. CASE /\ run' = [run EXCEPT ![p].at = "flush"]
             /\ draft' = [exists |-> TRUE, lines |-> NoRecords, open |-> draft.open \cup {p}]
    <3>1. ~overlap => \A c \in Capabilities : ledger[c] <= run[p].next[c]
      BY <1>2, <2>1 DEF CommandKeeps
    <3>2. draft'.lines = NoRecords /\ draft'.open = draft.open \cup {p}
      BY <2>3
    <3> QED BY <1>1, <1>2, <1>4, <1>5, <1>6, <2>1, <2>3, <3>1, <3>2, Zenon
  <2> QED BY <1>9, <2>2, <2>3 DEF OpenTemp
<1>10. CASE FlushTemp(p)
  <2> DEFINE others == draft.open \ {p}
  <2>0. others \in SUBSET Runners
    BY <1>1
  <2>1. run[p].at = "flush" /\ UNCHANGED <<ledger, recorded, overlap>> /\ Recording(p)
    BY <1>10 DEF FlushTemp, Recording
  <2>2. CASE run' = NextStep(p) /\ draft' = RemoveTemp(others)
    <3>1. draft'.open = others
      BY <1>7, <2>0, <2>2
    <3> QED BY <1>1, <1>2, <1>3, <2>1, <2>2, <3>1, Zenon
  <2>3. ASSUME NEW rest \in SUBSET Lines(draft.lines),
               run' = [run EXCEPT ![p].at = "move"],
               draft' = [exists |-> TRUE, open |-> others,
                         lines |-> [c \in Capabilities |->
                                      IF c \in rest THEN draft.lines[c] ELSE run[p].next[c]]]
        PROVE  KeptInv'
    <3>1. ~overlap => draft.lines = NoRecords /\ \A c \in Capabilities : ledger[c] <= run[p].next[c]
      BY <1>2, <2>1 DEF CommandKeeps
    <3>2. ~overlap => rest = {}
      BY <2>3, <3>1, RestingFacts
    <3>3. draft'.open = others /\ (~overlap => draft'.lines = run[p].next)
      BY <1>6, <2>3, <3>2 DEF LedgerCounts
    <3> QED BY <1>1, <1>2, <1>4, <1>5, <1>6, <2>1, <2>3, <3>1, <3>3, Zenon
  <2> QED BY <1>10, <2>2, <2>3 DEF FlushTemp
<1>11. CASE ReplaceLedger(p)
  <2> DEFINE c == run[p].plan[run[p].step]
  <2>1. run[p].at = "move" /\ overlap' = overlap /\ Recording(p) /\ run' = NextStep(p)
    BY <1>11, Zenon DEF ReplaceLedger, Recording
  <2>2. CASE draft' = RemoveTemp(draft.open) /\ UNCHANGED <<ledger, recorded>>
    <3>1. draft'.open = draft.open
      BY <1>1, <1>7, <2>2
    <3> QED BY <1>1, <1>2, <1>3, <2>1, <2>2, <3>1
  <2>3. CASE /\ draft.exists /\ draft.open = {}
             /\ ledger' = draft.lines
             /\ draft' = NoTemp
             /\ recorded' = IF overlap \/ recorded[c] > run[p].next[c] THEN recorded
                            ELSE [recorded EXCEPT ![c] = run[p].next[c]]
    <3>1. c \in Capabilities
      BY <1>1, <2>1 DEF GatedInv, GatedTypes, StepInv, GatedRuns
    <3>2. PICK n : n = run[p].next[c]
      BY Zenon
    <3>3. \/ recorded' = recorded /\ (overlap \/ recorded[c] > n)
          \/ recorded' = [recorded EXCEPT ![c] = n]
      BY <2>3, <3>2, Zenon
    <3>4. recorded' \in LedgerCounts
      <4>1. n \in Nat
        BY <1>1, <1>6, <2>1, <3>1, <3>2, Zenon DEF LedgerCounts
      <4> QED BY <1>1, <3>1, <3>3, <4>1 DEF LedgerCounts
    <3>5. ~overlap => ledger' = run[p].next /\ \A d \in Capabilities : ledger[d] <= run[p].next[d]
      BY <1>2, <2>1, <2>3, Zenon DEF CommandKeeps
    <3>6. ~overlap => \A d \in Capabilities : recorded'[d] <= ledger'[d]
      <4> SUFFICES ASSUME ~overlap, NEW d \in Capabilities
                   PROVE  recorded'[d] <= ledger'[d]
        BY Zenon
      <4>1. ledger'[d] = run[p].next[d] /\ ledger[d] <= run[p].next[d] /\ recorded[d] <= ledger[d]
        BY <1>2, <3>5, Zenon
      <4>2. {recorded[d], ledger[d], run[p].next[d], n} \subseteq Nat
        BY <1>1, <1>6, <2>1, <3>1, <3>2 DEF LedgerCounts
      <4>3. recorded'[d] = recorded[d] \/ (d = c /\ recorded'[d] = n)
        <5>1. CASE recorded' = recorded
          BY <5>1, Zenon
        <5>2. CASE recorded' = [recorded EXCEPT ![c] = n]
          BY <1>1, <3>1, <5>2 DEF LedgerCounts
        <5> QED BY <3>3, <5>1, <5>2, Zenon
      <4> QED BY <3>2, <4>1, <4>2, <4>3
    <3>7. draft'.open = {}
      BY <2>3, Zenon DEF NoTemp
    <3> QED BY <1>3, <2>1, <2>3, <3>4, <3>6, <3>7, Zenon
  <2> QED BY <1>11, <2>1, <2>2, <2>3, Zenon DEF ReplaceLedger
<1> QED BY <1>8, <1>9, <1>10, <1>11

\* The kill of a command.
LEMMA KillKeeps ==
  ASSUME GatedInv, KeptInv, NEW p \in Runners, KillRunner(p)
  PROVE  KeptInv'
<1>1. /\ run' = [run EXCEPT ![p] = Resting] /\ UNCHANGED <<ledger, recorded, overlap>>
      /\ draft' = [draft EXCEPT !.open = draft.open \ {p}]
  BY DEF KillRunner
<1>2. draft'.open = draft.open \ {p} /\ draft'.lines = draft.lines
  BY <1>1 DEF GatedInv, GatedTypes
<1>3. Rests(Resting) /\ Resting.at \notin {"open", "flush", "move"}
  BY RestingFacts DEF Rests
<1>4. CommandKeeps(Resting, ledger', draft'.lines)
  BY <1>3, RestingKeeps
<1>5. overlap' \in BOOLEAN /\ recorded' \in LedgerCounts
      /\ (~overlap => \A c \in Capabilities : recorded'[c] <= ledger'[c])
  BY <1>1 DEF KeptInv, LedgerKeeps
<1> QED BY <1>1, <1>2, <1>3, <1>4, <1>5, OneKeeps, Zenon

\* A command that makes system calls found every step of its plan cooled down, as long as
\* no two commands recorded at once: the ledger never falls behind the runs that were
\* reported as recorded, whichever commands are killed and whichever writes fail.
THEOREM CooldownsAreKept == GatedSpec => []CooldownKept
<1>1. GatedInit => KeptInv
  <2> SUFFICES ASSUME GatedInit PROVE KeptInv
    OBVIOUS
  <2>1. \A p \in Runners : run[p] = Resting /\ run[p].at = "off"
    BY RestingFacts DEF GatedInit
  <2>2. \A p \in Runners : CommandKeeps(run[p], ledger, draft.lines) /\ ~Recording(p)
    BY <2>1, RestingKeeps DEF Rests, Recording
  <2>3. recorded \in LedgerCounts /\ overlap \in BOOLEAN /\ draft.open = {}
        /\ \A c \in Capabilities : recorded[c] <= ledger[c]
    <3>1. recorded \in LedgerCounts /\ draft.open = {}
      BY RestingFacts DEF GatedInit, NoTemp
    <3>2. overlap \in BOOLEAN
      BY Zenon DEF GatedInit
    <3>3. \A c \in Capabilities : recorded[c] <= ledger[c]
      <4>1. \A c \in Capabilities : recorded[c] = 0 /\ ledger[c] = 0
        BY Zenon DEF GatedInit, NoRecords
      <4> QED BY <4>1
    <3> QED BY <3>1, <3>2, <3>3
  <2> QED BY <2>2, <2>3 DEF KeptInv, LedgerKeeps
<1>2. KeptInv /\ (SetClock \/ UNCHANGED gatedVars) => KeptInv'
  <2> SUFFICES ASSUME KeptInv, UNCHANGED <<ledger, draft, run, recorded, overlap>>
               PROVE  KeptInv'
    BY DEF SetClock, gatedVars
  <2> QED BY DEF KeptInv, LedgerKeeps, Recording
<1>3. GatedInv /\ KeptInv /\ [GatedNext]_gatedVars => KeptInv'
  BY <1>2, ActsKeep, RecordsKeep, KillKeeps DEF GatedNext
<1>4. GatedInv /\ KeptInv => CooldownKept
  <2> SUFFICES ASSUME GatedInv, KeptInv, ~overlap, NEW p \in Runners,
                      run[p].at = "execute", run[p].kind # "install"
               PROVE  Range(run[p].plan) \subseteq run[p].cool
    BY DEF CooldownKept
  <2>1. \A i \in 1..Len(run[p].plan) : run[p].plan[i] \in run[p].cool
    BY DEF KeptInv, LedgerKeeps, CommandKeeps
  <2>2. DOMAIN run[p].plan = 1..Len(run[p].plan)
    BY DEF GatedInv, GatedTypes, GatedRuns
  <2> QED BY <2>1, <2>2 DEF Range
<1> QED
  BY <1>1, <1>3, <1>4, GatedInvariant, PTL DEF GatedSpec
=============================================================================
