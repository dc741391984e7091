---------------------------- MODULE GatedActions ----------------------------
(***************************************************************************)
(* The commands behind the safety gates (policy/safety_gates.cpp and       *)
(* main.cpp): the memory clean, the trim of the own working set, the       *)
(* scheduler tuner and the registration of the service.  Each checks the   *)
(* gates of every step of its plan, makes the system calls, and records    *)
(* what it did in the cooldown ledger, one step at a time.                 *)
(*                                                                         *)
(* The commands are processes of one user; they share the clock, the       *)
(* ledger's file and the name of the temporary file that replaces it, and  *)
(* can be killed between any two steps.  Nobody locks the ledger.          *)
(***************************************************************************)
EXTENDS Naturals, Sequences, FiniteSets, Functions

CONSTANTS
    Runners,       \* processes that run commands
    Kinds,         \* the commands they run
    CompiledIn,    \* capabilities built in (OPTIMIZER_ENABLE_*)
    DeepestClean,  \* bound on [memory].max_clean_level
    CooldownSpan,  \* kDefaultCooldown
    MaxClock       \* bound on the clock

CleanSteps == <<"trim", "standby", "cache">>

Capabilities == Range(CleanSteps) \cup {"tuner", "registration"}

ASSUME GatedAssumption ==
    /\ Kinds \subseteq {"clean", "selftrim", "scheduler", "install"}
    /\ CompiledIn \subseteq Capabilities
    /\ DeepestClean \in 1..Len(CleanSteps)
    /\ {CooldownSpan, MaxClock} \subseteq Nat \ {0}

VARIABLES
    now,        \* std::time: it may be set back or ahead
    ledger,     \* gate-cooldowns.txt: the last run of each capability, 0 for none
    draft,      \* gate-cooldowns.txt.tmp: whether it exists, its lines, who has it open
    run,        \* each runner's command
    recorded,   \* history: the latest runs that RecordCooldownRun reported as recorded
    earned,     \* history: capabilities a completed plan has exercised
    overlap     \* history: two commands were recording at once

gatedVars == <<now, ledger, draft, run, recorded, earned, overlap>>

NoRecords == [c \in Capabilities |-> 0]
NoTemp == [exists |-> FALSE, lines |-> NoRecords, open |-> {}]
Resting == [at |-> "off", kind |-> "none", plan |-> <<>>, open |-> {}, cool |-> {},
            step |-> 1, next |-> NoRecords]

GatedInit ==
    /\ now = 1
    /\ ledger = NoRecords
    /\ draft = NoTemp
    /\ run = [p \in Runners |-> Resting]
    /\ recorded = NoRecords
    /\ earned = {}
    /\ overlap = FALSE

----------------------------------------------------------------------------
(* What the configuration and the command line allow.                      *)

Configs ==
    [mode : {"observe", "balanced", "experimental"}, maintenance : BOOLEAN,
     emergency : BOOLEAN, cleanEnabled : BOOLEAN, nativeWrite : BOOLEAN,
     scheduler : BOOLEAN, maxLevel : 0..DeepestClean]

AllowsLocalReversibleActions(cfg) ==
    cfg.mode # "observe" /\ (cfg.maintenance \/ cfg.emergency)

AllowsSystemLevelActions(cfg) == cfg.mode = "experimental" /\ cfg.emergency

PlanMemoryClean(level) == SubSeq(CleanSteps, 1, level)

ConfigAllowsCleanStep(cfg, s) ==
    /\ IF s = "trim"
       THEN AllowsLocalReversibleActions(cfg)
       ELSE AllowsSystemLevelActions(cfg) /\ cfg.nativeWrite
    /\ cfg.cleanEnabled
    /\ s \in Range(PlanMemoryClean(cfg.maxLevel))

\* A command: its plan, and the steps whose first three gates are open (compiled in,
\* configured, acknowledged).
Command(kind, plan, open) ==
    [Resting EXCEPT !.at = "gates", !.kind = kind, !.plan = plan, !.open = open]

CleanCommands ==
    {Command("clean", PlanMemoryClean(cfg.maxLevel),
             {s \in Range(PlanMemoryClean(cfg.maxLevel)) :
                 /\ s \in CompiledIn
                 /\ ConfigAllowsCleanStep(cfg, s)
                 /\ acknowledged /\ (s # "trim" => isolated)}) :
        cfg \in {c \in Configs : c.maxLevel > 0}, acknowledged, isolated \in BOOLEAN}

\* The working set's trim takes GatherMemoryCleanGates' default for compiledIn: TRUE.
SelfTrimCommands ==
    {Command("selftrim", <<"trim">>,
             {s \in {"trim"} : ConfigAllowsCleanStep(cfg, s) /\ acknowledged}) :
        cfg \in Configs, acknowledged \in BOOLEAN}

SchedulerCommands ==
    {Command("scheduler", <<"tuner">>,
             {s \in CompiledIn \cap {"tuner"} : cfg.scheduler /\ acknowledged}) :
        cfg \in Configs, acknowledged \in BOOLEAN}

InstallCommands == {Command("install", <<"registration">>, {"registration"})}

Offered ==
    {c \in CleanCommands \cup SelfTrimCommands \cup SchedulerCommands \cup InstallCommands :
        c.kind \in Kinds}

Launch(p) ==
    /\ run[p].at = "off"
    /\ \E c \in Offered : run' = [run EXCEPT ![p] = c]
    /\ UNCHANGED <<now, ledger, draft, recorded, earned, overlap>>

----------------------------------------------------------------------------
(* The gates.                                                              *)

\* Mutant of EvaluateCooldownGate: a clock that was set back lets the run pass.
EvaluateCooldownGateUnsigned(records, c) ==
    records[c] = 0 \/ now < records[c] \/ now - records[c] >= CooldownSpan

EvaluateCooldownGate(records, c) ==
    records[c] = 0 \/ (now >= records[c] /\ now - records[c] >= CooldownSpan)

EvaluateGates(inputs) == \A gate \in DOMAIN inputs : inputs[gate]

\* The tuner does not look at the environment.  The registration looks at the audit
\* log and the ledger only, and lets a ledger it cannot read pass.
GatherGates(p, environment, audit, readable) ==
    LET c == run[p].plan[run[p].step] IN
    [firstThree |-> c \in run[p].open,
     permissionAndEnvironment |-> environment \/ run[p].kind \in {"scheduler", "install"},
     audit |-> audit,
     cooldown |-> IF readable THEN EvaluateCooldownGate(ledger, c)
                              ELSE run[p].kind = "install"]

\* What must hold of a step that passes: its last recorded run is long enough ago.
CooledDown(c) == recorded[c] = 0 \/ now >= recorded[c] + CooldownSpan

\* The gates of one step of the plan; the first system call comes after the last.
Gate(p) ==
    LET last == run[p].step = Len(run[p].plan)
        cool == run[p].cool \cup {c \in {run[p].plan[run[p].step]} : CooledDown(c)}
    IN
    /\ run[p].at = "gates"
    /\ \E environment, audit, readable \in BOOLEAN :
          run' = [run EXCEPT ![p] =
              IF EvaluateGates(GatherGates(p, environment, audit, readable))
              THEN [run[p] EXCEPT !.at = IF last THEN "execute" ELSE "gates",
                                  !.step = IF last THEN 1 ELSE run[p].step + 1,
                                  !.cool = cool]
              ELSE Resting]
    /\ UNCHANGED <<now, ledger, draft, recorded, earned, overlap>>

----------------------------------------------------------------------------
(* The system calls (ExecuteMemoryCleanPlan, and the single calls).        *)

\* The next call, or the first record.  What the gates found is of no use any more.
Called(p, last) ==
    IF last THEN [run[p] EXCEPT !.at = "record", !.step = 1, !.open = {}, !.cool = {}]
            ELSE [run[p] EXCEPT !.step = run[p].step + 1]

\* Mutant of Execute: the calls that were made count, though a later one failed.
ExecutePartially(p) ==
    LET last == run[p].step = Len(run[p].plan) IN
    /\ run[p].at = "execute"
    /\ run' = [run EXCEPT ![p] = Called(p, last)]
    /\ \E ok \in BOOLEAN : earned' = IF last /\ ok THEN earned \cup Range(run[p].plan) ELSE earned
    /\ UNCHANGED <<now, ledger, draft, recorded, overlap>>

\* One call.  The first that fails ends the command, without a record of any.
Execute(p) ==
    LET last == run[p].step = Len(run[p].plan) IN
    /\ run[p].at = "execute"
    /\ \/ /\ run' = [run EXCEPT ![p] = Called(p, last)]
          /\ earned' = IF last THEN earned \cup Range(run[p].plan) ELSE earned
       \/ /\ run' = [run EXCEPT ![p] = Resting]
          /\ UNCHANGED earned
    /\ UNCHANGED <<now, ledger, draft, recorded, overlap>>

----------------------------------------------------------------------------
(* RecordCooldownRun, for one step of the plan after the other.            *)

Recording(p) == run[p].at \in {"open", "flush", "move"}

WithCooldownRun(records, c) == [records EXCEPT ![c] = IF @ > now THEN @ ELSE now]

\* Mutant of NextStep: the loop runs one step too far.
NextStepTooFar(p) ==
    LET n == run[p].step + 1 IN
    [run EXCEPT ![p] = IF run[p].step > Len(run[p].plan) THEN Resting
                       ELSE [run[p] EXCEPT !.at = "record", !.step = n, !.next = NoRecords]]

\* The step is recorded, or could not be: the command says so and goes on.
NextStep(p) ==
    LET n == run[p].step + 1 IN
    [run EXCEPT ![p] = IF run[p].step = Len(run[p].plan) THEN Resting
                       ELSE [run[p] EXCEPT !.at = "record", !.step = n, !.next = NoRecords]]

\* A ledger that cannot be read is not overwritten.
ReadCooldownLedger(p) ==
    /\ run[p].at = "record"
    /\ \/ /\ run' = [run EXCEPT ![p].at = "open",
                                ![p].next = WithCooldownRun(ledger, run[p].plan[run[p].step])]
          /\ overlap' = (overlap \/ \E q \in Runners \ {p} : Recording(q))
          /\ recorded' = IF overlap' THEN NoRecords ELSE recorded
       \/ run' = NextStep(p) /\ UNCHANGED <<overlap, recorded>>
    /\ UNCHANGED <<now, ledger, draft, earned>>

\* The temporary file is created, or emptied if it exists.
OpenTemp(p) ==
    /\ run[p].at = "open"
    /\ \/ /\ run' = [run EXCEPT ![p].at = "flush"]
          /\ draft' = [exists |-> TRUE, lines |-> NoRecords, open |-> draft.open \cup {p}]
       \/ run' = NextStep(p) /\ UNCHANGED draft
    /\ UNCHANGED <<now, ledger, recorded, earned, overlap>>

Lines(records) == {c \in Capabilities : records[c] > 0}

\* Deleting fails while another process has the file open.
RemoveTemp(others) == IF others = {} THEN NoTemp ELSE [draft EXCEPT !.open = others]

\* The lines are written from the file's start, and the file is closed.  Where another
\* process wrote more lines meanwhile, the last of these remain.
FlushTemp(p) ==
    LET others == draft.open \ {p}
        extra == Cardinality(Lines(draft.lines)) - Cardinality(Lines(run[p].next))
    IN
    /\ run[p].at = "flush"
    /\ \/ /\ \E rest \in SUBSET Lines(draft.lines) :
                /\ Cardinality(rest) = IF extra > 0 THEN extra ELSE 0
                /\ draft' = [exists |-> TRUE, open |-> others,
                             lines |-> [c \in Capabilities |->
                                          IF c \in rest THEN draft.lines[c] ELSE run[p].next[c]]]
          /\ run' = [run EXCEPT ![p].at = "move"]
       \/ draft' = RemoveTemp(others) /\ run' = NextStep(p)
    /\ UNCHANGED <<now, ledger, recorded, earned, overlap>>

\* The replacement is atomic.  It fails if the file is gone or open elsewhere, and may
\* fail for other reasons; then the temporary file is removed.
ReplaceLedger(p) ==
    LET c == run[p].plan[run[p].step] IN
    /\ run[p].at = "move"
    /\ \/ /\ draft.exists /\ draft.open = {}
          /\ ledger' = draft.lines
          /\ draft' = NoTemp
          /\ recorded' = IF overlap \/ recorded[c] > run[p].next[c] THEN recorded
                         ELSE [recorded EXCEPT ![c] = run[p].next[c]]
       \/ draft' = RemoveTemp(draft.open) /\ UNCHANGED <<ledger, recorded>>
    /\ run' = NextStep(p)
    /\ UNCHANGED <<now, earned, overlap>>

----------------------------------------------------------------------------

\* A process ends; Windows closes its files.
KillRunner(p) ==
    /\ run[p].at # "off"
    /\ run' = [run EXCEPT ![p] = Resting]
    /\ draft' = [draft EXCEPT !.open = @ \ {p}]
    /\ UNCHANGED <<now, ledger, recorded, earned, overlap>>

SetClock ==
    /\ now' \in 1..MaxClock \ {now}
    /\ UNCHANGED <<ledger, draft, run, recorded, earned, overlap>>

GatedNext ==
    \/ SetClock
    \/ \E p \in Runners :
          \/ Launch(p) \/ Gate(p) \/ Execute(p) \/ ReadCooldownLedger(p) \/ OpenTemp(p)
          \/ FlushTemp(p) \/ ReplaceLedger(p) \/ KillRunner(p)

GatedSpec == GatedInit /\ [][GatedNext]_gatedVars

----------------------------------------------------------------------------
(* Properties.                                                             *)

Ledgers == [Capabilities -> 0..MaxClock]

\* Types of the clock, the files and the commands.
GatedTypeOK ==
    /\ now \in 1..MaxClock
    /\ {ledger, recorded} \subseteq Ledgers
    /\ draft.exists \in BOOLEAN /\ draft.lines \in Ledgers /\ draft.open \subseteq Runners
    /\ \A p \in Runners :
          /\ run[p].at \in {"off", "gates", "execute", "record", "open", "flush", "move"}
          /\ run[p].at # "off" => run[p].step \in DOMAIN run[p].plan
          /\ run[p].cool \subseteq Range(run[p].plan)
          /\ run[p].next \in Ledgers
    /\ earned \subseteq Capabilities /\ overlap \in BOOLEAN

\* A command that makes system calls had, for every step of its plan, its last recorded
\* run at least a cooldown ago when it checked, however the clock was set and wherever
\* earlier commands were killed or failed to write, as long as no two recorded at once.
\* The registration is left out: it passes when it cannot read the ledger.
CooldownKept ==
    ~overlap => \A p \in Runners :
        run[p].at = "execute" /\ run[p].kind # "install" => Range(run[p].plan) \subseteq run[p].cool

\* Only capabilities that a completed plan has exercised are in the ledger, even when
\* commands record at once and mix their temporary files: a failure never starts a
\* cooldown, which would refuse the retry.
LedgerIsEarned == Lines(ledger) \subseteq earned

\* No capability that is not built in gets as far as its system call.
CompiledOutNeverRuns ==
    \A p \in Runners :
        run[p].at = "execute" /\ run[p].kind # "install" => Range(run[p].plan) \subseteq CompiledIn
=============================================================================
