------------------------------ MODULE AgentForm ------------------------------
(***************************************************************************)
(* How the resident agent is registered: as an entry of the user's Run     *)
(* key, as a scheduled task or as a service (service/agent_form.cpp,       *)
(* startup_entry.cpp, scheduled_task.cpp, service_host.cpp), and the       *)
(* commands that install, remove, replace or converge the forms (main.cpp, *)
(* --agent-form, --startup, --scheduled-task, --service).                  *)
(*                                                                         *)
(* A command is a process: it asks Windows for each form in turn, decides, *)
(* and then runs one leaf command after the other.  Nothing keeps two      *)
(* commands apart, and each can be killed between any two steps.  Its      *)
(* audit and journal lines decide nothing (AuditFile has the audit file);  *)
(* the cooldown ledger is kept for the one entry a leaf command looks at.  *)
(***************************************************************************)
EXTENDS Naturals, Sequences, FiniteSets

CONSTANTS
    Shells,       \* processes that run commands
    Elevated,     \* those with administrator's rights
    MaxCommands,  \* bound on the commands a user tries before leaving it to apply
    MaxFormFaults \* bound on failed calls and killed processes

FormOrder == <<"startup_tray", "task", "service">>

Forms == {FormOrder[i] : i \in DOMAIN FormOrder}

ASSUME FormsAssumption ==
    /\ Elevated \subseteq Shells
    /\ {MaxCommands, MaxFormFaults} \subseteq Nat

VARIABLES
    registeredForms,   \* the forms Windows has
    cooling,      \* gate-cooldowns.txt: a service was registered not long ago
    declared,     \* [agent].form of the configuration file
    cmd,          \* each process' command
    commandsLeft,
    formFaults    \* faults still to come

formVars == <<registeredForms, cooling, declared, cmd, commandsLeft, formFaults>>

Step(form, install) == [form |-> form, install |-> install]

\* asked and seen: the queries made and the forms found; plan: leaf commands to run.
\* History: blind, a query failed; contended, another command with another aim ran
\* at the same time (not kept of a removal).  A command that has returned 0 without being
\* blind is told apart from one that ended in any other way.
NoCommand == [at |-> "off", verb |-> "none", target |-> "none", replace |-> FALSE,
              asked |-> 0, seen |-> {}, plan |-> <<>>,
              blind |-> FALSE, contended |-> FALSE]

FormsInit ==
    /\ registeredForms = {}
    /\ cooling = FALSE
    /\ declared \in Forms
    /\ cmd = [p \in Shells |-> NoCommand]
    /\ commandsLeft = MaxCommands
    /\ formFaults = MaxFormFaults

----------------------------------------------------------------------------
(* The backends.  What each finds, and whether Windows lets process p      *)
(* install or remove the form; a deleted service is taken to be gone at    *)
(* once, as it is when it is stopped and nobody holds a handle of it.      *)

QueryStartupEntry == registeredForms \cap {"startup_tray"}
QueryScheduledTask == registeredForms \cap {"task"}
QueryService == registeredForms \cap {"service"}

\* A value of the user's own Run key: written over, and removed when it is there.
StartupEntryAllows(p, install) == TRUE

\* TASK_CREATE_OR_UPDATE wants an administrator, and so does deleting a task; a task
\* that is not there counts as removed.
ScheduledTaskAllows(p, install) == p \in Elevated \/ (~install /\ QueryScheduledTask = {})

\* A service that exists is not created again, and one that does not is not deleted.
ScmAllows(p, install) == p \in Elevated /\ (install <=> QueryService = {})

----------------------------------------------------------------------------
(* What a command decides from what it has seen.                           *)

ConflictingAgentForms(target, seen) ==
    LET Conflict(f) == IF f # target /\ f \in seen THEN <<f>> ELSE <<>>
    IN  Conflict("startup_tray") \o Conflict("task") \o Conflict("service")

Removals(forms) == [i \in DOMAIN forms |-> Step(forms[i], FALSE)]

ResolveFormApplyActions(target, seen) ==
    (IF target \in seen THEN <<>> ELSE <<Step(target, TRUE)>>)
        \o Removals(ConflictingAgentForms(target, seen))

Return(c, ok) == [NoCommand EXCEPT !.at = IF ok /\ ~c.blind THEN "succeeded" ELSE "off"]

\* What the queries found is not looked at again.
StartCommand(c, plan) ==
    IF plan = <<>> THEN Return(c, TRUE)
    ELSE [c EXCEPT !.at = "gate", !.replace = FALSE, !.asked = 0, !.seen = {}, !.plan = plan]

\* Mutant of Decide: the previous forms go first.
DecideRemoveFirst(c) ==
    LET conflicts == ConflictingAgentForms(c.target, c.seen) IN
    CASE c.verb = "apply" -> StartCommand(c, ResolveFormApplyActions(c.target, c.seen))
      [] c.verb = "install" /\ conflicts # <<>> /\ ~c.replace -> Return(c, FALSE)
      [] OTHER -> StartCommand(c, Removals(conflicts) \o <<Step(c.target, TRUE)>>)

Decide(c) ==
    LET conflicts == ConflictingAgentForms(c.target, c.seen) IN
    CASE c.verb = "apply" -> StartCommand(c, ResolveFormApplyActions(c.target, c.seen))
      [] c.verb = "install" /\ conflicts # <<>> /\ ~c.replace -> Return(c, FALSE)
      [] OTHER -> StartCommand(c, <<Step(c.target, TRUE)>> \o Removals(conflicts))

----------------------------------------------------------------------------
(* The commands.                                                           *)

AtWork(p) == cmd[p].at \notin {"off", "succeeded"}

SameAim(c, d) == c.verb # "remove" /\ d.verb # "remove" /\ c.target = d.target

BeginWork(p, c) ==
    LET rivals == {q \in Shells \ {p} : AtWork(q) /\ ~SameAim(cmd[q], c)} IN
    cmd' = [q \in Shells |->
               IF q = p THEN [c EXCEPT !.contended = c.verb # "remove" /\ rivals # {}]
               ELSE [cmd[q] EXCEPT !.contended = @ \/ (q \in rivals /\ cmd[q].verb # "remove")]]

InstallRequest(f, replace) ==
    [NoCommand EXCEPT !.at = "query", !.verb = "install", !.target = f, !.replace = replace]

\* A removal looks at no other form.
RemoveRequest(f) ==
    [NoCommand EXCEPT !.at = "gate", !.verb = "remove", !.target = f, !.plan = <<Step(f, FALSE)>>]

Requests == {InstallRequest(f, r) : f \in Forms, r \in BOOLEAN} \cup {RemoveRequest(f) : f \in Forms}

ApplyRequest == [NoCommand EXCEPT !.at = "query", !.verb = "apply", !.target = declared]

RunAgentFormCommand(p) ==
    /\ ~AtWork(p)
    /\ commandsLeft > 0
    /\ commandsLeft' = commandsLeft - 1
    /\ \E c \in Requests : BeginWork(p, c)
    /\ UNCHANGED <<registeredForms, cooling, declared, formFaults>>

RunAgentFormApply(p) ==
    /\ ~AtWork(p)
    /\ BeginWork(p, ApplyRequest)
    /\ UNCHANGED <<registeredForms, cooling, declared, commandsLeft, formFaults>>

\* A call of Windows or of the file system may fail while faults are left.
MayFail(ok) == ok \/ formFaults > 0
Spend(ok) == formFaults' = IF ok THEN formFaults ELSE formFaults - 1

Query(f) ==
    CASE f = "startup_tray" -> QueryStartupEntry
      [] f = "task" -> QueryScheduledTask
      [] f = "service" -> QueryService

\* A query that fails leaves the form's flag as it was: not installed.
QueryForm(p) ==
    LET c == cmd[p]
        f == FormOrder[c.asked + 1]
    IN
    /\ c.at = "query"
    /\ \E ok \in BOOLEAN :
          /\ MayFail(ok) /\ Spend(ok)
          /\ LET d == [c EXCEPT !.asked = @ + 1,
                                !.seen = @ \cup (IF ok THEN Query(f) ELSE {}),
                                !.blind = @ \/ ~ok]
             IN cmd' = [cmd EXCEPT ![p] = IF d.asked < Len(FormOrder) THEN d ELSE Decide(d)]
    /\ UNCHANGED <<registeredForms, cooling, declared, commandsLeft>>

\* Mutant of RunScheduledTaskCommand: a task that is there is refused in both directions.
RunScheduledTaskCommandTwice(install, probe) == probe /\ QueryScheduledTask = {}

\* The leaf commands: what each asks before it touches Windows.  The audit log must be
\* writable, except to remove the Run entry; a service that is registered must have
\* cooled down since the last, except when the ledger cannot be read.
RunStartupCommand(install, probe) == probe \/ ~install
RunScheduledTaskCommand(install, probe) == probe
RunServiceInstallCommand(probe, ledger) == probe /\ (ledger => ~cooling)
RunServiceUninstallCommand(probe) == probe

RunAgentFormAction(a, probe, ledger) ==
    CASE a.form = "startup_tray" -> RunStartupCommand(a.install, probe)
      [] a.form = "task" -> RunScheduledTaskCommand(a.install, probe)
      [] a = Step("service", TRUE) -> RunServiceInstallCommand(probe, ledger)
      [] a = Step("service", FALSE) -> RunServiceUninstallCommand(probe)

GateForm(p) ==
    LET c == cmd[p] IN
    /\ c.at = "gate"
    /\ \E probe, ledger \in BOOLEAN :
          /\ MayFail(probe /\ ledger) /\ Spend(probe /\ ledger)
          /\ cmd' = [cmd EXCEPT ![p] =
                IF RunAgentFormAction(Head(c.plan), probe, ledger)
                THEN [c EXCEPT !.at = "act"]
                ELSE Return(c, FALSE)]
    /\ UNCHANGED <<registeredForms, cooling, declared, commandsLeft>>

BackendAllows(p, a) ==
    CASE a.form = "startup_tray" -> StartupEntryAllows(p, a.install)
      [] a.form = "task" -> ScheduledTaskAllows(p, a.install)
      [] a.form = "service" -> ScmAllows(p, a.install)

\* A leaf command that fails ends the whole command; what was done is kept.
ActOnForm(p) ==
    LET c == cmd[p]
        a == Head(c.plan)
    IN
    /\ c.at = "act"
    /\ \E ok \in BOOLEAN :
          /\ MayFail(ok) /\ Spend(ok)
          /\ IF ok /\ BackendAllows(p, a)
             THEN /\ registeredForms' = IF a.install THEN registeredForms \cup {a.form}
                                                     ELSE registeredForms \ {a.form}
                  /\ cmd' = [cmd EXCEPT ![p].at = "record"]
             ELSE /\ cmd' = [cmd EXCEPT ![p] = Return(c, FALSE)]
                  /\ UNCHANGED registeredForms
    /\ UNCHANGED <<cooling, declared, commandsLeft>>

\* The audit line, the journal and, of a service, the ledger; a failure is only told.
RecordForm(p) ==
    LET c == cmd[p] IN
    /\ c.at = "record"
    /\ \E ok \in BOOLEAN :
          /\ MayFail(ok) /\ Spend(ok)
          /\ cooling' = (cooling \/ (ok /\ Head(c.plan) = Step("service", TRUE)))
    /\ cmd' = [cmd EXCEPT ![p] = StartCommand(c, Tail(c.plan))]
    /\ UNCHANGED <<registeredForms, declared, commandsLeft>>

CooldownPasses ==
    /\ cooling
    /\ cooling' = FALSE
    /\ UNCHANGED <<registeredForms, declared, cmd, commandsLeft, formFaults>>

KillCommand(p) ==
    /\ AtWork(p)
    /\ formFaults > 0
    /\ formFaults' = formFaults - 1
    /\ cmd' = [cmd EXCEPT ![p] = NoCommand]
    /\ UNCHANGED <<registeredForms, cooling, declared, commandsLeft>>

Proceed(p) == QueryForm(p) \/ GateForm(p) \/ ActOnForm(p) \/ RecordForm(p)

FormsNext ==
    \/ CooldownPasses
    \/ \E p \in Shells :
          RunAgentFormCommand(p) \/ RunAgentFormApply(p) \/ Proceed(p) \/ KillCommand(p)

\* Processes run; the cooldown passes; and an administrator runs apply again and again.
FormsFairness ==
    /\ \A p \in Shells : WF_formVars(Proceed(p))
    /\ \A p \in Elevated : WF_formVars(RunAgentFormApply(p))
    /\ WF_formVars(CooldownPasses)

FormsSpec == FormsInit /\ [][FormsNext]_formVars /\ FormsFairness

----------------------------------------------------------------------------
(* Properties.                                                             *)

\* Types of the registrations and of the commands that change them.
FormsTypeOK ==
    /\ registeredForms \subseteq Forms
    /\ cooling \in BOOLEAN
    /\ declared \in Forms
    /\ \A p \in Shells :
          /\ cmd[p].at \in {"off", "query", "gate", "act", "record", "succeeded"}
          /\ cmd[p].verb \in {"none", "install", "remove", "apply"}
          /\ cmd[p].target \in Forms \cup {"none"}
          /\ cmd[p].asked \in 0..Len(FormOrder)
          /\ cmd[p].seen \subseteq Forms
          /\ Len(cmd[p].plan) <= Len(FormOrder)
    /\ commandsLeft \in 0..MaxCommands
    /\ formFaults \in 0..MaxFormFaults

\* "先装后卸：任一时刻都至少有一个可用形态": installing with --replace and apply never take
\* the last form away, however they fail or are killed and whatever they could not
\* query, as long as no command with another aim runs at the same time.  And one that
\* returns 0 leaves its form registered and no other, unless one of its queries failed or
\* another command was at work.
OneFormIsHandedOver ==
    [][/\ registeredForms # {} /\ registeredForms' = {} =>
             \E p \in Shells :
                 /\ cmd[p].at = "act" /\ cmd'[p].at = "record"
                 /\ cmd[p].verb = "remove" \/ cmd[p].contended
       /\ \A p \in Shells :
             /\ AtWork(p) /\ cmd[p].verb # "remove" /\ ~cmd[p].contended
             /\ cmd'[p].at = "succeeded"
             => registeredForms' = {cmd[p].target}]_formVars

\* "already-applied actions are kept; rerun after fixing the cause": whatever commands
\* were run, failed, were killed or got in each other's way before, running apply again
\* and again ends with the declared form registered and no other.
ApplyConverges == <>[](registeredForms = {declared})
=============================================================================
