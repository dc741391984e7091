----------------------------- MODULE PowerScheme -----------------------------
(***************************************************************************)
(* Switching the active power scheme (power_scheme.cpp, and main.cpp,      *)
(* RunPowerSchemeCommand): a record on disk goes pending -> applied ->     *)
(* restored around the system call, and a later command rolls an           *)
(* unconfirmed switch back before it does anything else.                   *)
(*                                                                         *)
(* Each command is a process.  It may be killed between any two of its     *)
(* file and system calls, every such call may fail, and several commands   *)
(* may run at once: the save is a temporary file, with one name for all,   *)
(* moved over the record.  A refusal by a safety gate changes nothing and  *)
(* is the command that never starts.                                       *)
(***************************************************************************)
EXTENDS Naturals

CONSTANTS
    Procs,     \* processes that run power-scheme commands
    Schemes,   \* scheme GUIDs, normalised
    None,      \* no record, no file, no value
    Torn,      \* a temporary file whose writer was killed half-way
    Disturbances   \* what else happens: see Disturbance

\* "ignored": PowerSetActiveScheme succeeds without effect.  "external": another
\* program switches the scheme.  "unreadable": the record cannot be read.
Disturbance == {"ignored", "external", "unreadable"}

States == {"pending", "applied", "restored"}
Record == [state : States, saved : Schemes, target : Schemes]

ASSUME SchemeAssumption ==
    /\ None \notin Schemes \cup Record
    /\ Torn \notin Record \cup {None}
    /\ Disturbances \subseteq Disturbance

VARIABLES
    active,    \* the active scheme of the system
    record,    \* the record on disk, or None
    temp,      \* the temporary file, None or Torn
    proc,      \* each command: where it is and its locals
    base,      \* history: the scheme before the last switch that was to be kept
    was,       \* history: the schemes that have been active
    trouble    \* history: 0, 1 after a call without effect or an unreadable record,
               \* 2 after an interference: commands at once, or another program

system == <<active, was, trouble>>
disk == <<record, temp, base>>
vars == <<system, disk, proc>>

Commands == {"apply", "restore", "recover"}
Places == {"idle", "recover_read", "recover_active", "restore_read", "rollback",
           "rollback_check", "previous", "save", "move", "switch", "switch_check"}

\* A command that does not run.  ok is the verdict of the last one to end.
Idle == [at |-> "idle", cmd |-> "recover", target |-> None, rec |-> None, out |-> None,
         ok |-> FALSE]

Init ==
    /\ active \in Schemes
    /\ record = None
    /\ temp = None
    /\ proc = [p \in Procs |-> Idle]
    /\ base = active
    /\ was = {active}
    /\ trouble = 0

Goto(p, place) == proc' = [proc EXCEPT ![p].at = place]

\* The end of a command.  Only its verdict stays.
End(p, ok) == proc' = [proc EXCEPT ![p] = [Idle EXCEPT !.cmd = proc[p].cmd,
                                                      !.target = proc[p].target, !.ok = ok]]

Worse(t) == trouble' = IF trouble > t THEN trouble ELSE t

\* The outcomes of opening the record.
CanRead == IF "unreadable" \in Disturbances THEN BOOLEAN ELSE {TRUE}

IsPending(r) == r # None /\ r.state = "pending"

----------------------------------------------------------------------------
(* Starting a command: it reads the record once, for the choice of what to *)
(* do first.  Only recover needs to be able to read it.                    *)

FirstPlace(cmd, read) ==
    CASE cmd = "recover" -> "recover_read"
      [] cmd = "restore" -> "restore_read"
      [] cmd = "apply" /\ read /\ IsPending(record) -> "recover_read"
      [] OTHER -> "previous"

Start(p, cmd, target) ==
    /\ proc[p].at = "idle"
    /\ (cmd = "apply") = (target # None)
    /\ \E read \in CanRead :
          /\ cmd = "recover" => read /\ record # None
          /\ proc' = [proc EXCEPT ![p] =
                [Idle EXCEPT !.cmd = cmd, !.target = target, !.at = FirstPlace(cmd, read)]]
          /\ Worse(IF \E q \in Procs : proc[q].at # "idle" THEN 2 ELSE IF read THEN 0 ELSE 1)
    /\ UNCHANGED <<active, was, disk>>

----------------------------------------------------------------------------
(* SaveSchemeRecord: the temporary file is written, then moved.  What      *)
(* follows depends on what was saved.                                      *)

Save(p, r) == proc' = [proc EXCEPT ![p].rec = None, ![p].out = r, ![p].at = "save"]

WriteTemp(p) ==
    /\ proc[p].at = "save"
    /\ \/ temp' = proc[p].out /\ Goto(p, "move")
       \/ temp' \in {temp, None} /\ End(p, FALSE)
    /\ UNCHANGED <<system, record, base>>

\* RecoverPendingScheme is over: recover ends, apply goes on to switch.
AfterRecovery(p, ok) ==
    IF proc[p].cmd = "apply"
    THEN proc' = [proc EXCEPT ![p].rec = None, ![p].out = None, ![p].at = "previous"]
    ELSE End(p, ok)

AfterSave(p) ==
    CASE proc[p].out.state = "pending" -> Goto(p, "switch")
      [] proc[p].out.state = "applied" -> End(p, TRUE)
      [] OTHER -> AfterRecovery(p, TRUE)

\* MoveFileExW replaces the record by whatever the temporary file holds now; a
\* record that does not parse counts as none.
MoveTemp(p) ==
    /\ proc[p].at = "move"
    /\ temp' = None
    /\ \/ /\ temp # None
          /\ record' = IF temp = Torn THEN None ELSE temp
          /\ base' = IF IsPending(record') /\ ~IsPending(record) THEN active ELSE base
          /\ AfterSave(p)
       \/ /\ UNCHANGED <<record, base>>
          /\ End(p, FALSE)
    /\ UNCHANGED system

----------------------------------------------------------------------------
(* RecoverPendingScheme and RestoreSchemeWithRecord.                       *)

ReadRecord(p) ==
    /\ proc[p].at \in {"recover_read", "restore_read"}
    /\ \/ FALSE \in CanRead /\ End(p, FALSE) /\ Worse(1)
       \/ /\ proc[p].at = "restore_read"
          /\ UNCHANGED trouble
          /\ IF record = None THEN End(p, FALSE)
             ELSE proc' = [proc EXCEPT ![p].rec = record, ![p].at = "rollback"]
       \/ /\ proc[p].at = "recover_read"
          /\ UNCHANGED trouble
          /\ proc' = [proc EXCEPT ![p].rec = record, ![p].at = "recover_active"]
    /\ UNCHANGED <<active, was, disk>>

\* Mutant of DecideSchemeRecovery: the active scheme is not looked at.
DecideSchemeRecoveryBlindly(r, a) == IF ~IsPending(r) THEN "None" ELSE "MarkNeverApplied"

\* DecideSchemeRecovery, for the record that was read and the active scheme.
DecideSchemeRecovery(r, a) ==
    IF ~IsPending(r) THEN "None"
    ELSE IF r.saved = a THEN "MarkNeverApplied" ELSE "RestoreToSaved"

Restored(p) == [proc[p].rec EXCEPT !.state = "restored"]

RecoverActive(p) ==
    /\ proc[p].at = "recover_active"
    /\ \/ End(p, FALSE)
       \/ LET decision == DecideSchemeRecovery(proc[p].rec, active) IN
          \/ decision = "None" /\ AfterRecovery(p, TRUE)
          \/ decision = "MarkNeverApplied" /\ Save(p, Restored(p))
          \/ decision = "RestoreToSaved" /\ Goto(p, "rollback")
    /\ UNCHANGED <<system, disk>>

\* PowerSetActiveScheme: it fails, or the command goes on, usually with the scheme set.
SetActive(p, scheme, place) ==
    /\ \/ End(p, FALSE) /\ UNCHANGED <<active, trouble>>
       \/ Goto(p, place) /\ active' = scheme /\ UNCHANGED trouble
       \/ Goto(p, place) /\ "ignored" \in Disturbances /\ Worse(1) /\ UNCHANGED active
    /\ was' = was \cup {active'}
    /\ UNCHANGED disk

\* RestoreScheme: set the saved scheme ...
Rollback(p) ==
    /\ proc[p].at = "rollback"
    /\ SetActive(p, proc[p].rec.saved, "rollback_check")

\* Mutant of RollbackCheck: the call is believed.
RollbackUnchecked(p) ==
    /\ proc[p].at = "rollback_check"
    /\ Save(p, Restored(p))
    /\ UNCHANGED <<system, disk>>

\* ... and read it back.  A different scheme is a success that restored nothing.
RollbackCheck(p) ==
    /\ proc[p].at = "rollback_check"
    /\ \/ End(p, FALSE)
       \/ active = proc[p].rec.saved /\ Save(p, Restored(p))
       \/ active # proc[p].rec.saved /\ AfterRecovery(p, FALSE)
    /\ UNCHANGED <<system, disk>>

----------------------------------------------------------------------------
(* ApplySchemeWithRecord.                                                  *)

Pending(p) == [state |-> "pending", saved |-> active, target |-> proc[p].target]

\* The scheme to roll back to is read, and saved before anything is changed.
Previous(p) ==
    /\ proc[p].at = "previous"
    /\ \/ End(p, FALSE)
       \/ Save(p, Pending(p))
    /\ UNCHANGED <<system, disk>>

Switch(p) ==
    /\ proc[p].at = "switch"
    /\ SetActive(p, proc[p].target, "switch_check")

\* Only a switch that is read back is marked applied.
SwitchCheck(p) ==
    /\ proc[p].at = "switch_check"
    /\ \/ End(p, FALSE)
       \/ active = proc[p].target /\ Save(p, [proc[p].out EXCEPT !.state = "applied"])
    /\ UNCHANGED <<system, disk>>

----------------------------------------------------------------------------
(* The command is killed; another program switches the scheme.             *)

Kill(p) ==
    /\ proc[p].at # "idle"
    /\ End(p, FALSE)
    /\ temp' \in {temp} \cup (IF proc[p].at = "save" THEN {Torn} ELSE {})
    /\ UNCHANGED <<system, record, base>>

External ==
    /\ "external" \in Disturbances
    /\ active' \in Schemes
    /\ Worse(2)
    /\ was' = was \cup {active'}
    /\ UNCHANGED <<disk, proc>>

Next ==
    \/ \E p \in Procs :
          \/ \E cmd \in Commands, target \in Schemes \cup {None} : Start(p, cmd, target)
          \/ WriteTemp(p) \/ MoveTemp(p)
          \/ ReadRecord(p) \/ RecoverActive(p) \/ Rollback(p) \/ RollbackCheck(p)
          \/ Previous(p) \/ Switch(p) \/ SwitchCheck(p)
          \/ Kill(p)
    \/ External

Spec == Init /\ [][Next]_vars

----------------------------------------------------------------------------
(* Properties.                                                             *)

\* Types of the record, the temporary file and the locals of the commands.
TypeOK ==
    /\ active \in Schemes /\ base \in Schemes
    /\ was \subseteq Schemes
    /\ trouble \in 0..2
    /\ record \in Record \cup {None}
    /\ temp \in Record \cup {None, Torn}
    /\ proc \in [Procs -> [at : Places, cmd : Commands, target : Schemes \cup {None},
                           rec : Record \cup {None}, out : Record \cup {None}, ok : BOOLEAN]]
    /\ \A p \in Procs :
          /\ proc[p].at \in {"rollback", "rollback_check"} => proc[p].rec # None
          /\ proc[p].at \in {"save", "move", "switch", "switch_check"} => proc[p].out # None

\* Wherever a command is killed and whichever of its calls fails, the record leads
\* back: if the active scheme is not the one from before the switch, the record
\* names that one, and says that it has not been restored.  And whatever commands run
\* at once and whatever else happens, a rollback can only go to a scheme that the system
\* has really had active.
RollbackBasis ==
    /\ trouble = 0 =>
          /\ active # base => record # None /\ record.saved = base /\ record.state # "restored"
          /\ IsPending(record) => record.saved = base
    /\ record # None => record.saved \in was
    /\ temp \notin {None, Torn} => temp.saved \in was

\* A switch that was not confirmed is settled before another one begins: while the
\* record is pending, the scheme it would roll back to is never replaced, also when
\* a system call reports success without effect, a case every switch is read back
\* for.
KnownSafeKept ==
    [][trouble' < 2 /\ IsPending(record) /\ IsPending(record')
          => record'.saved = record.saved]_vars

\* A command that reports success has done it: apply has switched and its record
\* says so, restore is back, and after recover nothing is unconfirmed.  Calls
\* without effect and unreadable records do not change this.
VerdictHolds ==
    [][trouble' < 2 => \A p \in Procs : proc[p].at # "idle" /\ proc'[p].at = "idle" /\ proc'[p].ok =>
          /\ proc[p].cmd = "apply" => /\ active' = proc[p].target
                                      /\ record'.state = "applied" /\ record'.target = active'
          /\ proc[p].cmd = "restore" => record'.state = "restored" /\ active' = record'.saved
          /\ proc[p].cmd = "recover" => ~IsPending(record')]_vars
=============================================================================
