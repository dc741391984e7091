---------------------------- MODULE RestoreProofs ----------------------------
(***************************************************************************)
(* What is changed can be put back.  The record of a power scheme switch   *)
(* leads back to the scheme from before, for any number of commands at     *)
(* once and killed anywhere, and a command that reports success has done   *)
(* what it says (PowerScheme); boost and restore leave every thread as it  *)
(* would have been (ThreadTuner).                                          *)
(***************************************************************************)
EXTENDS PowerScheme, ThreadTuner, TLAPS

----------------------------------------------------------------------------
(* The switch of the power scheme.                                         *)

SchemeRuns == [at : Places, cmd : Commands, target : Schemes \cup {None},
         rec : Record \cup {None}, out : Record \cup {None}, ok : BOOLEAN]

\* What a command has at hand at each place.
Shape(r) ==
    /\ r.at \in {"rollback", "rollback_check"} => r.rec # None
    /\ r.at \in {"save", "move", "switch", "switch_check"} => r.out # None
    /\ r.at # "idle" /\ r.cmd = "apply" => r.target \in Schemes
    /\ r.at \in {"previous", "switch", "switch_check"} => r.cmd = "apply"
    /\ r.at \in {"save", "move"} /\ r.out.state # "restored" => r.cmd = "apply"

SchemeTypes ==
    /\ active \in Schemes /\ base \in Schemes
    /\ trouble \in 0..2
    /\ record \in Record \cup {None}
    /\ temp \in Record \cup {None, Torn}
    /\ proc \in [Procs -> SchemeRuns]
    /\ \A p \in Procs : Shape(proc[p])

\* Whatever a command holds, or a file, names a scheme that was active once.
SavedInv ==
    /\ active \in was
    /\ \A x \in {record, temp} : x \in Record => x.saved \in was
    /\ \A p \in Procs : \A x \in {proc[p].rec, proc[p].out} : x \in Record => x.saved \in was

\* What a command by itself knows at each place.
Poised(r) ==
    /\ r.at \in {"recover_read", "recover_active"} => r.cmd # "restore"
    /\ r.at = "restore_read" => r.cmd = "restore"
    /\ r.at \in {"recover_active", "rollback", "rollback_check"} => r.rec = record
    /\ r.at \in {"rollback", "rollback_check"} => record # None
    /\ r.at \in {"switch", "switch_check"} =>
          r.out = record /\ IsPending(record) /\ record.target = r.target
    /\ r.at \in {"save", "move"} =>
          /\ r.out.state # "restored" => r.out.target = r.target
          /\ r.out.state = "applied" => active = r.out.target
          /\ r.out.state \in {"pending", "restored"} => active = r.out.saved
    /\ r.at = "move" => temp = r.out

\* And what holds besides as long as every call did what it said.
Calm(r) ==
    /\ r.at = "rollback_check" => active = record.saved
    /\ r.at = "previous" => ~IsPending(record)
    /\ r.at \in {"save", "move"} =>
          /\ r.out.state = "pending" => ~IsPending(record)
          /\ r.out.state # "pending" => record # None /\ r.out.saved = record.saved

\* The record leads back to base.
LeadsBack ==
    /\ record = None \/ record.state = "restored" => active = base
    /\ record # None => record.saved = base

Sole == \A p, q \in Procs : proc[p].at # "idle" /\ proc[q].at # "idle" => p = q

SchemeInv ==
    /\ SchemeTypes
    /\ SavedInv
    /\ trouble < 2 => Sole /\ \A p \in Procs : Poised(proc[p])
    /\ trouble = 0 => LeadsBack /\ \A p \in Procs : Calm(proc[p])

\* A step of one command leaves the others where they are.
Steps(p) ==
    /\ proc' \in [Procs -> SchemeRuns]
    /\ \A q \in Procs : q # p => proc'[q] = proc[q]

\* A command that has ended holds nothing.
EndedIs(p) ==
    Steps(p) /\ proc'[p].at = "idle" /\ proc'[p].rec = None /\ proc'[p].out = None

\* A command goes on to a place.
LEMMA GotoIs ==
  ASSUME SchemeTypes, NEW p \in Procs, NEW place \in Places, Goto(p, place)
  PROVE  /\ Steps(p) /\ proc'[p].at = place /\ proc'[p].cmd = proc[p].cmd
         /\ proc'[p].target = proc[p].target /\ proc'[p].rec = proc[p].rec
         /\ proc'[p].out = proc[p].out
  BY DEF SchemeTypes, SchemeRuns, Goto, Steps

\* A command that failed says so.
LEMMA FailIs ==
  ASSUME SchemeTypes, NEW p \in Procs, End(p, FALSE)
  PROVE  EndedIs(p) /\ ~proc'[p].ok
  BY Zenon DEF SchemeTypes, SchemeRuns, End, Idle, Steps, EndedIs, Places

\* A command that succeeded ends with its command as it was.
LEMMA SucceedIs ==
  ASSUME SchemeTypes, NEW p \in Procs, End(p, TRUE)
  PROVE  EndedIs(p)
  BY Zenon DEF SchemeTypes, SchemeRuns, End, Idle, Steps, EndedIs, Places

\* A command saves a record.
LEMMA SaveIs ==
  ASSUME SchemeTypes, NEW p \in Procs, NEW x \in Record, Save(p, x)
  PROVE  /\ Steps(p) /\ proc'[p].at = "save" /\ proc'[p].cmd = proc[p].cmd
         /\ proc'[p].target = proc[p].target /\ proc'[p].rec = None /\ proc'[p].out = x
  BY ZenonT(40) DEF SchemeTypes, SchemeRuns, Save, Steps, Places

Resumes(p) ==
    /\ Steps(p) /\ proc'[p].at = "previous" /\ proc'[p].cmd = proc[p].cmd
    /\ proc'[p].target = proc[p].target /\ proc'[p].rec = None /\ proc'[p].out = None

\* The end of a recovery.
LEMMA AfterRecoveryIs ==
  ASSUME SchemeTypes, NEW p \in Procs, AfterRecovery(p, TRUE) \/ AfterRecovery(p, FALSE)
  PROVE  IF proc[p].cmd = "apply" THEN Resumes(p) ELSE EndedIs(p)
<1>1. CASE proc[p].cmd = "apply"
  <2>1. proc' = [proc EXCEPT ![p].rec = None, ![p].out = None, ![p].at = "previous"]
    BY <1>1, Zenon DEF AfterRecovery
  <2> QED BY <1>1, <2>1, ZenonT(40) DEF SchemeTypes, SchemeRuns, Steps, Places, Resumes
<1>2. CASE proc[p].cmd # "apply"
  BY <1>2, FailIs, SucceedIs, Zenon DEF AfterRecovery
<1> QED BY <1>1, <1>2

\* A step of one command keeps the invariant if what it leaves is in order.
LEMMA OneMoves ==
  ASSUME SchemeInv, NEW p \in Procs, Steps(p), Shape(proc'[p]),
         active' \in Schemes, base' \in Schemes, trouble' \in 0..2,
         record' \in Record \cup {None}, temp' \in Record \cup {None, Torn},
         active' \in was', was \subseteq was',
         \A x \in {record', temp', proc'[p].rec, proc'[p].out} : x \in Record => x.saved \in was',
         trouble' < 2 => (\A q \in Procs : q # p => proc[q].at = "idle") /\ Poised(proc[p])',
         trouble' = 0 => LeadsBack' /\ Calm(proc[p])'
  PROVE  SchemeInv'
<1>1. SchemeTypes'
  <2>1. \A q \in Procs : Shape(proc'[q])
    BY DEF SchemeInv, SchemeTypes, Steps
  <2> QED BY <2>1 DEF SchemeTypes, Steps
<1>2. SavedInv'
  <2>1. \A q \in Procs : q # p =>
           \A x \in {proc'[q].rec, proc'[q].out} : x \in Record => x.saved \in was'
    BY DEF SchemeInv, SavedInv, Steps
  <2> QED BY <2>1 DEF SavedInv
<1>3. ASSUME trouble' < 2 PROVE (Sole /\ \A q \in Procs : Poised(proc[q]))'
  <2>1. \A q \in Procs : q # p => proc'[q].at = "idle"
    BY <1>3 DEF Steps
  <2>2. \A q \in Procs : q # p => Poised(proc[q])'
    BY <2>1 DEF Poised
  <2> QED BY <1>3, <2>1, <2>2 DEF Sole
<1>4. ASSUME trouble' = 0 PROVE (LeadsBack /\ \A q \in Procs : Calm(proc[q]))'
  <2>1. \A q \in Procs : q # p => proc'[q].at = "idle"
    BY <1>4 DEF Steps
  <2>2. \A q \in Procs : q # p => Calm(proc[q])'
    BY <2>1 DEF Calm
  <2> QED BY <1>4, <2>2
<1> QED BY <1>1, <1>2, <1>3, <1>4 DEF SchemeInv

\* A command by itself is the only one at work.
LEMMA OthersIdle ==
  ASSUME SchemeInv, NEW p \in Procs, proc[p].at # "idle", trouble < 2
  PROVE  Poised(proc[p]) /\ \A q \in Procs : q # p => proc[q].at = "idle"
  BY DEF SchemeInv, Sole

\* The same where the step leaves the system and the record alone.
LEMMA OnlyItself ==
  ASSUME SchemeInv, NEW p \in Procs, Steps(p), Shape(proc'[p]), proc[p].at # "idle",
         UNCHANGED <<active, was, record, base>>, trouble' \in 0..2, trouble <= trouble',
         temp' \in Record \cup {None, Torn},
         \A x \in {temp', proc'[p].rec, proc'[p].out} : x \in Record => x.saved \in was,
         trouble' < 2 => Poised(proc[p])', trouble' = 0 => Calm(proc[p])'
  PROVE  SchemeInv'
<1>1. trouble \in 0..2
  BY DEF SchemeInv, SchemeTypes
<1>2. trouble' < 2 => \A q \in Procs : q # p => proc[q].at = "idle"
  BY <1>1, OthersIdle
<1>3. trouble' = 0 => LeadsBack'
  BY <1>1 DEF SchemeInv, LeadsBack
<1>4. /\ active' \in Schemes /\ base' \in Schemes /\ record' \in Record \cup {None}
      /\ active' \in was' /\ (record' \in Record => record'.saved \in was')
  BY DEF SchemeInv, SchemeTypes, SavedInv
<1>5. \A x \in {record', temp', proc'[p].rec, proc'[p].out} : x \in Record => x.saved \in was'
  BY <1>4
<1> QED BY <1>2, <1>3, <1>4, <1>5, OneMoves

\* A command ends.
LEMMA EndMoves ==
  ASSUME SchemeInv, NEW p \in Procs, EndedIs(p), proc[p].at # "idle",
         UNCHANGED <<active, was, record, base>>, trouble' \in 0..2, trouble <= trouble',
         temp' \in {temp, None, Torn}
  PROVE  SchemeInv'
<1>1. /\ temp' \in Record \cup {None, Torn}
      /\ \A x \in {temp', proc'[p].rec, proc'[p].out} : x \in Record => x.saved \in was
  BY SchemeAssumption DEF SchemeInv, SchemeTypes, SavedInv, EndedIs
<1>2. Poised(proc[p])' /\ Calm(proc[p])' /\ Shape(proc'[p])
  BY DEF EndedIs, Poised, Calm, Shape
<1> QED BY <1>1, <1>2, OnlyItself DEF EndedIs

\* What VerdictHolds says of one command.
KeepsWord(p) ==
    trouble' < 2 /\ proc[p].at # "idle" /\ proc'[p].at = "idle" /\ proc'[p].ok =>
        /\ proc[p].cmd = "apply" => /\ active' = proc[p].target
                                    /\ record'.state = "applied" /\ record'.target = active'
        /\ proc[p].cmd = "restore" => record'.state = "restored" /\ active' = record'.saved
        /\ proc[p].cmd = "recover" => ~IsPending(record')

\* A command that fails promises nothing.
LEMMA FailMoves ==
  ASSUME SchemeInv, NEW p \in Procs, End(p, FALSE), proc[p].at # "idle",
         UNCHANGED <<active, was, record, base>>, trouble' \in 0..2, trouble <= trouble',
         temp' \in {temp, None, Torn}
  PROVE  SchemeInv' /\ KeepsWord(p)
<1>1. EndedIs(p) /\ ~proc'[p].ok
  BY FailIs, Zenon DEF SchemeInv
<1>2. KeepsWord(p)
  BY <1>1, Zenon DEF KeepsWord
<1> QED BY <1>1, <1>2, EndMoves

\* The temporary file is written.
LEMMA WriteTempMoves ==
  ASSUME SchemeInv, NEW p \in Procs, WriteTemp(p)
  PROVE  SchemeInv' /\ KeepsWord(p)
<1>1. /\ proc[p].at = "save" /\ UNCHANGED <<active, was, trouble, record, base>>
      /\ trouble' \in 0..2 /\ trouble <= trouble' /\ SchemeTypes
  BY DEF WriteTemp, SchemeInv, SchemeTypes, system
<1>2. CASE temp' \in {temp, None} /\ End(p, FALSE)
  BY <1>1, <1>2, FailMoves, Zenon
<1>3. CASE temp' = proc[p].out /\ Goto(p, "move")
  <2>1. /\ Steps(p) /\ proc'[p].at = "move" /\ proc'[p].cmd = proc[p].cmd
        /\ proc'[p].target = proc[p].target /\ proc'[p].rec = proc[p].rec
        /\ proc'[p].out = proc[p].out
    BY <1>1, <1>3, GotoIs DEF Places
  <2>2. Shape(proc'[p])
    BY <1>1, <2>1 DEF SchemeTypes, Shape
  <2>3. proc[p].out \in Record \cup {None} /\ temp' \in Record \cup {None, Torn}
    BY <1>1, <1>3 DEF SchemeTypes, SchemeRuns
  <2>4. \A x \in {temp', proc'[p].rec, proc'[p].out} : x \in Record => x.saved \in was
    BY <1>3, <2>1 DEF SchemeInv, SavedInv
  <2>5. trouble' < 2 => Poised(proc[p])'
    BY <1>1, <1>3, <2>1, OthersIdle DEF Poised
  <2>6. trouble' = 0 => Calm(proc[p])'
    BY <1>1, <2>1 DEF SchemeInv, Calm
  <2>7. KeepsWord(p)
    BY <2>1 DEF KeepsWord
  <2> QED BY <1>1, <2>1, <2>2, <2>3, <2>4, <2>5, <2>6, <2>7, OnlyItself
<1> QED BY <1>1, <1>2, <1>3, Zenon DEF WriteTemp

\* The record is read.
LEMMA ReadRecordMoves ==
  ASSUME SchemeInv, NEW p \in Procs, ReadRecord(p)
  PROVE  SchemeInv' /\ KeepsWord(p)
<1>1. /\ proc[p].at \in {"recover_read", "restore_read"} /\ proc[p].at # "idle"
      /\ UNCHANGED <<active, was, record, base, temp>> /\ SchemeTypes /\ trouble \in 0..2
  BY DEF ReadRecord, SchemeInv, SchemeTypes, disk
<1>2. CASE End(p, FALSE) /\ (Worse(1) \/ trouble' = trouble)
  <2>1. trouble' \in 0..2 /\ trouble <= trouble'
    BY <1>1, <1>2 DEF Worse
  <2> QED BY <1>1, <1>2, <2>1, FailMoves, Zenon
<1>3. ASSUME NEW place \in {"rollback", "recover_active"}, trouble' = trouble,
             place = "rollback" => record # None,
             place = "recover_active" => proc[p].at = "recover_read",
             proc' = [proc EXCEPT ![p].rec = record, ![p].at = place]
      PROVE  SchemeInv' /\ KeepsWord(p)
  <2>1. /\ Steps(p) /\ proc'[p].at = place /\ proc'[p].cmd = proc[p].cmd
        /\ proc'[p].target = proc[p].target /\ proc'[p].rec = record
        /\ proc'[p].out = proc[p].out
    BY <1>1, <1>3 DEF SchemeTypes, SchemeRuns, Steps, Places
  <2>2. Shape(proc'[p])
    BY <1>1, <1>3, <2>1 DEF SchemeTypes, Shape
  <2>3. \A x \in {temp', proc'[p].rec, proc'[p].out} : x \in Record => x.saved \in was
    BY <1>1, <2>1 DEF SchemeInv, SavedInv
  <2>4. trouble' < 2 => Poised(proc[p])'
    BY <1>1, <1>3, <2>1, OthersIdle DEF Poised
  <2>5. Calm(proc[p])' /\ KeepsWord(p)
    BY <1>3, <2>1 DEF Calm, KeepsWord
  <2>6. temp' \in Record \cup {None, Torn} /\ trouble <= trouble' /\ trouble' \in 0..2
    BY <1>1, <1>3 DEF SchemeTypes
  <2> QED BY <1>1, <2>1, <2>2, <2>3, <2>4, <2>5, <2>6, OnlyItself
<1>4. \/ End(p, FALSE) /\ (Worse(1) \/ trouble' = trouble)
      \/ /\ trouble' = trouble /\ record # None
         /\ proc' = [proc EXCEPT ![p].rec = record, ![p].at = "rollback"]
      \/ /\ trouble' = trouble /\ proc[p].at = "recover_read"
         /\ proc' = [proc EXCEPT ![p].rec = record, ![p].at = "recover_active"]
  BY Zenon DEF ReadRecord
<1>5. CASE /\ trouble' = trouble /\ record # None
           /\ proc' = [proc EXCEPT ![p].rec = record, ![p].at = "rollback"]
  BY <1>3, <1>5
<1>6. CASE /\ trouble' = trouble /\ proc[p].at = "recover_read"
           /\ proc' = [proc EXCEPT ![p].rec = record, ![p].at = "recover_active"]
  BY <1>3, <1>6
<1> QED BY <1>2, <1>4, <1>5, <1>6, Zenon

\* A command that has read the system saves what it makes of it.
LEMMA SaveMoves ==
  ASSUME SchemeInv, NEW p \in Procs, NEW x \in Record, Save(p, x),
         proc[p].at # "idle", UNCHANGED <<system, disk>>, x.saved \in was,
         x.state # "restored" => proc[p].cmd = "apply",
         trouble < 2 =>
            /\ x.state # "restored" => x.target = proc[p].target
            /\ x.state = "applied" => active = x.target
            /\ x.state \in {"pending", "restored"} => active = x.saved,
         trouble = 0 =>
            /\ x.state = "pending" => ~IsPending(record)
            /\ x.state # "pending" => record # None /\ x.saved = record.saved
  PROVE  SchemeInv' /\ KeepsWord(p)
<1>1. /\ UNCHANGED <<active, was, trouble, record, base, temp>> /\ SchemeTypes
      /\ trouble' \in 0..2 /\ trouble <= trouble' /\ temp' \in Record \cup {None, Torn}
  BY DEF SchemeInv, SchemeTypes, system, disk
<1>2. /\ Steps(p) /\ proc'[p].at = "save" /\ proc'[p].cmd = proc[p].cmd
      /\ proc'[p].target = proc[p].target /\ proc'[p].rec = None /\ proc'[p].out = x
  BY <1>1, SaveIs
<1>3. Shape(proc'[p])
  BY <1>1, <1>2, SchemeAssumption DEF SchemeTypes, Shape
<1>4. \A y \in {temp', proc'[p].rec, proc'[p].out} : y \in Record => y.saved \in was
  BY <1>1, <1>2, SchemeAssumption DEF SchemeInv, SavedInv
<1>5. trouble' < 2 => Poised(proc[p])'
  BY <1>1, <1>2 DEF Poised
<1>6. trouble' = 0 => Calm(proc[p])'
  BY <1>1, <1>2 DEF Calm
<1>7. KeepsWord(p)
  BY <1>2 DEF KeepsWord
<1> QED BY <1>1, <1>2, <1>3, <1>4, <1>5, <1>6, <1>7, OnlyItself

\* A recovery that is over: recover ends, and an apply goes on.
LEMMA RecoveredMoves ==
  ASSUME SchemeInv, NEW p \in Procs, AfterRecovery(p, TRUE) \/ AfterRecovery(p, FALSE),
         proc[p].at # "idle", UNCHANGED <<system, disk>>,
         trouble = 0 => ~IsPending(record)
  PROVE  SchemeInv'
<1>1. /\ UNCHANGED <<active, was, trouble, record, base, temp>> /\ SchemeTypes
      /\ trouble' \in 0..2 /\ trouble <= trouble' /\ temp' \in Record \cup {None, Torn}
  BY DEF SchemeInv, SchemeTypes, system, disk
<1>2. CASE EndedIs(p)
  BY <1>1, <1>2, EndMoves
<1>3. CASE Resumes(p) /\ proc[p].cmd = "apply"
  <2>1. Shape(proc'[p])
    BY <1>1, <1>3 DEF SchemeTypes, Shape, Resumes
  <2>2. \A y \in {temp', proc'[p].rec, proc'[p].out} : y \in Record => y.saved \in was
    BY <1>1, <1>3, SchemeAssumption DEF SchemeInv, SavedInv, Resumes
  <2>3. Poised(proc[p])' /\ (trouble' = 0 => Calm(proc[p])')
    BY <1>1, <1>3 DEF Poised, Calm, Resumes
  <2> QED BY <1>1, <1>3, <2>1, <2>2, <2>3, OnlyItself DEF Resumes
<1> QED BY <1>1, <1>2, <1>3, AfterRecoveryIs, Zenon

\* A recovery that failed promises nothing.
LEMMA UnrecoveredKeeps ==
  ASSUME SchemeTypes, NEW p \in Procs, AfterRecovery(p, FALSE)
  PROVE  KeepsWord(p)
<1>1. CASE proc[p].cmd = "apply"
  BY <1>1, AfterRecoveryIs, Zenon DEF Resumes, KeepsWord
<1>2. CASE proc[p].cmd # "apply"
  <2>1. End(p, FALSE)
    BY <1>2, Zenon DEF AfterRecovery
  <2>2. ~proc'[p].ok
    BY <2>1, FailIs, Zenon
  <2> QED BY <2>2, Zenon DEF KeepsWord
<1> QED BY <1>1, <1>2

\* A command at work on a record, marked as restored.
LEMMA RestoredIs ==
  ASSUME SchemeInv, NEW p \in Procs, proc[p].rec # None
  PROVE  /\ Restored(p) \in Record /\ Restored(p).state = "restored"
         /\ Restored(p).saved = proc[p].rec.saved /\ Restored(p).saved \in was
<1>1. proc[p].rec \in Record /\ proc[p].rec.saved \in was
  BY DEF SchemeInv, SchemeTypes, SchemeRuns, SavedInv
<1> QED BY <1>1 DEF Restored, Record, States

\* The active scheme is compared with the record that was read.
LEMMA RecoverActiveMoves ==
  ASSUME SchemeInv, NEW p \in Procs, RecoverActive(p)
  PROVE  SchemeInv' /\ KeepsWord(p)
<1>1. /\ proc[p].at = "recover_active" /\ UNCHANGED <<system, disk>> /\ SchemeTypes
      /\ UNCHANGED <<active, was, trouble, record, base, temp>>
      /\ trouble' \in 0..2 /\ trouble <= trouble'
  BY DEF RecoverActive, SchemeInv, SchemeTypes, system, disk
<1>2. trouble < 2 => Poised(proc[p]) /\ proc[p].rec = record /\ proc[p].cmd # "restore"
  BY <1>1, OthersIdle DEF Poised
<1>3. CASE End(p, FALSE)
  BY <1>1, <1>3, FailMoves, Zenon
<1>4. CASE ~IsPending(proc[p].rec) /\ AfterRecovery(p, TRUE)
  <2>1. SchemeInv'
    <3>1. proc[p].at # "idle" /\ 0 < 2
      BY <1>1
    <3>2. trouble = 0 => ~IsPending(record)
      BY <1>2, <1>4, <3>1, Zenon
    <3> QED BY <1>1, <1>4, <3>1, <3>2, RecoveredMoves, Zenon
  <2>2. proc[p].cmd = "apply" => proc'[p].at = "previous"
    BY <1>1, <1>4, AfterRecoveryIs, Zenon DEF Resumes
  <2>3. proc[p].cmd \in Commands
    BY <1>1 DEF SchemeTypes, SchemeRuns
  <2>4. KeepsWord(p)
    BY <1>1, <1>2, <1>4, <2>2, <2>3 DEF KeepsWord, Commands, IsPending
  <2> QED BY <2>1, <2>4
<1>5. CASE /\ IsPending(proc[p].rec) /\ proc[p].rec.saved = active
           /\ Save(p, Restored(p))
  <2>1. /\ Restored(p) \in Record /\ Restored(p).state = "restored"
        /\ Restored(p).saved = proc[p].rec.saved /\ Restored(p).saved \in was
    BY <1>5, RestoredIs DEF IsPending
  <2>2. trouble = 0 => record # None /\ Restored(p).saved = record.saved
    BY <1>2, <1>5, <2>1 DEF IsPending
  <2> QED BY <1>1, <1>5, <2>1, <2>2, SaveMoves
<1>6. CASE IsPending(proc[p].rec) /\ Goto(p, "rollback")
  <2>1. /\ Steps(p) /\ proc'[p].at = "rollback" /\ proc'[p].cmd = proc[p].cmd
        /\ proc'[p].target = proc[p].target /\ proc'[p].rec = proc[p].rec
        /\ proc'[p].out = proc[p].out
    BY <1>1, <1>6, GotoIs DEF Places
  <2>2. Shape(proc'[p])
    BY <1>1, <1>6, <2>1 DEF SchemeTypes, Shape, IsPending
  <2>3. \A y \in {temp', proc'[p].rec, proc'[p].out} : y \in Record => y.saved \in was
    BY <1>1, <2>1 DEF SchemeInv, SavedInv
  <2>4. trouble' < 2 => Poised(proc[p])'
    BY <1>1, <1>2, <1>6, <2>1 DEF Poised, IsPending
  <2>5. Calm(proc[p])' /\ KeepsWord(p) /\ temp' \in Record \cup {None, Torn}
    BY <1>1, <2>1 DEF Calm, KeepsWord, SchemeTypes
  <2> QED BY <1>1, <2>1, <2>2, <2>3, <2>4, <2>5, OnlyItself
<1> QED
  BY <1>3, <1>4, <1>5, <1>6, Zenon DEF RecoverActive, DecideSchemeRecovery

\* PowerSetActiveScheme: it fails, sets the scheme, or does nothing and says otherwise.
LEMMA SetActiveMoves ==
  ASSUME SchemeInv, NEW p \in Procs, NEW scheme \in Schemes, NEW place \in Places,
         SetActive(p, scheme, place), proc[p].at # "idle",
         ASSUME Goto(p, place), active' \in {active, scheme}, trouble' \in {trouble, 1, 2},
                trouble <= trouble', active' = active => trouble' > 0 \/ scheme = active,
                UNCHANGED disk
         PROVE  /\ Shape(proc'[p])
                /\ trouble' < 2 => Poised(proc[p])'
                /\ trouble' = 0 => LeadsBack' /\ Calm(proc[p])'
                /\ proc'[p].at # "idle"
  PROVE  SchemeInv' /\ KeepsWord(p)
<1>1. /\ UNCHANGED <<record, temp, base>> /\ UNCHANGED disk /\ SchemeTypes
      /\ was' = was \cup {active'} /\ trouble \in 0..2
  BY DEF SetActive, SchemeInv, SchemeTypes, disk
<1>2. CASE End(p, FALSE) /\ UNCHANGED <<active, trouble>>
  <2>1. was' = was /\ trouble' \in 0..2 /\ trouble <= trouble'
    BY <1>1, <1>2 DEF SchemeInv, SavedInv
  <2> QED BY <1>1, <1>2, <2>1, FailMoves, Zenon
<1>3. CASE /\ Goto(p, place) /\ active' \in {active, scheme} /\ trouble' \in {trouble, 1, 2}
           /\ trouble <= trouble' /\ (active' = active => trouble' > 0 \/ scheme = active)
  <2>1. /\ Shape(proc'[p])
        /\ trouble' < 2 => Poised(proc[p])'
        /\ trouble' = 0 => LeadsBack' /\ Calm(proc[p])'
        /\ proc'[p].at # "idle"
    BY <1>1, <1>3
  <2>2. Steps(p) /\ proc'[p].rec = proc[p].rec /\ proc'[p].out = proc[p].out
    BY <1>1, <1>3, GotoIs
  <2>3. \A x \in {record', temp', proc'[p].rec, proc'[p].out} : x \in Record => x.saved \in was'
    BY <1>1, <2>2 DEF SchemeInv, SavedInv
  <2>4. /\ active' \in Schemes /\ base' \in Schemes /\ trouble' \in 0..2
        /\ record' \in Record \cup {None} /\ temp' \in Record \cup {None, Torn}
        /\ active' \in was' /\ was \subseteq was'
    BY <1>1, <1>3 DEF SchemeTypes
  <2>5. trouble' < 2 => \A q \in Procs : q # p => proc[q].at = "idle"
    BY <1>1, <1>3, OthersIdle
  <2>6. KeepsWord(p)
    BY <2>1 DEF KeepsWord
  <2> QED BY <2>1, <2>2, <2>3, <2>4, <2>5, <2>6, OneMoves
<1>4. CASE Goto(p, place) /\ active' = scheme /\ UNCHANGED trouble
  BY <1>1, <1>3, <1>4
<1>5. CASE Goto(p, place) /\ Worse(1) /\ UNCHANGED active
  <2>1. trouble' \in {trouble, 1, 2} /\ trouble <= trouble' /\ trouble' > 0
    BY <1>1, <1>5 DEF Worse
  <2> QED BY <1>3, <1>5, <2>1
<1> QED BY <1>2, <1>4, <1>5, Zenon DEF SetActive

\* RestoreScheme sets the saved scheme.
LEMMA RollbackMoves ==
  ASSUME SchemeInv, NEW p \in Procs, Rollback(p)
  PROVE  SchemeInv' /\ KeepsWord(p)
<1>1. /\ proc[p].at = "rollback" /\ SetActive(p, proc[p].rec.saved, "rollback_check")
      /\ SchemeTypes /\ "rollback_check" \in Places
  BY DEF Rollback, SchemeInv, Places
<1>2. proc[p].rec \in Record /\ proc[p].rec.saved \in Schemes
  BY <1>1 DEF SchemeTypes, SchemeRuns, Shape, Record
<1>3. ASSUME Goto(p, "rollback_check"), active' \in {active, proc[p].rec.saved},
             trouble' \in {trouble, 1, 2}, trouble <= trouble',
             active' = active => trouble' > 0 \/ proc[p].rec.saved = active,
             UNCHANGED disk
      PROVE  /\ Shape(proc'[p])
             /\ trouble' < 2 => Poised(proc[p])'
             /\ trouble' = 0 => LeadsBack' /\ Calm(proc[p])'
             /\ proc'[p].at # "idle"
  <2>1. /\ proc'[p].at = "rollback_check" /\ proc'[p].cmd = proc[p].cmd
        /\ proc'[p].target = proc[p].target /\ proc'[p].rec = proc[p].rec
        /\ proc'[p].out = proc[p].out
    BY <1>1, <1>3, GotoIs
  <2>2. Shape(proc'[p])
    BY <1>1, <2>1 DEF SchemeTypes, Shape
  <2>3. record' = record /\ base' = base /\ trouble \in 0..2
    BY <1>1, <1>3 DEF disk, SchemeTypes
  <2>4. trouble' < 2 => Poised(proc[p])'
    BY <1>1, <1>3, <2>1, <2>3, OthersIdle DEF Poised
  <2>5. ASSUME trouble' = 0 PROVE LeadsBack' /\ Calm(proc[p])'
    <3>1. trouble = 0 /\ active' = proc[p].rec.saved
      BY <1>3, <2>3, <2>5, SMTT(30)
    <3>2. proc[p].rec = record /\ record # None /\ LeadsBack
      BY <1>1, <3>1, OthersIdle DEF Poised, SchemeInv
    <3> QED BY <2>1, <2>3, <3>1, <3>2 DEF LeadsBack, Calm
  <2> QED BY <2>1, <2>2, <2>4, <2>5
<1> QED BY <1>1, <1>2, <1>3, SetActiveMoves, Zenon

\* It is read back.
LEMMA RollbackCheckMoves ==
  ASSUME SchemeInv, NEW p \in Procs, RollbackCheck(p)
  PROVE  SchemeInv' /\ KeepsWord(p)
<1>1. /\ proc[p].at = "rollback_check" /\ UNCHANGED <<system, disk>> /\ SchemeTypes
      /\ proc[p].at # "idle" /\ proc[p].rec # None
      /\ UNCHANGED <<active, was, trouble, record, base, temp>>
      /\ trouble' \in 0..2 /\ trouble <= trouble'
  BY DEF RollbackCheck, SchemeInv, SchemeTypes, Shape, system, disk
<1>2. trouble < 2 => proc[p].rec = record
  BY <1>1, OthersIdle DEF Poised
<1>3. CASE End(p, FALSE)
  BY <1>1, <1>3, FailMoves, Zenon
<1>4. CASE active = proc[p].rec.saved /\ Save(p, Restored(p))
  <2>1. /\ Restored(p) \in Record /\ Restored(p).state = "restored"
        /\ Restored(p).saved = proc[p].rec.saved /\ Restored(p).saved \in was
    BY <1>1, RestoredIs, Zenon
  <2>2. trouble = 0 => record # None /\ Restored(p).saved = record.saved
    BY <1>1, <1>2, <2>1
  <2> QED BY <1>1, <1>4, <2>1, <2>2, SaveMoves, Zenon
<1>5. CASE active # proc[p].rec.saved /\ AfterRecovery(p, FALSE)
  <2>1. trouble # 0
    BY <1>1, <1>2, <1>5 DEF SchemeInv, Calm
  <2>2. KeepsWord(p)
    BY <1>1, <1>5, UnrecoveredKeeps, Zenon
  <2> QED BY <1>1, <1>5, <2>1, <2>2, RecoveredMoves, Zenon
<1> QED BY <1>3, <1>4, <1>5, Zenon DEF RollbackCheck

\* The scheme to roll back to is read.
LEMMA PreviousMoves ==
  ASSUME SchemeInv, NEW p \in Procs, Previous(p)
  PROVE  SchemeInv' /\ KeepsWord(p)
<1>1. /\ proc[p].at = "previous" /\ UNCHANGED <<system, disk>> /\ SchemeTypes
      /\ proc[p].cmd = "apply" /\ proc[p].target \in Schemes
      /\ UNCHANGED <<active, was, trouble, record, base, temp>>
      /\ trouble' \in 0..2 /\ trouble <= trouble' /\ active \in Schemes /\ active \in was
  BY DEF Previous, SchemeInv, SchemeTypes, Shape, SavedInv, system, disk
<1>2. CASE End(p, FALSE)
  BY <1>1, <1>2, FailMoves, Zenon
<1>3. CASE Save(p, Pending(p))
  <2>1. /\ Pending(p) \in Record /\ Pending(p).state = "pending" /\ Pending(p).saved = active
        /\ Pending(p).target = proc[p].target
    BY <1>1 DEF Pending, Record, States
  <2>2. trouble = 0 => ~IsPending(record)
    BY <1>1 DEF SchemeInv, Calm
  <2> QED BY <1>1, <1>3, <2>1, <2>2, SaveMoves, Zenon
<1> QED BY <1>2, <1>3, Zenon DEF Previous

\* The scheme is switched.
LEMMA SwitchMoves ==
  ASSUME SchemeInv, NEW p \in Procs, Switch(p)
  PROVE  SchemeInv' /\ KeepsWord(p)
<1>1. /\ proc[p].at = "switch" /\ SetActive(p, proc[p].target, "switch_check")
      /\ SchemeTypes /\ "switch_check" \in Places
  BY DEF Switch, SchemeInv, Places
<1>2. proc[p].target \in Schemes
  BY <1>1 DEF SchemeTypes, Shape
<1>3. ASSUME Goto(p, "switch_check"), active' \in {active, proc[p].target},
             trouble' \in {trouble, 1, 2}, trouble <= trouble',
             active' = active => trouble' > 0 \/ proc[p].target = active,
             UNCHANGED disk
      PROVE  /\ Shape(proc'[p])
             /\ trouble' < 2 => Poised(proc[p])'
             /\ trouble' = 0 => LeadsBack' /\ Calm(proc[p])'
             /\ proc'[p].at # "idle"
  <2>1. /\ proc'[p].at = "switch_check" /\ proc'[p].cmd = proc[p].cmd
        /\ proc'[p].target = proc[p].target /\ proc'[p].rec = proc[p].rec
        /\ proc'[p].out = proc[p].out
    BY <1>1, <1>3, GotoIs
  <2>2. Shape(proc'[p])
    BY <1>1, <2>1 DEF SchemeTypes, Shape
  <2>3. record' = record /\ base' = base /\ trouble \in 0..2
    BY <1>1, <1>3 DEF disk, SchemeTypes
  <2>4. trouble' < 2 => Poised(proc[p])'
    BY <1>1, <1>3, <2>1, <2>3, OthersIdle DEF Poised
  <2>5. ASSUME trouble' = 0 PROVE LeadsBack' /\ Calm(proc[p])'
    <3>1. trouble = 0
      BY <1>3, <2>3, <2>5, SMTT(30)
    <3>2. IsPending(record) /\ LeadsBack
      BY <1>1, <3>1, OthersIdle DEF Poised, SchemeInv
    <3> QED BY <2>1, <2>3, <3>1, <3>2 DEF LeadsBack, Calm, IsPending
  <2> QED BY <2>1, <2>2, <2>4, <2>5
<1> QED BY <1>1, <1>2, <1>3, SetActiveMoves, Zenon

\* It is read back, and marked as applied.
LEMMA SwitchCheckMoves ==
  ASSUME SchemeInv, NEW p \in Procs, SwitchCheck(p)
  PROVE  SchemeInv' /\ KeepsWord(p)
<1>1. /\ proc[p].at = "switch_check" /\ UNCHANGED <<system, disk>> /\ SchemeTypes
      /\ proc[p].cmd = "apply" /\ proc[p].out \in Record
      /\ UNCHANGED <<active, was, trouble, record, base, temp>>
      /\ trouble' \in 0..2 /\ trouble <= trouble'
  BY DEF SwitchCheck, SchemeInv, SchemeTypes, SchemeRuns, Shape, system, disk
<1>2. CASE End(p, FALSE)
  BY <1>1, <1>2, FailMoves, Zenon
<1>3. CASE active = proc[p].target /\ Save(p, [proc[p].out EXCEPT !.state = "applied"])
  <2>0. PICK x : x = [proc[p].out EXCEPT !.state = "applied"]
    BY Zenon
  <2>1. /\ x \in Record /\ x.state = "applied" /\ x.saved = proc[p].out.saved
        /\ x.target = proc[p].out.target /\ Save(p, x)
    BY <1>1, <1>3, <2>0, Zenon DEF Record, States
  <2>2. x.saved \in was
    BY <1>1, <2>1, Zenon DEF SchemeInv, SavedInv
  <2>3. trouble < 2 => proc[p].out = record /\ IsPending(record) /\ record.target = proc[p].target
    BY <1>1, OthersIdle, Zenon DEF Poised
  <2>4. trouble < 2 => x.target = proc[p].target /\ x.target = active
    BY <1>3, <2>1, <2>3
  <2>5. trouble = 0 => record # None /\ x.saved = record.saved
    BY <2>1, <2>3 DEF IsPending
  <2> QED BY <1>1, <2>1, <2>2, <2>4, <2>5, SaveMoves, Zenon
<1> QED BY <1>2, <1>3, Zenon DEF SwitchCheck

\* The temporary file replaces the record.
LEMMA MoveTempMoves ==
  ASSUME SchemeInv, NEW p \in Procs, MoveTemp(p)
  PROVE  SchemeInv' /\ KeepsWord(p)
<1>1. /\ proc[p].at = "move" /\ UNCHANGED <<active, was, trouble>> /\ temp' = None
      /\ SchemeTypes /\ trouble' \in 0..2 /\ trouble <= trouble' /\ active \in Schemes
      /\ proc[p].out \in Record /\ proc[p].cmd \in Commands /\ active \in was
  BY DEF MoveTemp, SchemeInv, SchemeTypes, SchemeRuns, Shape, SavedInv, system
<1>2. CASE UNCHANGED <<record, base>> /\ End(p, FALSE)
  BY <1>1, <1>2, FailMoves, Zenon
<1>3. CASE /\ temp # None
           /\ record' = IF temp = Torn THEN None ELSE temp
           /\ base' = IF IsPending(record') /\ ~IsPending(record) THEN active ELSE base
           /\ AfterSave(p)
  <2>1. record' \in Record \cup {None} /\ base' \in Schemes
        /\ (record' \in Record => record'.saved \in was)
    BY <1>1, <1>3, SchemeAssumption, Zenon DEF SchemeTypes, SchemeInv, SavedInv
  <2>2. /\ trouble < 2 => /\ Poised(proc[p]) /\ temp = proc[p].out /\ record' = proc[p].out
                          /\ \A q \in Procs : q # p => proc[q].at = "idle"
        /\ trouble = 0 => LeadsBack /\ Calm(proc[p])
    <3>1. trouble < 2 => Poised(proc[p]) /\ temp = proc[p].out
                         /\ \A q \in Procs : q # p => proc[q].at = "idle"
      BY <1>1, OthersIdle DEF Poised
    <3>2. trouble < 2 => record' = proc[p].out
      BY <1>1, <1>3, <3>1, SchemeAssumption, Zenon
    <3> QED BY <3>1, <3>2 DEF SchemeInv
  <2>3. ASSUME Steps(p), Shape(proc'[p]),
               \A x \in {proc'[p].rec, proc'[p].out} : x \in Record => x.saved \in was,
               trouble < 2 => Poised(proc[p])', trouble = 0 => LeadsBack' /\ Calm(proc[p])'
        PROVE  SchemeInv'
    <3>1. /\ active' \in Schemes /\ temp' \in Record \cup {None, Torn} /\ active' \in was'
          /\ was \subseteq was'
      BY <1>1
    <3>2. \A x \in {record', temp', proc'[p].rec, proc'[p].out} : x \in Record => x.saved \in was'
      BY <1>1, <2>1, <2>3, SchemeAssumption
    <3> QED BY <1>1, <2>1, <2>2, <2>3, <3>1, <3>2, OneMoves, Zenon
  <2>4. ASSUME EndedIs(p), trouble = 0 => LeadsBack' PROVE SchemeInv'
    <3>1. Shape(proc'[p]) /\ Poised(proc[p])' /\ Calm(proc[p])'
      BY <2>4, Zenon DEF EndedIs, Shape, Poised, Calm
    <3>2. \A x \in {proc'[p].rec, proc'[p].out} : x \in Record => x.saved \in was
      BY <2>4, SchemeAssumption DEF EndedIs
    <3> QED BY <2>3, <2>4, <3>1, <3>2 DEF EndedIs
  <2>5. CASE proc[p].out.state = "pending"
    <3>1. Goto(p, "switch")
      BY <1>3, <2>5, Zenon DEF AfterSave
    <3>2. /\ Steps(p) /\ proc'[p].at = "switch" /\ proc'[p].cmd = proc[p].cmd
          /\ proc'[p].target = proc[p].target /\ proc'[p].rec = proc[p].rec
          /\ proc'[p].out = proc[p].out
      BY <1>1, <3>1, GotoIs DEF Places
    <3>3. Shape(proc'[p])
      BY <1>1, <2>5, <3>2, Zenon DEF SchemeTypes, Shape
    <3>4. \A x \in {proc'[p].rec, proc'[p].out} : x \in Record => x.saved \in was
      BY <3>2 DEF SchemeInv, SavedInv
    <3>5. trouble < 2 => Poised(proc[p])'
      <4> SUFFICES ASSUME trouble < 2 PROVE Poised(proc[p])'
        OBVIOUS
      <4>1. record' = proc[p].out /\ record' # None /\ record'.target = proc[p].target
        BY <1>1, <2>2, <2>5, SchemeAssumption, Zenon DEF Poised
      <4> QED BY <2>5, <3>2, <4>1 DEF Poised, IsPending
    <3>6. ASSUME trouble = 0 PROVE LeadsBack' /\ Calm(proc[p])'
      <4>1. record' = proc[p].out /\ record' # None /\ record'.saved = active
        BY <1>1, <2>2, <2>5, <3>6, SchemeAssumption DEF Poised
      <4>2. ~IsPending(record) /\ IsPending(record')
        BY <1>1, <2>2, <2>5, <3>6, <4>1 DEF Calm, IsPending
      <4>3. base' = active
        BY <1>3, <4>2
      <4> QED BY <1>1, <2>5, <3>2, <4>1, <4>3, Zenon DEF LeadsBack, Calm
    <3>7. KeepsWord(p)
      BY <3>2 DEF KeepsWord
    <3> QED BY <2>3, <3>2, <3>3, <3>4, <3>5, <3>6, <3>7
  <2>6. CASE proc[p].out.state = "applied"
    <3>1. End(p, TRUE)
      BY <1>3, <2>6, Zenon DEF AfterSave
    <3>2. EndedIs(p)
      BY <1>1, <3>1, SucceedIs, Zenon
    <3>3. ASSUME trouble = 0 PROVE LeadsBack'
      <4>1. record' = proc[p].out /\ record' # None /\ record'.saved = record.saved /\ record # None
        BY <1>1, <2>2, <2>6, <3>3, SchemeAssumption DEF Calm
      <4>2. base' = base
        BY <1>3, <2>6, <4>1 DEF IsPending
      <4> QED BY <2>2, <2>6, <3>3, <4>1, <4>2 DEF LeadsBack
    <3>4. trouble < 2 => active' = proc[p].target /\ record'.state = "applied"
                         /\ record'.target = active' /\ proc[p].cmd = "apply"
      BY <1>1, <2>2, <2>6 DEF Poised, SchemeTypes, Shape
    <3>5. KeepsWord(p)
      BY <1>1, <3>4 DEF KeepsWord
    <3> QED BY <2>4, <3>2, <3>3, <3>5
  <2>7. CASE proc[p].out.state \notin {"pending", "applied"}
    <3>0. proc[p].out.state = "restored"
      BY <1>1, <2>7 DEF Record, States
    <3>1. AfterRecovery(p, TRUE)
      BY <1>3, <2>7, Zenon DEF AfterSave
    <3>2. IF proc[p].cmd = "apply" THEN Resumes(p) ELSE EndedIs(p)
      BY <1>1, <3>1, AfterRecoveryIs, Zenon
    <3>3. trouble < 2 => record' # None /\ record'.state = "restored" /\ active' = record'.saved
      BY <1>1, <2>2, <3>0, SchemeAssumption DEF Poised
    <3>4. ASSUME trouble = 0 PROVE LeadsBack' /\ ~IsPending(record')
      <4>1. record'.saved = record.saved /\ record # None
        BY <1>1, <2>2, <3>0, <3>4 DEF Calm
      <4>2. ~IsPending(record') /\ base' = base
        BY <1>3, <3>3, <3>4 DEF IsPending
      <4> QED BY <2>2, <3>3, <3>4, <4>1, <4>2 DEF LeadsBack
    <3>5. CASE EndedIs(p) /\ proc[p].cmd # "apply"
      <4>1. KeepsWord(p)
        BY <1>1, <3>3, <3>5 DEF KeepsWord, IsPending
      <4> QED BY <2>4, <3>4, <3>5, <4>1
    <3>6. CASE Resumes(p) /\ proc[p].cmd = "apply"
      <4>1. Shape(proc'[p]) /\ Poised(proc[p])' /\ KeepsWord(p)
        BY <1>1, <3>6, Zenon DEF Resumes, SchemeTypes, Shape, Poised, KeepsWord
      <4>2. trouble = 0 => Calm(proc[p])'
        BY <3>4, <3>6 DEF Resumes, Calm
      <4>3. \A x \in {proc'[p].rec, proc'[p].out} : x \in Record => x.saved \in was
        BY <3>6, SchemeAssumption DEF Resumes
      <4> QED BY <2>3, <3>4, <3>6, <4>1, <4>2, <4>3, Zenon DEF Resumes
    <3> QED BY <3>2, <3>5, <3>6
  <2> QED BY <2>5, <2>6, <2>7, Zenon
<1> QED BY <1>2, <1>3, Zenon DEF MoveTemp

\* A command begins.
LEMMA StartMoves ==
  ASSUME SchemeInv, NEW p \in Procs, NEW cmd \in Commands, NEW target \in Schemes \cup {None},
         Start(p, cmd, target)
  PROVE  SchemeInv' /\ KeepsWord(p)
<1>1. /\ proc[p].at = "idle" /\ UNCHANGED <<active, was, record, temp, base>> /\ SchemeTypes
      /\ trouble \in 0..2 /\ (cmd = "apply" <=> target # None)
  BY DEF Start, SchemeInv, SchemeTypes, disk
<1>2. PICK read \in CanRead :
         /\ proc' = [proc EXCEPT ![p] =
               [Idle EXCEPT !.cmd = cmd, !.target = target, !.at = FirstPlace(cmd, read)]]
         /\ Worse(IF \E q \in Procs : proc[q].at # "idle" THEN 2 ELSE IF read THEN 0 ELSE 1)
  BY Zenon DEF Start
<1>3. PICK place : place = FirstPlace(cmd, read)
  BY Zenon
<1>4. \/ place = "recover_read" /\ cmd \in {"recover", "apply"}
      \/ place = "restore_read" /\ cmd = "restore"
      \/ place = "previous" /\ cmd = "apply" /\ (read => ~IsPending(record))
  BY <1>3 DEF FirstPlace, Commands
<1>5. proc' = [proc EXCEPT ![p] = [Idle EXCEPT !.cmd = cmd, !.target = target, !.at = place]]
  BY <1>2, <1>3, Zenon
<1>6. place \in Places /\ place # "idle"
  BY <1>4 DEF Places
<1>7. /\ Steps(p) /\ proc'[p].at = place /\ proc'[p].cmd = cmd /\ proc'[p].target = target
      /\ proc'[p].rec = None /\ proc'[p].out = None
  BY <1>1, <1>5, <1>6, Zenon DEF SchemeTypes, SchemeRuns, Steps, Idle, Commands
<1>8. Shape(proc'[p]) /\ Poised(proc[p])' /\ KeepsWord(p)
  BY <1>1, <1>4, <1>7, Zenon DEF Shape, Poised, KeepsWord
<1>9. /\ trouble' \in 0..2 /\ trouble <= trouble'
      /\ trouble' < 2 => \A q \in Procs : proc[q].at = "idle"
      /\ trouble' = 0 => read
  <2>1. CASE \E q \in Procs : proc[q].at # "idle"
    <3>1. Worse(2)
      BY <1>2, <2>1, Zenon
    <3> QED BY <1>1, <3>1 DEF Worse
  <2>2. CASE (\A q \in Procs : proc[q].at = "idle") /\ read
    <3>1. Worse(0)
      BY <1>2, <2>2, Zenon
    <3> QED BY <1>1, <2>2, <3>1 DEF Worse
  <2>3. CASE (\A q \in Procs : proc[q].at = "idle") /\ ~read
    <3>1. Worse(1)
      BY <1>2, <2>3, Zenon
    <3> QED BY <1>1, <2>3, <3>1 DEF Worse
  <2> QED BY <2>1, <2>2, <2>3, Zenon
<1>10. trouble' = 0 => LeadsBack' /\ Calm(proc[p])'
  <2> SUFFICES ASSUME trouble' = 0 PROVE LeadsBack' /\ Calm(proc[p])'
    OBVIOUS
  <2>1. LeadsBack'
    BY <1>1, <1>9, SMTT(30) DEF SchemeInv, LeadsBack
  <2>2. Calm(proc[p])'
    BY <1>1, <1>4, <1>7, <1>9, Zenon DEF Calm
  <2> QED BY <2>1, <2>2
<1>11. /\ active' \in Schemes /\ base' \in Schemes /\ record' \in Record \cup {None}
       /\ temp' \in Record \cup {None, Torn} /\ active' \in was' /\ was \subseteq was'
       /\ \A x \in {record', temp', proc'[p].rec, proc'[p].out} : x \in Record => x.saved \in was'
  BY <1>1, <1>7, SchemeAssumption, Zenon DEF SchemeInv, SchemeTypes, SavedInv
<1> QED BY <1>7, <1>8, <1>9, <1>10, <1>11, OneMoves, Zenon

\* A command is killed; a temporary file it was writing may be torn.
LEMMA KillMoves ==
  ASSUME SchemeInv, NEW p \in Procs, Kill(p)
  PROVE  SchemeInv' /\ KeepsWord(p)
<1>1. /\ proc[p].at # "idle" /\ UNCHANGED <<active, was, trouble, record, base>>
      /\ trouble' \in 0..2 /\ trouble <= trouble' /\ temp' \in {temp, None, Torn}
  BY DEF Kill, SchemeInv, SchemeTypes, system
<1>2. End(p, FALSE)
  BY Zenon DEF Kill
<1> QED BY <1>1, <1>2, FailMoves, Zenon

\* Another program switches the scheme: nothing more is promised but where a rollback goes.
LEMMA ExternalMoves ==
  ASSUME SchemeInv, External
  PROVE  SchemeInv' /\ \A p \in Procs : KeepsWord(p)
<1>1. /\ active' \in Schemes /\ was' = was \cup {active'}
      /\ UNCHANGED <<record, temp, base, proc>> /\ trouble' = 2
  BY DEF External, SchemeInv, SchemeTypes, Worse, disk
<1>2. SchemeTypes'
  BY <1>1 DEF SchemeInv, SchemeTypes
<1>3. SavedInv'
  BY <1>1 DEF SchemeInv, SavedInv
<1> QED BY <1>1, <1>2, <1>3 DEF SchemeInv, KeepsWord

\* Every step keeps the invariant, and a command that ends keeps its word.
LEMMA SchemeSteps ==
  ASSUME SchemeInv, [Next]_vars
  PROVE  SchemeInv' /\ \A p \in Procs : KeepsWord(p)
<1>1. ASSUME NEW p \in Procs, SchemeInv' /\ KeepsWord(p), Steps(p)
      PROVE  SchemeInv' /\ \A q \in Procs : KeepsWord(q)
  <2>1. \A q \in Procs : q # p => KeepsWord(q)
    BY <1>1 DEF KeepsWord, Steps
  <2> QED BY <1>1, <2>1
<1>2. ASSUME NEW p \in Procs,
             \/ \E cmd \in Commands, target \in Schemes \cup {None} : Start(p, cmd, target)
             \/ WriteTemp(p) \/ MoveTemp(p)
             \/ ReadRecord(p) \/ RecoverActive(p) \/ Rollback(p) \/ RollbackCheck(p)
             \/ Previous(p) \/ Switch(p) \/ SwitchCheck(p)
             \/ Kill(p)
      PROVE  SchemeInv' /\ \A q \in Procs : KeepsWord(q)
  <2>1. SchemeInv' /\ KeepsWord(p)
    BY <1>2, StartMoves, WriteTempMoves, MoveTempMoves, ReadRecordMoves, RecoverActiveMoves,
       RollbackMoves, RollbackCheckMoves, PreviousMoves, SwitchMoves, SwitchCheckMoves, KillMoves
  <2>2. \A q \in Procs : q # p => proc'[q] = proc[q]
    BY <1>2, Zenon DEF SchemeInv, SchemeTypes, Start, WriteTemp, MoveTemp, ReadRecord, RecoverActive,
       Rollback, RollbackCheck, Previous, Switch, SwitchCheck, Kill, AfterSave, AfterRecovery,
       SetActive, Goto, End, Save
  <2>3. Steps(p)
    BY <2>1, <2>2 DEF Steps, SchemeInv, SchemeTypes
  <2> QED BY <1>1, <2>1, <2>3
<1>3. CASE UNCHANGED vars
  <2>1. UNCHANGED <<active, was, trouble, record, temp, base, proc>>
    BY <1>3 DEF vars, system, disk
  <2>2. SchemeInv'
    BY <2>1, Zenon DEF SchemeInv, SchemeTypes, SavedInv, Sole, Poised, Calm, LeadsBack
  <2> QED BY <2>1, <2>2 DEF KeepsWord
<1> QED BY <1>2, <1>3, ExternalMoves DEF Next

\* Nothing has been switched at first.
LEMMA SchemeStarts == Init => SchemeInv
<1> SUFFICES ASSUME Init PROVE SchemeInv
  OBVIOUS
<1>1. \A p \in Procs : /\ proc[p] = Idle /\ proc[p].at = "idle" /\ proc[p].rec = None
                       /\ proc[p].out = None
  BY Zenon DEF Init, Idle
<1>2. Idle \in SchemeRuns
  BY DEF Idle, SchemeRuns, Places, Commands
<1>3. SchemeTypes
  BY <1>1, <1>2 DEF Init, SchemeTypes, Shape
<1>4. SavedInv
  BY <1>1, SchemeAssumption DEF Init, SavedInv
<1>5. LeadsBack /\ Sole /\ \A p \in Procs : Poised(proc[p]) /\ Calm(proc[p])
  BY <1>1 DEF Init, LeadsBack, Sole, Poised, Calm
<1> QED BY <1>3, <1>4, <1>5 DEF SchemeInv

\* The invariant holds of every behaviour.
LEMMA SchemeInvariant == Spec => []SchemeInv
  BY SchemeStarts, SchemeSteps, PTL DEF Spec

\* Wherever a command is killed and whichever of its calls fails, the record leads back to
\* the scheme from before the switch; and with any number of commands at once, a rollback
\* only goes to a scheme that was really active.
THEOREM RecordLeadsBack == Spec => []RollbackBasis
<1>1. SchemeInv => RollbackBasis
  <2> SUFFICES ASSUME SchemeInv PROVE RollbackBasis
    OBVIOUS
  <2>1. (record # None => record \in Record) /\ (temp \notin {None, Torn} => temp \in Record)
    BY DEF SchemeInv, SchemeTypes
  <2>2. (record # None => record.saved \in was) /\ (temp \notin {None, Torn} => temp.saved \in was)
    BY <2>1 DEF SchemeInv, SavedInv
  <2>3. trouble = 0 =>
          /\ active # base => record # None /\ record.saved = base /\ record.state # "restored"
          /\ IsPending(record) => record.saved = base
    BY DEF SchemeInv, LeadsBack, IsPending
  <2> QED BY <2>2, <2>3 DEF RollbackBasis
<1> QED BY <1>1, SchemeInvariant, PTL

\* A power-scheme command that reports success has done what it says, although calls may
\* succeed without effect and records be unreadable: it reads back what it set.
THEOREM SchemeVerdictsHold == Spec => VerdictHolds
<1>1. SchemeInv /\ [Next]_vars => [\A p \in Procs : KeepsWord(p)]_vars
  BY SchemeSteps, Zenon
<1>2. Spec => [][\A p \in Procs : KeepsWord(p)]_vars
  BY <1>1, SchemeInvariant, PTL DEF Spec
<1>3. (\A p \in Procs : KeepsWord(p)) =>
        (trouble' < 2 => \A p \in Procs :
           proc[p].at # "idle" /\ proc'[p].at = "idle" /\ proc'[p].ok =>
              /\ proc[p].cmd = "apply" => /\ active' = proc[p].target
                                          /\ record'.state = "applied" /\ record'.target = active'
              /\ proc[p].cmd = "restore" => record'.state = "restored" /\ active' = record'.saved
              /\ proc[p].cmd = "recover" => ~IsPending(record'))
  BY Zenon DEF KeepsWord
<1> QED BY <1>2, <1>3, PTL DEF VerdictHolds

----------------------------------------------------------------------------
(* Boost and restore of threads, for any set of threads, any target and    *)
(* however much others change.                                             *)

\* What the proof needs of the types: priority and wanted are functions on the threads.
TunerShape ==
    /\ DOMAIN priority = ThreadIds /\ priority = [t \in ThreadIds |-> priority[t]]
    /\ DOMAIN wanted = ThreadIds /\ wanted = [t \in ThreadIds |-> wanted[t]]

\* A thread is looked at before it is raised or given back, and the tuner ends with nothing
\* to give back.
TunerPhases ==
    /\ DOMAIN snapshot \cap DOMAIN adjusted = {}
    /\ tuner = "list" => DOMAIN snapshot = {} /\ DOMAIN adjusted = {} /\ excused = {}
    /\ checked \subseteq DOMAIN adjusted /\ (checked # {} => tuner = "restore")
    /\ tuner = "restored" => DOMAIN adjusted = {}

\* The snapshot is still true of the threads it holds.  A thread that was raised has the
\* target and its adjustment knows better, or others have set it to something else; one
\* that was found at the target still has it; and any other thread is untouched.
KnownThreads ==
    \A t \in ThreadIds \ excused :
        /\ t \in DOMAIN snapshot => snapshot[t] = priority[t]
        /\ t \in DOMAIN adjusted => \/ priority[t] = Target /\ adjusted[t] = wanted[t]
                                    \/ priority[t] # Target /\ priority[t] = wanted[t]
        /\ t \in checked => priority[t] = Target
        /\ t \notin DOMAIN adjusted => priority[t] = wanted[t]

TunerInv == TunerShape /\ TunerPhases /\ KnownThreads

\* The invariant before the threads are listed.
LEMMA TunerStarts == TunerInit => TunerInv
<1> SUFFICES ASSUME TunerInit PROVE TunerInv
  OBVIOUS
<1>1. /\ DOMAIN snapshot = {} /\ DOMAIN adjusted = {} /\ excused = {} /\ checked = {}
      /\ tuner = "list"
  BY DEF TunerInit, Nothing
<1>2. priority \in [ThreadIds -> Priorities] /\ wanted = priority
  BY DEF TunerInit
<1> QED
  BY <1>1, <1>2 DEF TunerInv, TunerShape, TunerPhases, KnownThreads

\* The tuner's own steps.
LEMMA TunerKeeps ==
  ASSUME TunerInv,
         \/ ListThreads \/ ListFails \/ BoostReturns
         \/ RestoreStarts \/ RestoreFails \/ RestoreReturns
         \/ \E t \in ThreadIds : \/ SkipThread(t) \/ RaiseThread(t)
                                \/ CheckThread(t) \/ RestoreThread(t)
  PROVE  TunerInv'
<1> USE DEF TunerInv
<1>1. CASE ListThreads
  <2>0. PICK opened \in SUBSET ThreadIds : \E unread \in SUBSET opened :
           /\ snapshot' = [t \in opened |-> IF t \in unread THEN 0 ELSE priority[t]]
           /\ excused' = {t \in unread : priority[t] # 0}
    BY <1>1 DEF ListThreads
  <2>1. PICK unread \in SUBSET opened :
           /\ snapshot' = [t \in opened |-> IF t \in unread THEN 0 ELSE priority[t]]
           /\ excused' = {t \in unread : priority[t] # 0}
    BY <2>0
  <2>2. tuner = "list" /\ tuner' = "boost" /\ UNCHANGED <<priority, adjusted, checked, wanted>>
    BY <1>1 DEF ListThreads
  <2>3. DOMAIN adjusted = {} /\ excused = {} /\ checked = {}
    BY <2>2 DEF TunerPhases
  <2>4. \A t \in ThreadIds : priority[t] = wanted[t]
    BY <2>3 DEF KnownThreads
  <2>5. TunerShape' /\ TunerPhases'
    BY <2>2, <2>3 DEF TunerShape, TunerPhases
  <2>6. KnownThreads'
    BY <2>1, <2>2, <2>3, <2>4 DEF KnownThreads
  <2> QED BY <2>5, <2>6
<1>2. CASE BoostReturns
  <2>1. /\ DOMAIN snapshot' = {} /\ tuner' = "boosted"
        /\ tuner = "boost" /\ UNCHANGED <<priority, adjusted, checked, wanted, excused>>
    BY <1>2 DEF BoostReturns, Nothing
  <2> QED BY <2>1 DEF TunerShape, TunerPhases, KnownThreads
<1>3. CASE ListFails \/ RestoreStarts \/ RestoreFails \/ RestoreReturns
  <2>1. /\ tuner' \in {"failed", "restore", "restored"} /\ checked' \in {checked, {}}
        /\ UNCHANGED <<priority, snapshot, adjusted, wanted, excused>>
        /\ tuner' = "restored" => DOMAIN adjusted = {}
        /\ checked' # {} => tuner' = "restore"
    BY <1>3 DEF ListFails, RestoreStarts, RestoreFails, RestoreReturns, TunerPhases
  <2> QED BY <2>1 DEF TunerShape, TunerPhases, KnownThreads
<1>4. ASSUME NEW t \in ThreadIds, SkipThread(t)
      PROVE  TunerInv'
  <2>1. /\ snapshot' = Without(snapshot, t) /\ tuner = "boost"
        /\ UNCHANGED <<tuner, priority, adjusted, checked, wanted, excused>>
    BY <1>4 DEF SkipThread
  <2>2. /\ DOMAIN snapshot' = DOMAIN snapshot \ {t}
        /\ \A u \in DOMAIN snapshot : u # t => snapshot'[u] = snapshot[u]
    BY <2>1 DEF With, Without
  <2> QED BY <2>1, <2>2 DEF TunerShape, TunerPhases, KnownThreads
<1>5. ASSUME NEW t \in ThreadIds, RaiseThread(t)
      PROVE  TunerInv'
  <2>1. /\ tuner = "boost" /\ t \in DOMAIN snapshot
        /\ snapshot' = Without(snapshot, t) /\ adjusted' = With(adjusted, t, snapshot[t])
        /\ priority' = [priority EXCEPT ![t] = Target]
        /\ UNCHANGED <<tuner, checked, wanted, excused>>
    BY <1>5 DEF RaiseThread
  <2>2. /\ DOMAIN snapshot' = DOMAIN snapshot \ {t}
        /\ \A u \in DOMAIN snapshot : u # t => snapshot'[u] = snapshot[u]
        /\ DOMAIN adjusted' = DOMAIN adjusted \cup {t} /\ adjusted'[t] = snapshot[t]
        /\ \A u \in DOMAIN adjusted : u # t => adjusted'[u] = adjusted[u]
    BY <2>1, Zenon DEF With, Without
  <2>3. /\ DOMAIN priority' = ThreadIds /\ priority' = [u \in ThreadIds |-> priority'[u]]
        /\ priority'[t] = Target
        /\ \A u \in ThreadIds : u # t => priority'[u] = priority[u]
    BY <2>1 DEF TunerShape
  <2>4. checked = {} /\ (t \notin excused => snapshot[t] = wanted[t])
    BY <2>1, Zenon DEF TunerPhases, KnownThreads
  <2>5. TunerShape' /\ TunerPhases'
    BY <2>1, <2>2, <2>3 DEF TunerShape, TunerPhases
  <2>6. KnownThreads'
    BY <2>1, <2>2, <2>3, <2>4 DEF KnownThreads
  <2> QED BY <2>5, <2>6
<1>6. ASSUME NEW t \in ThreadIds, CheckThread(t)
      PROVE  TunerInv'
  <2>1. /\ tuner = "restore" /\ checked = {} /\ t \in DOMAIN adjusted
        /\ UNCHANGED <<tuner, priority, snapshot, wanted>>
    BY <1>6, Zenon DEF CheckThread
  <2>2. CASE /\ adjusted' = Without(adjusted, t) /\ UNCHANGED checked
             /\ excused \subseteq excused' /\ (priority[t] = Target => t \in excused')
    <3>1. /\ DOMAIN adjusted' = DOMAIN adjusted \ {t}
          /\ \A u \in DOMAIN adjusted : u # t => adjusted'[u] = adjusted[u]
      BY <2>2 DEF Without
    <3>2. TunerShape' /\ TunerPhases'
      BY <2>1, <2>2, <3>1 DEF TunerShape, TunerPhases
    <3>3. KnownThreads'
      BY <2>1, <2>2, <3>1 DEF KnownThreads
    <3> QED BY <3>2, <3>3
  <2>3. CASE priority[t] = Target /\ checked' = {t} /\ UNCHANGED <<adjusted, excused>>
    BY <2>1, <2>3 DEF TunerShape, TunerPhases, KnownThreads
  <2> QED BY <1>6, <2>2, <2>3, Zenon DEF CheckThread
<1>7. ASSUME NEW t \in ThreadIds, RestoreThread(t)
      PROVE  TunerInv'
  <2>1. /\ t \in checked /\ checked' = {}
        /\ adjusted' = Without(adjusted, t)
        /\ priority' = [priority EXCEPT ![t] = adjusted[t]]
        /\ UNCHANGED <<tuner, snapshot, wanted, excused>>
    BY <1>7, Zenon DEF RestoreThread
  <2>2. /\ DOMAIN adjusted' = DOMAIN adjusted \ {t}
        /\ \A u \in DOMAIN adjusted : u # t => adjusted'[u] = adjusted[u]
    BY <2>1 DEF Without
  <2>3. /\ DOMAIN priority' = ThreadIds /\ priority' = [u \in ThreadIds |-> priority'[u]]
        /\ priority'[t] = adjusted[t]
        /\ \A u \in ThreadIds : u # t => priority'[u] = priority[u]
    BY <2>1 DEF TunerShape
  <2>4. /\ tuner = "restore" /\ t \in DOMAIN adjusted /\ t \notin DOMAIN snapshot
        /\ t \notin excused => adjusted[t] = wanted[t]
    BY <2>1, Zenon DEF TunerPhases, KnownThreads
  <2>5. TunerShape' /\ TunerPhases'
    BY <2>1, <2>2, <2>3, <2>4 DEF TunerShape, TunerPhases
  <2>6. KnownThreads'
    BY <2>1, <2>2, <2>3, <2>4 DEF KnownThreads
  <2> QED BY <2>5, <2>6
<1> QED
  BY <1>1, <1>2, <1>3, <1>4, <1>5, <1>6, <1>7

\* What others do to a thread.
LEMMA MeddleKeeps ==
  ASSUME TunerInv, NEW t \in ThreadIds, NEW p, Meddle(t, p)
  PROVE  TunerInv'
<1> USE DEF TunerInv
<1>1. /\ priority' = [priority EXCEPT ![t] = p] /\ wanted' = [wanted EXCEPT ![t] = p]
      /\ UNCHANGED <<tuner, snapshot, adjusted, checked>>
  BY DEF Meddle
<1>2. /\ DOMAIN priority' = ThreadIds /\ priority' = [u \in ThreadIds |-> priority'[u]]
      /\ DOMAIN wanted' = ThreadIds /\ wanted' = [u \in ThreadIds |-> wanted'[u]]
      /\ priority'[t] = p /\ wanted'[t] = p
      /\ \A u \in ThreadIds : u # t => priority'[u] = priority[u] /\ wanted'[u] = wanted[u]
  BY <1>1, Zenon DEF TunerShape
<1>3. /\ t \notin excused' => /\ t \notin DOMAIN snapshot /\ t \notin checked
                             /\ ~(t \in DOMAIN adjusted /\ p = Target)
      /\ \A u : u # t => (u \in excused' <=> u \in excused)
      /\ t \notin DOMAIN snapshot \cup checked /\ t \notin DOMAIN adjusted => t \notin excused'
  BY DEF Meddle
<1>4. TunerShape'
  BY <1>2 DEF TunerShape
<1>5. TunerPhases'
  BY <1>1, <1>3 DEF TunerPhases
<1>6. KnownThreads'
  BY <1>1, <1>2, <1>3 DEF KnownThreads
<1> QED
  BY <1>4, <1>5, <1>6

\* After BoostProcessThreads and RestorePriorities every thread has the priority it would
\* have without them.  The exceptions are those of RestoreIsExact: threads that could not
\* be read, that others changed between a reading and the SetPriority that rests on it, or
\* that others set to the target.  It holds because, but for these, a raised thread is
\* either at the target with its true priority in its adjustment, or left to the others.
THEOREM RestoresExactly == TunerSpec => []RestoreIsExact
<1>1. TunerInv /\ UNCHANGED tunerVars => TunerInv'
  BY DEF TunerInv, TunerShape, TunerPhases, KnownThreads, tunerVars
<1>2. TunerInv /\ [TunerNext]_tunerVars => TunerInv'
  <2>1. ASSUME TunerInv, NEW t \in ThreadIds, OtherSets(t) \/ ThreadStartsOrEnds(t)
        PROVE  TunerInv'
    BY <2>1, MeddleKeeps, Zenon DEF OtherSets, ThreadStartsOrEnds
  <2> QED BY <1>1, <2>1, TunerKeeps DEF TunerNext, TunerDone
<1>3. TunerInv => RestoreIsExact
  BY DEF TunerInv, TunerPhases, KnownThreads, RestoreIsExact
<1> QED
  BY TunerStarts, <1>2, <1>3, PTL DEF TunerSpec
=============================================================================
