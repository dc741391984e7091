------------------------------ MODULE IntakeHost ------------------------------
(***************************************************************************)
(* The resident host that takes in agents (main.cpp,                       *)
(* RunServiceConsoleCommand with --ipc-facts, and ServiceWorkloadTick): it *)
(* takes the instance lock, looks for the recovery marker of an earlier    *)
(* session, writes its own, serves clients behind SafeModeGuard and clears *)
(* the marker when it ends well.                                           *)
(*                                                                         *)
(* Hosts are processes of one user, at most one at a time in each Windows  *)
(* session; they can be killed between any two steps.  The marker is one   *)
(* file for all of them, rewritten in place: opening it for writing        *)
(* empties it.                                                             *)
(***************************************************************************)
EXTENDS SafeModeGuard

CONSTANTS
    Hosts,           \* one for each Windows session of the user
    LatchEnabled,    \* [application].safe_mode_on_recovery_error
    UsesTray,        \* --tray
    FileFaults,      \* operations on the marker may fail
    TornWrites       \* a host may be killed while it writes the marker

ASSUME IntakeAssumption == {LatchEnabled, UsesTray, FileFaults, TornWrites} \subseteq BOOLEAN

VARIABLES
    host,      \* each host: where it is, its guard, --confirm-recovery, recovery latched;
               \* history: it has met a host of another Windows session
    marker,    \* recovery-state.json: "none", "set" or "torn"
    unclean,   \* history: a session ended uncleanly and nobody has confirmed it
    owed,      \* history: like unclean, of a host that met no other, until the marker is removed
    fault      \* history: an operation on the marker failed, or was cut short

vars == <<host, marker, unclean, owed, fault>>

Off == [at |-> "off", guard |-> NewGuard, confirm |-> FALSE, recovery |-> FALSE,
        met |-> FALSE]

Init ==
    /\ host = [h \in Hosts |-> Off]
    /\ marker = "none"
    /\ unclean = FALSE
    /\ owed = FALSE
    /\ fault = FALSE

Goto(h, place) == host' = [host EXCEPT ![h].at = place]
Running(h) == host[h].at # "off"

\* A file operation may leave the marker as it was.
ChangeMarker(m) ==
    \/ marker' = m /\ UNCHANGED fault
    \/ FileFaults /\ UNCHANGED marker /\ fault' = TRUE

----------------------------------------------------------------------------
(* Start.                                                                  *)

\* The lock is a mutex named Local\..., one per Windows session.  A start that finds it
\* taken ends at once; hosts of other sessions it does not see.  The checks of the
\* environment and of the configuration may latch the guard.
Launch(h) ==
    /\ ~Running(h)
    /\ \E confirm, anomaly \in BOOLEAN :
          host' = [k \in Hosts |->
             IF k = h
             THEN [Off EXCEPT !.at = IF confirm THEN "confirm" ELSE "inspect",
                              !.confirm = confirm, !.guard.latched = anomaly,
                              !.met = \E j \in Hosts : Running(j)]
             ELSE [host[k] EXCEPT !.met = Running(k)]]
    /\ UNCHANGED <<marker, unclean, owed, fault>>

ConfirmRecovery(h) ==
    /\ host[h].at = "confirm"
    /\ ChangeMarker("none")
    /\ Goto(h, "inspect")
    /\ unclean' = FALSE
    /\ owed' = FALSE

\* Mutant of DecideRecoveryAnomalyAction: the marker alone decides nothing.
DecideRecoveryNone(markerSet, confirm) == FALSE

\* DecideRecoveryAnomalyAction, where only Latch changes what the host does.
DecideRecoveryAnomalyAction(markerSet, confirm) == markerSet /\ ~confirm /\ LatchEnabled

\* A marker that cannot be read counts as not set.
Inspect(h) ==
    /\ host[h].at = "inspect"
    /\ \E read \in {TRUE} \cup (IF FileFaults THEN {FALSE} ELSE {}) :
          LET latch == DecideRecoveryAnomalyAction(read /\ marker = "set", host[h].confirm) IN
          /\ host' = [host EXCEPT ![h].at = "mark", ![h].recovery = latch,
                                  ![h].guard = IF latch THEN OnAnomalyDetected(@) ELSE @]
          /\ fault' = (fault \/ ~read)
    /\ UNCHANGED <<marker, unclean, owed>>

AfterMark == IF UsesTray THEN "tray" ELSE "run"

\* WriteRecoveryMarker: the file is opened, which empties it, then written.
OpenMarker(h) ==
    /\ host[h].at = "mark"
    /\ \/ marker' = "torn" /\ Goto(h, "write") /\ UNCHANGED fault
       \/ FileFaults /\ UNCHANGED marker /\ Goto(h, AfterMark) /\ fault' = TRUE
    /\ UNCHANGED <<unclean, owed>>

WriteMarker(h) ==
    /\ host[h].at = "write"
    /\ ChangeMarker("set")
    /\ Goto(h, AfterMark)
    /\ UNCHANGED <<unclean, owed>>

\* The host ends after it has removed the marker, whoever left it.
EndClean(h) ==
    /\ ChangeMarker("none")
    /\ host' = [host EXCEPT ![h] = Off]
    /\ owed' = FALSE
    /\ UNCHANGED unclean

\* Without its tray the host ends too, "as no session has begun".
StartTray(h) ==
    /\ host[h].at = "tray"
    /\ \/ Goto(h, "run") /\ UNCHANGED <<marker, unclean, owed, fault>>
       \/ EndClean(h)

----------------------------------------------------------------------------
(* ServiceWorkloadTick.                                                    *)

\* The host ends and its marker stays.
EndUnclean(h) ==
    /\ host' = [host EXCEPT ![h] = Off]
    /\ unclean' = TRUE
    /\ owed' = (owed \/ ~host[h].met)
    /\ UNCHANGED <<marker, fault>>

\* The guard is asked first; behind it ServeOne serves a client, times out, or
\* rejects one, which verdictObserver tells the guard.  A failure of the memory
\* query, or any other failure of ServeOne, ends the host.
WorkloadTick(h) ==
    /\ host[h].at = "run"
    /\ \/ /\ host' = [host EXCEPT ![h].guard = Refresh(@)]
          /\ UNCHANGED <<marker, unclean, owed, fault>>
       \/ /\ ShouldAcceptClients(host[h].guard)
          /\ host' = [host EXCEPT ![h].guard = OnClientRejected(@)]
          /\ UNCHANGED <<marker, unclean, owed, fault>>
       \/ EndUnclean(h)

Elapses(h) ==
    /\ host[h].at = "run"
    /\ host' = [host EXCEPT ![h].guard = Elapse(@)]
    /\ UNCHANGED <<marker, unclean, owed, fault>>

----------------------------------------------------------------------------
(* End.                                                                    *)

\* A stop request or the deadline.
Finish(h) ==
    /\ host[h].at = "run"
    /\ EndClean(h)

\* A session has begun when its marker is written.
Kill(h) ==
    /\ Running(h)
    /\ host[h].at = "write" => TornWrites
    /\ IF host[h].at \in {"tray", "run"}
       THEN EndUnclean(h)
       ELSE /\ host' = [host EXCEPT ![h] = Off]
            /\ fault' = (fault \/ host[h].at = "write")
            /\ UNCHANGED <<marker, unclean, owed>>

Next == \E h \in Hosts :
    \/ Launch(h) \/ ConfirmRecovery(h) \/ Inspect(h) \/ OpenMarker(h) \/ WriteMarker(h)
    \/ StartTray(h) \/ WorkloadTick(h) \/ Elapses(h) \/ Finish(h) \/ Kill(h)

Spec == Init /\ [][Next]_vars

----------------------------------------------------------------------------
(* Properties.                                                             *)

Places == {"off", "confirm", "inspect", "mark", "write", "tray", "run"}

\* Types of the hosts and of the marker.
TypeOK ==
    /\ host \in [Hosts -> [at : Places, guard : Guard, confirm : BOOLEAN, recovery : BOOLEAN,
                         met : BOOLEAN]]
    /\ \A h \in Hosts : host[h].recovery => host[h].guard.latched
    /\ marker \in {"none", "set", "torn"}
    /\ {unclean, owed, fault} \subseteq BOOLEAN

Serving(h) == host[h].at = "run" /\ ShouldAcceptClients(host[h].guard)

\* As long as the marker's file works, it tells of crashes and of nothing else, to a host
\* that meets no host of another Windows session.  If such a host latches for recovery,
\* some session did end uncleanly and nobody has confirmed it.  And it serves no clients
\* after the unclean end of another such host, through any number of kills, until the
\* recovery is confirmed or a host has removed the marker: one that ended well, or one that
\* ended because its tray did not start.  Hosts that meet are the exception: one latches on
\* the marker of the other that runs, and removes it.
MarkerTellsCrashes ==
    ~fault => \A h \in Hosts : ~host[h].met =>
                 /\ host[h].recovery => unclean
                 /\ LatchEnabled /\ Serving(h) => ~owed

\* After an unclean end no host serves clients until the recovery is confirmed.
UncleanNeedsConfirmation == LatchEnabled => \A h \in Hosts : Serving(h) => ~unclean
=============================================================================
