---------------------------- MODULE HostPresence ----------------------------
(***************************************************************************)
(* Whether somebody is there.  Agents report how long their user has been  *)
(* idle (main.cpp, RunAgentCommand), the host takes one client a tick      *)
(* (ServiceWorkloadTick) and keeps a ledger of the reports and of its own  *)
(* input (service/presence.cpp), and the ledger's summary makes the        *)
(* presence timeline.  Idle times come from 32-bit tick counts             *)
(* (activity/user_activity.cpp) or from raw input (activity/raw_input.cpp).*)
(*                                                                         *)
(* Times are ages in ticks of the host: how long ago a user touched        *)
(* anything, how long ago a row was written.  ServeOne is taken by its     *)
(* outcome (IpcSession has its steps), the Safe Mode guard by its answer   *)
(* (IntakeHost has the guard).                                             *)
(***************************************************************************)
EXTENDS InputTicks, FiniteSets

CONSTANTS
    Agents,       \* clients that report, by "pid:session"
    AwayAfter,    \* awayAfterSeconds
    ForgetAfter,  \* values of forgetAfter: 0, which the host uses, keeps rows for ever
    Flight,       \* bound on the time between an agent's sample and its delivery
    MaxIdle       \* bound on idle times: stands for all from there on

ASSUME PresenceAssumption ==
    /\ {AwayAfter, Flight, MaxIdle} \subseteq Nat \ {0}
    /\ ForgetAfter \subseteq Nat
    /\ "host" \notin Agents
    /\ AwayAfter + Flight <= MaxIdle
    /\ TickRange <= 2 * MaxIdle

Unreported == -1  \* std::nullopt: no idle time

Keys == Agents \cup {"host"}

VARIABLES
    idle,         \* how long each user has really been idle
    rows,         \* the ledger's entries
    lastSummary,  \* lastSummary_ as the last step leaves it, or none if it called no Summary:
                  \* what was before only tells whether the timeline gets a line
    lastFacts,    \* ipcLastFactCount > 0, and ipcLastUserIdleSeconds
    forgetAfter,  \* the tracker's option
    raw,          \* the host's input: no tray (off), a tray whose Attach failed (polling),
                  \* attached, or attached and with an event
    phase         \* of the host: idle between ticks, serving or ended

presenceVars ==
    <<idle, rows, lastSummary, lastFacts, forgetAfter, raw, phase>>

\* basis is history, of a row and of facts: see Basis.
NoRow == [there |-> FALSE, idle |-> Unreported, age |-> 0, basis |-> "none"]
NoFacts == [any |-> FALSE, idle |-> Unreported, basis |-> "none"]

\* Attach, once the tray has started: raw input, or polling if it fails.
Attach == {"attached", "polling"}

PresenceInit ==
    /\ idle = [k \in Keys |-> 0]
    /\ rows = [k \in Keys |-> NoRow]
    /\ lastSummary = "none"
    /\ lastFacts = NoFacts
    /\ forgetAfter \in ForgetAfter
    /\ raw \in Attach \cup {"off"}
    /\ phase = "idle"

----------------------------------------------------------------------------
(* Idle times.                                                             *)

\* The host tells idle times apart only up to AwayAfter.
Seconds(age) == IF age < AwayAfter THEN age ELSE AwayAfter

\* GetLastInputInfo, at any value of the tick count; the query may fail.
LastInput == [age \in 0..MaxIdle |->
    {Seconds(IdleMilliseconds(now, (now - a) % TickRange)) :
        now \in 0..TickRange - 1, a \in age..(IF age < MaxIdle THEN age ELSE age + TickRange)}
        \cup {Unreported}]

\* IdleDuration, once raw input is attached and has seen an event; else polling.
HostIdle ==
    IF raw = "events" THEN {Seconds(idle["host"])} ELSE LastInput[idle["host"]]

----------------------------------------------------------------------------
(* The ledger.                                                             *)

\* Mutant of ClassifyPresence: a client that reports no idle time counts as present.
ClassifyUnreported(seconds) ==
    IF seconds = Unreported \/ seconds < AwayAfter THEN "Present" ELSE "Away"

ClassifyPresence(seconds) ==
    IF seconds = Unreported THEN "Unknown" ELSE IF seconds < AwayAfter THEN "Present" ELSE "Away"

\* History: a client that says its user is there is right, the user's input is not long
\* ago or so long that the tick count cannot tell.
Basis(k, seconds) ==
    IF /\ ClassifyPresence(seconds) = "Present"
       /\ idle[k] < AwayAfter + Flight \/ TickRange <= 2 * idle[k]
    THEN "input" ELSE "none"

\* forgetAfter <= 0 keeps all.
PruneExpired(ledger) ==
    [k \in Keys |-> IF forgetAfter > 0 /\ ledger[k].age > forgetAfter THEN NoRow ELSE ledger[k]]

Record(ledger, k, seconds, basis) ==
    [PruneExpired(ledger) EXCEPT ![k] =
        [there |-> TRUE, idle |-> seconds, age |-> 0, basis |-> basis]]

ComputeSummary(ledger) ==
    LET states == {ClassifyPresence(ledger[k].idle) : k \in {j \in Keys : ledger[j].there}} IN
    CASE "Present" \in states -> "Present"
      [] "Present" \notin states /\ "Away" \in states -> "Away"
      [] OTHER -> "Unknown"

Summary(ledger) ==
    /\ rows' = PruneExpired(ledger)
    /\ lastSummary' = ComputeSummary(PruneExpired(ledger))

NoSummary(ledger) ==
    /\ rows' = ledger
    /\ lastSummary' = "none"

----------------------------------------------------------------------------
(* The host's tick: the host's own row, the gate, then one client.         *)

\* The host process ends: what it knew is gone, and its users are no concern any more.
Gone ==
    /\ phase' = "ended"
    /\ idle' = [k \in Keys |-> 0]
    /\ lastFacts' = NoFacts
    /\ UNCHANGED <<forgetAfter, raw>>

\* The memory status could not be read: RunConsole fails, and nothing more is said.
TickFails ==
    /\ phase = "idle"
    /\ NoSummary([k \in Keys |-> NoRow])
    /\ Gone

\* Without a tray the host has no row of its own.
TickBegins ==
    /\ phase = "idle"
    /\ \E seconds \in HostIdle, refused \in BOOLEAN :
          LET ledger == IF raw = "off" THEN rows ELSE Record(rows, "host", seconds, Basis("host", seconds)) IN
          IF refused
          THEN Summary(ledger) /\ UNCHANGED phase
          ELSE NoSummary(ledger) /\ phase' = "serving"
    /\ UNCHANGED <<idle, lastFacts, forgetAfter, raw>>

\* No client within the accept timeout, one that sent nothing in time, or one that was
\* rejected for who it is: the tick is over, without a summary.
NobodyServed ==
    /\ phase = "serving"
    /\ phase' = "idle"
    /\ NoSummary(rows)
    /\ UNCHANGED <<idle, lastFacts, forgetAfter, raw>>

\* What the frame of a user of that age can say: a sample of the idle time, at most
\* Flight old, or none.
Samples == [age \in 0..MaxIdle |->
    (UNION {LastInput[age - d] : d \in 0..(IF age < Flight THEN age ELSE Flight)})
        \cup (IF age < Flight THEN UNION {LastInput[i] : i \in 0..MaxIdle} ELSE {})]

Frames == [age \in 0..MaxIdle |->
    {[kind |-> "facts", idle |-> i] : i \in Samples[age]}
        \cup {[kind |-> kind, idle |-> Unreported] : kind \in {"ping", "malformed"}}]

\* What the handler keeps of a frame, whatever its reply; a Ping leaves the last facts.
HandleFacts(k, f) ==
    CASE f.kind = "facts" -> [any |-> TRUE, idle |-> f.idle, basis |-> Basis(k, f.idle)]
      [] f.kind = "malformed" -> NoFacts
      [] OTHER -> lastFacts

\* Mutant of ReplyTimesOut: the client is recorded, with the facts from before its frame.
ReplyTimesOutRecorded(k) ==
    /\ phase = "serving"
    /\ \E f \in Frames[idle[k]] : lastFacts' = HandleFacts(k, f)
    /\ phase' = "idle"
    /\ NoSummary(IF lastFacts.any THEN Record(rows, k, lastFacts.idle, lastFacts.basis) ELSE rows)
    /\ UNCHANGED <<idle, forgetAfter, raw>>

\* The handler ran, but its reply was not taken in time: the tick is over as without a
\* client, although the facts are kept.
ReplyTimesOut(k) ==
    /\ phase = "serving"
    /\ \E f \in Frames[idle[k]] : lastFacts' = HandleFacts(k, f)
    /\ phase' = "idle"
    /\ NoSummary(rows)
    /\ UNCHANGED <<idle, forgetAfter, raw>>

\* A client was served: with an Ack or with an error reply, it is all the same here.
ClientServed(k) ==
    /\ phase = "serving"
    /\ \E f \in Frames[idle[k]] :
          LET facts == HandleFacts(k, f) IN
          /\ lastFacts' = facts
          /\ Summary(IF facts.any THEN Record(rows, k, facts.idle, facts.basis) ELSE rows)
    /\ phase' = "idle"
    /\ UNCHANGED <<idle, forgetAfter, raw>>

\* Any other failure of ServeOne ends the host.
ServeFails ==
    /\ phase = "serving"
    /\ NoSummary([k \in Keys |-> NoRow])
    /\ Gone

\* RunConsole returns between two ticks; the host prints a last summary.
HostStops ==
    /\ phase = "idle"
    /\ Summary(rows)
    /\ Gone

----------------------------------------------------------------------------
(* The users, the tray's window and time.                                  *)

\* Without a tray nobody asks when the host's own user was there.
UserInput(k) ==
    /\ phase # "ended"
    /\ k = "host" => raw # "off"
    /\ idle' = [idle EXCEPT ![k] = 0]
    /\ raw' = IF k = "host" /\ raw = "attached" THEN "events" ELSE raw
    /\ NoSummary(rows)
    /\ UNCHANGED <<lastFacts, forgetAfter, phase>>

Older(age, bound) == IF age < bound THEN age + 1 ELSE bound

AgeBound == IF forgetAfter > 0 THEN forgetAfter + 1 ELSE 0

TimePasses ==
    /\ phase # "ended"
    /\ idle' = [k \in Keys |-> Older(idle[k], MaxIdle)]
    /\ NoSummary([k \in Keys |-> IF rows[k].there
                                 THEN [rows[k] EXCEPT !.age = Older(@, AgeBound)]
                                 ELSE NoRow])
    /\ UNCHANGED <<lastFacts, forgetAfter, raw, phase>>

\* A host that has ended does nothing more.
HostEnded == phase = "ended" /\ UNCHANGED presenceVars

PresenceNext ==
    \/ TickFails \/ TickBegins \/ NobodyServed \/ ServeFails \/ HostStops
    \/ \E k \in Agents : ClientServed(k) \/ ReplyTimesOut(k)
    \/ \E k \in Keys : UserInput(k)
    \/ TimePasses \/ HostEnded

PresenceSpec == PresenceInit /\ [][PresenceNext]_presenceVars

----------------------------------------------------------------------------
(* Properties.                                                             *)

\* Types of the ledger and of what the host keeps of its clients.
PresenceTypeOK ==
    /\ idle \in [Keys -> 0..MaxIdle]
    /\ \A k \in Keys : /\ rows[k].there \in BOOLEAN /\ rows[k].basis \in {"none", "input"}
                       /\ rows[k].idle \in {Unreported} \cup 0..AwayAfter
                       /\ rows[k].age \in 0..AgeBound
    /\ lastSummary \in {"none", "Unknown", "Present", "Away"}
    /\ lastFacts.any \in BOOLEAN
    /\ forgetAfter \in ForgetAfter
    /\ raw \in {"off", "polling", "attached", "events"}
    /\ phase \in {"idle", "serving", "ended"}

\* A summary that says Present goes back to a report that was right when it came: the user
\* had touched something within AwayAfter and the report's flight.  A missing idle time or a
\* malformed frame makes nobody present, and with forgetAfter the row is no older than that.
\* The exceptions: a user idle for half of the tick range or more, who reads as active;
\* without forgetAfter, as the host runs, the row may be of any age; a row that a Ping made
\* has the last facts of another client, however old; and a tick without a client reaches
\* no Summary, after which alone the property speaks.
PresentIsBacked ==
    lastSummary = "Present" =>
        \E k \in Keys :
            /\ ClassifyPresence(rows[k].idle) = "Present" /\ rows[k].basis = "input"
            /\ forgetAfter > 0 => rows[k].age <= forgetAfter

\* An agent's row changes only to what that agent itself can just have reported ("同一客户端
\* 取最近一次上报") or when it is forgotten: the facts of the client before it are not taken
\* for its own, except of one that sends only a Ping.
RowIsOwnReport ==
    [][\A k \in Agents :
          rows'[k].there /\ rows'[k].idle # rows[k].idle =>
              \/ rows'[k].idle \in Samples[idle[k]]
              \/ lastFacts.any /\ rows'[k].idle = lastFacts.idle /\ lastFacts' = lastFacts]_presenceVars
=============================================================================
