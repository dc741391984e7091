----------------------------- MODULE IpcSession -----------------------------
(***************************************************************************)
(* The protected pipe: servers that accept a client on a named pipe        *)
(* instance of their own and answer its frames, and the clients that       *)
(* connect and wait for each answer (ipc/ipc_session.cpp over              *)
(* ipc/ipc_transport.cpp).  A server runs in one of the program's modes:   *)
(*   host        the service host's tick: ServeOne on an instance that     *)
(*               stays, again and again (main.cpp, ServiceWorkloadTick)    *)
(*   concurrent  RunConcurrentServer: a worker for each instance, sessions *)
(*               of many frames                                            *)
(*   one         a single ServeOne (--ipc-pipe server)                     *)
(*   session     a single ServeSession (--ipc-pipe server --session)       *)
(*                                                                         *)
(* A frame is its kind; what makes facts valid is left to the kinds.       *)
(* Timeouts may come at any time within what the modes allow, and clients  *)
(* may give up, hang or die anywhere.                                      *)
(***************************************************************************)
EXTENDS Integers, FiniteSets

CONSTANTS
    Workers,     \* server threads, each with its instance
    Clients,     \* clients, one connection each
    Barred,      \* clients that the gate or the list of SIDs turns away
    ServerModes, \* the server's modes to consider
    MaxFrames    \* bound on the frames of a connection

ASSUME SessionAssumption ==
    /\ IsFiniteSet(Workers) /\ Workers # {}
    /\ Barred \subseteq Clients /\ "nobody" \notin Clients
    /\ ServerModes \subseteq {"host", "concurrent", "one", "session"}
    /\ MaxFrames \in Nat \ {0}

VARIABLES
    ipcMode,    \* the server's mode
    windowOver, \* the server's window is over
    pipe,       \* each instance: none, listening, connected, gone or disconnected
    peer,       \* the client of each instance, or "nobody"
    inbox,      \* the frame on its way to each server, or "none"
    outbox,     \* the reply on its way to the client of each instance, or "none"
    server,     \* each server: where it is, and the locals of ServeLoop
    caller,     \* each client: where it is, and its instance
    slow        \* history: the last step was a drain that timed out

pipeVars == <<pipe, peer, inbox, outbox>>
sessionVars == <<ipcMode, windowOver, pipe, peer, inbox, outbox, server, caller, slow>>

\* What a client may send: a ping or valid facts with the right token (good), facts with
\* the wrong token, facts that are not valid, a reply type, a header that is not valid,
\* and a frame cut off after its header.
Kinds == {"good", "badToken", "badFacts", "unsupported", "badHeader", "cut"}

Idle(at) ==
    [at |-> at, frames |-> 0, frame |-> "none", authRejected |-> FALSE, result |-> "none",
     identified |-> TRUE, leftover |-> FALSE, told |-> {}, verdicts |-> <<"none", 0>>]

SessionInit ==
    /\ ipcMode \in ServerModes
    /\ windowOver = FALSE
    /\ pipe = [w \in Workers |-> "none"]
    /\ peer = [w \in Workers |-> "nobody"]
    /\ inbox = [w \in Workers |-> "none"]
    /\ outbox = [w \in Workers |-> "none"]
    /\ \/ ipcMode = "concurrent" /\ server = [w \in Workers |-> Idle("call")]
       \/ /\ ipcMode # "concurrent"
          /\ LET only == CHOOSE w \in Workers : TRUE
             IN  server = [w \in Workers |-> Idle(IF w = only THEN "call" ELSE "done")]
    /\ caller = [c \in Clients |-> [at |-> "connect", on |-> "nowhere", left |-> 0]]
    /\ slow = FALSE

----------------------------------------------------------------------------
(* The pipe instance, as Win32 has it.                                     *)

\* DisconnectNamedPipe: the client is cut off, and what it has not read is lost.
DisconnectClient(w) ==
    /\ pipe' = [pipe EXCEPT ![w] = "disconnected"]
    /\ peer' = [peer EXCEPT ![w] = "nobody"]
    /\ inbox' = [inbox EXCEPT ![w] = "none"]
    /\ outbox' = [outbox EXCEPT ![w] = "none"]

\* The server's handle is closed: there is no instance any more.
ClosePipe(w) ==
    /\ pipe' = [pipe EXCEPT ![w] = "none"]
    /\ peer' = [peer EXCEPT ![w] = "nobody"]
    /\ inbox' = [inbox EXCEPT ![w] = "none"]
    /\ outbox' = [outbox EXCEPT ![w] = "none"]

Persistent == ipcMode \in {"host", "concurrent"}
LimitedFrames == ipcMode \in {"host", "one"}

\* What is left when ServeLoop has disconnected: closeUnlessPersistent.
DisconnectAndClose(w) == IF Persistent THEN DisconnectClient(w) ELSE ClosePipe(w)

\* A reply is written, unless the client is gone.
Write(w, reply) ==
    outbox' = [outbox EXCEPT ![w] = IF pipe[w] = "connected" THEN reply ELSE @]

----------------------------------------------------------------------------
(* A server: one call of ServeLoop after the other.                        *)

At(w, at) == server[w].at = at

StepTo(w, s) ==
    /\ server' = [server EXCEPT ![w] = s]
    /\ slow' = FALSE
    /\ UNCHANGED <<ipcMode, windowOver, caller>>

\* emitVerdict, with the number of its calls for this client.
Emit(s, verdict) == [s EXCEPT !.verdicts = <<verdict, @[2] + 1>>]

\* ServeLoop returns, and its caller goes on: the host unless it failed for a reason of
\* its own, a worker always, and a single call not at all.  Its locals go with it, but for
\* what the properties compare.
Returned(s, result) ==
    LET goesOn == \/ ipcMode = "concurrent"
                  \/ ipcMode = "host" /\ \/ result \in {"served", "timeout"}
                                         \/ s.verdicts[1] \in {"Unauthorized", "AuthFailed"}
    IN  [Idle(IF goesOn THEN "call" ELSE "done")
            EXCEPT !.result = result, !.told = s.told, !.verdicts = s.verdicts]

\* CreateAndListen, which keeps an instance that is there; the window may be over.
CreateAndListen(w) ==
    /\ At(w, "call") /\ ~(windowOver /\ Persistent)
    /\ \/ /\ pipe[w] = "none"
          /\ pipe' = [pipe EXCEPT ![w] = "listening"]
          /\ UNCHANGED <<peer, inbox, outbox>>
       \/ pipe[w] # "none" /\ UNCHANGED pipeVars
    /\ StepTo(w, Idle("accept"))

\* The instance cannot be created.
CreateFails(w) ==
    /\ At(w, "call") /\ ~(windowOver /\ Persistent)
    /\ pipe[w] = "none"
    /\ UNCHANGED pipeVars
    /\ StepTo(w, Returned(Idle("call"), "failed"))

\* Close once the window is over, or once the host has failed.
CloseSession(w) ==
    /\ \/ At(w, "call") /\ windowOver /\ Persistent
       \/ At(w, "done") /\ pipe[w] # "none"
    /\ ClosePipe(w)
    /\ StepTo(w, Idle("done"))

\* ConnectNamedPipe: a client may be there already; one that has come and gone is an
\* error (ERROR_NO_DATA), and nothing disconnects the instance.
AcceptClient(w) ==
    /\ At(w, "accept")
    /\ \/ /\ pipe[w] \in {"listening", "disconnected"}
          /\ pipe' = [pipe EXCEPT ![w] = "listening"]
          /\ UNCHANGED <<peer, inbox, outbox>>
          /\ StepTo(w, [server[w] EXCEPT !.at = "listen"])
       \/ /\ pipe[w] = "connected"
          /\ UNCHANGED pipeVars
          /\ StepTo(w, [server[w] EXCEPT !.at = "header"])
       \/ /\ pipe[w] = "gone"
          /\ IF Persistent THEN UNCHANGED pipeVars ELSE ClosePipe(w)
          /\ StepTo(w, Returned(server[w], "closed"))

\* Whether the client can be identified: one that is gone already may not be.
QueryClientUserSid(w) == IF pipe[w] = "gone" THEN BOOLEAN ELSE {TRUE}

Accepted(w) ==
    /\ At(w, "listen") /\ pipe[w] \in {"connected", "gone"}
    /\ UNCHANGED pipeVars
    /\ \E known \in QueryClientUserSid(w) :
          StepTo(w, [server[w] EXCEPT !.at = "header", !.identified = known])

\* The accept timeout: short for the host, the window for the others.  A client may
\* connect just as it comes.
AcceptTimesOut(w) ==
    /\ At(w, "listen") /\ (ipcMode = "host" \/ windowOver)
    /\ IF Persistent THEN UNCHANGED pipeVars ELSE ClosePipe(w)
    /\ StepTo(w, Returned(server[w], "timeout"))

\* No further frame: the end of a session that has served some, else a failure.
NoFrame(w, result) ==
    IF server[w].frames > 0
    THEN UNCHANGED pipeVars /\ StepTo(w, [server[w] EXCEPT !.at = "drain", !.result = "served"])
    ELSE DisconnectAndClose(w) /\ StepTo(w, Returned(server[w], result))

HeaderFails(w) ==
    /\ At(w, "header") /\ inbox[w] = "none" /\ pipe[w] = "gone"
    /\ NoFrame(w, "closed")

\* Mutant of HeaderTimesOut: the wait for a client that sends nothing has no end.
HeaderNeverTimesOut(w) ==
    /\ At(w, "header") /\ ~LimitedFrames /\ windowOver
    /\ NoFrame(w, "timeout")

\* ioTimeout or idleTimeout; the budget of a session ends it even if a frame is there.
HeaderTimesOut(w) ==
    /\ At(w, "header")
    /\ \/ inbox[w] = "none" /\ pipe[w] = "connected"
       \/ ~LimitedFrames /\ windowOver
    /\ NoFrame(w, "timeout")

\* A header that is not valid is answered at once; its payload is left in the pipe.
ReadFrame(w) ==
    /\ At(w, "header") /\ inbox[w] # "none"
    /\ inbox' = [inbox EXCEPT ![w] = "none"]
    /\ UNCHANGED <<pipe, peer>>
    /\ IF inbox[w] = "badHeader"
       THEN /\ Write(w, "InvalidHeader")
            /\ StepTo(w, [server[w] EXCEPT !.at = "drain", !.result = "failed", !.leftover = TRUE])
       ELSE UNCHANGED outbox /\ StepTo(w, [server[w] EXCEPT !.at = "reply", !.frame = inbox[w]])

\* The payload does not come: the client has died, or it is too slow.
PayloadFails(w) ==
    /\ At(w, "reply") /\ server[w].frame = "cut"
    /\ DisconnectAndClose(w)
    /\ StepTo(w, Returned(server[w], IF pipe[w] = "gone" THEN "closed" ELSE "timeout"))

\* The gate, and the list of SIDs.
DefaultClientGate(w) == server[w].identified /\ peer[w] \notin Barred

TurnedAway(w) ==
    /\ At(w, "reply") /\ server[w].frame # "cut"
    /\ ~DefaultClientGate(w)
    /\ Write(w, "Unauthorized")
    /\ UNCHANGED <<pipe, peer, inbox>>
    /\ StepTo(w, Emit([server[w] EXCEPT !.at = "drain", !.frame = "none", !.result = "failed",
                                      !.told = @ \cup {"Unauthorized"}], "Unauthorized"))

DefaultHandler(kind) ==
    CASE kind = "good" -> "Ack"
      [] kind = "badToken" -> "AuthFailed"
      [] kind = "badFacts" -> "InvalidFacts"
      [] OTHER -> "none"

HandlerFails(w) ==
    /\ At(w, "reply") /\ server[w].frame = "unsupported" /\ DefaultClientGate(w)
    /\ Write(w, "HandlerFailed")
    /\ UNCHANGED <<pipe, peer, inbox>>
    /\ StepTo(w, [server[w] EXCEPT !.at = "drain", !.frame = "none", !.result = "failed"])

AfterReply(s, reply) ==
    [s EXCEPT !.frames = @ + 1, !.frame = "none", !.authRejected = (@ \/ reply = "AuthFailed"),
              !.told = @ \cup ({reply} \cap {"AuthFailed"}),
              !.at = IF LimitedFrames THEN "drain" ELSE "header",
              !.result = IF LimitedFrames THEN "served" ELSE @]

\* The handler's reply is written.
SendReply(w) ==
    LET reply == DefaultHandler(server[w].frame) IN
    /\ At(w, "reply") /\ reply # "none" /\ DefaultClientGate(w)
    /\ pipe[w] = "connected"
    /\ Write(w, reply)
    /\ UNCHANGED <<pipe, peer, inbox>>
    /\ StepTo(w, AfterReply(server[w], reply))

\* It is not: the client is gone or too slow, or the summary of its facts is too long.
ReplyFails(w) ==
    LET reply == DefaultHandler(server[w].frame) IN
    /\ At(w, "reply") /\ reply # "none" /\ DefaultClientGate(w)
    /\ DisconnectAndClose(w)
    /\ \/ StepTo(w, Returned(server[w], IF pipe[w] = "gone" THEN "closed" ELSE "timeout"))
       \/ reply = "Ack" /\ StepTo(w, Returned(server[w], "failed"))

\* Mutant of Ended: a client that was served to the end counts as accepted.
EndedAccepted(s) ==
    Returned(IF s.result = "served" THEN Emit(s, "Accepted") ELSE s, s.result)

\* After the drain: a session that ended well gives its verdict.
Ended(s) ==
    Returned(IF s.result = "served"
             THEN Emit(s, IF s.authRejected THEN "AuthFailed" ELSE "Accepted")
             ELSE s, s.result)

\* Mutant of DrainEnds: the server does not wait for the client to read.
DrainSkipped(w) ==
    /\ At(w, "drain")
    /\ DisconnectAndClose(w)
    /\ StepTo(w, Ended(server[w]))

\* The drain's read ends: the client has closed, or there is a byte that nobody wanted.
DrainEnds(w) ==
    /\ At(w, "drain")
    /\ pipe[w] = "gone" \/ inbox[w] # "none" \/ server[w].leftover
    /\ DisconnectAndClose(w)
    /\ StepTo(w, Ended(server[w]))

DrainTimesOut(w) ==
    /\ At(w, "drain")
    /\ DisconnectAndClose(w)
    /\ server' = [server EXCEPT ![w] = Ended(@)]
    /\ slow' = TRUE
    /\ UNCHANGED <<ipcMode, windowOver, caller>>

ServeLoop(w) ==
    \/ CreateAndListen(w) \/ CreateFails(w) \/ CloseSession(w)
    \/ AcceptClient(w) \/ Accepted(w) \/ AcceptTimesOut(w)
    \/ HeaderFails(w) \/ HeaderTimesOut(w) \/ ReadFrame(w) \/ PayloadFails(w)
    \/ TurnedAway(w) \/ HandlerFails(w) \/ SendReply(w) \/ ReplyFails(w)
    \/ DrainEnds(w) \/ DrainTimesOut(w)

WindowEnds ==
    /\ ~windowOver
    /\ windowOver' = TRUE /\ slow' = FALSE
    /\ UNCHANGED <<ipcMode, pipe, peer, inbox, outbox, server, caller>>

----------------------------------------------------------------------------
(* A client: IpcRoundTrip or, with more than one frame, IpcRoundTripSession.*)

Speak(c, r) ==
    /\ caller' = [caller EXCEPT ![c] = r]
    /\ slow' = FALSE
    /\ UNCHANGED <<ipcMode, windowOver, server>>

Linked(c) == caller[c].on \in Workers /\ peer[caller[c].on] = c

\* The client's handle is closed; what it has written can still be read.
HangUp(c) ==
    /\ IF Linked(c)
       THEN pipe' = [pipe EXCEPT ![caller[c].on] = "gone"] /\ UNCHANGED <<peer, inbox, outbox>>
       ELSE UNCHANGED pipeVars
    /\ Speak(c, [at |-> "end", on |-> "nowhere", left |-> 0])

Connect(c) ==
    /\ caller[c].at = "connect"
    /\ \E w \in Workers, frames \in 1..MaxFrames :
          /\ pipe[w] = "listening"
          /\ pipe' = [pipe EXCEPT ![w] = "connected"]
          /\ peer' = [peer EXCEPT ![w] = c]
          /\ Speak(c, [at |-> "send", on |-> w, left |-> frames])
    /\ UNCHANGED <<inbox, outbox>>

\* There is no pipe, or every instance stays busy for too long.
ConnectFails(c) ==
    /\ caller[c].at = "connect"
    /\ \A w \in Workers : pipe[w] # "listening"
    /\ HangUp(c)

Send(c, kind) ==
    /\ caller[c].at = "send" /\ Linked(c)
    /\ inbox' = [inbox EXCEPT ![caller[c].on] = kind]
    /\ Speak(c, [caller[c] EXCEPT !.at = "receive", !.left = @ - 1])
    /\ UNCHANGED <<pipe, peer, outbox>>

\* The last reply ends the connection, and so does one other than Ack with the program's own
\* clients; others may send on.
Receive(c) ==
    /\ caller[c].at = "receive" /\ Linked(c) /\ outbox[caller[c].on] # "none"
    /\ LET w == caller[c].on IN
       /\ outbox' = [outbox EXCEPT ![w] = "none"]
       /\ UNCHANGED <<peer, inbox>>
       /\ \/ /\ caller[c].left > 0
             /\ UNCHANGED pipe
             /\ Speak(c, [caller[c] EXCEPT !.at = "send"])
          \/ /\ outbox[w] # "Ack" \/ caller[c].left = 0
             /\ pipe' = [pipe EXCEPT ![w] = "gone"]
             /\ Speak(c, [at |-> "end", on |-> "nowhere", left |-> 0])

\* A timeout, a broken pipe or the end of the client's process.
GiveUp(c) == caller[c].at \in {"send", "receive"} /\ HangUp(c)

Client(c) ==
    \/ Connect(c) \/ ConnectFails(c) \/ Receive(c) \/ GiveUp(c)
    \/ \E kind \in Kinds : Send(c, kind)

SessionDone == /\ \A w \in Workers : At(w, "done") /\ pipe[w] = "none"
               /\ UNCHANGED sessionVars

SessionNext ==
    \/ \E w \in Workers : ServeLoop(w)
    \/ WindowEnds
    \/ \E c \in Clients : Client(c)
    \/ SessionDone

\* Servers are threads that run, every wait of theirs has a timeout, and the window ends;
\* a client may hang.
SessionFairness ==
    /\ \A w \in Workers : WF_sessionVars(ServeLoop(w))
    /\ WF_sessionVars(WindowEnds)

SessionSpec == SessionInit /\ [][SessionNext]_sessionVars /\ SessionFairness

----------------------------------------------------------------------------
(* Properties.                                                             *)

\* Types of the pipe instances, the servers and the clients.
SessionTypeOK ==
    /\ ipcMode \in ServerModes
    /\ pipe \in [Workers -> {"none", "listening", "connected", "gone", "disconnected"}]
    /\ peer \in [Workers -> Clients \cup {"nobody"}]
    /\ inbox \in [Workers -> Kinds \cup {"none"}]
    /\ \A w \in Workers :
          /\ server[w].at \in {"call", "accept", "listen", "header", "reply", "drain", "done"}
          /\ server[w].frames \in 0..MaxFrames
    /\ \A c \in Clients : caller[c].at \in {"connect", "send", "receive", "end"}

\* Clients are let go, and not too early.  A server cuts off a client that has not read its
\* reply only if the client took longer than the drain waits ("先“排空读”等待对端读完"), or if
\* the reply was to an invalid header, whose payload ends the drain at once.  And ServeLoop
\* never returns with a client that it has accepted still on its instance, where nobody
\* else could connect: that is left to clients that come and go between two accepts.
ClientsAreReleased ==
    [][\A w \in Workers :
          /\ /\ pipe[w] = "connected" /\ outbox[w] # "none"
             /\ pipe'[w] \in {"disconnected", "none"}
             => slow' \/ server[w].leftover
          /\ /\ server[w].at \in {"header", "reply", "drain"}
             /\ server'[w].at \in {"call", "done"}
             => pipe'[w] \in {"disconnected", "none"}]_sessionVars

\* The observer hears of a client at most once, and of each client that ServeLoop has
\* served to the end or turned away exactly what the client was told: a rejection if any
\* of its replies was one ("凭据失败优先于正常受理上报").
VerdictMatchesReplies ==
    \A w \in Workers :
        /\ server[w].verdicts[2] <= 1
        /\ server[w].at \in {"call", "done"} /\ (server[w].result = "served" \/ LimitedFrames) =>
              /\ "AuthFailed" \in server[w].told <=> server[w].verdicts[1] = "AuthFailed"
              /\ "Unauthorized" \in server[w].told <=> server[w].verdicts[1] = "Unauthorized"

\* Every server returns, whatever its clients do: its instance is closed once the window
\* is over ("窗口到期 join 全部 worker").
ServersReturn == <>(\A w \in Workers : At(w, "done") /\ pipe[w] = "none")
=============================================================================
