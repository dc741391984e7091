---------------------------- MODULE ServiceProofs ----------------------------
(***************************************************************************)
(* The service and its clients, for any number of servers and clients: the *)
(* observer of a server hears what a client was told, every client that a  *)
(* server took on is let go (IpcSession), the next start learns from the   *)
(* session marker how the last session ended (IntakeHost), and the guard   *)
(* of the intake knows at every moment whether to pause (SafeModeTiming).  *)
(***************************************************************************)
EXTENDS IpcSession, IntakeHost, SafeModeTiming, TLAPS

----------------------------------------------------------------------------
(* What the observer of a server hears.                                    *)

Fields == {"at", "frames", "frame", "authRejected", "result", "identified", "leftover", "told",
           "verdicts"}

ServerShape(s) ==
    /\ DOMAIN s = Fields
    /\ s.at \in {"call", "accept", "listen", "header", "reply", "drain", "done"}
    /\ s.frames \in Nat
    /\ s.told \subseteq {"AuthFailed", "Unauthorized"}
    /\ s.verdicts[2] \in Nat

\* The observer has heard nothing yet, and authRejected stands for what it will hear.
Unheard(s) ==
    /\ s.verdicts = <<"none", 0>>
    /\ s.told \subseteq {"AuthFailed"}
    /\ s.authRejected <=> "AuthFailed" \in s.told

\* Where the client has had no reply, or may have had some that were not to its last frame.
Fresh(s) == Unheard(s) /\ (LimitedFrames => s.told = {})

Rejected(s) ==
    /\ s.verdicts = <<"Unauthorized", 1>>
    /\ "Unauthorized" \in s.told
    /\ LimitedFrames => s.told = {"Unauthorized"}

\* What VerdictMatchesReplies says of a server that has returned.
Matches(s) ==
    /\ s.verdicts[2] <= 1
    /\ s.result = "served" \/ LimitedFrames =>
          /\ "AuthFailed" \in s.told <=> s.verdicts[1] = "AuthFailed"
          /\ "Unauthorized" \in s.told <=> s.verdicts[1] = "Unauthorized"

Hears(s) ==
    /\ s.at \in {"accept", "listen", "header", "reply"} => Fresh(s)
    /\ s.at = "drain" =>
          \/ s.result = "served" /\ Unheard(s)
          \/ s.result = "failed" /\ (Fresh(s) \/ Rejected(s))
    /\ s.at \in {"call", "done"} => Matches(s)

VerdictInv ==
    /\ DOMAIN server = Workers
    /\ \A w \in Workers : ServerShape(server[w]) /\ Hears(server[w])

\* A call of ServeLoop begins with nothing heard.
LEMMA IdleHears ==
    ASSUME NEW at \in {"call", "accept", "done"}
    PROVE  /\ ServerShape(Idle(at)) /\ Hears(Idle(at)) /\ Fresh(Idle(at))
           /\ Idle(at).frames = 0 /\ Idle(at).at = at
<1>1. ServerShape(Idle(at)) /\ Idle(at).frames = 0 /\ Idle(at).at = at
  BY DEF ServerShape, Idle, Fields
<1>2. Idle(at).told = {} /\ Idle(at).verdicts = <<"none", 0>> /\ ~Idle(at).authRejected
  BY DEF Idle
<1>3. QED
  BY <1>1, <1>2 DEF Hears, Fresh, Unheard, Matches

\* It returns what its locals were.
LEMMA ReturnedIs ==
    ASSUME NEW s, NEW result
    PROVE  LET r == Returned(s, result) IN
           /\ DOMAIN r = Fields /\ r.at \in {"call", "done"} /\ r.frames = 0
           /\ r.told = s.told /\ r.verdicts = s.verdicts /\ r.result = result
BY DEF Returned, Idle, Fields

\* A call that returns with nothing more to tell has told what there was.
LEMMA ReturnedHears ==
    ASSUME NEW s, NEW result, ServerShape(s), Fresh(s), result # "served"
    PROVE  ServerShape(Returned(s, result)) /\ Hears(Returned(s, result))
<1> DEFINE r == Returned(s, result)
<1>1. /\ DOMAIN r = Fields /\ r.at \in {"call", "done"} /\ r.frames = 0
      /\ r.told = s.told /\ r.verdicts = s.verdicts /\ r.result = result
  BY ReturnedIs
<1> HIDE DEF r
<1>2. ServerShape(r)
  BY <1>1 DEF ServerShape
<1>3. Hears(r)
  BY <1>1 DEF Hears, Matches, Fresh, Unheard
<1>4. QED
  BY <1>2, <1>3 DEF r

\* And after the drain it tells the observer what the client was told.
LEMMA EndedHears ==
    ASSUME NEW s, ServerShape(s), Hears(s), s.at = "drain"
    PROVE  ServerShape(Ended(s)) /\ Hears(Ended(s)) /\ Ended(s).at \in {"call", "done"}
<1> DEFINE e == Emit(s, IF s.authRejected THEN "AuthFailed" ELSE "Accepted")
           before == IF s.result = "served" THEN e ELSE s
           r == Returned(before, s.result)
<1>1. e.told = s.told /\ e.verdicts = <<IF s.authRejected THEN "AuthFailed" ELSE "Accepted",
                                        s.verdicts[2] + 1>>
  BY DEF Emit, ServerShape, Fields
<1>2. /\ DOMAIN r = Fields /\ r.at \in {"call", "done"} /\ r.frames = 0
      /\ r.told = before.told /\ r.verdicts = before.verdicts /\ r.result = s.result
  BY ReturnedIs
<1>3. Ended(s) = r
  BY DEF Ended
<1> HIDE DEF e, r
<1>4. CASE s.result = "served"
  <2>1. /\ r.told = s.told
        /\ r.verdicts = <<IF s.authRejected THEN "AuthFailed" ELSE "Accepted", 1>>
    BY <1>1, <1>2, <1>4 DEF Hears, Unheard
  <2>2. Unheard(s)
    BY <1>4 DEF Hears
  <2>3. ServerShape(r)
    BY <1>2, <2>1 DEF ServerShape
  <2>4. Matches(r)
    BY <2>1, <2>2 DEF Matches, Unheard
  <2>5. QED
    BY <1>2, <1>3, <2>3, <2>4 DEF Hears
<1>5. CASE s.result # "served"
  <2>1. r.told = s.told /\ r.verdicts = s.verdicts /\ r.result = s.result
    BY <1>2, <1>5
  <2>2. Fresh(s) \/ Rejected(s)
    BY <1>5 DEF Hears
  <2>3. ServerShape(r)
    BY <1>2, <2>1 DEF ServerShape
  <2>4. Matches(r)
    BY <1>5, <2>1, <2>2 DEF Matches, Fresh, Unheard, Rejected
  <2>5. QED
    BY <1>2, <1>3, <2>3, <2>4 DEF Hears
<1>6. QED
  BY <1>4, <1>5

\* What a step of one server has to show.
LEMMA ServerSteps ==
    ASSUME VerdictInv, NEW w \in Workers, NEW s, server' = [server EXCEPT ![w] = s],
           UNCHANGED ipcMode, ServerShape(s), Hears(s)
    PROVE  VerdictInv'
<1>1. DOMAIN server' = Workers /\ \A k \in Workers : server'[k] \in {s, server[k]}
  BY DEF VerdictInv
<1>2. \A k \in Workers : ServerShape(server'[k]) /\ Hears(server'[k])
  BY <1>1 DEF VerdictInv
<1>3. \A k \in Workers : ServerShape(server[k])' /\ Hears(server[k])'
  BY <1>2 DEF ServerShape, Hears, Fresh, Unheard, Rejected, Matches, LimitedFrames
<1>4. QED
  BY <1>1, <1>3 DEF VerdictInv

\* Where a server moves while nothing is told to its client.
LEMMA PlaceHears ==
    ASSUME NEW s, ServerShape(s), Hears(s), s.at \in {"accept", "listen", "header", "reply"},
           NEW r, DOMAIN r = Fields, r.frames = s.frames, r.told = s.told,
           r.authRejected = s.authRejected, r.verdicts = s.verdicts,
           \/ r.at \in {"listen", "header", "reply"}
           \/ r.at = "drain" /\ r.result \in {"served", "failed"}
    PROVE  ServerShape(r) /\ Hears(r)
<1>1. Fresh(s)
  BY DEF Hears
<1>2. Fresh(r)
  BY <1>1 DEF Fresh, Unheard
<1>3. ServerShape(r)
  BY DEF ServerShape
<1>4. QED
  BY <1>2, <1>3 DEF Hears, Fresh

\* Every step of ServeLoop keeps the observer in step with the client.
LEMMA ServeLoopHears ==
    ASSUME VerdictInv, NEW w \in Workers, ServeLoop(w)
    PROVE  VerdictInv'
<1> DEFINE s == server[w]
<1>1. ServerShape(s) /\ Hears(s) /\ DOMAIN s = Fields
  BY DEF VerdictInv, ServerShape
<1>2. ASSUME NEW r, ServerShape(r), Hears(r), server' = [server EXCEPT ![w] = r],
             UNCHANGED ipcMode
      PROVE  VerdictInv'
  BY <1>2, ServerSteps, Zenon
<1>3. CASE CreateAndListen(w)
  BY <1>2, <1>3, IdleHears, Zenon DEF CreateAndListen, StepTo
<1>4. CASE CloseSession(w)
  BY <1>2, <1>4, IdleHears, Zenon DEF CloseSession, StepTo
<1>5. CASE CreateFails(w)
  <2>1. StepTo(w, Returned(Idle("call"), "failed"))
    BY <1>5 DEF CreateFails
  <2>2. ServerShape(Idle("call")) /\ Fresh(Idle("call")) /\ "failed" # "served"
    BY IdleHears
  <2>3. QED
    BY <1>2, <2>1, <2>2, ReturnedHears, Zenon DEF StepTo
<1>6. ASSUME NEW result, result # "served", s.at \in {"accept", "listen", "header", "reply"},
             StepTo(w, Returned(s, result))
      PROVE  VerdictInv'
  BY <1>1, <1>2, <1>6, ReturnedHears, Zenon DEF StepTo, Hears
<1>7. ASSUME NEW r, StepTo(w, r), s.at \in {"accept", "listen", "header", "reply"},
             DOMAIN r = Fields, r.frames = s.frames, r.told = s.told,
             r.authRejected = s.authRejected, r.verdicts = s.verdicts,
             \/ r.at \in {"listen", "header", "reply"}
             \/ r.at = "drain" /\ r.result \in {"served", "failed"}
      PROVE  VerdictInv'
  <2>1. ServerShape(r) /\ Hears(r)
    BY <1>1, <1>7, PlaceHears
  <2>2. QED
    BY <1>2, <1>7, <2>1, Zenon DEF StepTo
<1>8. CASE AcceptClient(w)
  <2>1. CASE StepTo(w, [s EXCEPT !.at = "listen"])
    <3> DEFINE r == [s EXCEPT !.at = "listen"]
    <3>1. /\ DOMAIN r = Fields /\ r.frames = s.frames /\ r.told = s.told
          /\ r.authRejected = s.authRejected /\ r.verdicts = s.verdicts /\ r.at = "listen"
      BY <1>1 DEF Fields
    <3> HIDE DEF r
    <3>2. QED
      BY <1>7, <1>8, <2>1, <3>1, Zenon DEF AcceptClient, At, r
  <2>2. CASE StepTo(w, [s EXCEPT !.at = "header"])
    <3> DEFINE r == [s EXCEPT !.at = "header"]
    <3>1. /\ DOMAIN r = Fields /\ r.frames = s.frames /\ r.told = s.told
          /\ r.authRejected = s.authRejected /\ r.verdicts = s.verdicts /\ r.at = "header"
      BY <1>1 DEF Fields
    <3> HIDE DEF r
    <3>2. QED
      BY <1>7, <1>8, <2>2, <3>1, Zenon DEF AcceptClient, At, r
  <2>3. CASE StepTo(w, Returned(s, "closed"))
    BY <1>6, <1>8, <2>3 DEF AcceptClient, At
  <2>4. QED
    BY <1>8, <2>1, <2>2, <2>3 DEF AcceptClient
<1>9. CASE Accepted(w)
  <2>1. PICK known : StepTo(w, [s EXCEPT !.at = "header", !.identified = known])
    BY <1>9, Zenon DEF Accepted
  <2> DEFINE r == [s EXCEPT !.at = "header", !.identified = known]
  <2>2. /\ DOMAIN r = Fields /\ r.frames = s.frames /\ r.told = s.told
        /\ r.authRejected = s.authRejected /\ r.verdicts = s.verdicts /\ r.at = "header"
    BY <1>1 DEF Fields
  <2> HIDE DEF r
  <2>3. QED
    BY <1>7, <1>9, <2>1, <2>2, Zenon DEF Accepted, At, r
<1>10. CASE AcceptTimesOut(w)
  BY <1>6, <1>10 DEF AcceptTimesOut, At
<1>11. ASSUME NEW result \in {"closed", "timeout"}, At(w, "header"), NoFrame(w, result)
       PROVE  VerdictInv'
  <2>1. CASE s.frames > 0
    <3> DEFINE r == [s EXCEPT !.at = "drain", !.result = "served"]
    <3>1. /\ DOMAIN r = Fields /\ r.frames = s.frames /\ r.told = s.told
          /\ r.authRejected = s.authRejected /\ r.verdicts = s.verdicts
          /\ r.at = "drain" /\ r.result = "served"
      BY <1>1 DEF Fields
    <3>2. StepTo(w, r)
      BY <1>11, <2>1 DEF NoFrame
    <3> HIDE DEF r
    <3>3. QED
      BY <1>7, <1>11, <3>1, <3>2 DEF At
  <2>2. CASE ~(s.frames > 0)
    BY <1>6, <1>11, <2>2 DEF NoFrame, At
  <2>3. QED
    BY <2>1, <2>2
<1>12. CASE HeaderFails(w) \/ HeaderTimesOut(w)
  BY <1>11, <1>12 DEF HeaderFails, HeaderTimesOut
<1>13. CASE ReadFrame(w)
  <2>1. CASE inbox[w] = "badHeader"
    <3> DEFINE r == [s EXCEPT !.at = "drain", !.result = "failed", !.leftover = TRUE]
    <3>1. /\ DOMAIN r = Fields /\ r.frames = s.frames /\ r.told = s.told
          /\ r.authRejected = s.authRejected /\ r.verdicts = s.verdicts
          /\ r.at = "drain" /\ r.result = "failed"
      BY <1>1 DEF Fields
    <3>2. StepTo(w, r)
      BY <1>13, <2>1 DEF ReadFrame
    <3> HIDE DEF r
    <3>3. QED
      BY <1>7, <1>13, <3>1, <3>2 DEF At, ReadFrame
  <2>2. CASE inbox[w] # "badHeader"
    <3> DEFINE r == [s EXCEPT !.at = "reply", !.frame = inbox[w]]
    <3>1. /\ DOMAIN r = Fields /\ r.frames = s.frames /\ r.told = s.told
          /\ r.authRejected = s.authRejected /\ r.verdicts = s.verdicts /\ r.at = "reply"
      BY <1>1 DEF Fields
    <3>2. StepTo(w, r)
      BY <1>13, <2>2 DEF ReadFrame
    <3> HIDE DEF r
    <3>3. QED
      BY <1>7, <1>13, <3>1, <3>2 DEF At, ReadFrame
  <2>3. QED
    BY <2>1, <2>2
<1>14. CASE PayloadFails(w)
  BY <1>6, <1>14 DEF PayloadFails, At
<1>15. CASE TurnedAway(w)
  <2> DEFINE t == [s EXCEPT !.at = "drain", !.frame = "none", !.result = "failed",
                            !.told = s.told \cup {"Unauthorized"}]
             r == Emit(t, "Unauthorized")
  <2>1. StepTo(w, r) /\ s.at = "reply"
    BY <1>1, <1>15 DEF TurnedAway, At
  <2>2. /\ DOMAIN t = Fields /\ t.frames = s.frames /\ t.told = s.told \cup {"Unauthorized"}
        /\ t.verdicts = s.verdicts /\ t.at = "drain" /\ t.result = "failed"
    BY <1>1 DEF Fields
  <2> HIDE DEF t
  <2>3. Fresh(s)
    BY <1>1, <2>1 DEF Hears
  <2>4. /\ DOMAIN r = Fields /\ r.frames = s.frames /\ r.told = s.told \cup {"Unauthorized"}
        /\ r.at = "drain" /\ r.result = "failed" /\ r.verdicts = <<"Unauthorized", 1>>
    BY <2>2, <2>3 DEF Emit, Fields, Fresh, Unheard
  <2> HIDE DEF r
  <2>5. ServerShape(r)
    BY <1>1, <2>4 DEF ServerShape
  <2>6. Rejected(r)
    BY <2>3, <2>4 DEF Rejected, Fresh
  <2>7. QED
    BY <1>2, <2>1, <2>4, <2>5, <2>6, Zenon DEF StepTo, Hears
<1>16. CASE HandlerFails(w)
  <2> DEFINE r == [s EXCEPT !.at = "drain", !.frame = "none", !.result = "failed"]
  <2>1. /\ DOMAIN r = Fields /\ r.frames = s.frames /\ r.told = s.told
        /\ r.authRejected = s.authRejected /\ r.verdicts = s.verdicts
        /\ r.at = "drain" /\ r.result = "failed"
    BY <1>1 DEF Fields
  <2>2. StepTo(w, r) /\ s.at = "reply"
    BY <1>16 DEF HandlerFails, At
  <2> HIDE DEF r
  <2>3. QED
    BY <1>7, <2>1, <2>2
<1>17. CASE SendReply(w)
  <2> DEFINE reply == DefaultHandler(s.frame)
             r == AfterReply(s, reply)
  <2>1. s.at = "reply" /\ Fresh(s)
    BY <1>1, <1>17 DEF SendReply, At, Hears
  <2>2. StepTo(w, r)
    BY <1>17, Zenon DEF SendReply
  <2>3. /\ DOMAIN r = Fields /\ r.frames = s.frames + 1 /\ r.verdicts = s.verdicts
        /\ r.told = s.told \cup ({reply} \cap {"AuthFailed"})
        /\ r.at = (IF LimitedFrames THEN "drain" ELSE "header")
        /\ r.result = (IF LimitedFrames THEN "served" ELSE s.result)
    BY <1>1 DEF Fields, AfterReply
  <2>4. r.authRejected <=> s.authRejected \/ reply = "AuthFailed"
    BY <1>1, Zenon DEF Fields, AfterReply
  <2> HIDE DEF r, reply
  <2>5. Unheard(r)
    BY <2>1, <2>3, <2>4, Zenon DEF Fresh, Unheard
  <2>6. ServerShape(r)
    BY <1>1, <2>3 DEF ServerShape
  <2>7. Hears(r)
    BY <2>3, <2>5 DEF Hears, Fresh
  <2>8. QED
    BY <1>2, <2>2, <2>6, <2>7, Zenon DEF StepTo
<1>18. CASE ReplyFails(w)
  <2>1. PICK result \in {"closed", "timeout", "failed"} : StepTo(w, Returned(s, result))
    BY <1>18 DEF ReplyFails
  <2>2. s.at = "reply" /\ result # "served"
    BY <1>18, <2>1 DEF ReplyFails, At
  <2>3. QED
    BY <1>6, <2>1, <2>2, Zenon
<1>19. CASE DrainEnds(w) \/ DrainTimesOut(w)
  <2>1. s.at = "drain" /\ server' = [server EXCEPT ![w] = Ended(s)] /\ UNCHANGED ipcMode
    BY <1>19 DEF DrainEnds, DrainTimesOut, At, StepTo
  <2>2. QED
    BY <1>1, <1>2, <2>1, EndedHears, Zenon
<1>20. QED
  BY <1>3, <1>4, <1>8, <1>9, <1>10, <1>12, <1>13, <1>14, <1>15, <1>16, <1>17, <1>19, <1>5, <1>18
  DEF ServeLoop

\* The invariant of the servers.
LEMMA VerdictInvariant == SessionSpec => []VerdictInv
<1>1. SessionInit => VerdictInv
  <2> SUFFICES ASSUME SessionInit
               PROVE  VerdictInv
    OBVIOUS
  <2>1. DOMAIN server = Workers /\ \A w \in Workers : server[w] \in {Idle("call"), Idle("done")}
    BY DEF SessionInit
  <2>2. QED
    BY <2>1, IdleHears DEF VerdictInv
<1>2. VerdictInv /\ [SessionNext]_sessionVars => VerdictInv'
  <2> SUFFICES ASSUME VerdictInv, [SessionNext]_sessionVars
               PROVE  VerdictInv'
    OBVIOUS
  <2>1. ASSUME NEW w \in Workers, ServeLoop(w) PROVE VerdictInv'
    BY <2>1, ServeLoopHears
  <2>2. CASE UNCHANGED <<ipcMode, server>>
    BY <2>2 DEF VerdictInv, ServerShape, Hears, Fresh, Unheard, Rejected, Matches, LimitedFrames
  <2>3. ASSUME NEW c \in Clients, Client(c) PROVE UNCHANGED <<ipcMode, server>>
    BY <2>3 DEF Client, Connect, ConnectFails, Receive, GiveUp, Send, HangUp, Speak
  <2>4. QED
    BY <2>1, <2>2, <2>3 DEF SessionNext, SessionDone, WindowEnds, sessionVars
<1>3. QED
  BY <1>1, <1>2, PTL DEF SessionSpec

\* The host's observer hears of each client once, and what the client was told, for any
\* servers, clients, frames and timeouts.
THEOREM ObserverHearsReplies == SessionSpec => []VerdictMatchesReplies
<1>1. VerdictInv => VerdictMatchesReplies
  <2> SUFFICES ASSUME VerdictInv, NEW w \in Workers
               PROVE  /\ server[w].verdicts[2] <= 1
                      /\ server[w].at \in {"call", "done"} => Matches(server[w])
    BY DEF VerdictMatchesReplies, Matches
  <2>1. Hears(server[w]) /\ ServerShape(server[w])
    BY DEF VerdictInv
  <2>2. QED
    BY <2>1 DEF Hears, ServerShape, Fresh, Unheard, Rejected, Matches
<1>2. QED
  BY <1>1, VerdictInvariant, PTL

----------------------------------------------------------------------------
(* Clients are let go.                                                     *)

Pipes == {"none", "listening", "connected", "gone", "disconnected"}

\* An instance and its client know of each other, and one of the two has gone when they
\* do not; what is on its way belongs to them.
Paired(w) ==
    /\ pipe[w] \in {"none", "listening", "disconnected"} =>
          peer[w] = "nobody" /\ inbox[w] = "none" /\ outbox[w] = "none"
    /\ pipe[w] = "connected" =>
          /\ peer[w] \in Clients
          /\ caller[peer[w]].at \in {"send", "receive"} /\ caller[peer[w]].on = w
    /\ pipe[w] = "gone" => peer[w] \in Clients /\ caller[peer[w]].at = "end"

\* Frames and replies take turns: a frame is on its way only when the reply to the last
\* one has been read, and a reply only to a client that waits for it.
TakesTurns(w) ==
    pipe[w] = "connected" =>
        /\ inbox[w] # "none" => outbox[w] = "none"
        /\ server[w].at = "reply" => inbox[w] = "none" /\ outbox[w] = "none"
        /\ caller[peer[w]].at = "send" =>
              inbox[w] = "none" /\ outbox[w] = "none" /\ server[w].at # "reply"
        /\ outbox[w] # "none" =>
              \/ server[w].at = "drain"
              \/ server[w].at = "header" /\ server[w].frames > 0

\* A client is served where there is one.
Serves(w) ==
    server[w].at \in {"header", "reply", "drain"} => pipe[w] \in {"connected", "gone"}

PipeInv ==
    /\ DOMAIN pipe = Workers /\ DOMAIN peer = Workers
    /\ DOMAIN inbox = Workers /\ DOMAIN outbox = Workers
    /\ DOMAIN caller = Clients
    /\ \A c \in Clients : DOMAIN caller[c] = {"at", "on", "left"}
    /\ \A w \in Workers : pipe[w] \in Pipes /\ Paired(w) /\ TakesTurns(w) /\ Serves(w)
    /\ \A w \in Workers : server[w].at \in {"accept", "listen"} => server[w].frames = 0

\* What ClientsAreReleased says of one server and one step.
Releases(w) ==
    /\ /\ pipe[w] = "connected" /\ outbox[w] # "none"
       /\ pipe'[w] \in {"disconnected", "none"}
       => slow' \/ server[w].leftover
    /\ /\ server[w].at \in {"header", "reply", "drain"}
       /\ server'[w].at \in {"call", "done"}
       => pipe'[w] \in {"disconnected", "none"}

\* A step that touches one instance w and its server, and leaves the clients alone.
Touches(w, r) ==
    /\ server' = [server EXCEPT ![w] = r]
    /\ UNCHANGED caller
    /\ DOMAIN pipe' = Workers /\ DOMAIN peer' = Workers
    /\ DOMAIN inbox' = Workers /\ DOMAIN outbox' = Workers
    /\ \A k \in Workers : k # w =>
          /\ pipe'[k] = pipe[k] /\ peer'[k] = peer[k]
          /\ inbox'[k] = inbox[k] /\ outbox'[k] = outbox[k]

\* What such a step has to show.
LEMMA ServerMoves ==
    ASSUME VerdictInv, PipeInv, NEW w \in Workers, NEW r, Touches(w, r),
           pipe'[w] \in Pipes, Paired(w)', TakesTurns(w)', Serves(w)', Releases(w),
           r.at \in {"accept", "listen"} => r.frames = 0
    PROVE  PipeInv' /\ \A k \in Workers : Releases(k)
<1>1. /\ DOMAIN pipe' = Workers /\ DOMAIN peer' = Workers
      /\ DOMAIN inbox' = Workers /\ DOMAIN outbox' = Workers
      /\ DOMAIN server' = Workers /\ server'[w] = r
      /\ \A k \in Workers : k # w =>
            /\ pipe'[k] = pipe[k] /\ peer'[k] = peer[k] /\ inbox'[k] = inbox[k]
            /\ outbox'[k] = outbox[k] /\ server'[k] = server[k]
  BY Zenon DEF PipeInv, VerdictInv, Touches
<1>2. ASSUME NEW k \in Workers, k # w
      PROVE  pipe'[k] \in Pipes /\ Paired(k)' /\ TakesTurns(k)' /\ Serves(k)'
  BY <1>1, <1>2, SMTT(30) DEF PipeInv, Paired, TakesTurns, Serves, Touches
<1>3. \A k \in Workers : server'[k].at \in {"accept", "listen"} => server'[k].frames = 0
  BY <1>1, Zenon DEF PipeInv
<1>4. PipeInv'
  BY <1>1, <1>2, <1>3, Zenon DEF PipeInv, Touches
<1>5. ASSUME NEW k \in Workers, k # w
      PROVE  Releases(k)
  BY <1>1, <1>5, Zenon DEF Releases, VerdictInv, ServerShape
<1>6. QED
  BY <1>4, <1>5

\* The instance is left as it is.
LEMMA InstanceStays ==
    ASSUME VerdictInv, PipeInv, NEW w \in Workers, NEW r,
           server' = [server EXCEPT ![w] = r], UNCHANGED caller, UNCHANGED pipeVars,
           r.at # "reply",
           r.at \in {"header", "drain"} => pipe[w] \in {"connected", "gone"},
           r.at \in {"accept", "listen"} => r.frames = 0,
           server[w].at \in {"header", "reply", "drain"} => r.at \notin {"call", "done"},
           pipe[w] = "connected" /\ outbox[w] # "none" =>
              r.at = "drain" \/ (r.at = "header" /\ r.frames > 0)
    PROVE  PipeInv' /\ \A k \in Workers : Releases(k)
<1>1. server'[w] = r
  BY DEF VerdictInv
<1>2. Touches(w, r)
  BY DEF pipeVars, PipeInv, Touches
<1>3. pipe'[w] \in Pipes /\ Paired(w)'
  BY DEF PipeInv, Paired, pipeVars
<1>4. TakesTurns(w)' /\ Serves(w)'
  BY <1>1 DEF PipeInv, TakesTurns, Serves, pipeVars
<1>5. Releases(w)
  BY <1>1 DEF Releases, pipeVars
<1>6. QED
  BY <1>2, <1>3, <1>4, <1>5, ServerMoves

\* DisconnectAndClose, at the end of a call.
LEMMA InstanceCleared ==
    ASSUME VerdictInv, PipeInv, NEW w \in Workers, NEW r,
           DisconnectAndClose(w) \/ ClosePipe(w),
           server' = [server EXCEPT ![w] = r], UNCHANGED caller,
           r.at \in {"call", "done"},
           pipe[w] = "connected" /\ outbox[w] # "none" => slow' \/ server[w].leftover
    PROVE  PipeInv' /\ \A k \in Workers : Releases(k)
<1>1. server'[w] = r
  BY DEF VerdictInv
<1>2. PICK p \in {"none", "disconnected"} :
         /\ pipe' = [pipe EXCEPT ![w] = p] /\ peer' = [peer EXCEPT ![w] = "nobody"]
         /\ inbox' = [inbox EXCEPT ![w] = "none"] /\ outbox' = [outbox EXCEPT ![w] = "none"]
  BY DEF DisconnectAndClose, DisconnectClient, ClosePipe
<1>3. Touches(w, r)
  BY <1>2 DEF Touches, PipeInv
<1>4. pipe'[w] = p /\ peer'[w] = "nobody" /\ inbox'[w] = "none" /\ outbox'[w] = "none"
  BY <1>2 DEF PipeInv
<1>5. pipe'[w] \in Pipes /\ Paired(w)' /\ TakesTurns(w)' /\ Serves(w)'
  BY <1>1, <1>4 DEF Pipes, Paired, TakesTurns, Serves
<1>6. Releases(w)
  BY <1>1, <1>4 DEF Releases
<1>7. QED
  BY <1>3, <1>5, <1>6, ServerMoves

\* A frame is answered, or taken to be answered.
LEMMA FrameTaken ==
    ASSUME VerdictInv, PipeInv, NEW w \in Workers, NEW r,
           UNCHANGED <<pipe, peer, caller>>, server' = [server EXCEPT ![w] = r],
           \/ inbox' = [inbox EXCEPT ![w] = "none"] /\ server[w].at = "header" /\ inbox[w] # "none"
           \/ inbox' = inbox /\ server[w].at = "reply",
           \/ outbox' = outbox /\ r.at = "reply"
           \/ /\ \E reply : Write(w, reply)
              /\ r.at = "drain" \/ (r.at = "header" /\ r.frames > 0)
    PROVE  PipeInv' /\ \A k \in Workers : Releases(k)
<1>1. server'[w] = r
  BY DEF VerdictInv
<1>2. pipe[w] = "connected" => outbox[w] = "none" /\ caller[peer[w]].at # "send"
  BY DEF PipeInv, TakesTurns
<1>3. pipe[w] # "connected" \/ r.at = "reply" => outbox'[w] = outbox[w]
  BY DEF Write, PipeInv
<1>4. pipe[w] = "connected" => inbox'[w] = "none"
  BY DEF PipeInv, TakesTurns
<1>5. inbox[w] = "none" => inbox'[w] = "none"
  BY DEF PipeInv
<1>6. DOMAIN outbox' = Workers /\ \A k \in Workers : k # w => outbox'[k] = outbox[k]
  BY DEF Write, PipeInv
<1>7. DOMAIN inbox' = Workers /\ \A k \in Workers : k # w => inbox'[k] = inbox[k]
  BY DEF PipeInv
<1>8. Touches(w, r)
  BY <1>6, <1>7 DEF Touches, PipeInv
<1>9. pipe'[w] \in Pipes /\ Paired(w)'
  BY <1>3, <1>5 DEF PipeInv, Paired
<1>10. TakesTurns(w)' /\ Serves(w)'
  BY <1>1, <1>2, <1>3, <1>4 DEF TakesTurns, Serves, PipeInv
<1>11. Releases(w)
  BY <1>1 DEF Releases, PipeInv
<1>12. QED
  BY <1>8, <1>9, <1>10, <1>11, ServerMoves

\* Every step of ServeLoop keeps frames and replies in turn, and lets a client go.
LEMMA ServeLoopReleases ==
    ASSUME VerdictInv, PipeInv, NEW w \in Workers, ServeLoop(w)
    PROVE  PipeInv' /\ \A k \in Workers : Releases(k)
<1> DEFINE s == server[w]
           Goal == PipeInv' /\ \A k \in Workers : Releases(k)
<1>1. ServerShape(s) /\ DOMAIN s = Fields /\ Paired(w) /\ TakesTurns(w) /\ Serves(w)
  BY Zenon DEF VerdictInv, ServerShape, PipeInv
<1>2. s.at \in {"accept", "listen"} => s.frames = 0
  BY DEF PipeInv
<1>3. ASSUME NEW r, StepTo(w, r), UNCHANGED pipeVars,
             r.at # "reply",
             r.at \in {"header", "drain"} => pipe[w] \in {"connected", "gone"},
             r.at \in {"accept", "listen"} => r.frames = 0,
             s.at \in {"header", "reply", "drain"} => r.at \notin {"call", "done"},
             pipe[w] = "connected" /\ outbox[w] # "none" =>
                r.at = "drain" \/ (r.at = "header" /\ r.frames > 0)
      PROVE  Goal
  BY <1>3, InstanceStays, Zenon DEF StepTo
<1>4. ASSUME NEW r, StepTo(w, r), DisconnectAndClose(w) \/ ClosePipe(w),
             r.at \in {"call", "done"},
             pipe[w] = "connected" /\ outbox[w] # "none" => s.leftover
      PROVE  Goal
  BY <1>4, InstanceCleared, Zenon DEF StepTo
<1>5. ASSUME NEW r, StepTo(w, r), UNCHANGED <<pipe, peer>>,
             \/ inbox' = [inbox EXCEPT ![w] = "none"] /\ s.at = "header" /\ inbox[w] # "none"
             \/ inbox' = inbox /\ s.at = "reply",
             \/ outbox' = outbox /\ r.at = "reply"
             \/ /\ \E reply : Write(w, reply)
                /\ r.at = "drain" \/ (r.at = "header" /\ r.frames > 0)
      PROVE  Goal
  BY <1>5, FrameTaken, Zenon DEF StepTo
<1>6. \A result : Returned(s, result).at \in {"call", "done"}
  BY ReturnedIs
<1>7. pipe[w] = "connected" /\ outbox[w] # "none" =>
         s.at = "drain" \/ (s.at = "header" /\ s.frames > 0)
  BY <1>1 DEF TakesTurns
<1>8. ASSUME NEW place \in {"accept", "call", "done"}
      PROVE  Idle(place).at = place /\ Idle(place).frames = 0
  BY IdleHears
<1>9. CASE CreateAndListen(w)
  <2>1. CASE UNCHANGED pipeVars
    BY <1>3, <1>7, <1>8, <1>9, <2>1 DEF CreateAndListen, At
  <2>2. CASE /\ pipe[w] = "none"
             /\ pipe' = [pipe EXCEPT ![w] = "listening"]
             /\ UNCHANGED <<peer, inbox, outbox>>
    <3> DEFINE r == Idle("accept")
    <3>1. /\ server' = [server EXCEPT ![w] = r] /\ UNCHANGED caller
          /\ pipe'[w] = "listening" /\ s.at = "call"
      BY <1>9, <2>2 DEF CreateAndListen, StepTo, PipeInv, At
    <3>2. Touches(w, r)
      BY <2>2, <3>1, Zenon DEF Touches, PipeInv
    <3>3. pipe'[w] \in Pipes /\ Paired(w)' /\ TakesTurns(w)' /\ Serves(w)'
      <4>1. server'[w].at = "accept"
        BY <1>8, <3>1 DEF VerdictInv
      <4>2. QED
        BY <1>1, <2>2, <3>1, <4>1, Zenon DEF Paired, TakesTurns, Serves, Pipes
    <3>4. Releases(w)
      BY <2>2, <3>1 DEF Releases
    <3>5. QED
      BY <1>8, <3>2, <3>3, <3>4, ServerMoves
  <2>3. QED
    BY <1>9, <2>1, <2>2 DEF CreateAndListen
<1>10. CASE CloseSession(w)
  BY <1>4, <1>7, <1>8, <1>10 DEF CloseSession, At
<1>11. CASE CreateFails(w)
  <2>1. PICK r : r = Returned(Idle("call"), "failed")
    OBVIOUS
  <2>2. r.at \in {"call", "done"}
    BY <2>1, ReturnedIs
  <2>3. s.at = "call" /\ pipe[w] = "none" /\ UNCHANGED pipeVars /\ StepTo(w, r)
    BY <1>11, <2>1, Zenon DEF CreateFails, At
  <2>4. QED
    BY <1>3, <2>2, <2>3
<1>12. CASE AcceptClient(w)
  <2>1. CASE /\ pipe[w] \in {"listening", "disconnected"}
             /\ pipe' = [pipe EXCEPT ![w] = "listening"]
             /\ UNCHANGED <<peer, inbox, outbox>>
             /\ StepTo(w, [s EXCEPT !.at = "listen"])
    <3> DEFINE r == [s EXCEPT !.at = "listen"]
    <3>1. /\ server' = [server EXCEPT ![w] = r] /\ UNCHANGED caller
          /\ pipe'[w] = "listening" /\ s.at = "accept"
      BY <1>12, <2>1 DEF AcceptClient, StepTo, PipeInv, At
    <3>2. r.at = "listen" /\ r.frames = 0
      BY <1>1, <1>2, <3>1 DEF Fields
    <3>3. Touches(w, r)
      BY <2>1, <3>1 DEF Touches, PipeInv
    <3>4. pipe'[w] \in Pipes /\ Paired(w)' /\ TakesTurns(w)' /\ Serves(w)'
      <4>1. server'[w].at = "listen"
        BY <3>1, <3>2 DEF VerdictInv
      <4>2. QED
        BY <1>1, <2>1, <3>1, <4>1 DEF Paired, TakesTurns, Serves, Pipes
    <3>5. Releases(w)
      BY <2>1, <3>1 DEF Releases
    <3>6. QED
      BY <3>2, <3>3, <3>4, <3>5, ServerMoves, Zenon
  <2>2. CASE /\ pipe[w] = "connected"
             /\ UNCHANGED pipeVars
             /\ StepTo(w, [s EXCEPT !.at = "header"])
    <3>1. s.at = "accept" /\ [s EXCEPT !.at = "header"].at = "header"
      BY <1>1, <1>12 DEF AcceptClient, At, Fields
    <3>2. QED
      BY <1>3, <1>7, <2>2, <3>1, Zenon
  <2>3. CASE /\ pipe[w] = "gone"
             /\ IF Persistent THEN UNCHANGED pipeVars ELSE ClosePipe(w)
             /\ StepTo(w, Returned(s, "closed"))
    BY <1>3, <1>4, <1>6, <1>12, <2>3 DEF AcceptClient, At
  <2>4. QED
    BY <1>12, <2>1, <2>2, <2>3 DEF AcceptClient
<1>13. CASE Accepted(w)
  <2>1. PICK known : StepTo(w, [s EXCEPT !.at = "header", !.identified = known])
    BY <1>13, Zenon DEF Accepted
  <2>2. s.at = "listen" /\ [s EXCEPT !.at = "header", !.identified = known].at = "header"
    BY <1>1, <1>13 DEF Accepted, At, Fields
  <2>3. QED
    BY <1>3, <1>7, <1>13, <2>1, <2>2, Zenon DEF Accepted
<1>14. CASE AcceptTimesOut(w)
  BY <1>3, <1>4, <1>6, <1>7, <1>14 DEF AcceptTimesOut, At
<1>15. ASSUME NEW result, At(w, "header"), NoFrame(w, result)
       PROVE  Goal
  <2>1. CASE s.frames > 0
    <3> DEFINE r == [s EXCEPT !.at = "drain", !.result = "served"]
    <3>1. r.at = "drain"
      BY <1>1 DEF Fields
    <3>2. StepTo(w, r) /\ UNCHANGED pipeVars
      BY <1>15, <2>1 DEF NoFrame
    <3>3. QED
      BY <1>1, <1>3, <1>15, <3>1, <3>2, Zenon DEF Serves, At
  <2>2. CASE ~(s.frames > 0)
    BY <1>4, <1>6, <1>7, <1>15, <2>2 DEF NoFrame, At
  <2>3. QED
    BY <2>1, <2>2
<1>16. CASE HeaderFails(w) \/ HeaderTimesOut(w)
  BY <1>15, <1>16 DEF HeaderFails, HeaderTimesOut
<1>17. CASE ReadFrame(w)
  <2>1. CASE inbox[w] = "badHeader"
    <3> DEFINE r == [s EXCEPT !.at = "drain", !.result = "failed", !.leftover = TRUE]
    <3>1. r.at = "drain"
      BY <1>1 DEF Fields
    <3>2. StepTo(w, r)
      BY <1>17, <2>1 DEF ReadFrame
    <3> HIDE DEF r
    <3>3. QED
      BY <1>5, <1>17, <2>1, <3>1, <3>2 DEF ReadFrame, At
  <2>2. CASE inbox[w] # "badHeader"
    <3> DEFINE r == [s EXCEPT !.at = "reply", !.frame = inbox[w]]
    <3>1. r.at = "reply"
      BY <1>1 DEF Fields
    <3>2. StepTo(w, r)
      BY <1>17, <2>2 DEF ReadFrame
    <3> HIDE DEF r
    <3>3. QED
      BY <1>5, <1>17, <2>2, <3>1, <3>2 DEF ReadFrame, At
  <2>3. QED
    BY <2>1, <2>2
<1>18. CASE PayloadFails(w)
  BY <1>4, <1>6, <1>7, <1>18 DEF PayloadFails, At
<1>19. CASE TurnedAway(w)
  <2> DEFINE t == [s EXCEPT !.at = "drain", !.frame = "none", !.result = "failed",
                            !.told = s.told \cup {"Unauthorized"}]
             r == Emit(t, "Unauthorized")
  <2>1. StepTo(w, r)
    BY <1>1, <1>19 DEF TurnedAway
  <2>2. t.at = "drain" /\ DOMAIN t = Fields
    BY <1>1 DEF Fields
  <2> HIDE DEF t
  <2>3. r.at = "drain"
    BY <2>2 DEF Emit, Fields
  <2> HIDE DEF r
  <2>4. QED
    BY <1>5, <1>19, <2>1, <2>3 DEF TurnedAway, At
<1>20. CASE HandlerFails(w)
  <2> DEFINE r == [s EXCEPT !.at = "drain", !.frame = "none", !.result = "failed"]
  <2>1. r.at = "drain" /\ StepTo(w, r)
    BY <1>1, <1>20 DEF Fields, HandlerFails
  <2> HIDE DEF r
  <2>2. QED
    BY <1>5, <1>20, <2>1 DEF HandlerFails, At
<1>21. CASE SendReply(w)
  <2> DEFINE reply == DefaultHandler(s.frame)
             r == AfterReply(s, reply)
  <2>1. s.at = "reply"
    BY <1>21 DEF SendReply, At
  <2>2. r.at = (IF LimitedFrames THEN "drain" ELSE "header") /\ r.frames = s.frames + 1
    BY <1>1 DEF Fields, AfterReply
  <2>3. r.at = "drain" \/ (r.at = "header" /\ r.frames > 0)
    BY <1>1, <2>2 DEF ServerShape
  <2>4. StepTo(w, r) /\ Write(w, reply) /\ UNCHANGED <<pipe, peer, inbox>>
    BY <1>21, Zenon DEF SendReply
  <2> HIDE DEF r, reply
  <2>5. QED
    BY <1>5, <2>1, <2>3, <2>4
<1>22. CASE ReplyFails(w)
  <2>1. PICK result : StepTo(w, Returned(s, result))
    BY <1>22, Zenon DEF ReplyFails
  <2>2. s.at = "reply" /\ DisconnectAndClose(w)
    BY <1>22, Zenon DEF ReplyFails, At
  <2>3. PICK r : r = Returned(s, result) /\ r.at \in {"call", "done"}
    BY <1>6
  <2>4. ~(pipe[w] = "connected" /\ outbox[w] # "none")
    BY <1>7, <2>2
  <2>5. QED
    BY <1>4, <2>1, <2>2, <2>3, <2>4, Zenon
<1>23. CASE DrainEnds(w)
  <2>1. Ended(s).at \in {"call", "done"}
    BY <1>23, EndedHears DEF DrainEnds, At, VerdictInv
  <2>2. pipe[w] = "connected" /\ outbox[w] # "none" => s.leftover
    BY <1>1, <1>23 DEF DrainEnds, TakesTurns
  <2>3. QED
    BY <1>4, <1>23, <2>1, <2>2 DEF DrainEnds
<1>24. CASE DrainTimesOut(w)
  <2>1. Ended(s).at \in {"call", "done"}
    BY <1>24, EndedHears DEF DrainTimesOut, At, VerdictInv
  <2>2. QED
    BY <1>24, <2>1, InstanceCleared, Zenon DEF DrainTimesOut
<1>25. QED
  BY <1>9, <1>10, <1>12, <1>13, <1>14, <1>16, <1>17, <1>18, <1>19, <1>20, <1>21, <1>23, <1>24,
     <1>11, <1>22
  DEF ServeLoop

\* A client is on an instance exactly while that is connected to it.
LEMMA LinkedIs ==
    ASSUME PipeInv, NEW c \in Clients, caller[c].at # "end"
    PROVE  /\ Linked(c) => /\ caller[c].on \in Workers /\ pipe[caller[c].on] = "connected"
                           /\ peer[caller[c].on] = c /\ caller[c].at \in {"send", "receive"}
           /\ \A k \in Workers : pipe[k] \in {"connected", "gone"} /\ peer[k] = c =>
                 pipe[k] = "connected" /\ Linked(c) /\ k = caller[c].on
<1>1. "nobody" \notin Clients
  BY SessionAssumption
<1>2. ASSUME NEW k \in Workers, peer[k] = c
      PROVE  pipe[k] = "connected" /\ caller[c].at \in {"send", "receive"} /\ caller[c].on = k
  BY <1>1, <1>2, Zenon DEF PipeInv, Paired, Pipes
<1>3. QED
  BY <1>2 DEF Linked

\* What a step of one client has to show.
LEMMA ClientMoves ==
    ASSUME VerdictInv, PipeInv, NEW c \in Clients, caller[c].at # "end", NEW r,
           NEW touched \in SUBSET Workers,
           caller' = [caller EXCEPT ![c] = r], DOMAIN r = {"at", "on", "left"},
           UNCHANGED server,
           DOMAIN pipe' = Workers, DOMAIN peer' = Workers,
           DOMAIN inbox' = Workers, DOMAIN outbox' = Workers,
           Linked(c) => caller[c].on \in touched,
           \A k \in Workers \ touched :
              /\ pipe'[k] = pipe[k] /\ peer'[k] = peer[k]
              /\ inbox'[k] = inbox[k] /\ outbox'[k] = outbox[k],
           \A k \in touched :
              /\ pipe'[k] \in Pipes \ {"disconnected", "none"}
              /\ Paired(k)' /\ TakesTurns(k)' /\ Serves(k)'
    PROVE  PipeInv' /\ \A k \in Workers : Releases(k)
<1>1. ASSUME NEW k \in Workers \ touched
      PROVE  pipe'[k] \in Pipes /\ Paired(k)' /\ TakesTurns(k)' /\ Serves(k)'
  <2>1. pipe[k] \in {"connected", "gone"} => peer[k] \in Clients \ {c}
    <3>1. Paired(k)
      BY DEF PipeInv
    <3>2. pipe[k] = "gone" => peer[k] \in Clients \ {c}
      BY <3>1, Zenon DEF Paired
    <3>3. ASSUME pipe[k] = "connected", peer[k] = c
          PROVE  FALSE
      <4>1. caller[c].at \in {"send", "receive"} /\ caller[c].on = k
        BY <3>1, <3>3, Zenon DEF Paired
      <4>2. Linked(c) => k \in touched
        BY <4>1, Zenon
      <4>3. Linked(c)
        BY <3>3, <4>1, Zenon DEF Linked
      <4>4. QED
        BY <4>2, <4>3, Zenon
    <3>4. pipe[k] = "connected" => peer[k] \in Clients
      BY <3>1, Zenon DEF Paired
    <3>5. QED
      BY <3>2, <3>3, <3>4, Zenon
  <2>2. pipe[k] \in {"connected", "gone"} => caller'[peer[k]] = caller[peer[k]]
    BY <2>1, Zenon DEF PipeInv
  <2>3. pipe[k] \in Pipes /\ Paired(k) /\ TakesTurns(k) /\ Serves(k)
    BY DEF PipeInv
  <2>4. QED
    BY <1>1, <2>2, <2>3, SMTT(30) DEF Paired, TakesTurns, Serves, Pipes
<1>2. \A k \in Workers : pipe'[k] \in Pipes /\ Paired(k)' /\ TakesTurns(k)' /\ Serves(k)'
  BY <1>1
<1>3. DOMAIN caller' = Clients /\ \A d \in Clients : DOMAIN caller'[d] = {"at", "on", "left"}
  BY DEF PipeInv
<1>4. PipeInv'
  BY <1>2, <1>3 DEF PipeInv
<1>5. ASSUME NEW k \in Workers
      PROVE  Releases(k)
  <2>1. server[k].at \in {"header", "reply", "drain"} => server'[k].at \notin {"call", "done"}
    OBVIOUS
  <2>2. pipe[k] = "connected" => pipe'[k] \notin {"disconnected", "none"}
    OBVIOUS
  <2>3. QED
    BY <2>1, <2>2, Zenon DEF Releases
<1>6. QED
  BY <1>4, <1>5, Zenon

\* A client that hangs up leaves what it has written.
LEMMA HangUpReleases ==
    ASSUME VerdictInv, PipeInv, NEW c \in Clients, caller[c].at # "end", HangUp(c)
    PROVE  PipeInv' /\ \A k \in Workers : Releases(k)
<1> DEFINE r == [at |-> "end", on |-> "nowhere", left |-> 0]
<1>0. PICK w : w = caller[c].on
  OBVIOUS
<1>1. caller' = [caller EXCEPT ![c] = r] /\ UNCHANGED server
  BY DEF HangUp, Speak
<1>2. CASE Linked(c)
  <2>1. w \in Workers /\ pipe[w] = "connected" /\ peer[w] = c
    BY <1>0, <1>2, LinkedIs
  <2>2. pipe' = [pipe EXCEPT ![w] = "gone"] /\ UNCHANGED <<peer, inbox, outbox>>
    BY <1>0, <1>2, Zenon DEF HangUp
  <2>3. pipe'[w] = "gone" /\ caller'[c] = r
    BY <1>1, <2>1, <2>2, Zenon DEF PipeInv
  <2>4. Paired(w)' /\ TakesTurns(w)' /\ Serves(w)'
    BY <1>1, <2>1, <2>2, <2>3 DEF Paired, TakesTurns, Serves
  <2>5. QED
    <3> HIDE DEF r
    <3>1. DOMAIN r = {"at", "on", "left"} /\ {w} \in SUBSET Workers
      BY <2>1 DEF r
    <3>2. /\ DOMAIN pipe' = Workers /\ DOMAIN peer' = Workers
          /\ DOMAIN inbox' = Workers /\ DOMAIN outbox' = Workers
          /\ \A k \in Workers \ {w} :
                /\ pipe'[k] = pipe[k] /\ peer'[k] = peer[k]
                /\ inbox'[k] = inbox[k] /\ outbox'[k] = outbox[k]
      BY <2>1, <2>2 DEF PipeInv
    <3>3. \A k \in {w} : /\ pipe'[k] \in Pipes \ {"disconnected", "none"}
                         /\ Paired(k)' /\ TakesTurns(k)' /\ Serves(k)'
      BY <2>3, <2>4 DEF Pipes
    <3>4. QED
      BY <1>0, <1>1, <1>2, <3>1, <3>2, <3>3, ClientMoves, Zenon
<1>3. CASE ~Linked(c)
  <2>1. UNCHANGED pipeVars
    BY <1>3 DEF HangUp
  <2>2. {} \in SUBSET Workers
    OBVIOUS
  <2>3. QED
    BY <1>1, <1>3, <2>1, <2>2, ClientMoves, Zenon DEF PipeInv, pipeVars
<1>4. QED
  BY <1>2, <1>3

\* The client's round trips.
LEMMA ClientReleases ==
    ASSUME VerdictInv, PipeInv, NEW c \in Clients, Client(c)
    PROVE  PipeInv' /\ \A k \in Workers : Releases(k)
<1>1. caller[c].at \in {"connect", "send", "receive"}
  BY DEF Client, Connect, ConnectFails, Receive, GiveUp, Send
<1>2. DOMAIN caller[c] = {"at", "on", "left"}
  BY DEF PipeInv
<1>3. CASE ConnectFails(c) \/ GiveUp(c)
  BY <1>1, <1>3, HangUpReleases DEF ConnectFails, GiveUp
<1>4. CASE Connect(c)
  <2>1. PICK w \in Workers, frames \in 1..MaxFrames :
          /\ pipe[w] = "listening"
          /\ pipe' = [pipe EXCEPT ![w] = "connected"]
          /\ peer' = [peer EXCEPT ![w] = c]
          /\ Speak(c, [at |-> "send", on |-> w, left |-> frames])
    BY <1>4, Zenon DEF Connect
  <2> DEFINE r == [at |-> "send", on |-> w, left |-> frames]
  <2>2. /\ caller[c].at = "connect" /\ UNCHANGED <<inbox, outbox, server>>
        /\ caller' = [caller EXCEPT ![c] = r]
    BY <1>4, <2>1, Zenon DEF Connect, Speak
  <2>3. ~Linked(c)
    BY <2>2, LinkedIs
  <2>4. pipe'[w] = "connected" /\ peer'[w] = c /\ caller'[c] = r
    BY <2>1, <2>2, Zenon DEF PipeInv
  <2>5. inbox[w] = "none" /\ outbox[w] = "none" /\ server[w].at # "reply"
    BY <2>1, Zenon DEF PipeInv, Paired, Serves
  <2>6. Paired(w)' /\ TakesTurns(w)' /\ Serves(w)'
    <3>1. /\ pipe'[w] = "connected" /\ peer'[w] \in Clients
          /\ caller'[peer'[w]].at = "send" /\ caller'[peer'[w]].on = w
      BY <2>4
    <3>2. inbox'[w] = "none" /\ outbox'[w] = "none" /\ server'[w].at # "reply"
      BY <2>2, <2>5
    <3>3. QED
      BY <3>1, <3>2, Zenon DEF Paired, TakesTurns, Serves
  <2>7. QED
    <3> HIDE DEF r
    <3>1. DOMAIN r = {"at", "on", "left"} /\ {w} \in SUBSET Workers
      BY DEF r
    <3>2. /\ DOMAIN pipe' = Workers /\ DOMAIN peer' = Workers
          /\ DOMAIN inbox' = Workers /\ DOMAIN outbox' = Workers
          /\ \A k \in Workers \ {w} :
                /\ pipe'[k] = pipe[k] /\ peer'[k] = peer[k]
                /\ inbox'[k] = inbox[k] /\ outbox'[k] = outbox[k]
      BY <2>1, <2>2 DEF PipeInv
    <3>3. \A k \in {w} : /\ pipe'[k] \in Pipes \ {"disconnected", "none"}
                         /\ Paired(k)' /\ TakesTurns(k)' /\ Serves(k)'
      BY <2>4, <2>6 DEF Pipes
    <3>4. QED
      BY <2>2, <2>3, <3>1, <3>2, <3>3, ClientMoves, Zenon
<1>5. ASSUME NEW kind \in Kinds, Send(c, kind)
      PROVE  PipeInv' /\ \A k \in Workers : Releases(k)
  <2>0. PICK w : w = caller[c].on
    OBVIOUS
  <2> DEFINE r == [caller[c] EXCEPT !.at = "receive", !.left = @ - 1]
  <2>1. w \in Workers /\ pipe[w] = "connected" /\ peer[w] = c
    BY <1>1, <1>5, <2>0, LinkedIs DEF Send
  <2>2. /\ caller[c].at = "send" /\ inbox' = [inbox EXCEPT ![w] = kind] /\ Linked(c)
        /\ UNCHANGED <<pipe, peer, outbox, server>> /\ caller' = [caller EXCEPT ![c] = r]
    BY <1>5, <2>0 DEF Send, Speak
  <2>3. r.at = "receive" /\ r.on = w /\ DOMAIN r = {"at", "on", "left"}
    BY <1>2, <2>0
  <2> HIDE DEF r
  <2>4. inbox'[w] = kind /\ caller'[c] = r
    BY <2>1, <2>2 DEF PipeInv
  <2>5. inbox[w] = "none" /\ outbox[w] = "none" /\ server[w].at # "reply" /\ Paired(w)
    BY <2>1, <2>2, Zenon DEF PipeInv, TakesTurns
  <2>6. Paired(w)' /\ TakesTurns(w)' /\ Serves(w)'
    BY <2>1, <2>2, <2>3, <2>4, <2>5, Zenon DEF Paired, TakesTurns, Serves
  <2>7. {w} \in SUBSET Workers
    BY <2>1
  <2>8. /\ DOMAIN pipe' = Workers /\ DOMAIN peer' = Workers
        /\ DOMAIN inbox' = Workers /\ DOMAIN outbox' = Workers
        /\ \A k \in Workers \ {w} :
              /\ pipe'[k] = pipe[k] /\ peer'[k] = peer[k]
              /\ inbox'[k] = inbox[k] /\ outbox'[k] = outbox[k]
    BY <2>1, <2>2, Zenon DEF PipeInv
  <2>9. \A k \in {w} : /\ pipe'[k] \in Pipes \ {"disconnected", "none"}
                       /\ Paired(k)' /\ TakesTurns(k)' /\ Serves(k)'
    BY <2>1, <2>2, <2>6 DEF Pipes
  <2>10. QED
    BY <1>1, <2>0, <2>2, <2>3, <2>7, <2>8, <2>9, ClientMoves, Zenon
<1>6. CASE Receive(c)
  <2>0. PICK w : w = caller[c].on
    OBVIOUS
  <2>1. w \in Workers /\ pipe[w] = "connected" /\ peer[w] = c
    BY <1>1, <1>6, <2>0, LinkedIs DEF Receive
  <2>2. /\ caller[c].at = "receive" /\ outbox' = [outbox EXCEPT ![w] = "none"] /\ Linked(c)
        /\ outbox[w] # "none" /\ UNCHANGED <<peer, inbox, server>>
    BY <1>6, <2>0 DEF Receive, Speak
  <2>3. inbox[w] = "none" /\ server[w].at # "reply"
    BY <2>1, <2>2, Zenon DEF PipeInv, TakesTurns
  <2>4. PICK r : /\ caller' = [caller EXCEPT ![c] = r] /\ DOMAIN r = {"at", "on", "left"}
                 /\ \/ r.at = "send" /\ r.on = w /\ UNCHANGED pipe
                    \/ r.at = "end" /\ pipe' = [pipe EXCEPT ![w] = "gone"]
    <3>1. CASE UNCHANGED pipe /\ Speak(c, [caller[c] EXCEPT !.at = "send"])
      <4> DEFINE r == [caller[c] EXCEPT !.at = "send"]
      <4>1. r.at = "send" /\ r.on = w /\ DOMAIN r = {"at", "on", "left"}
        BY <1>2, <2>0
      <4>2. caller' = [caller EXCEPT ![c] = r] /\ UNCHANGED pipe
        BY <3>1, Zenon DEF Speak
      <4> HIDE DEF r
      <4>3. QED
        BY <4>1, <4>2, Zenon
    <3>2. CASE /\ pipe' = [pipe EXCEPT ![w] = "gone"]
               /\ Speak(c, [at |-> "end", on |-> "nowhere", left |-> 0])
      <4> DEFINE r == [at |-> "end", on |-> "nowhere", left |-> 0]
      <4>1. caller' = [caller EXCEPT ![c] = r] /\ pipe' = [pipe EXCEPT ![w] = "gone"]
        BY <3>2, Zenon DEF Speak
      <4>2. r.at = "end" /\ DOMAIN r = {"at", "on", "left"}
        BY Zenon
      <4> HIDE DEF r
      <4>3. QED
        BY <4>1, <4>2, Zenon
    <3>3. QED
      BY <1>6, <2>0, <3>1, <3>2, Zenon DEF Receive
  <2>5. caller'[c] = r /\ outbox'[w] = "none" /\ Paired(w)
    BY <2>1, <2>2, <2>4, Zenon DEF PipeInv
  <2>6. pipe'[w] = (IF r.at = "send" THEN "connected" ELSE "gone")
    BY <2>1, <2>4, Zenon DEF PipeInv
  <2>7. Paired(w)' /\ TakesTurns(w)' /\ Serves(w)'
    BY <2>1, <2>2, <2>3, <2>4, <2>5, <2>6, Zenon DEF Paired, TakesTurns, Serves
  <2>8. DOMAIN pipe' = Workers /\ \A k \in Workers : k # w => pipe'[k] = pipe[k]
    BY <2>4, Zenon DEF PipeInv
  <2>9. {w} \in SUBSET Workers
    BY <2>1
  <2>10. /\ DOMAIN pipe' = Workers /\ DOMAIN peer' = Workers
        /\ DOMAIN inbox' = Workers /\ DOMAIN outbox' = Workers
        /\ \A k \in Workers \ {w} :
              /\ pipe'[k] = pipe[k] /\ peer'[k] = peer[k]
              /\ inbox'[k] = inbox[k] /\ outbox'[k] = outbox[k]
    BY <2>2, <2>8, Zenon DEF PipeInv
  <2>11. \A k \in {w} : /\ pipe'[k] \in Pipes \ {"disconnected", "none"}
                       /\ Paired(k)' /\ TakesTurns(k)' /\ Serves(k)'
    BY <2>6, <2>7 DEF Pipes
  <2>12. /\ caller' = [caller EXCEPT ![c] = r] /\ DOMAIN r = {"at", "on", "left"}
        /\ UNCHANGED server /\ caller[c].on \in {w} /\ caller[c].at # "end"
    BY <1>1, <2>0, <2>2, <2>4
  <2>13. QED
    BY <2>9, <2>10, <2>11, <2>12, ClientMoves, Zenon
<1>7. QED
  BY <1>3, <1>4, <1>5, <1>6 DEF Client

\* The invariant of servers and clients together.
LEMMA PipeInvariant == SessionSpec => []PipeInv
<1>1. SessionInit => PipeInv
  <2> SUFFICES ASSUME SessionInit
               PROVE  PipeInv
    OBVIOUS
  <2>1. \A w \in Workers : server[w] \in {Idle("call"), Idle("done")}
    BY DEF SessionInit
  <2>2. \A w \in Workers : server[w].at \in {"call", "done"}
    BY <2>1, IdleHears
  <2>3. QED
    BY <2>2 DEF SessionInit, PipeInv, Paired, TakesTurns, Serves, Pipes
<1>2. VerdictInv /\ PipeInv /\ [SessionNext]_sessionVars => PipeInv'
  <2> SUFFICES ASSUME VerdictInv, PipeInv, [SessionNext]_sessionVars
               PROVE  PipeInv'
    OBVIOUS
  <2>1. ASSUME NEW w \in Workers, ServeLoop(w) PROVE PipeInv'
    BY <2>1, ServeLoopReleases, Zenon
  <2>2. CASE UNCHANGED <<pipe, peer, inbox, outbox, server, caller>>
    BY <2>2 DEF PipeInv, Paired, TakesTurns, Serves
  <2>3. ASSUME NEW c \in Clients, Client(c) PROVE PipeInv'
    BY <2>3, ClientReleases
  <2>4. QED
    BY <2>1, <2>2, <2>3 DEF SessionNext, SessionDone, WindowEnds, sessionVars
<1>3. QED
  BY <1>1, <1>2, VerdictInvariant, PTL DEF SessionSpec

\* No client is cut off before it has read its reply but by the drain's timeout or by its
\* own invalid frame, and no call of ServeLoop returns with its client still there, for
\* any number of servers and clients that hang, give up and die anywhere.
THEOREM ServersReleaseClients == SessionSpec => ClientsAreReleased
<1>1. VerdictInv /\ PipeInv /\ [SessionNext]_sessionVars
        => [\A w \in Workers : Releases(w)]_sessionVars
  <2> SUFFICES ASSUME VerdictInv, PipeInv, SessionNext
               PROVE  (\A w \in Workers : Releases(w)) \/ UNCHANGED sessionVars
    OBVIOUS
  <2>1. ASSUME NEW w \in Workers, ServeLoop(w) PROVE \A k \in Workers : Releases(k)
    BY <2>1, ServeLoopReleases
  <2>2. ASSUME NEW c \in Clients, Client(c) PROVE \A k \in Workers : Releases(k)
    BY <2>2, ClientReleases
  <2>3. ASSUME WindowEnds PROVE \A k \in Workers : Releases(k)
    BY <2>3 DEF WindowEnds, Releases
  <2>4. QED
    BY <2>1, <2>2, <2>3 DEF SessionNext, SessionDone
<1>2. SessionSpec => [][\A w \in Workers : Releases(w)]_sessionVars
  BY <1>1, VerdictInvariant, PipeInvariant, PTL DEF SessionSpec
<1>3. QED
  BY <1>2 DEF ClientsAreReleased, Releases

----------------------------------------------------------------------------
(* The session marker and the Safe Mode guard.                             *)

\* What Refresh and the calls behind it need of a guard.
GuardShape(g) ==
    DOMAIN g = {"safeMode", "latched", "ages", "left"} /\ g.latched \in BOOLEAN

Begun == {"mark", "write", "tray", "run"}

RecordShape(r) ==
    /\ DOMAIN r = {"at", "guard", "confirm", "recovery", "met"}
    /\ r.at \in Places
    /\ r.confirm \in BOOLEAN /\ r.recovery \in BOOLEAN /\ r.met \in BOOLEAN
    /\ GuardShape(r.guard)
    /\ r.recovery => r.at \in Begun

HostShape ==
    /\ DOMAIN host = Hosts
    /\ \A h \in Hosts : RecordShape(host[h])
    /\ {unclean, owed, fault} \subseteq BOOLEAN

\* Two hosts that run know that they have met.
TwoHaveMet == \A h, k \in Hosts : h # k /\ Running(h) /\ Running(k) => host[h].met

\* Some host but h has its marker in the file, or has just emptied it.
OtherUp(h) == \E k \in Hosts : k # h /\ host[k].at \in {"tray", "run"}
OtherWrites(h) == \E k \in Hosts : k # h /\ host[k].at = "write"

\* What the marker says: some session ended uncleanly or is up, and an unclean end that is
\* owed is there to be read, or about to be.
MarkerTrue ==
    /\ marker = "set" => unclean \/ \E h \in Hosts : host[h].at \in {"tray", "run"}
    /\ owed => marker = "set" \/ (marker = "torn" /\ \E h \in Hosts : host[h].at = "write")

\* What a host alone has made of it: a session that was confirmed owes nothing, one that
\* has looked is latched if something is owed, and one that has begun has its own marker.
HostKnows(h) ==
    ~host[h].met =>
       /\ host[h].at = "inspect" => (host[h].confirm => ~owed)
       /\ host[h].at \in Begun /\ LatchEnabled /\ owed => host[h].guard.latched
       /\ host[h].at \in {"tray", "run"} => marker = "set"
       /\ host[h].recovery => unclean

IntakeInv ==
    /\ HostShape
    /\ TwoHaveMet
    /\ ~fault => MarkerTrue /\ \A h \in Hosts : HostKnows(h)

----------------------------------------------------------------------------
\* No call on the guard but an anomaly changes whether it is latched, and a latched guard
\* accepts nobody.
LEMMA GuardKeepsLatch ==
    ASSUME NEW g, GuardShape(g)
    PROVE  /\ GuardShape(Refresh(g)) /\ Refresh(g).latched = g.latched
           /\ GuardShape(OnClientRejected(g)) /\ OnClientRejected(g).latched = g.latched
           /\ GuardShape(Elapse(g)) /\ Elapse(g).latched = g.latched
           /\ GuardShape(OnAnomalyDetected(g)) /\ OnAnomalyDetected(g).latched
           /\ ShouldAcceptClients(g) => ~g.latched
<1> USE DEF GuardShape
<1>1. GuardShape(Refresh(g)) /\ Refresh(g).latched = g.latched
  BY DEF Refresh
<1>2. GuardShape(OnClientRejected(g)) /\ OnClientRejected(g).latched = g.latched
  <2> DEFINE r == Refresh(g)
             counted == PruneExpired(Append(r.ages, 0))
  <2>1. GuardShape(r) /\ r.latched = g.latched
    BY <1>1
  <2>2. OnClientRejected(g) = IF r.safeMode \/ r.latched THEN r
                              ELSE IF Len(counted) >= FailuresToEnter
                                   THEN [r EXCEPT !.ages = counted, !.safeMode = TRUE, !.left = Cooldown]
                              ELSE [r EXCEPT !.ages = counted]
    BY DEF OnClientRejected
  <2> HIDE DEF r, counted
  <2>3. QED
    BY <2>1, <2>2
<1>3. GuardShape(Elapse(g)) /\ Elapse(g).latched = g.latched
  BY DEF Elapse
<1>4. GuardShape(OnAnomalyDetected(g)) /\ OnAnomalyDetected(g).latched
  BY DEF OnAnomalyDetected
<1>5. ShouldAcceptClients(g) => ~g.latched
  BY <1>1 DEF ShouldAcceptClients
<1>6. QED
  BY <1>1, <1>2, <1>3, <1>4, <1>5

\* What a step has to show that leaves host h at r: that h met the others that run,
Fits(h, r) ==
    /\ RecordShape(r)
    /\ r.at # "off" /\ ~r.met => \A k \in Hosts : k # h => host[k].at = "off"

\* and what the marker and the host know.
Learns(h, r, mark, bad, due) ==
    /\ mark = "set" => bad \/ r.at \in {"tray", "run"} \/ OtherUp(h)
    /\ due => mark = "set" \/ (mark = "torn" /\ (r.at = "write" \/ OtherWrites(h)))
    /\ ~r.met =>
          /\ r.at = "inspect" => (r.confirm => ~due)
          /\ r.at \in Begun /\ LatchEnabled /\ due => r.guard.latched
          /\ r.at \in {"tray", "run"} => mark = "set"
          /\ r.recovery => bad

\* That is enough.
LEMMA HostMoves ==
    ASSUME IntakeInv, NEW h \in Hosts, Running(h), NEW r, host' = [host EXCEPT ![h] = r], Fits(h, r),
           {unclean', owed', fault'} \subseteq BOOLEAN,
           ~fault' => ~fault /\ Learns(h, r, marker', unclean', owed')
    PROVE  IntakeInv'
<1>1. DOMAIN host' = Hosts /\ host'[h] = r /\ \A k \in Hosts : k # h => host'[k] = host[k]
  BY Zenon DEF IntakeInv, HostShape
<1>2. HostShape'
  BY <1>1, Zenon DEF IntakeInv, HostShape, RecordShape, GuardShape, Fits
<1>3. TwoHaveMet'
  <2>1. ASSUME NEW j \in Hosts, NEW k \in Hosts, j # k, host'[j].at # "off", host'[k].at # "off"
        PROVE  host'[j].met
    <3>1. CASE j = h
      <4>1. r.at # "off" /\ host[k].at # "off"
        BY <1>1, <2>1, <3>1, Zenon
      <4>2. QED BY <1>1, <2>1, <3>1, <4>1, Zenon DEF Fits
    <3>2. CASE j # h
      BY <1>1, <2>1, <3>2, Zenon DEF IntakeInv, TwoHaveMet, Running
    <3>3. QED BY <3>1, <3>2
  <2>2. QED BY <2>1, Zenon DEF TwoHaveMet, Running
<1>4. ASSUME ~fault'
      PROVE  MarkerTrue' /\ \A k \in Hosts : HostKnows(k)'
  <2>1. Learns(h, r, marker', unclean', owed')
    BY <1>4
  <2>2. marker' = "set" => unclean' \/ \E k \in Hosts : host'[k].at \in {"tray", "run"}
    BY <1>1, <2>1, Zenon DEF Learns, OtherUp
  <2>3. owed' => marker' = "set" \/ (marker' = "torn" /\ \E k \in Hosts : host'[k].at = "write")
    BY <1>1, <2>1, Zenon DEF Learns, OtherWrites
  <2>4. ASSUME NEW k \in Hosts
        PROVE  HostKnows(k)'
    <3>1. CASE k = h
      BY <1>1, <2>1, <3>1, Zenon DEF HostKnows, Learns
    <3>2. CASE k # h
      <4>1. host'[k] = host[k] /\ (host[k].at = "off" \/ host[k].met)
        BY <1>1, <3>2, Zenon DEF IntakeInv, TwoHaveMet, Running
      <4>2. host[k].recovery => host[k].at \in Begun
        BY Zenon DEF IntakeInv, HostShape, RecordShape
      <4>3. QED BY <4>1, <4>2 DEF HostKnows, Begun
    <3>3. QED BY <3>1, <3>2
  <2>5. QED BY <2>2, <2>3, <2>4, Zenon DEF MarkerTrue
<1>5. QED
  BY <1>2, <1>3, <1>4, Zenon DEF IntakeInv

\* The same of the state a step starts from.
LEMMA HostStands ==
    ASSUME IntakeInv, NEW h \in Hosts, Running(h)
    PROVE  /\ Fits(h, host[h]) /\ host[h].at # "off"
           /\ {unclean, owed, fault} \subseteq BOOLEAN
           /\ ~fault => Learns(h, host[h], marker, unclean, owed)
           /\ ~host[h].met => ~OtherUp(h) /\ ~OtherWrites(h)
<1>1. RecordShape(host[h]) /\ host[h].at # "off" /\ {unclean, owed, fault} \subseteq BOOLEAN
  BY Zenon DEF IntakeInv, HostShape, Running
<1>2. ~host[h].met => \A k \in Hosts : k # h => host[k].at = "off"
  BY Zenon DEF IntakeInv, TwoHaveMet, Running
<1>3. ASSUME ~fault
      PROVE  Learns(h, host[h], marker, unclean, owed)
  <2>1. HostKnows(h) /\ MarkerTrue
    BY <1>3 DEF IntakeInv
  <2>2. marker = "set" => unclean \/ host[h].at \in {"tray", "run"} \/ OtherUp(h)
    BY <2>1, Zenon DEF MarkerTrue, OtherUp
  <2>3. owed => marker = "set" \/ (marker = "torn" /\ (host[h].at = "write" \/ OtherWrites(h)))
    BY <2>1, Zenon DEF MarkerTrue, OtherWrites
  <2>4. QED BY <2>1, <2>2, <2>3, Zenon DEF HostKnows, Learns
<1>4. ~host[h].met => ~OtherUp(h) /\ ~OtherWrites(h)
  BY <1>2 DEF OtherUp, OtherWrites
<1>5. QED BY <1>1, <1>2, <1>3, <1>4, Zenon DEF Fits

----------------------------------------------------------------------------
(* One lemma for each phase of a host.                                     *)

\* RunServiceConsoleCommand takes the instance lock, and meets the hosts the lock does not
\* see.
LEMMA LaunchKeeps ==
    ASSUME IntakeInv, NEW h \in Hosts, Launch(h)
    PROVE  IntakeInv'
<1>1. PICK confirm \in BOOLEAN, anomaly \in BOOLEAN :
         host' = [k \in Hosts |->
             IF k = h
             THEN [Off EXCEPT !.at = IF confirm THEN "confirm" ELSE "inspect",
                              !.confirm = confirm, !.guard.latched = anomaly,
                              !.met = \E j \in Hosts : Running(j)]
             ELSE [host[k] EXCEPT !.met = Running(k)]]
  BY Zenon DEF Launch
<1>2. PICK met \in BOOLEAN : met = \E j \in Hosts : Running(j)
  BY Zenon
<1>3. PICK r : r = [Off EXCEPT !.at = IF confirm THEN "confirm" ELSE "inspect",
                               !.confirm = confirm, !.guard.latched = anomaly, !.met = met]
  BY Zenon
<1>4. /\ RecordShape(r) /\ r.at = (IF confirm THEN "confirm" ELSE "inspect")
      /\ r.confirm = confirm /\ r.recovery = FALSE /\ r.met = met
  BY <1>3 DEF Off, NewGuard, GuardShape, RecordShape, Places
<1>5. DOMAIN host' = Hosts /\ host'[h] = r
  BY <1>1, <1>2, <1>3, Zenon
<1>6. host[h].at = "off" /\ UNCHANGED <<marker, unclean, owed, fault>>
  BY Zenon DEF Launch, Running
<1>7. ASSUME NEW k \in Hosts, k # h
      PROVE  /\ RecordShape(host'[k]) /\ host'[k].at = host[k].at
             /\ host'[k].recovery = host[k].recovery /\ (host[k].at # "off" => host'[k].met)
  <2>1. PICK ran \in BOOLEAN : ran = Running(k)
    BY Zenon DEF Running
  <2>2. host'[k] = [host[k] EXCEPT !.met = ran]
    BY <1>1, <1>7, <2>1, Zenon
  <2>3. RecordShape(host[k])
    BY DEF IntakeInv, HostShape
  <2>4. host[k].at # "off" => ran
    BY <2>1, Zenon DEF Running
  <2>5. QED BY <2>2, <2>3, <2>4 DEF RecordShape
<1>8. HostShape'
  BY <1>4, <1>5, <1>6, <1>7, Zenon DEF IntakeInv, HostShape, RecordShape, GuardShape
<1>9. TwoHaveMet'
  <2>1. ASSUME NEW j \in Hosts, NEW k \in Hosts, j # k, host'[j].at # "off", host'[k].at # "off"
        PROVE  host'[j].met
    <3>1. CASE j = h
      <4>1. host[k].at # "off"
        BY <1>7, <2>1, <3>1, Zenon
      <4>2. met
        BY <1>2, <4>1, Zenon DEF Running
      <4>3. QED BY <1>4, <1>5, <3>1, <4>2, Zenon
    <3>2. CASE j # h
      BY <1>7, <2>1, <3>2, Zenon
    <3>3. QED BY <3>1, <3>2
  <2>2. QED BY <2>1, Zenon DEF TwoHaveMet, Running
<1>10. ASSUME ~fault'
       PROVE  MarkerTrue' /\ \A k \in Hosts : HostKnows(k)'
  <2>1. MarkerTrue
    BY <1>6, <1>10, Zenon DEF IntakeInv
  <2>2. \A k \in Hosts : host[k].at \in {"write", "tray", "run"} => host'[k].at = host[k].at
    BY <1>6, <1>7
  <2>3. MarkerTrue'
    BY <1>6, <2>1, <2>2 DEF MarkerTrue
  <2>4. ASSUME NEW k \in Hosts
        PROVE  HostKnows(k)'
    <3>1. CASE k = h
      BY <1>4, <1>5, <3>1 DEF HostKnows, Begun
    <3>2. CASE k # h
      <4>1. host[k].recovery => host[k].at \in Begun
        BY Zenon DEF IntakeInv, HostShape, RecordShape
      <4>2. QED BY <1>7, <3>2, <4>1 DEF HostKnows, Begun
    <3>3. QED BY <3>1, <3>2
  <2>5. QED BY <2>3, <2>4
<1>11. QED
  BY <1>8, <1>9, <1>10, Zenon DEF IntakeInv

\* ClearRecoveryMarker for --confirm-recovery, and what the host makes of the marker.
LEMMA RecoveryKeeps ==
    ASSUME IntakeInv, NEW h \in Hosts, ConfirmRecovery(h) \/ Inspect(h)
    PROVE  IntakeInv'
<1> DEFINE w == host[h]
<1>1. /\ Fits(h, w) /\ w.at # "off" /\ {unclean, owed, fault} \subseteq BOOLEAN
      /\ ~fault => Learns(h, w, marker, unclean, owed)
      /\ ~w.met => ~OtherUp(h) /\ ~OtherWrites(h)
      /\ Running(h)
  BY HostStands, Zenon DEF ConfirmRecovery, Inspect, Running
<1>2. CASE ConfirmRecovery(h)
  <2> DEFINE r == [w EXCEPT !.at = "inspect"]
  <2>1. host' = [host EXCEPT ![h] = r]
    BY <1>2 DEF ConfirmRecovery, Goto
  <2>2. Fits(h, r) /\ r.at = "inspect" /\ r.recovery = FALSE
    BY <1>1, <1>2 DEF Fits, RecordShape, Places, Begun, ConfirmRecovery
  <2>3. w.at = "confirm" /\ unclean' = FALSE /\ owed' = FALSE /\ fault' \in BOOLEAN
    BY <1>1, <1>2, Zenon DEF ConfirmRecovery, ChangeMarker
  <2>4. ASSUME ~fault'
        PROVE  ~fault /\ marker' = "none"
    BY <1>2, <2>4 DEF ConfirmRecovery, ChangeMarker
  <2> HIDE DEF r
  <2>5. ~fault' => ~fault /\ Learns(h, r, marker', unclean', owed')
    BY <1>1, <2>2, <2>3, <2>4, Zenon DEF Learns
  <2>6. QED
    BY <1>1, <2>1, <2>2, <2>3, <2>5, HostMoves, Zenon
<1>3. CASE Inspect(h)
  <2>1. PICK read \in BOOLEAN :
          LET latch == DecideRecoveryAnomalyAction(read /\ marker = "set", w.confirm) IN
          /\ host' = [host EXCEPT ![h].at = "mark", ![h].recovery = latch,
                                  ![h].guard = IF latch THEN OnAnomalyDetected(@) ELSE @]
          /\ fault' = (fault \/ ~read)
    BY <1>3, Zenon DEF Inspect
  <2> DEFINE latch == DecideRecoveryAnomalyAction(read /\ marker = "set", w.confirm)
             warned == IF latch THEN OnAnomalyDetected(w.guard) ELSE w.guard
             r == [w EXCEPT !.at = "mark", !.recovery = latch, !.guard = warned]
  <2>2. host' = [host EXCEPT ![h] = r]
    BY <2>1, Zenon
  <2>3. latch \in BOOLEAN
    BY Zenon DEF DecideRecoveryAnomalyAction
  <2>4. GuardShape(warned) /\ (latch => warned.latched)
    BY <1>1, GuardKeepsLatch, Zenon DEF Fits, RecordShape
  <2>5. latch <=> (read /\ marker = "set" /\ ~w.confirm /\ LatchEnabled)
    BY DEF DecideRecoveryAnomalyAction
  <2>6. w.at = "inspect" /\ marker' = marker /\ unclean' = unclean /\ owed' = owed
        /\ fault' = (fault \/ ~read)
    BY <1>3, <2>1, Zenon DEF Inspect
  <2> HIDE DEF latch, warned
  <2>7. r.at = "mark" /\ r.recovery = latch /\ r.guard = warned /\ r.met = w.met /\ RecordShape(r)
    BY <1>1, <2>3, <2>4 DEF Fits, RecordShape, Places, Begun
  <2> HIDE DEF r
  <2>8. Fits(h, r)
    BY <1>1, <2>7, Zenon DEF Fits
  <2>9. ASSUME ~fault'
        PROVE  ~fault /\ Learns(h, r, marker', unclean', owed')
    <3>1. ~fault /\ read /\ Learns(h, w, marker, unclean, owed)
      BY <1>1, <2>6, <2>9, Zenon
    <3>2. ~w.met => (marker = "set" => unclean) /\ (owed => marker = "set" /\ ~w.confirm)
      BY <1>1, <2>6, <3>1, Zenon DEF Learns
    <3>3. QED
      BY <2>4, <2>5, <2>6, <2>7, <3>1, <3>2 DEF Learns
  <2>10. QED
    BY <1>1, <2>2, <2>6, <2>8, <2>9, HostMoves, Zenon
<1>4. QED
  BY <1>2, <1>3

\* WriteRecoveryMarker: opened, then written.
LEMMA MarkKeeps ==
    ASSUME IntakeInv, NEW h \in Hosts, OpenMarker(h) \/ WriteMarker(h)
    PROVE  IntakeInv'
<1> DEFINE w == host[h]
<1>1. /\ Fits(h, w) /\ w.at # "off" /\ {unclean, owed, fault} \subseteq BOOLEAN
      /\ ~fault => Learns(h, w, marker, unclean, owed)
      /\ Running(h)
  BY HostStands, Zenon DEF OpenMarker, WriteMarker, Running
<1>2. AfterMark \in {"tray", "run"}
  BY DEF AfterMark
<1>3. PICK place \in {"write", "tray", "run"} : Goto(h, place)
  BY <1>2 DEF OpenMarker, WriteMarker
<1> DEFINE r == [w EXCEPT !.at = place]
<1>4. host' = [host EXCEPT ![h] = r]
  BY <1>3 DEF Goto
<1>5. /\ RecordShape(r) /\ r.at = place /\ r.recovery = w.recovery /\ r.guard = w.guard
      /\ r.confirm = w.confirm /\ r.met = w.met
  BY <1>1 DEF Fits, RecordShape, Places, Begun
<1>6. w.at \in {"mark", "write"} /\ unclean' = unclean /\ owed' = owed /\ fault' \in BOOLEAN
  BY <1>1, Zenon DEF OpenMarker, WriteMarker, ChangeMarker
<1>7. ASSUME ~fault'
      PROVE  /\ ~fault
             /\ \/ marker' = "set" /\ place \in {"tray", "run"}
                \/ marker' = "torn" /\ place = "write"
  <2>1. CASE OpenMarker(h)
    <3>1. Goto(h, "write")
      BY <1>7, <2>1, Zenon DEF OpenMarker
    <3>2. host'[h].at = "write"
      BY <1>1, <3>1 DEF Goto, IntakeInv, HostShape, Fits, RecordShape
    <3>3. host'[h].at = place
      BY <1>4, <1>5 DEF IntakeInv, HostShape
    <3>4. QED
      BY <1>7, <2>1, <3>2, <3>3 DEF OpenMarker
  <2>2. CASE WriteMarker(h)
    <3>1. host'[h].at = AfterMark
      BY <1>1, <2>2 DEF WriteMarker, Goto, IntakeInv, HostShape
    <3>2. host'[h].at = place
      BY <1>4, <1>5 DEF IntakeInv, HostShape
    <3>3. QED
      BY <1>2, <1>7, <2>2, <3>1, <3>2 DEF WriteMarker, ChangeMarker
  <2>3. QED
    BY <2>1, <2>2
<1> HIDE DEF r
<1>8. ~fault' => ~fault /\ Learns(h, r, marker', unclean', owed')
  BY <1>1, <1>5, <1>6, <1>7 DEF Learns, Begun
<1>9. Fits(h, r)
  BY <1>1, <1>5, Zenon DEF Fits
<1>10. QED
  BY <1>1, <1>4, <1>6, <1>8, <1>9, HostMoves, Zenon

\* A host that has ended.
LEMMA OffFits ==
    ASSUME NEW h \in Hosts
    PROVE  Fits(h, Off) /\ Off.at = "off" /\ Off.recovery = FALSE
BY Zenon DEF Off, NewGuard, GuardShape, RecordShape, Fits, Places

\* A host that ends well has removed its marker; one that does not has left it.
LEMMA EndKeeps ==
    ASSUME IntakeInv, NEW h \in Hosts, host[h].at \in {"tray", "run"},
           EndClean(h) \/ EndUnclean(h)
    PROVE  IntakeInv'
<1>1. /\ Fits(h, host[h]) /\ {unclean, owed, fault} \subseteq BOOLEAN /\ host[h].met \in BOOLEAN
      /\ ~fault => Learns(h, host[h], marker, unclean, owed)
      /\ Running(h)
  BY HostStands, Zenon DEF Running, Fits, RecordShape
<1>2. host' = [host EXCEPT ![h] = Off]
  BY DEF EndClean, EndUnclean
<1>3. Fits(h, Off) /\ Off.at = "off" /\ Off.recovery = FALSE
  BY OffFits, Zenon
<1>4. {unclean', owed', fault'} \subseteq BOOLEAN
  BY <1>1, Zenon DEF EndClean, EndUnclean, ChangeMarker
<1>5. ASSUME ~fault'
      PROVE  ~fault /\ Learns(h, Off, marker', unclean', owed')
  <2>1. ~fault
    BY <1>5 DEF EndClean, EndUnclean, ChangeMarker
  <2>2. CASE EndClean(h)
    <3>1. marker' = "none" /\ owed' = FALSE
      BY <1>5, <2>2 DEF EndClean, ChangeMarker
    <3>2. QED
      BY <2>1, <3>1, <1>3 DEF Learns, Begun
  <2>3. CASE EndUnclean(h)
    <3>1. unclean' = TRUE /\ owed' = (owed \/ ~host[h].met) /\ marker' = marker
      BY <2>3 DEF EndUnclean
    <3>2. owed \/ ~host[h].met => marker = "set" \/ (marker = "torn" /\ OtherWrites(h))
      BY <1>1, <2>1 DEF Learns
    <3>3. QED
      BY <1>3, <2>1, <3>1, <3>2, Zenon DEF Learns, Begun
  <2>4. QED
    BY <2>1, <2>2, <2>3
<1>6. QED
  BY <1>1, <1>2, <1>3, <1>4, <1>5, HostMoves, Zenon

\* A step of a running session that changes its place or its guard, but no latch.
LEMMA ServeKeeps ==
    ASSUME IntakeInv, NEW h \in Hosts, host[h].at \in {"tray", "run"}, NEW g,
           GuardShape(g), g.latched = host[h].guard.latched,
           host' = [host EXCEPT ![h] = [host[h] EXCEPT !.at = "run", !.guard = g]],
           UNCHANGED <<marker, unclean, owed, fault>>
    PROVE  IntakeInv'
<1> DEFINE w == host[h]
           r == [w EXCEPT !.at = "run", !.guard = g]
<1>1. /\ Fits(h, w) /\ w.at # "off" /\ {unclean, owed, fault} \subseteq BOOLEAN
      /\ ~fault => Learns(h, w, marker, unclean, owed)
      /\ Running(h)
  BY HostStands DEF Running
<1>2. RecordShape(r) /\ r.at = "run" /\ r.recovery = w.recovery /\ r.guard = g /\ r.met = w.met
  BY <1>1 DEF Fits, RecordShape, Places, Begun
<1>3. host' = [host EXCEPT ![h] = r]
  OBVIOUS
<1> HIDE DEF r
<1>4. ~fault' => ~fault /\ Learns(h, r, marker', unclean', owed')
  BY <1>1, <1>2 DEF Learns, Begun
<1>5. Fits(h, r)
  BY <1>1, <1>2, Zenon DEF Fits
<1>6. QED
  BY <1>1, <1>3, <1>4, <1>5, HostMoves, Zenon

\* The tray, ServiceWorkloadTick and time.
LEMMA SessionKeeps ==
    ASSUME IntakeInv, NEW h \in Hosts, StartTray(h) \/ WorkloadTick(h) \/ Elapses(h) \/ Finish(h)
    PROVE  IntakeInv'
<1> DEFINE w == host[h]
           g == w.guard
<1>1. w.at \in {"tray", "run"}
  BY DEF StartTray, WorkloadTick, Elapses, Finish
<1>2. /\ GuardShape(g) /\ DOMAIN w = {"at", "guard", "confirm", "recovery", "met"}
      /\ DOMAIN host = Hosts
  BY DEF IntakeInv, HostShape, RecordShape
<1>3. CASE EndClean(h) \/ EndUnclean(h)
  BY <1>1, <1>3, EndKeeps
<1>4. CASE Goto(h, "run") /\ UNCHANGED <<marker, unclean, owed, fault>>
  <2>1. host' = [host EXCEPT ![h] = [w EXCEPT !.at = "run", !.guard = g]]
    BY <1>2, <1>4, Zenon DEF Goto
  <2>2. QED
    BY <1>1, <1>2, <1>4, <2>1, ServeKeeps, Zenon
<1>5. ASSUME NEW new \in {Refresh(g), OnClientRejected(g), Elapse(g)}, w.at = "run",
             host' = [host EXCEPT ![h].guard = new], UNCHANGED <<marker, unclean, owed, fault>>
      PROVE  IntakeInv'
  <2>1. host' = [host EXCEPT ![h] = [w EXCEPT !.at = "run", !.guard = new]]
    BY <1>2, <1>5, Zenon
  <2>2. GuardShape(new) /\ new.latched = g.latched
    BY <1>2, <1>5, GuardKeepsLatch
  <2>3. QED
    BY <1>1, <1>5, <2>1, <2>2, ServeKeeps, Zenon
<1>6. CASE WorkloadTick(h)
  BY <1>3, <1>5, <1>6 DEF WorkloadTick
<1>7. CASE Elapses(h)
  BY <1>5, <1>7 DEF Elapses
<1>8. QED
  BY <1>3, <1>4, <1>6, <1>7, Zenon DEF StartTray, Finish

\* A host is killed: with its marker written it leaves it, before that it leaves what it
\* found.
LEMMA KillKeeps ==
    ASSUME IntakeInv, NEW h \in Hosts, Kill(h)
    PROVE  IntakeInv'
<1>1. CASE host[h].at \in {"tray", "run"}
  BY <1>1, EndKeeps DEF Kill
<1>2. CASE host[h].at \notin {"tray", "run"}
  <2>1. /\ Fits(h, host[h]) /\ {unclean, owed, fault} \subseteq BOOLEAN
        /\ ~fault => Learns(h, host[h], marker, unclean, owed)
    BY HostStands, Zenon DEF Kill
  <2>2. /\ host' = [host EXCEPT ![h] = Off]
        /\ fault' = (fault \/ host[h].at = "write")
        /\ UNCHANGED <<marker, unclean, owed>>
    BY <1>2 DEF Kill
  <2>3. Fits(h, Off) /\ Off.at = "off" /\ Off.recovery = FALSE
    BY OffFits, Zenon
  <2>4. ~fault' => ~fault /\ Learns(h, Off, marker', unclean', owed')
    BY <1>2, <2>1, <2>2, <2>3, Zenon DEF Learns, Begun
  <2>5. Running(h) /\ {unclean', owed', fault'} \subseteq BOOLEAN
    BY <2>1, <2>2, Zenon DEF Kill
  <2>6. QED
    BY <2>2, <2>3, <2>4, <2>5, HostMoves, Zenon
<1>3. QED
  BY <1>1, <1>2

\* The invariant of the hosts of all Windows sessions.
LEMMA IntakeInvariant == Spec => []IntakeInv
<1>1. Init => IntakeInv
  <2>1. \A h \in Hosts : RecordShape(Off) /\ Off.at = "off" /\ Off.recovery = FALSE
    BY OffFits, Zenon DEF Fits
  <2>2. QED
    BY <2>1, Zenon DEF Init, IntakeInv, HostShape, TwoHaveMet, MarkerTrue, HostKnows, Running, Begun
<1>2. IntakeInv /\ [Next]_vars => IntakeInv'
  <2> SUFFICES ASSUME IntakeInv, [Next]_vars
               PROVE  IntakeInv'
    OBVIOUS
  <2>1. ASSUME NEW h \in Hosts, Launch(h) PROVE IntakeInv'
    BY <2>1, LaunchKeeps
  <2>2. ASSUME NEW h \in Hosts, ConfirmRecovery(h) \/ Inspect(h) PROVE IntakeInv'
    BY <2>2, RecoveryKeeps
  <2>3. ASSUME NEW h \in Hosts, OpenMarker(h) \/ WriteMarker(h) PROVE IntakeInv'
    BY <2>3, MarkKeeps
  <2>4. ASSUME NEW h \in Hosts, StartTray(h) \/ WorkloadTick(h) \/ Elapses(h) \/ Finish(h)
        PROVE  IntakeInv'
    BY <2>4, SessionKeeps
  <2>5. ASSUME NEW h \in Hosts, Kill(h) PROVE IntakeInv'
    BY <2>5, KillKeeps, Zenon
  <2>6. CASE UNCHANGED vars
    BY <2>6, Zenon DEF vars, IntakeInv, HostShape, TwoHaveMet, MarkerTrue, HostKnows, Running
  <2>7. QED
    BY <2>1, <2>2, <2>3, <2>4, <2>5, <2>6 DEF Next
<1>3. QED
  BY <1>1, <1>2, PTL DEF Spec

\* The recovery marker tells of crashes and of nothing else, for any number of hosts in any
\* number of Windows sessions, killed between any two steps and begun again: a host that
\* meets no other and latches has reason to, and after an unclean end of such a host none
\* serves clients until it is confirmed or a later host removes the marker.  Whatever hosts
\* of two sessions do to the one file, they leave it so that this holds of the next.
THEOREM CrashesAreTold == Spec => []MarkerTellsCrashes
<1>1. IntakeInv => MarkerTellsCrashes
  <2> SUFFICES ASSUME IntakeInv, ~fault, NEW h \in Hosts, ~host[h].met
               PROVE  /\ host[h].recovery => unclean
                      /\ LatchEnabled /\ Serving(h) => ~owed
    BY DEF MarkerTellsCrashes
  <2>1. HostKnows(h) /\ GuardShape(host[h].guard)
    BY Zenon DEF IntakeInv, HostShape, RecordShape
  <2>2. Serving(h) => host[h].at = "run" /\ ~host[h].guard.latched
    BY <2>1, GuardKeepsLatch DEF Serving
  <2>3. QED
    BY <2>1, <2>2 DEF HostKnows, Begun
<1>2. QED
  BY <1>1, IntakeInvariant, PTL

----------------------------------------------------------------------------
(* The Safe Mode guard and time.                                           *)

FailureAges == Seq(0..Window)

\* The oldest failures come first: those of any age or more are the first ones.
OldestFirst(ages) ==
    \A a \in 0..Window : \E k \in 1..Len(ages) + 1 : \A i \in 1..Len(ages) : ages[i] >= a <=> i < k

\* The failures in ages are the latest ones, and those before them have left the window.
Remembers(ages, last) ==
    /\ Len(ages) < FailuresToEnter
    /\ \A i \in Former :
          last[i] = IF i <= Len(ages) THEN ages[Len(ages) + 1 - i] ELSE Window

\* A guard that is paused and one that counts, beside the eager one.
Counts(g) ==
    /\ g = [safeMode |-> g.safeMode, latched |-> g.latched, ages |-> g.ages, left |-> g.left]
    /\ {g.safeMode, g.latched} \subseteq BOOLEAN
    /\ g.ages \in FailureAges /\ OldestFirst(g.ages)
    /\ g.left \in 0..Cooldown
    /\ g.safeMode => pause = g.left /\ recent = LongAgo
    /\ ~g.safeMode => pause = 0 /\ Remembers(g.ages, recent)

TimingInv ==
    /\ Counts(guard)
    /\ recent \in [Former -> 0..Window]
    /\ pause \in 0..Cooldown

----------------------------------------------------------------------------
\* Pruning stops where the window begins.
LEMMA WindowBegins ==
    ASSUME NEW ages \in FailureAges, OldestFirst(ages)
    PROVE  /\ FirstWithin(ages) \in 1..Len(ages) + 1
           /\ \A i \in 1..Len(ages) : ages[i] >= Window <=> i < FirstWithin(ages)
<1> DEFINE P(k) == /\ \A i \in 1..k - 1 : ages[i] >= Window
                   /\ k <= Len(ages) => ages[k] < Window
<1>0. Len(ages) \in Nat /\ Window \in Nat /\ \A i \in 1..Len(ages) : ages[i] \in 0..Window
  BY GuardAssumption DEF FailureAges
<1>1. PICK b \in 1..Len(ages) + 1 : \A i \in 1..Len(ages) : ages[i] >= Window <=> i < b
  BY <1>0 DEF OldestFirst
<1>2. P(b)
  BY <1>0, <1>1
<1>3. FirstWithin(ages) = CHOOSE k \in 1..Len(ages) + 1 : P(k)
  BY Zenon DEF FirstWithin
<1>4. FirstWithin(ages) \in 1..Len(ages) + 1 /\ P(FirstWithin(ages))
  <2> HIDE DEF P
  <2> QED BY <1>2, <1>3, Zenon
<1> QED BY <1>0, <1>4, <1>1

\* What pruning leaves: the failures within the window, at the end as before.
LEMMA PruneEffect ==
    ASSUME NEW ages \in FailureAges, OldestFirst(ages)
    PROVE  LET p == PruneExpired(ages) IN
           /\ p \in FailureAges /\ Len(p) <= Len(ages)
           /\ \A i \in 1..Len(p) : p[i] = ages[Len(ages) - Len(p) + i] /\ p[i] < Window
           /\ \A i \in 1..Len(ages) - Len(p) : ages[i] = Window
<1> DEFINE k == FirstWithin(ages)
           p == PruneExpired(ages)
<1>0. Len(ages) \in Nat /\ Window \in Nat /\ \A i \in 1..Len(ages) : ages[i] \in 0..Window
  BY GuardAssumption DEF FailureAges
<1>1. k \in 1..Len(ages) + 1 /\ \A i \in 1..Len(ages) : ages[i] >= Window <=> i < k
  BY WindowBegins, Zenon
<1>2. p = SubSeq(ages, k, Len(ages))
  BY Zenon DEF PruneExpired
<1> HIDE DEF k, p
<1>3. /\ p \in FailureAges /\ Len(p) = Len(ages) + 1 - k
      /\ \A i \in 1..Len(p) : p[i] = ages[k - 1 + i]
  BY <1>0, <1>1, <1>2 DEF FailureAges
<1>4. ASSUME NEW i \in 1..Len(p)
      PROVE  p[i] = ages[Len(ages) - Len(p) + i] /\ p[i] < Window
  <2>1. Len(ages) - Len(p) + i = k - 1 + i /\ k - 1 + i \in 1..Len(ages) /\ ~(k - 1 + i < k)
    BY <1>0, <1>1, <1>3
  <2> QED BY <1>0, <1>1, <1>3, <2>1
<1>5. \A i \in 1..Len(ages) - Len(p) : ages[i] = Window
  BY <1>0, <1>1, <1>3
<1> QED BY <1>0, <1>1, <1>3, <1>4, <1>5 DEF p

\* Pruning keeps the order.
LEMMA PruneKeepsOrder ==
    ASSUME NEW ages \in FailureAges, OldestFirst(ages)
    PROVE  OldestFirst(PruneExpired(ages))
<1> DEFINE p == PruneExpired(ages)
<1>0. Len(ages) \in Nat /\ Window \in Nat /\ \A i \in 1..Len(ages) : ages[i] \in 0..Window
  BY GuardAssumption DEF FailureAges
<1>1. /\ p \in FailureAges /\ Len(p) <= Len(ages)
      /\ \A i \in 1..Len(p) : p[i] = ages[Len(ages) - Len(p) + i]
  BY PruneEffect
<1> HIDE DEF p
<1>2. Len(p) \in Nat
  BY <1>1 DEF FailureAges
<1>3. ASSUME NEW a \in 0..Window
      PROVE  \E k \in 1..Len(p) + 1 : \A i \in 1..Len(p) : p[i] >= a <=> i < k
  <2>1. PICK b \in 1..Len(ages) + 1 : \A i \in 1..Len(ages) : ages[i] >= a <=> i < b
    BY DEF OldestFirst
  <2> DEFINE gone == Len(ages) - Len(p)
  <2>2. CASE b <= gone
    <3>1. \A i \in 1..Len(p) : p[i] >= a <=> i < 1
      BY <1>0, <1>1, <1>2, <2>1, <2>2
    <3> QED BY <3>1, <1>2
  <2>3. CASE b > gone
    <3>1. b - gone \in 1..Len(p) + 1
      BY <1>0, <1>1, <1>2, <2>1, <2>3
    <3>2. ASSUME NEW i \in 1..Len(p)
          PROVE  p[i] >= a <=> i < b - gone
      <4>1. gone + i \in 1..Len(ages) /\ (gone + i < b <=> i < b - gone)
        BY <1>0, <1>1, <1>2, <2>1
      <4>2. p[i] = ages[gone + i]
        BY <1>1, Zenon
      <4> QED BY <2>1, <4>1, <4>2
    <3> QED BY <3>1, <3>2, Zenon
  <2> QED BY <2>2, <2>3, <1>0, <1>2, <2>1
<1> QED BY <1>3 DEF OldestFirst, p

\* What Refresh makes of a guard: it counts the same failures, all within the window.
LEMMA RefreshCounts ==
    ASSUME NEW g, Counts(g)
    PROVE  LET r == Refresh(g) IN
           /\ Counts(r) /\ r.latched = g.latched
           /\ ~g.latched => /\ r.safeMode <=> pause > 0
                            /\ r.safeMode => r.left = pause
                            /\ ~r.safeMode => \A i \in 1..Len(r.ages) : r.ages[i] < Window
<1> DEFINE r == Refresh(g)
<1>0. /\ g = [safeMode |-> g.safeMode, latched |-> g.latched, ages |-> g.ages, left |-> g.left]
      /\ g.safeMode \in BOOLEAN /\ g.latched \in BOOLEAN
      /\ g.ages \in FailureAges /\ OldestFirst(g.ages)
      /\ g.left \in 0..Cooldown /\ Cooldown \in Nat
      /\ g.safeMode => pause = g.left /\ recent = LongAgo
      /\ ~g.safeMode => pause = 0 /\ Remembers(g.ages, recent)
  BY GuardAssumption DEF Counts
<1>1. CASE g.latched
  <2>1. r = g
    BY <1>1 DEF Refresh
  <2> QED BY <1>0, <1>1, <2>1, Zenon
<1>2. CASE ~g.latched /\ g.safeMode /\ g.left = 0
  <2>1. r = [safeMode |-> FALSE, latched |-> g.latched, ages |-> <<>>, left |-> g.left]
    BY <1>0, <1>2, Zenon DEF Refresh
  <2>2. <<>> \in FailureAges /\ OldestFirst(<<>>)
    <3>1. Len(<<>>) = 0 /\ 1 \in 1..Len(<<>>) + 1 /\ 1..Len(<<>>) = {}
      OBVIOUS
    <3> QED BY <3>1 DEF FailureAges, OldestFirst
  <2>3. Remembers(<<>>, recent)
    BY <1>0, <1>2, GuardAssumption DEF Remembers, LongAgo, Former
  <2>4. Counts(r)
    BY <1>0, <1>2, <2>1, <2>2, <2>3 DEF Counts
  <2> QED BY <1>0, <1>2, <2>1, <2>4
<1>3. CASE ~g.latched /\ g.safeMode /\ g.left # 0
  <2>1. r = g
    BY <1>3 DEF Refresh
  <2> QED BY <1>0, <1>3, <2>1
<1>4. CASE ~g.latched /\ ~g.safeMode
  <2> DEFINE p == PruneExpired(g.ages)
             n == Len(g.ages)
  <2>1. r = [safeMode |-> g.safeMode, latched |-> g.latched, ages |-> p, left |-> g.left]
    BY <1>0, <1>4 DEF Refresh
  <2>2. /\ p \in FailureAges /\ Len(p) <= n
        /\ \A i \in 1..Len(p) : p[i] = g.ages[n - Len(p) + i] /\ p[i] < Window
        /\ \A i \in 1..n - Len(p) : g.ages[i] = Window
    BY <1>0, PruneEffect, Zenon
  <2>3. OldestFirst(p)
    BY <1>0, PruneKeepsOrder, Zenon
  <2> HIDE DEF p
  <2>4. n \in Nat /\ Len(p) \in Nat /\ FailuresToEnter \in Nat
    BY <1>0, <2>2, GuardAssumption DEF FailureAges
  <2> HIDE DEF n
  <2>5. Remembers(p, recent)
    <3>1. Len(p) < FailuresToEnter
      BY <1>0, <1>4, <2>2, <2>4 DEF Remembers, n
    <3>2. ASSUME NEW i \in Former
          PROVE  recent[i] = IF i <= Len(p) THEN p[Len(p) + 1 - i] ELSE Window
      <4>1. i \in Nat /\ i >= 1 /\ recent[i] = IF i <= n THEN g.ages[n + 1 - i] ELSE Window
        BY <1>0, <1>4, <2>4 DEF Remembers, Former, n
      <4>2. CASE i <= Len(p)
        <5>0. i \in Nat /\ i >= 1 /\ Len(p) <= n
          BY <2>2, <4>1
        <5>1. Len(p) + 1 - i \in 1..Len(p) /\ n - Len(p) + (Len(p) + 1 - i) = n + 1 - i /\ i <= n
          BY <2>4, <4>2, <5>0
        <5>2. p[Len(p) + 1 - i] = g.ages[n - Len(p) + (Len(p) + 1 - i)]
          BY <2>2, <5>1
        <5> QED BY <4>1, <4>2, <5>1, <5>2
      <4>3. CASE ~(i <= Len(p)) /\ i <= n
        <5>1. n + 1 - i \in 1..n - Len(p)
          BY <2>2, <2>4, <4>1, <4>3
        <5> QED BY <2>2, <4>1, <4>3, <5>1
      <4>4. CASE ~(i <= Len(p)) /\ ~(i <= n)
        BY <4>1, <4>4, Zenon
      <4> QED BY <4>2, <4>3, <4>4
    <3> QED BY <3>1, <3>2 DEF Remembers
  <2>6. Counts(r)
    BY <1>0, <1>4, <2>1, <2>2, <2>3, <2>5 DEF Counts
  <2> QED BY <1>0, <1>4, <2>1, <2>2, <2>6
<1> QED BY <1>0, <1>1, <1>2, <1>3, <1>4

\* One more failure, just now.
LEMMA AppendKeepsOrder ==
    ASSUME NEW ages \in FailureAges, OldestFirst(ages)
    PROVE  Append(ages, 0) \in FailureAges /\ OldestFirst(Append(ages, 0))
<1> DEFINE c == Append(ages, 0)
<1>0. Len(ages) \in Nat /\ Window \in Nat /\ \A i \in 1..Len(ages) : ages[i] \in 0..Window
  BY GuardAssumption DEF FailureAges
<1>1. c \in FailureAges /\ Len(c) = Len(ages) + 1
  BY <1>0 DEF FailureAges
<1>2. c[Len(ages) + 1] = 0 /\ \A i \in 1..Len(ages) : c[i] = ages[i]
  BY <1>0 DEF FailureAges
<1> HIDE DEF c
<1>3. ASSUME NEW a \in 0..Window
      PROVE  \E k \in 1..Len(c) + 1 : \A i \in 1..Len(c) : c[i] >= a <=> i < k
  <2>1. CASE a = 0
    <3>1. \A i \in 1..Len(c) : c[i] >= a <=> i < Len(c) + 1
      BY <1>0, <1>1, <1>2, <2>1
    <3> QED BY <3>1, <1>0, <1>1
  <2>2. CASE a > 0
    <3>1. PICK b \in 1..Len(ages) + 1 : \A i \in 1..Len(ages) : ages[i] >= a <=> i < b
      BY DEF OldestFirst
    <3>2. \A i \in 1..Len(c) : c[i] >= a <=> i < b
      BY <1>0, <1>1, <1>2, <2>2, <3>1
    <3> QED BY <3>1, <3>2, <1>0, <1>1
  <2> QED BY <2>1, <2>2
<1> QED BY <1>1, <1>3, Zenon DEF OldestFirst, c

\* OnClientRejected counts like the eager guard.
LEMMA RejectCounts ==
    ASSUME TimingInv, Reject
    PROVE  TimingInv'
<1> DEFINE r == Refresh(guard)
           c == Append(r.ages, 0)
           p == PruneExpired(c)
<1>0. /\ Counts(r) /\ r.latched = guard.latched
      /\ ~guard.latched => /\ r.safeMode <=> pause > 0
                           /\ ~r.safeMode => \A i \in 1..Len(r.ages) : r.ages[i] < Window
  BY RefreshCounts, Zenon DEF TimingInv
<1>1. guard' = IF r.safeMode \/ r.latched THEN r
               ELSE IF Len(p) >= FailuresToEnter
                    THEN [r EXCEPT !.ages = p, !.safeMode = TRUE, !.left = Cooldown]
               ELSE [r EXCEPT !.ages = p]
  BY Zenon DEF Reject, OnClientRejected
<1> HIDE DEF r
<1>2. CASE r.safeMode \/ r.latched
  <2>1. guard' = r
    BY <1>1, <1>2
  <2>2. UNCHANGED <<recent, pause>>
    BY <1>0, <1>2, Zenon DEF Reject
  <2>3. Counts(guard)'
    BY <1>0, <2>1, <2>2 DEF Counts, Remembers
  <2> QED BY <2>2, <2>3 DEF TimingInv
<1>3. CASE ~r.safeMode /\ ~r.latched
  <2>0. /\ r = [safeMode |-> r.safeMode, latched |-> r.latched, ages |-> r.ages, left |-> r.left]
        /\ r.ages \in FailureAges /\ OldestFirst(r.ages) /\ Remembers(r.ages, recent)
        /\ r.safeMode \in BOOLEAN /\ r.latched \in BOOLEAN /\ r.left \in 0..Cooldown
        /\ ~guard.latched /\ pause = 0 /\ recent \in [Former -> 0..Window]
        /\ \A i \in 1..Len(r.ages) : r.ages[i] < Window
    BY <1>0, <1>3 DEF Counts, TimingInv
  <2> DEFINE m == Len(r.ages)
  <2>1. /\ m \in Nat /\ Window \in Nat \ {0} /\ FailuresToEnter \in Nat \ {0} /\ Cooldown \in Nat
        /\ Len(c) = m + 1
        /\ c[m + 1] = 0 /\ \A i \in 1..m : c[i] = r.ages[i]
    BY <2>0, GuardAssumption DEF FailureAges
  <2>2. c \in FailureAges /\ OldestFirst(c)
    BY <2>0, AppendKeepsOrder, Zenon
  <2>3. /\ p \in FailureAges /\ Len(p) <= Len(c) /\ OldestFirst(p)
        /\ \A i \in 1..Len(p) : p[i] = c[Len(c) - Len(p) + i]
        /\ \A i \in 1..Len(c) - Len(p) : c[i] = Window
    BY <2>2, PruneEffect, PruneKeepsOrder, Zenon
  <2> HIDE DEF c, p
  <2>4. Len(p) \in Nat
    BY <2>3 DEF FailureAges
  <2>5. \A i \in 1..m + 1 : c[i] < Window
    BY <2>0, <2>1
  <2>6. Len(p) = m + 1
    <3>1. SUFFICES ASSUME Len(p) < m + 1 PROVE FALSE
      BY <2>1, <2>3, <2>4
    <3>2. 1 \in 1..Len(c) - Len(p) /\ 1 \in 1..m + 1
      BY <2>1, <2>4, <3>1
    <3>3. c[1] = Window /\ c[1] < Window
      BY <2>3, <2>5, <3>2
    <3> QED BY <2>1, <3>3
  <2>7. p[m + 1] = 0 /\ \A i \in 1..m : p[i] = r.ages[i]
    <3>1. ASSUME NEW i \in 1..m + 1 PROVE p[i] = c[i]
      <4>1. i \in 1..Len(p) /\ Len(c) - Len(p) + i = i
        BY <2>1, <2>6
      <4> QED BY <2>3, <4>1
    <3> QED BY <2>1, <3>1
  <2>8. m < FailuresToEnter /\ \A i \in Former : recent[i] = IF i <= m THEN r.ages[m + 1 - i] ELSE Window
    BY <2>0 DEF Remembers
  <2>9. Len(p) >= FailuresToEnter <=> \A i \in Former : recent[i] < Window
    <3>1. ASSUME m + 1 >= FailuresToEnter, NEW i \in Former PROVE recent[i] < Window
      <4>1. i <= m /\ m + 1 - i \in 1..m
        BY <2>1, <3>1 DEF Former
      <4> QED BY <2>0, <2>8, <4>1
    <3>2. ASSUME ~(m + 1 >= FailuresToEnter) PROVE ~(\A i \in Former : recent[i] < Window)
      <4>1. m + 1 \in Former /\ ~(m + 1 <= m)
        BY <2>1, <3>2 DEF Former
      <4>2. recent[m + 1] = Window
        BY <2>8, <4>1
      <4> QED BY <2>1, <4>1, <4>2
    <3> QED BY <3>1, <3>2, <2>6
  <2> HIDE DEF m
  <2>10. CASE Len(p) >= FailuresToEnter
    <3>1. guard' = [safeMode |-> TRUE, latched |-> r.latched, ages |-> p, left |-> Cooldown]
      BY <1>1, <1>3, <2>0, <2>10, Zenon
    <3>2. pause' = Cooldown /\ recent' = LongAgo
      BY <2>0, <2>1, <2>9, <2>10 DEF Reject
    <3>3. Counts(guard)'
      BY <2>0, <2>1, <2>3, <3>1, <3>2 DEF Counts
    <3>4. LongAgo \in [Former -> 0..Window]
      BY <2>1 DEF LongAgo
    <3> QED BY <2>1, <3>2, <3>3, <3>4 DEF TimingInv
  <2>11. CASE ~(Len(p) >= FailuresToEnter)
    <3>1. guard' = [safeMode |-> FALSE, latched |-> r.latched, ages |-> p, left |-> r.left]
      BY <1>1, <1>3, <2>0, <2>11, Zenon
    <3>2. /\ pause' = pause
          /\ recent' = [i \in Former |-> IF i = 1 THEN 0 ELSE recent[i - 1]]
      BY <2>0, <2>1, <2>9, <2>11 DEF Reject
    <3>3. recent' \in [Former -> 0..Window]
      BY <2>0, <2>1, <3>2 DEF Former
    <3>4. Remembers(p, recent')
      <4>1. ASSUME NEW i \in Former
            PROVE  recent'[i] = IF i <= Len(p) THEN p[Len(p) + 1 - i] ELSE Window
        <5>1. i \in Nat /\ i >= 1 /\ i < FailuresToEnter
          BY <2>1 DEF Former
        <5>2. CASE i = 1
          BY <2>1, <2>6, <2>7, <3>2, <5>2
        <5>3. CASE i # 1 /\ i - 1 <= m
          <6>1. i - 1 \in Former /\ m + 1 - (i - 1) \in 1..m /\ m + 1 - (i - 1) = Len(p) + 1 - i
            BY <2>1, <2>6, <5>1, <5>3 DEF Former
          <6>2. recent'[i] = recent[i - 1] /\ i <= Len(p)
            BY <2>1, <2>6, <3>2, <5>1, <5>3
          <6>3. recent[i - 1] = r.ages[m + 1 - (i - 1)]
            BY <2>8, <5>3, <6>1
          <6>4. p[m + 1 - (i - 1)] = r.ages[m + 1 - (i - 1)]
            BY <2>7, <6>1
          <6> QED BY <6>1, <6>2, <6>3, <6>4
        <5>4. CASE i # 1 /\ ~(i - 1 <= m)
          <6>1. i - 1 \in Former /\ ~(i <= Len(p))
            BY <2>1, <2>6, <5>1, <5>4 DEF Former
          <6> QED BY <2>8, <3>2, <5>4, <6>1
        <5> QED BY <5>2, <5>3, <5>4
      <4>2. Len(p) < FailuresToEnter
        BY <2>1, <2>4, <2>11, SMTT(30)
      <4> QED BY <4>1, <4>2 DEF Remembers
    <3>5. Counts(guard)'
      BY <2>0, <2>1, <2>3, <3>1, <3>2, <3>4 DEF Counts, Remembers
    <3> QED BY <2>0, <3>2, <3>3, <3>5 DEF TimingInv
  <2> QED BY <2>10, <2>11
<1> QED BY <1>0, <1>2, <1>3 DEF Counts

\* As time passes both grow older alike.
LEMMA TickCounts ==
    ASSUME TimingInv, Tick
    PROVE  TimingInv'
<1> DEFINE ages == guard.ages
           older == [i \in DOMAIN ages |-> IF ages[i] < Window THEN ages[i] + 1 ELSE Window]
           n == Len(ages)
<1>0. /\ guard = [safeMode |-> guard.safeMode, latched |-> guard.latched, ages |-> ages,
                  left |-> guard.left]
      /\ guard.safeMode \in BOOLEAN /\ guard.latched \in BOOLEAN
      /\ ages \in FailureAges /\ OldestFirst(ages)
      /\ guard.left \in 0..Cooldown
      /\ guard.safeMode => pause = guard.left /\ recent = LongAgo
      /\ ~guard.safeMode => pause = 0 /\ Remembers(ages, recent)
      /\ recent \in [Former -> 0..Window] /\ pause \in 0..Cooldown
  BY DEF TimingInv, Counts
<1>1. Window \in Nat \ {0} /\ Cooldown \in Nat /\ FailuresToEnter \in Nat \ {0}
  BY GuardAssumption
<1>2. n \in Nat /\ DOMAIN ages = 1..n /\ \A i \in 1..n : ages[i] \in 0..Window
  <2>1. ages \in Seq(0..Window)
    BY <1>0, Zenon DEF FailureAges
  <2> HIDE DEF ages
  <2> QED BY <1>1, <2>1
<1>3. guard' = [safeMode |-> guard.safeMode, latched |-> guard.latched, ages |-> older,
                left |-> IF guard.left > 0 THEN guard.left - 1 ELSE 0]
  BY <1>0, Zenon DEF Tick, Elapse
<1>4. /\ pause' = IF pause > 0 THEN pause - 1 ELSE 0
      /\ recent' = [i \in Former |-> IF recent[i] < Window THEN recent[i] + 1 ELSE Window]
  BY DEF Tick
<1>5. older \in FailureAges /\ Len(older) = n
  <2>1. older \in [1..n -> 0..Window]
    BY <1>1, <1>2
  <2> QED BY <1>2, <2>1 DEF FailureAges
<1>6. \A i \in 1..n : older[i] = IF ages[i] < Window THEN ages[i] + 1 ELSE Window
  BY <1>2
<1> HIDE DEF older, n
<1>7. OldestFirst(older)
  <2>1. ASSUME NEW a \in 0..Window
        PROVE  \E k \in 1..n + 1 : \A i \in 1..n : older[i] >= a <=> i < k
    <3>1. CASE a = 0
      <4>1. \A i \in 1..n : older[i] >= a <=> i < n + 1
        BY <1>1, <1>2, <1>6, <3>1
      <4> QED BY <1>2, <4>1
    <3>2. CASE a > 0
      <4>1. a - 1 \in 0..Window
        BY <1>1, <3>2
      <4>2. PICK b \in 1..n + 1 : \A i \in 1..n : ages[i] >= a - 1 <=> i < b
        BY <1>0, <4>1 DEF OldestFirst, n
      <4>3. \A i \in 1..n : older[i] >= a <=> ages[i] >= a - 1
        BY <1>1, <1>2, <1>6, <3>2
      <4> QED BY <4>2, <4>3
    <3> QED BY <3>1, <3>2
  <2> QED BY <1>5, <2>1 DEF OldestFirst
<1>8. recent' \in [Former -> 0..Window] /\ pause' \in 0..Cooldown
  BY <1>0, <1>1, <1>4
<1>9. ASSUME guard.safeMode
      PROVE  pause' = guard'.left /\ recent' = LongAgo
  BY <1>0, <1>1, <1>3, <1>4, <1>9 DEF LongAgo
<1>10. ASSUME ~guard.safeMode
       PROVE  pause' = 0 /\ Remembers(older, recent')
  <2>1. n < FailuresToEnter
    BY <1>0, <1>10 DEF Remembers, n
  <2>2. ASSUME NEW i \in Former
        PROVE  recent'[i] = IF i <= n THEN older[n + 1 - i] ELSE Window
    <3>1. recent[i] = IF i <= n THEN ages[n + 1 - i] ELSE Window
      BY <1>0, <1>10 DEF Remembers, n
    <3>2. recent'[i] = IF recent[i] < Window THEN recent[i] + 1 ELSE Window
      BY <1>4
    <3>3. CASE i <= n
      <4>1. n + 1 - i \in 1..n
        BY <1>1, <1>2, <3>3 DEF Former
      <4>2. older[n + 1 - i] = IF ages[n + 1 - i] < Window THEN ages[n + 1 - i] + 1 ELSE Window
        BY <1>6, <4>1
      <4> QED BY <3>1, <3>2, <3>3, <4>2
    <3>4. CASE ~(i <= n)
      BY <1>1, <3>1, <3>2, <3>4
    <3> QED BY <3>3, <3>4
  <2> QED BY <1>0, <1>4, <1>5, <1>10, <2>1, <2>2 DEF Remembers
<1>11. guard'.left \in 0..Cooldown
  BY <1>0, <1>1, <1>3
<1>12. Counts(guard)'
  <2>1. /\ guard' = [safeMode |-> guard'.safeMode, latched |-> guard'.latched,
                     ages |-> guard'.ages, left |-> guard'.left]
        /\ guard'.safeMode = guard.safeMode /\ guard'.latched = guard.latched
        /\ guard'.ages = older
    BY <1>3
  <2> QED BY <1>0, <1>5, <1>7, <1>9, <1>10, <1>11, <2>1 DEF Counts
<1> QED BY <1>8, <1>12 DEF TimingInv

\* The eager guard is as the new one, and so is the guard.
LEMMA InitCounts == TimingInit => TimingInv
<1> SUFFICES ASSUME TimingInit PROVE TimingInv
  OBVIOUS
<1>0. Window \in Nat \ {0} /\ Cooldown \in Nat /\ FailuresToEnter \in Nat \ {0}
  BY GuardAssumption
<1>1. <<>> \in FailureAges /\ OldestFirst(<<>>)
  <2>1. Len(<<>>) = 0 /\ 1 \in 1..Len(<<>>) + 1 /\ 1..Len(<<>>) = {}
    OBVIOUS
  <2> QED BY <2>1 DEF FailureAges, OldestFirst
<1>2. Remembers(<<>>, LongAgo) /\ LongAgo \in [Former -> 0..Window]
  BY <1>0 DEF Remembers, LongAgo, Former
<1>3. guard = [safeMode |-> FALSE, latched |-> FALSE, ages |-> <<>>, left |-> 0]
      /\ recent = LongAgo /\ pause = 0
  BY DEF TimingInit, NewGuard
<1>4. Counts(guard)
  BY <1>0, <1>1, <1>2, <1>3 DEF Counts
<1> QED BY <1>0, <1>2, <1>3, <1>4 DEF TimingInv

\* The other calls: a question, an anomaly and its end.
LEMMA CallCounts ==
    ASSUME TimingInv, Ask \/ Latch \/ Unlatch
    PROVE  TimingInv'
<1>1. UNCHANGED <<recent, pause>>
  BY DEF Ask, Latch, Unlatch
<1>2. Counts(guard)'
  <2>1. CASE Ask
    <3>1. Counts(Refresh(guard))
      BY RefreshCounts, Zenon DEF TimingInv
    <3>2. guard' = Refresh(guard)
      BY <2>1 DEF Ask
    <3> QED BY <1>1, <3>1, <3>2 DEF Counts
  <2>2. CASE Latch \/ Unlatch
    <3>1. PICK b \in BOOLEAN : guard' = [guard EXCEPT !.latched = b]
      BY <2>2, Zenon DEF Latch, Unlatch, OnAnomalyDetected, ClearAnomaly
    <3>2. guard' = [safeMode |-> guard.safeMode, latched |-> b, ages |-> guard.ages,
                    left |-> guard.left]
      BY <3>1 DEF TimingInv, Counts
    <3> QED BY <1>1, <3>2 DEF TimingInv, Counts
  <2> QED BY <2>1, <2>2
<1> QED BY <1>1, <1>2 DEF TimingInv

\* A guard that remembers the right failures gives the right answers.
LEMMA CountsAnswers == TimingInv => AnswersLikeEager
<1> SUFFICES ASSUME TimingInv PROVE AnswersLikeEager
  OBVIOUS
<1> DEFINE r == Refresh(guard)
<1>1. /\ r.latched = guard.latched
      /\ ~guard.latched => /\ r.safeMode <=> pause > 0
                           /\ r.safeMode => r.left = pause
  BY RefreshCounts, Zenon DEF TimingInv
<1>2. pause \in Nat
  BY GuardAssumption DEF TimingInv
<1>3. /\ ShouldAcceptClients(guard) <=> ~r.safeMode /\ ~r.latched
      /\ CooldownRemaining(guard) = IF r.latched \/ ~r.safeMode THEN 0 ELSE r.left
  BY Zenon DEF ShouldAcceptClients, CooldownRemaining
<1> HIDE DEF r
<1>4. guard.latched \in BOOLEAN
  BY DEF TimingInv, Counts
<1> QED BY <1>1, <1>2, <1>3, <1>4 DEF AnswersLikeEager

\* SafeModeGuard, which notices the end of its window and of its cooldown only when it is
\* called, answers like a guard that is always up to date, for any threshold, window and
\* cooldown and however the calls, the anomalies and the passing of time are mixed.
THEOREM GuardAnswersInTime == TimingSpec => []AnswersLikeEager
<1>1. TimingInv /\ [TimingNext]_timingVars => TimingInv'
  <2> SUFFICES ASSUME TimingInv, [TimingNext]_timingVars PROVE TimingInv'
    OBVIOUS
  <2>1. CASE UNCHANGED timingVars
    BY <2>1 DEF timingVars, TimingInv, Counts
  <2> QED BY <2>1, TickCounts, RejectCounts, CallCounts DEF TimingNext
<1> QED BY <1>1, InitCounts, CountsAnswers, PTL DEF TimingSpec
=============================================================================
