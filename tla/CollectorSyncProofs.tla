------------------------ MODULE CollectorSyncProofs ------------------------
(***************************************************************************)
(* What holds of the collector and its connection for every set of builds  *)
(* and any number of failures: the types, that the client keeps its word   *)
(* (ClientIsSound), that live and reconciling are earned (StatusIsEarned)  *)
(* and that a refusal stays in sight (RefusalStays).  One invariant, IInv, *)
(* carries all of them; one lemma per step shows that it is preserved.     *)
(***************************************************************************)
EXTENDS CollectorSync, TLAPS

-----------------------------------------------------------------------------
(* The invariant.                                                           *)

\* The part of TypeOK that is not the client's.
RuntimeTypeOK ==
    /\ sync \in Down \cup {"starting", "reconciling", "live"}
    /\ source \in [Sources -> States]
    /\ schedule \in {"offline", "unavailable", "live", "error"}
    /\ methods \in Builds \cup {{}} /\ greeting \in BOOLEAN
    /\ unread \subseteq Passes /\ stale \subseteq Passes /\ fresh \subseteq Passes

\* Before start() there is no socket, no timer and no request.
Dormant ==
    life = "new" => sock = "none" /\ ~timer /\ ~connected /\ \A c \in Calls : call[c] = "none"

\* A hello that was received and not handled yet is of this very socket.
HelloIsOfTheSocket == call[Connect] = "ok" => admitted /\ sock \in {"open", "closing"}

\* Without a connection the callers have no request under way or answered, and
\* on a new socket none at all: this is what keeps the passes of a lost
\* connection from ending as if they had been read whole.
CallsNeedAConnection ==
    ~connected => \A c \in Callers : /\ call[c] \in {"none", "failed"}
                                     /\ sock # "none" => call[c] = "none"

ClientInv == ClientIsSound /\ Dormant /\ HelloIsOfTheSocket /\ CallsNeedAConnection

\* A refusal is shown only with a socket on which no handshake can follow.
RefusedIsOver ==
    sync \in Refusal => ~connected /\ sock \in {"none", "closing"} /\ call[Connect] = "none"

\* A source that owes its first pass shows that it does.
UnreadShows ==
    life = "running" /\ connected => \A c \in unread : source[c] \in {"reconciling", "error"}

\* The connected handler goes on for as long as its subscription is under way.
GreetingWaits ==
    life = "running" /\ connected /\ call["subscribe"] # "none" => greeting

StatusInv == StatusIsEarned /\ RefusedIsOver /\ UnreadShows /\ GreetingWaits

IInv == TypeOK /\ ClientInv /\ StatusInv

-----------------------------------------------------------------------------
(* Types.                                                                   *)

LEMMA TypeParts == TypeOK <=> ClientTypeOK /\ RuntimeTypeOK
  BY DEF TypeOK, RuntimeTypeOK

\* The bound of the failures is kept.
LEMMA FaultTyped == ASSUME faults \in 0..MaxFaults, Fault PROVE faults' \in 0..MaxFaults
  BY ClientAssumption DEF Fault

\* What a caller sends is under way or has failed.
LEMMA IssueTyped ==
    ASSUME NEW S, {"pending", "failed"} \subseteq S, NEW calls \in [Calls -> S],
           NEW asked \in SUBSET Callers, NEW up \in BOOLEAN
    PROVE  /\ Issue(asked, calls, up) \in [Calls -> S]
           /\ \A c \in Calls : \/ Issue(asked, calls, up)[c] = calls[c]
                               \/ Issue(asked, calls, up)[c] \in {"pending", "failed"}
  BY DEF Issue, Calls

\* Deriving the state of the collector gives one of its states.
LEMMA DerivedTyped ==
    ASSUME NEW state \in Down \cup {"starting", "reconciling", "live"}, NEW src, NEW up
    PROVE  Derived(state, src, up) \in Down \cup {"starting", "reconciling", "live"}
  BY DEF Derived, Down

\* The steps of the client keep its types, whoever is asked to send.
LEMMA ClientTyped ==
    ASSUME TypeOK, NEW n \in Notices, NEW asked \in SUBSET Idle, ClientStep(n, asked)
    PROVE  ClientTypeOK'
<1>1. asked \in SUBSET Callers
  BY DEF Idle
<1> USE ClientAssumption, TypeParts DEF ClientTypeOK
<1>2. CASE Start(n, asked)
  BY <1>2 DEF Start, Open, MicrotasksRun
<1>3. CASE Reconnect(n, asked)
  BY <1>3 DEF Reconnect, Open, MicrotasksRun
<1>4. CASE Stop(n, asked)
  BY <1>4 DEF Stop, Disarm, Detach, Rejected, MicrotasksRun, Calls
<1>5. CASE SocketOpens(n, asked)
  BY <1>5 DEF SocketOpens, MicrotasksRun
<1>6. CASE Challenge(n, asked)
  BY <1>6 DEF Challenge, InTheChunk, Resting, Calls
<1>7. CASE GiveUp(n, asked)
  BY <1>7, FaultTyped DEF GiveUp, MicrotasksRun
<1>8. CASE Greeted(n, asked)
  <2> DEFINE S == {"none", "pending", "ok", "failed", "denied", "wrong"}
  <2>1. [call EXCEPT ![Connect] = "none"] \in [Calls -> S] /\ {"pending", "failed"} \subseteq S
    OBVIOUS
  <2>2. (sock = "open") \in BOOLEAN
    OBVIOUS
  <2> HIDE DEF S
  <2>3. /\ call' \in [Calls -> S]
        /\ \A c \in Calls : \/ call'[c] = [call EXCEPT ![Connect] = "none"][c]
                            \/ call'[c] \in {"pending", "failed"}
    BY <1>1, <1>8, <2>1, <2>2, IssueTyped DEF Greeted
  <2> QED
    BY <1>8, <2>3 DEF Greeted, MicrotasksRun, Calls, S
<1>9. CASE Refused(n, asked)
  BY <1>9 DEF Refused, MicrotasksRun, Calls
<1>10. CASE SocketError(n, asked)
  BY <1>10, FaultTyped DEF SocketError, MicrotasksRun
<1>11. CASE CloseEvent(n, asked)
  <2>1. faults' \in 0..MaxFaults
    BY <1>11, FaultTyped DEF CloseEvent
  <2> QED
    BY <1>11, <2>1 DEF CloseEvent, Detach, Rejected, MicrotasksRun, Calls
<1>12. CASE Frame(n, asked)
  <2> DEFINE S == {"none", "pending", "ok", "failed", "denied", "wrong"}
  <2>1. call \in [Calls -> S] /\ {"pending", "failed"} \subseteq S
    OBVIOUS
  <2>2. (connected /\ sock = "open") \in BOOLEAN
    OBVIOUS
  <2> HIDE DEF S
  <2>3. /\ call' \in [Calls -> S]
        /\ \A c \in Calls : call'[c] = call[c] \/ call'[c] \in {"pending", "failed"}
    BY <1>1, <1>12, <2>1, <2>2, IssueTyped DEF Frame
  <2> QED
    BY <1>12, <2>3 DEF Frame, InTheChunk, Resting, Calls, S
<1>13. CASE DropFrame(n, asked)
  BY <1>13, FaultTyped DEF DropFrame
<1>14. ASSUME NEW c \in Calls, Answer(c, n, asked) PROVE ClientTypeOK'
  BY <1>14 DEF Answer, InTheChunk, Resting, Calls
<1>15. ASSUME NEW c \in Calls, Refuse(c, n, asked) PROVE ClientTypeOK'
  <2>1. faults' \in 0..MaxFaults
    BY <1>15, FaultTyped DEF Refuse
  <2> QED
    BY <1>15, <2>1 DEF Refuse, Failures, InTheChunk, Resting, Calls
<1>16. ASSUME NEW c \in Calls, TimeOut(c, n, asked) PROVE ClientTypeOK'
  <2>1. faults' \in 0..MaxFaults
    BY <1>16, FaultTyped DEF TimeOut
  <2> QED
    BY <1>16, <2>1 DEF TimeOut, MicrotasksRun, Calls
<1> QED
  BY <1>2, <1>3, <1>4, <1>5, <1>6, <1>7, <1>8, <1>9, <1>10, <1>11, <1>12, <1>13, <1>14,
     <1>15, <1>16
  DEF ClientStep

\* The handlers keep the types of the runtime.
LEMMA HandlersTyped ==
    ASSUME TypeOK, NEW n \in Notices, NEW asked \in SUBSET Idle, Handle(n, asked)
    PROVE  RuntimeTypeOK'
<1> USE RuntimeAssumption, TypeParts DEF RuntimeTypeOK, Down, States
<1>1. CASE n = "none" /\ UNCHANGED <<runtimeVars, history>>
  BY <1>1 DEF runtimeVars, history
<1>2. CASE n = "connecting" /\ OnConnecting
  BY <1>2 DEF OnConnecting, AllOffline, history
<1>3. CASE n = "connected" /\ OnConnected(asked)
  <2>1. PICK m \in Builds :
           /\ methods' = m
           /\ schedule' \in {schedule, ScheduleOn(m, TRUE)}
           /\ \E f : source' = [s \in Sources |-> IF f[s] \in m THEN "reconciling" ELSE "unavailable"]
           /\ sync' = "reconciling" /\ greeting' = TRUE
           /\ unread' = Passes \cap m /\ stale' = {} /\ fresh' \subseteq Passes
    <3>1. PICK m \in Builds : OnConnected(asked)!(m)
      BY <1>3 DEF OnConnected
    <3> DEFINE f == [s \in Sources |-> IF s = "events" THEN "subscribe" ELSE s]
    <3>2. source' = [s \in Sources |-> IF f[s] \in m THEN "reconciling" ELSE "unavailable"]
      BY <3>1
    <3> QED
      BY <3>1, <3>2 DEF FirstPasses
  <2> QED
    BY <2>1 DEF ScheduleOn
<1>4. CASE n \in Refusal /\ OnRefused(n)
  BY <1>4 DEF OnRefused, AllOffline, Refusal, history
<1>5. CASE n = "error" /\ OnError
  BY <1>5 DEF OnError, history
<1>6. CASE n = "disconnected" /\ OnDisconnected
  BY <1>6 DEF OnDisconnected, AllOffline, history
<1>7. CASE n \in {"event", "gap"} /\ OnEvent(n = "gap", asked)
  <2>1. source' \in [Sources -> States]
    BY <1>7 DEF OnEvent, Starting
  <2>2. sync' \in Down \cup {"starting", "reconciling", "live"}
    BY <1>7, DerivedTyped DEF OnEvent
  <2> QED
    BY <1>7, <2>1, <2>2 DEF OnEvent, CanStart, Passes
<1> QED
  BY <1>1, <1>2, <1>3, <1>4, <1>5, <1>6, <1>7 DEF Handle

\* So do the runtime's own steps.
LEMMA RuntimeTyped == ASSUME TypeOK, Runtime PROVE TypeOK'
<1> USE RuntimeAssumption, ClientAssumption
    DEF TypeOK, ClientTypeOK, Calls, RuntimeCallers, Passes, Sources
<1>1. CASE Subscribed
  BY <1>1, DerivedTyped, ZenonT(60)
  DEF Subscribed, Resume, Issue, MicrotasksRun, FirstPasses, CronStarts, ScheduleOn,
      Starting, Begins, States
<1>2. CASE EndGreeting
  BY <1>2, DerivedTyped, ZenonT(60) DEF EndGreeting, clientVars, history
<1>3. CASE StartSchedules
  BY <1>3, ZenonT(60) DEF StartSchedules, Ask, Issue, MicrotasksRun, runtimeVars, history
<1>4. CASE CronAnswered
  <2>1. \E asked \in {{}, {"roster"}} : Resume("cron", asked)
    BY <1>4 DEF CronAnswered
  <2>2. ClientTypeOK'
    BY <2>1, ZenonT(60) DEF Resume, Issue, MicrotasksRun
  <2> QED
    BY <1>4, <2>2 DEF CronAnswered, history
<1>5. CASE RosterAnswered
  BY <1>5, ZenonT(60) DEF RosterAnswered, Resume, Issue, MicrotasksRun, history
<1>6. ASSUME NEW c \in Passes, StartPass(c) PROVE TypeOK'
  BY <1>6, DerivedTyped, ZenonT(60)
  DEF StartPass, Ask, Issue, MicrotasksRun, Starting, Begins, States
<1>7. ASSUME NEW c \in Passes, EndPass(c) PROVE TypeOK'
  <2>1. ClientTypeOK'
    BY <1>7 DEF EndPass, Resume, Issue, MicrotasksRun
  <2>2. source' \in [Sources -> States]
    BY <1>7 DEF EndPass, States
  <2>3. sync' \in Down \cup {"starting", "reconciling", "live"}
    BY <1>7, DerivedTyped DEF EndPass
  <2> QED
    BY <1>7, <2>1, <2>2, <2>3 DEF EndPass
<1> QED
  BY <1>1, <1>2, <1>3, <1>4, <1>5, <1>6, <1>7 DEF Runtime

LEMMA TypeStep == ASSUME TypeOK, [Next]_vars PROVE TypeOK'
<1>1. ASSUME NEW n \in Notices, NEW asked \in SUBSET Idle, Connection(n, asked)
      PROVE  TypeOK'
  BY <1>1, ClientTyped, HandlersTyped DEF Connection, TypeOK, RuntimeTypeOK
<1>2. CASE UNCHANGED vars
  BY <1>2 DEF vars, clientVars, runtimeVars, history, TypeOK, ClientTypeOK
<1> QED
  BY <1>1, <1>2, RuntimeTyped DEF Next

LEMMA TypeInit == Init => TypeOK
<1>1. Init => ClientTypeOK
  <2>1. SUFFICES ASSUME Init PROVE ClientTypeOK
    OBVIOUS
  <2>2. faults \in 0..MaxFaults
    BY <2>1, ClientAssumption DEF Init, ClientInit
  <2>3. /\ call \in [Calls -> {"none", "pending", "ok", "failed", "denied", "wrong"}]
        /\ \A c \in Callers : call[c] \notin {"denied", "wrong"}
    BY <2>1 DEF Init, ClientInit, Calls
  <2> QED
    BY <2>1, <2>2, <2>3 DEF Init, ClientInit, ClientTypeOK
<1>2. Init => RuntimeTypeOK
  BY DEF Init, RuntimeTypeOK, AllOffline, Down, States
<1> QED
  BY <1>1, <1>2, TypeParts

\* Every reachable state of the collector is typed.
THEOREM TypeCorrect == Spec => []TypeOK
  BY TypeInit, TypeStep, PTL DEF Spec

-----------------------------------------------------------------------------
(* The steps of the connection, each with what the runtime makes of it.     *)

\* A step of which the client tells nobody leaves the runtime as it was.
LEMMA QuietHandle ==
    ASSUME NEW n, NEW asked, Quietly(n, asked), Handle(n, asked)
    PROVE  UNCHANGED <<runtimeVars, history>>
  BY DEF Quietly, Handle, Refusal

\* What every one of them is about: the invariant, in its parts.
USE RuntimeAssumption, ClientAssumption
    DEF IInv, TypeOK, ClientTypeOK, RuntimeTypeOK, Calls, RuntimeCallers, Passes,
        Sources, ClientInv, ClientIsSound, NeverAbandoned, NoOrphanRequest,
        StopIsFinal, ConnectedIsGreeted, Dormant, HelloIsOfTheSocket,
        CallsNeedAConnection, StatusInv, StatusIsEarned, LiveIsEarned,
        SourceIsEarned, ReconcilingIsReal, RefusedIsOver, UnreadShows, GreetingWaits

\* An open socket changes nothing that was said of one that was opening.
LEMMA SocketOpensStep ==
    ASSUME IInv, TypeOK', NEW n \in Notices, NEW asked \in SUBSET Idle,
           SocketOpens(n, asked), Handle(n, asked)
    PROVE  IInv'
<1>1. UNCHANGED <<runtimeVars, history>>
  BY QuietHandle DEF SocketOpens
<1>2. ClientInv'
  BY DEF Quietly, SocketOpens, Resting, MicrotasksRun
<1>3. StatusInv'
  BY <1>1 DEF Refusal, runtimeVars, history, SocketOpens, Resting, MicrotasksRun
<1> QED
  BY <1>2, <1>3

\* The connect request goes out on an open socket only, so one that is closing
\* stays over.
LEMMA ChallengeStep ==
    ASSUME IInv, TypeOK', NEW n \in Notices, NEW asked \in SUBSET Idle,
           Challenge(n, asked), Handle(n, asked)
    PROVE  IInv'
<1>1. UNCHANGED <<runtimeVars, history>>
  BY QuietHandle DEF Challenge
<1>2. ClientInv'
  BY DEF Quietly, Challenge, FrameArrives, InTheChunk
<1>3. StatusInv'
  BY <1>1 DEF Refusal, runtimeVars, history, Challenge, FrameArrives, InTheChunk
<1> QED
  BY <1>2, <1>3

\* A handshake given up leaves a socket that can only end.
LEMMA GiveUpStep ==
    ASSUME IInv, TypeOK', NEW n \in Notices, NEW asked \in SUBSET Idle,
           GiveUp(n, asked), Handle(n, asked)
    PROVE  IInv'
<1>1. UNCHANGED <<runtimeVars, history>>
  BY QuietHandle DEF GiveUp
<1>2. ClientInv'
  BY DEF Quietly, GiveUp, Fault, Resting, MicrotasksRun
<1>3. StatusInv'
  BY <1>1 DEF Refusal, runtimeVars, history, GiveUp, Fault, Resting, MicrotasksRun
<1> QED
  BY <1>2, <1>3

\* What the Gateway drops is not seen before the next frame.
LEMMA DropFrameStep ==
    ASSUME IInv, TypeOK', NEW n \in Notices, NEW asked \in SUBSET Idle,
           DropFrame(n, asked), Handle(n, asked)
    PROVE  IInv'
<1>1. UNCHANGED <<runtimeVars, history>>
  BY QuietHandle DEF DropFrame
<1>2. ClientInv'
  BY DEF Quietly, DropFrame, Fault
<1>3. StatusInv'
  BY <1>1 DEF Refusal, runtimeVars, history, DropFrame, Fault
<1> QED
  BY <1>2, <1>3

\* stop() rejects what was under way together with the socket and the timer.
LEMMA StopStep ==
    ASSUME IInv, TypeOK', NEW n \in Notices, NEW asked \in SUBSET Idle,
           Stop(n, asked), Handle(n, asked)
    PROVE  IInv'
<1>1. UNCHANGED <<runtimeVars, history>>
  BY QuietHandle DEF Stop
<1>2. ClientInv'
  BY DEF Quietly, Stop, Resting, Disarm, Detach, Rejected, MicrotasksRun
<1>3. StatusInv'
  BY <1>1
  DEF Refusal, runtimeVars, history, Stop, Resting, Disarm, Detach, Rejected,
      MicrotasksRun
<1> QED
  BY <1>2, <1>3

\* An answer leaves its request neither forgotten nor under way; that of the
\* handshake makes the Gateway admit the very socket it came on.
LEMMA AnswerStep ==
    ASSUME IInv, TypeOK', NEW n \in Notices, NEW asked \in SUBSET Idle, NEW c \in Calls,
           Answer(c, n, asked), Handle(n, asked)
    PROVE  IInv'
<1>1. UNCHANGED <<runtimeVars, history>>
  BY QuietHandle DEF Answer
<1>2. ClientInv'
  BY DEF Quietly, Answer, FrameArrives, Matches, InTheChunk
<1>3. StatusInv'
  BY <1>1
  DEF Refusal, runtimeVars, history, Answer, FrameArrives, Matches, InTheChunk
<1> QED
  BY <1>2, <1>3

\* An error response settles its request like any other answer.
LEMMA RefuseStep ==
    ASSUME IInv, TypeOK', NEW n \in Notices, NEW asked \in SUBSET Idle, NEW c \in Calls,
           Refuse(c, n, asked), Handle(n, asked)
    PROVE  IInv'
<1>1. UNCHANGED <<runtimeVars, history>>
  BY QuietHandle DEF Refuse
<1>2. ClientInv'
  BY DEF Quietly, Refuse, Fault, FrameArrives, Matches, Failures, InTheChunk
<1>3. StatusInv'
  BY <1>1
  DEF Refusal, runtimeVars, history, Refuse, Fault, FrameArrives, Matches, Failures,
      InTheChunk
<1> QED
  BY <1>2, <1>3

\* A time-out settles its request, and only one of a socket that is there.
LEMMA TimeOutStep ==
    ASSUME IInv, TypeOK', NEW n \in Notices, NEW asked \in SUBSET Idle, NEW c \in Calls,
           TimeOut(c, n, asked), Handle(n, asked)
    PROVE  IInv'
<1>1. UNCHANGED <<runtimeVars, history>>
  BY QuietHandle DEF TimeOut
<1>2. ClientInv'
  BY DEF Quietly, TimeOut, Fault, Resting, MicrotasksRun
<1>3. StatusInv'
  BY <1>1 DEF Refusal, runtimeVars, history, TimeOut, Fault, Resting, MicrotasksRun
<1> QED
  BY <1>2, <1>3

\* The first socket: nothing is under way yet.
LEMMA StartStep ==
    ASSUME IInv, TypeOK', NEW n \in Notices, NEW asked \in SUBSET Idle,
           Start(n, asked), Handle(n, asked)
    PROVE  IInv'
<1>1. ClientInv'
  BY DEF Idle, Start, Open, MicrotasksRun
<1>2. StatusInv'
  BY DEF Refusal, Idle, history, Handle, OnConnecting, AllOffline, Start, Open,
         MicrotasksRun
<1> QED
  BY <1>1, <1>2

\* The timer only fires on a running client without a socket, whose requests
\* were all rejected.
LEMMA ReconnectStep ==
    ASSUME IInv, TypeOK', NEW n \in Notices, NEW asked \in SUBSET Idle,
           Reconnect(n, asked), Handle(n, asked)
    PROVE  IInv'
<1>1. ClientInv'
  BY DEF Idle, Reconnect, Open, MicrotasksRun, Resting
<1>2. StatusInv'
  BY DEF Refusal, Idle, history, Handle, OnConnecting, AllOffline, Reconnect, Open,
         MicrotasksRun, Resting
<1> QED
  BY <1>1, <1>2

\* A hello that is handled is of this socket, and no request of a former one is
\* left.
LEMMA GreetedStep ==
    ASSUME IInv, TypeOK', NEW n \in Notices, NEW asked \in SUBSET Idle,
           Greeted(n, asked), Handle(n, asked)
    PROVE  IInv'
<1>1. ClientInv'
  BY DEF Idle, Greeted, Issue, MicrotasksRun
<1>2. StatusInv'
  BY DEF Refusal, Idle, history, Handle, OnConnected, CanStart, FirstPasses,
         CronStarts, ScheduleOn, CronIdle, Greeted, Issue, MicrotasksRun
<1> QED
  BY <1>1, <1>2

\* A refusal leaves a socket that can only end.
LEMMA RefusedStep ==
    ASSUME IInv, TypeOK', NEW n \in Notices, NEW asked \in SUBSET Idle,
           Refused(n, asked), Handle(n, asked)
    PROVE  IInv'
<1>1. ClientInv'
  BY DEF Idle, Refused, MicrotasksRun
<1>2. StatusInv'
  BY DEF Refusal, Idle, history, Handle, OnRefused, OnError, AllOffline, Refused,
         MicrotasksRun
<1> QED
  BY <1>1, <1>2

\* A socket that fails can only end; of a connection it says nothing.
LEMMA SocketErrorStep ==
    ASSUME IInv, TypeOK', NEW n \in Notices, NEW asked \in SUBSET Idle,
           SocketError(n, asked), Handle(n, asked)
    PROVE  IInv'
<1>1. ClientInv'
  BY DEF Idle, SocketError, Fault, Resting, MicrotasksRun
<1>2. StatusInv'
  BY DEF Refusal, Idle, history, Handle, OnError, SocketError, Fault, Resting,
         MicrotasksRun
<1> QED
  BY <1>1, <1>2

\* With its socket go the connection and every request that was under way.
LEMMA CloseEventStep ==
    ASSUME IInv, TypeOK', NEW n \in Notices, NEW asked \in SUBSET Idle,
           CloseEvent(n, asked), Handle(n, asked)
    PROVE  IInv'
<1>1. ClientInv'
  BY DEF Idle, CloseEvent, Fault, Resting, Detach, Rejected, MicrotasksRun
<1>2. StatusInv'
  BY DEF Refusal, Idle, history, Handle, OnDisconnected, AllOffline, CloseEvent,
         Fault, Resting, Detach, Rejected, MicrotasksRun
<1> QED
  BY <1>1, <1>2

\* An event starts a pass only on a connection, and a jump shows as one.
LEMMA FrameStep ==
    ASSUME IInv, TypeOK', NEW n \in Notices, NEW asked \in SUBSET Idle,
           Frame(n, asked), Handle(n, asked)
    PROVE  IInv'
<1>1. n \in {"event", "gap"} /\ OnEvent(n = "gap", asked)
  BY DEF Frame, Handle, Refusal
<1>2. \A c \in asked : connected /\ source'[c] = "reconciling" /\ call[c] = "none"
  BY <1>1 DEF OnEvent, CanStart, Starting
<1>3. ClientInv'
  BY <1>2 DEF Idle, Frame, FrameArrives, Issue, InTheChunk
<1>4. UNCHANGED <<life, sock, connected>> /\ call'[Connect] = call[Connect]
  BY DEF Idle, Frame, Issue
<1>5. \A c \in Callers : call'[c] # "none" <=> call[c] # "none" \/ c \in asked
  BY DEF Frame, Issue
<1>6. /\ source' = [s \in Sources |-> IF s \in asked THEN "reconciling"
                                     ELSE IF s = "events" THEN "live" ELSE source[s]]
      /\ asked \subseteq Passes /\ \A c \in asked : CanStart(c, source, connected)
      /\ UNCHANGED <<greeting, unread>>
      /\ sync' \in {Derived(sync, source', connected),
                    Derived("reconciling", source', connected)}
  BY <1>1 DEF OnEvent, Starting
<1>7. StatusInv'
  BY <1>4, <1>5, <1>6 DEF CanStart, Derived, Down, Refusal
<1> QED
  BY <1>3, <1>7

\* The first passes start with the answer to the subscription, so no source is
\* left reconciling without one.
LEMMA SubscribedStep ==
    ASSUME IInv, TypeOK', Subscribed
    PROVE  IInv'
<1>1. ClientInv'
  BY DEF Subscribed, Resume, Issue, MicrotasksRun, Resting, history, FirstPasses,
         CanStart, CronStarts, ScheduleOn, CronIdle, Starting, Derived, Begins
<1>2. StatusInv'
  BY DEF Refusal, Down, Subscribed, Resume, Issue, MicrotasksRun, Resting, history,
         FirstPasses, CanStart, CronStarts, ScheduleOn, CronIdle, Starting, Derived,
         Begins
<1> QED
  BY <1>1, <1>2

\* What the greeting says last is derived from the sources.
LEMMA EndGreetingStep ==
    ASSUME IInv, TypeOK', EndGreeting
    PROVE  IInv'
<1>1. UNCHANGED <<clientVars, source, unread>>
  BY DEF EndGreeting, history
<1>2. sync' = Derived(sync, source, connected) /\ call["subscribe"] = "none"
  BY DEF EndGreeting
<1>3. ClientInv'
  BY <1>1 DEF clientVars
<1>4. LiveIsEarned'
  BY <1>1, <1>2 DEF Derived, clientVars
<1>5. SourceIsEarned' /\ ReconcilingIsReal' /\ UnreadShows' /\ GreetingWaits'
  BY <1>1, <1>2 DEF clientVars
<1>6. RefusedIsOver'
  BY <1>1, <1>2 DEF Derived, Down, Refusal, clientVars
<1> QED
  BY <1>3, <1>4, <1>5, <1>6

\* The schedule pass is none of a source.
LEMMA StartSchedulesStep ==
    ASSUME IInv, TypeOK', StartSchedules
    PROVE  IInv'
<1>1. ClientInv'
  BY DEF StartSchedules, Resume, Issue, MicrotasksRun, Resting, history, Ask,
         CronIdle, runtimeVars
<1>2. StatusInv'
  BY DEF Refusal, Down, StartSchedules, Resume, Issue, MicrotasksRun, Resting,
         history, Ask, CronIdle, runtimeVars
<1> QED
  BY <1>1, <1>2

\* Nor is its second request.
LEMMA CronAnsweredStep ==
    ASSUME IInv, TypeOK', CronAnswered
    PROVE  IInv'
<1>1. ClientInv'
  BY DEF CronAnswered, Resume, Issue, MicrotasksRun, Resting, history
<1>2. StatusInv'
  BY DEF Refusal, Down, CronAnswered, Resume, Issue, MicrotasksRun, Resting, history
<1> QED
  BY <1>1, <1>2

\* Nor is its end.
LEMMA RosterAnsweredStep ==
    ASSUME IInv, TypeOK', RosterAnswered
    PROVE  IInv'
<1>1. ClientInv'
  BY DEF RosterAnswered, Resume, Issue, MicrotasksRun, Resting, history
<1>2. StatusInv'
  BY DEF Refusal, Down, RosterAnswered, Resume, Issue, MicrotasksRun, Resting,
         history
<1> QED
  BY <1>1, <1>2

\* A pass that starts shows its source as reconciling.
LEMMA StartPassStep ==
    ASSUME IInv, TypeOK', NEW c \in Passes, StartPass(c)
    PROVE  IInv'
<1>1. ClientInv'
  BY DEF StartPass, Resume, Issue, MicrotasksRun, Resting, history, Ask, CanStart,
         Starting, Derived, Begins
<1>2. StatusInv'
  BY DEF Refusal, Down, StartPass, Resume, Issue, MicrotasksRun, Resting, history,
         Ask, CanStart, Starting, Derived, Begins
<1> QED
  BY <1>1, <1>2

\* A pass that ends well was of the connection there is: one that lost it
\* failed.
LEMMA EndPassStep ==
    ASSUME IInv, TypeOK', NEW c \in Passes, EndPass(c)
    PROVE  IInv'
<1>1. ClientInv'
  BY DEF EndPass, Resume, Issue, MicrotasksRun, Resting, history, Derived
<1>2. StatusInv'
  BY DEF Refusal, Down, EndPass, Resume, Issue, MicrotasksRun, Resting, history,
         Derived
<1> QED
  BY <1>1, <1>2

HIDE DEF IInv, TypeOK, ClientTypeOK, RuntimeTypeOK, Calls, RuntimeCallers, Passes,
         Sources, ClientInv, ClientIsSound, NeverAbandoned, NoOrphanRequest,
         StopIsFinal, ConnectedIsGreeted, Dormant, HelloIsOfTheSocket,
         CallsNeedAConnection, StatusInv, StatusIsEarned, LiveIsEarned,
         SourceIsEarned, ReconcilingIsReal, RefusedIsOver, UnreadShows,
         GreetingWaits

-----------------------------------------------------------------------------
(* The theorems.                                                            *)

\* Every step of the collector preserves the invariant.
LEMMA NextInv == ASSUME IInv, [Next]_vars PROVE IInv'
<1>1. TypeOK'
  BY TypeStep DEF IInv
<1>2. ASSUME NEW n \in Notices, NEW asked \in SUBSET Idle, Connection(n, asked)
      PROVE  IInv'
  BY <1>1, <1>2, StartStep, ReconnectStep, StopStep, SocketOpensStep, ChallengeStep,
     GiveUpStep, GreetedStep, RefusedStep, SocketErrorStep, CloseEventStep, FrameStep,
     DropFrameStep, AnswerStep, RefuseStep, TimeOutStep
  DEF Connection, ClientStep
<1>3. CASE Runtime
  BY <1>1, <1>3, SubscribedStep, EndGreetingStep, StartSchedulesStep, CronAnsweredStep,
     RosterAnsweredStep, StartPassStep, EndPassStep
  DEF Runtime
<1>4. CASE UNCHANGED vars
  BY <1>1, <1>4
  DEF vars, clientVars, runtimeVars, history, IInv, ClientInv, ClientIsSound,
      NeverAbandoned, NoOrphanRequest, StopIsFinal, ConnectedIsGreeted, Dormant,
      HelloIsOfTheSocket, CallsNeedAConnection, StatusInv, StatusIsEarned,
      LiveIsEarned, SourceIsEarned, ReconcilingIsReal, RefusedIsOver, UnreadShows,
      GreetingWaits
<1> QED
  BY <1>2, <1>3, <1>4 DEF Next

LEMMA Inductive == Spec => []IInv
<1>1. Init => IInv
  <2>1. Init => TypeOK
    BY TypeInit
  <2>2. Init => ClientInv
    BY ClientAssumption
    DEF Init, ClientInit, ClientInv, ClientIsSound, NeverAbandoned, NoOrphanRequest,
        StopIsFinal, ConnectedIsGreeted, Dormant, HelloIsOfTheSocket,
        CallsNeedAConnection, Calls
  <2>3. Init => StatusInv
    BY DEF Init, ClientInit, StatusInv, StatusIsEarned, LiveIsEarned, SourceIsEarned,
           ReconcilingIsReal, RefusedIsOver, UnreadShows, GreetingWaits, Refusal
  <2> QED
    BY <2>1, <2>2, <2>3 DEF IInv
<1> QED
  BY <1>1, NextInv, PTL DEF Spec

\* The client neither gives up nor opens a second socket, no request outlives its
\* socket, stop() is final, and connected is said only of a greeted socket.
THEOREM ClientSound == Spec => []ClientIsSound
<1>1. IInv => ClientIsSound
  BY DEF IInv, ClientInv
<1> QED
  BY <1>1, Inductive, PTL

\* The collector is live only on a connection it has and after every source it
\* offers was read whole on it; a source hangs in no state.
THEOREM StatusEarned == Spec => []StatusIsEarned
<1>1. IInv => StatusIsEarned
  BY DEF IInv, StatusInv
<1> QED
  BY <1>1, Inductive, PTL

\* Once a refusal is shown, only the next attempt or a gap replaces it.
LEMMA RefusalStep ==
    ASSUME IInv, [Next]_vars, sync \in Refusal
    PROVE  sync' \in {sync, "starting"} \/ missed
<1>1. ~connected /\ sock \in {"none", "closing"} /\ call[Connect] = "none"
  BY DEF IInv, StatusInv, RefusedIsOver
<1>2. ASSUME NEW src PROVE Derived(sync, src, connected) = sync
  BY <1>1 DEF Derived, Refusal, Down
<1>3. ASSUME NEW n \in Notices, NEW asked \in SUBSET Idle, Connection(n, asked)
      PROVE  sync' \in {sync, "starting"} \/ missed
  <2>1. n = "connected" => Greeted(n, asked)
    BY <1>3
    DEF Connection, ClientStep, Quietly, Start, Reconnect, Open, Stop, SocketOpens,
        Challenge, GiveUp, Refused, SocketError, CloseEvent, Frame, DropFrame, Answer,
        Refuse, TimeOut
  <2>2. n \in Refusal => Refused(n, asked)
    BY <1>3
    DEF Connection, ClientStep, Quietly, Start, Reconnect, Open, Stop, SocketOpens,
        Challenge, GiveUp, Greeted, SocketError, CloseEvent, Frame, DropFrame, Answer,
        Refuse, TimeOut, Refusal
  <2>3. n = "error" => Refused(n, asked) \/ SocketError(n, asked)
    BY <1>3
    DEF Connection, ClientStep, Quietly, Start, Reconnect, Open, Stop, SocketOpens,
        Challenge, GiveUp, Greeted, CloseEvent, Frame, DropFrame, Answer, Refuse, TimeOut
  <2>4. n = "gap" => missed
    BY <1>3
    DEF Connection, ClientStep, Quietly, Start, Reconnect, Open, Stop, SocketOpens,
        Challenge, GiveUp, Greeted, Refused, SocketError, CloseEvent, Frame, DropFrame,
        Answer, Refuse, TimeOut
  <2>5. n \notin {"connected", "error"} /\ n \notin Refusal
    BY <1>1, <2>1, <2>2, <2>3 DEF Greeted, Refused, SocketError
  <2>6. Handle(n, asked)
    BY <1>3 DEF Connection
  <2> QED
    BY <1>2, <2>4, <2>5, <2>6
    DEF Handle, OnConnecting, OnDisconnected, OnEvent, runtimeVars
<1>4. CASE Runtime
  BY <1>2, <1>4
  DEF Runtime, Subscribed, EndGreeting, StartSchedules, CronAnswered, RosterAnswered,
      StartPass, EndPass, runtimeVars
<1>5. CASE UNCHANGED vars
  BY <1>5 DEF vars, runtimeVars
<1> QED
  BY <1>3, <1>4, <1>5 DEF Next

\* A refused token or protocol stays in sight until the next attempt, whatever
\* answers late and whichever close event comes.
THEOREM RefusalInSight == Spec => RefusalStays
<1>1. IInv /\ [Next]_vars => [(sync \in Refusal) => (sync' \in {sync, "starting"} \/ missed)]_vars
  BY RefusalStep
<1> QED
  BY <1>1, Inductive, PTL DEF Spec, RefusalStays
=============================================================================
