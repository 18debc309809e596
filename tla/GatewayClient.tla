--------------------------- MODULE GatewayClient ---------------------------
(***************************************************************************)
(* The collector's connection to the Gateway (src/gateway/adapter.ts): one *)
(* WebSocket at a time, a challenge handshake that ends in hello-ok, the   *)
(* requests of its callers, numbered event frames, and a reconnect timer.  *)
(*                                                                         *)
(* The client runs on an event loop.  A request that was settled wakes its *)
(* caller in a microtask, before any timer or socket event is served; only *)
(* frames that arrived in the same chunk are handled before it.            *)
(*                                                                         *)
(* A step is labelled with the notice it gives its owner (onState, onEvent *)
(* or onGap, which are called inside the step) and with the set of callers *)
(* that send a request in it, so that a module that extends this one joins *)
(* its handlers to the client's steps.                                     *)
(*                                                                         *)
(* Abstracted: payloads, messages and delays (the back-off, the lengths of *)
(* the timeouts); each caller has at most one request under way; frames    *)
(* without a sequence number and waitUntilConnected are left out.          *)
(***************************************************************************)
EXTENDS Naturals

CONSTANTS
    Callers,    \* who sends requests, each at most one at a time
    MaxFaults   \* bound: failures of the network, the Gateway or its answers

Connect == "connect"   \* the client's own request of the handshake

ASSUME ClientAssumption == Connect \notin Callers /\ MaxFaults \in Nat

VARIABLES
    life,       \* before start(), running, or after stop()
    sock,       \* the socket: none, opening, open, closing
    connected,  \* hello-ok was received on the socket
    timer,      \* reconnectTimer is armed
    call,       \* how each caller's request stands
    chunk,      \* frames of one chunk are being handled, before any microtask
    admitted,   \* Gateway: it takes this connection for one of its clients
    numbered,   \* lastSeq is defined
    missed,     \* Gateway: it dropped an event frame since the last one it sent
    faults      \* how many failures happened, for the bound

clientVars == <<life, sock, connected, timer, call, chunk, admitted, numbered, missed, faults>>

Calls   == Callers \cup {Connect}
Notices == {"none", "connecting", "connected", "disconnected", "unauthorized",
            "incompatible", "error", "event", "gap"}

\* No settled request still has to wake its caller: timers and sockets may act.
Resting == \A c \in Calls : call[c] \in {"none", "pending"}

\* A request on a socket that is not open is rejected at once.
Issue(asked, calls, up) ==
    [c \in Calls |-> IF c \in asked THEN (IF up THEN "pending" ELSE "failed") ELSE calls[c]]

\* The plausible slip: the pending requests are forgotten with the socket.
RejectedMutant(calls) == calls

\* What the callers' requests become when the socket is gone.
Rejected(calls) == [c \in Calls |-> IF calls[c] = "pending" THEN "failed" ELSE calls[c]]

\* Frames are handled one after the other, and the callers they woke after them.
FrameArrives   == Resting \/ chunk
InTheChunk     == chunk' = ~Resting'
MicrotasksRun  == chunk' = FALSE

Quietly(n, asked) == n = "none" /\ asked = {}

Fault == faults < MaxFaults /\ faults' = faults + 1

-----------------------------------------------------------------------------
ClientInit ==
    /\ life = "new" /\ sock = "none" /\ connected = FALSE /\ timer = FALSE
    /\ call = [c \in Calls |-> "none"] /\ chunk = FALSE
    /\ admitted = FALSE /\ numbered = FALSE /\ missed = FALSE /\ faults = 0

\* open(): a new socket, about which nothing is known yet.
Open(n, asked) ==
    /\ n = "connecting" /\ asked = {}
    /\ sock' = "opening" /\ connected' = FALSE
    /\ admitted' = FALSE /\ numbered' = FALSE /\ missed' = FALSE
    /\ MicrotasksRun
    /\ UNCHANGED <<call, faults>>

Start(n, asked) ==
    /\ life = "new" /\ life' = "running"
    /\ Open(n, asked)
    /\ UNCHANGED timer

\* The plausible slip: the timer that fired still counts as armed.
ReconnectMutant(n, asked) ==
    /\ Resting /\ timer /\ UNCHANGED timer
    /\ Open(n, asked)
    /\ UNCHANGED life

Reconnect(n, asked) ==
    /\ Resting /\ timer /\ timer' = FALSE
    /\ Open(n, asked)
    /\ UNCHANGED life

SocketOpens(n, asked) ==
    /\ Quietly(n, asked)
    /\ Resting /\ sock = "opening" /\ sock' = "open"
    /\ MicrotasksRun
    /\ UNCHANGED <<life, connected, timer, call, admitted, numbered, missed, faults>>

\* The challenge arrives: the connect request goes out.
Challenge(n, asked) ==
    /\ Quietly(n, asked)
    /\ FrameArrives /\ sock = "open" /\ ~connected /\ call[Connect] = "none"
    /\ call' = [call EXCEPT ![Connect] = "pending"]
    /\ InTheChunk
    /\ UNCHANGED <<life, sock, connected, timer, admitted, numbered, missed, faults>>

\* The challenge carries no nonce, or there is no hello ten seconds after the
\* socket opened, whether or not the connect request still has time left.
GiveUp(n, asked) ==
    /\ Quietly(n, asked)
    /\ Fault
    /\ Resting /\ sock = "open" /\ ~connected
    /\ sock' = "closing"
    /\ MicrotasksRun
    /\ UNCHANGED <<life, connected, timer, call, admitted, numbered, missed>>

\* The plausible slip: frames before hello-ok are dropped.
MatchesMutant(c) == connected /\ sock \in {"open", "closing"} /\ call[c] = "pending"

\* A response frame is matched with its request, also while the socket closes.
Matches(c) == sock \in {"open", "closing"} /\ call[c] = "pending"

Answer(c, n, asked) ==
    /\ Quietly(n, asked)
    /\ FrameArrives /\ Matches(c)
    /\ call' = [call EXCEPT ![c] = "ok"]
    /\ admitted' = (admitted \/ c = Connect)
    /\ InTheChunk
    /\ UNCHANGED <<life, sock, connected, timer, numbered, missed, faults>>

\* The plausible slip: any request's error is read for signs of a refusal.
FailuresMutant(c) == {"failed", "denied", "wrong"}

\* An error response; for connect also a refusal, or a hello of another protocol.
Failures(c) == IF c = Connect THEN {"failed", "denied", "wrong"} ELSE {"failed"}

Refuse(c, n, asked) ==
    /\ Quietly(n, asked)
    /\ Fault
    /\ FrameArrives /\ Matches(c)
    /\ \E how \in Failures(c) :
          /\ call' = [call EXCEPT ![c] = how]
          /\ admitted' = (admitted \/ how = "wrong")
    /\ InTheChunk
    /\ UNCHANGED <<life, sock, connected, timer, numbered, missed>>

\* A request's own timer; the Gateway may have accepted it all the same.
TimeOut(c, n, asked) ==
    /\ Quietly(n, asked)
    /\ Fault
    /\ Resting /\ call[c] = "pending"
    /\ call' = [call EXCEPT ![c] = "failed"]
    /\ admitted' \in {admitted, admitted \/ c = Connect}
    /\ MicrotasksRun
    /\ UNCHANGED <<life, sock, connected, timer, numbered, missed>>

\* connect() goes on after hello-ok, on the socket it was sent on.
Greeted(n, asked) ==
    /\ n = "connected"
    /\ call[Connect] = "ok" /\ sock # "none"
    /\ connected' = TRUE
    /\ call' = Issue(asked, [call EXCEPT ![Connect] = "none"], sock = "open")
    /\ MicrotasksRun
    /\ UNCHANGED <<life, sock, timer, admitted, numbered, missed, faults>>

\* connect() goes on after a failure: it says which and closes the socket.
Refused(n, asked) ==
    /\ asked = {}
    /\ \/ call[Connect] = "denied" /\ n = "unauthorized"
       \/ call[Connect] = "wrong"  /\ n = "incompatible"
       \/ call[Connect] = "failed" /\ n = "error"
    /\ call' = [call EXCEPT ![Connect] = "none"]
    /\ sock' = IF sock = "none" THEN "none" ELSE "closing"
    /\ MicrotasksRun
    /\ UNCHANGED <<life, connected, timer, admitted, numbered, missed, faults>>

SocketError(n, asked) ==
    /\ n = "error" /\ asked = {}
    /\ Fault
    /\ Resting /\ sock \in {"opening", "open"}
    /\ sock' = "closing"
    /\ MicrotasksRun
    /\ UNCHANGED <<life, connected, timer, call, admitted, numbered, missed>>

\* The plausible slip: the client stays connected without its socket.
DetachMutant ==
    /\ sock' = "none" /\ UNCHANGED connected
    /\ call' = Rejected(call)
    /\ admitted' = FALSE

\* The client lets go of its socket and rejects what was asked on it.
Detach ==
    /\ sock' = "none" /\ connected' = FALSE
    /\ call' = Rejected(call)
    /\ admitted' = FALSE

\* The socket is gone: every request on it is rejected, and another is tried.
CloseEvent(n, asked) ==
    /\ n = "disconnected" /\ asked = {}
    /\ Resting /\ sock # "none"
    /\ \/ sock = "closing" /\ UNCHANGED faults
       \/ sock # "closing" /\ Fault
    /\ Detach
    /\ timer' = TRUE
    /\ MicrotasksRun
    /\ UNCHANGED <<life, numbered, missed>>

\* An event frame; a jump in its number is reported before the event is.
Frame(n, asked) ==
    /\ FrameArrives /\ sock \in {"open", "closing"} /\ admitted
    /\ n = IF numbered /\ missed THEN "gap" ELSE "event"
    /\ numbered' = TRUE /\ missed' = FALSE
    /\ call' = Issue(asked, call, connected /\ sock = "open")
    /\ InTheChunk
    /\ UNCHANGED <<life, sock, connected, timer, admitted, faults>>

\* The Gateway drops a frame of a slow consumer.
DropFrame(n, asked) ==
    /\ Quietly(n, asked)
    /\ Fault
    /\ admitted /\ ~missed /\ missed' = TRUE
    /\ UNCHANGED <<life, sock, connected, timer, call, chunk, admitted, numbered>>

\* The plausible slip: a reconnect on its way is left to fire.
DisarmMutant == UNCHANGED timer

Disarm == timer' = FALSE

Stop(n, asked) ==
    /\ Quietly(n, asked)
    /\ Resting /\ life = "running" /\ life' = "stopped"
    /\ Disarm
    /\ Detach
    /\ MicrotasksRun
    /\ UNCHANGED <<numbered, missed, faults>>

ClientStep(n, asked) ==
    \/ Start(n, asked) \/ Reconnect(n, asked) \/ Stop(n, asked)
    \/ SocketOpens(n, asked) \/ Challenge(n, asked) \/ GiveUp(n, asked)
    \/ Greeted(n, asked) \/ Refused(n, asked)
    \/ SocketError(n, asked) \/ CloseEvent(n, asked)
    \/ Frame(n, asked) \/ DropFrame(n, asked)
    \/ \E c \in Calls : Answer(c, n, asked) \/ Refuse(c, n, asked) \/ TimeOut(c, n, asked)


\* What the callers do on their own: send a request from a timer, or go on when
\* one was settled, and maybe send the next.
Ask(c) ==
    /\ Resting /\ life = "running" /\ connected /\ call[c] = "none"
    /\ call' = Issue({c}, call, sock = "open")
    /\ MicrotasksRun
    /\ UNCHANGED <<life, sock, connected, timer, admitted, numbered, missed, faults>>

Resume(c, asked) ==
    /\ call[c] \in {"ok", "failed"}
    /\ call' = Issue(asked, [call EXCEPT ![c] = "none"], connected /\ sock = "open")
    /\ MicrotasksRun
    /\ UNCHANGED <<life, sock, connected, timer, admitted, numbered, missed, faults>>

-----------------------------------------------------------------------------
(* What its users compose: a caller that may ask, and the close of a socket  *)
(* that was told to.                                                         *)

Idle == {c \in Callers : call[c] = "none"}

SocketEnds(n, asked) == sock = "closing" /\ CloseEvent(n, asked)

-----------------------------------------------------------------------------
\* Types; only the handshake is refused, other requests just fail.
ClientTypeOK ==
    /\ life \in {"new", "running", "stopped"}
    /\ sock \in {"none", "opening", "open", "closing"}
    /\ connected \in BOOLEAN /\ timer \in BOOLEAN /\ chunk \in BOOLEAN
    /\ admitted \in BOOLEAN /\ numbered \in BOOLEAN /\ missed \in BOOLEAN
    /\ call \in [Calls -> {"none", "pending", "ok", "failed", "denied", "wrong"}]
    /\ \A c \in Callers : call[c] \notin {"denied", "wrong"}
    /\ faults \in 0..MaxFaults

\* A running client always has a socket that can still end or a reconnect on
\* its way, and never both: whatever the order of a failed handshake, a socket
\* error and the close event, it neither gives up nor opens a second socket.
NeverAbandoned == life = "running" => (sock # "none" <=> ~timer)

\* A request never outlives its socket: it would take the next connection's
\* time-out to end, and its caller's pass could not start again before.
NoOrphanRequest == sock = "none" => \A c \in Calls : call[c] # "pending"

\* stop() is final: nothing that was under way opens a connection afterwards.
StopIsFinal == life = "stopped" => sock = "none" /\ ~timer /\ ~connected

\* Callers are told the truth: connected only with a hello of this very socket,
\* and with no handshake of it still under way.
ConnectedIsGreeted ==
    connected => admitted /\ sock \in {"open", "closing"} /\ call[Connect] = "none"

\* The client keeps its word whatever the order of failures, time-outs and
\* closes: the four facts above.
ClientIsSound == NeverAbandoned /\ NoOrphanRequest /\ StopIsFinal /\ ConnectedIsGreeted
=============================================================================
