--------------------------- MODULE CollectorSync ---------------------------
(***************************************************************************)
(* What the collector says of itself (src/collector/runtime.ts): the sync  *)
(* state, the states of its three sources and of the schedule forecast, as *)
(* the Gateway connection, the reconciliation passes and the events of the *)
(* Gateway change them.  The connection is module GatewayClient: the       *)
(* handlers below are joined to its steps.                                 *)
(*                                                                         *)
(* A pass is under way while its caller's request is: its pages stand for  *)
(* one request that fails when one of them does.  Abstracted: what a pass  *)
(* writes to the repository, the agent roster and capability probes (which *)
(* change none of these states), codes, reasons and timestamps, and the    *)
(* difference between a live and a partial forecast.                       *)
(***************************************************************************)
EXTENDS GatewayClient

CONSTANT Builds   \* the method sets a Gateway build may announce in its hello

Passes  == {"tasks", "sessions"}
Sources == Passes \cup {"events"}

\* The requests the runtime keeps apart: the subscription, the two passes, and
\* the two parts of a schedule pass (the cron jobs, then the default agent).
RuntimeCallers == Passes \cup {"subscribe", "cron", "roster"}

ASSUME RuntimeAssumption ==
    /\ Callers = RuntimeCallers
    /\ \A m \in Builds : m \subseteq RuntimeCallers

VARIABLES
    sync,      \* syncState
    source,    \* state of each source
    schedule,  \* state of the upcoming-schedule snapshot
    methods,   \* what the last hello offers: the callers that have a method
    greeting,  \* the connected handler has not derived the state a last time
    unread,    \* history: sources that owe a first pass to this connection
    stale,     \* history: sources that owe a pass begun after the last gap
    fresh      \* history: passes under way that began after the last gap

runtimeVars == <<sync, source, schedule, methods, greeting>>
history     == <<unread, stale, fresh>>
vars        == <<clientVars, runtimeVars, history>>

Down    == {"unauthorized", "incompatible", "offline", "error"}
Refusal == {"unauthorized", "incompatible"}

AllOffline == [s \in Sources |-> "offline"]

-----------------------------------------------------------------------------
\* The plausible slips: one live source is enough, or what both passes say of
\* themselves is taken for what the collector is.
DerivedMutant(state, src, up) ==
    LET seen == {src[s] : s \in Sources}
    IN  IF state \in Down /\ ~up     THEN state
        ELSE IF "error" \in seen     THEN "error"
        ELSE IF up /\ "live" \in seen THEN "live"
        ELSE "reconciling"

DerivedPlainMutant(state, src, up) ==
    IF src["tasks"] = src["sessions"] THEN src["tasks"] ELSE state

\* deriveSyncState(): a state that says the collector is down only gives way
\* once the client is connected; otherwise the sources decide.
Derived(state, src, up) ==
    LET seen == {src[s] : s \in Sources}
    IN  IF state \in Down /\ ~up              THEN state
        ELSE IF "reconciling" \in seen        THEN "reconciling"
        ELSE IF "error" \in seen              THEN "error"
        ELSE IF up /\ seen \subseteq {"live", "unavailable"} THEN "live"
        ELSE state

\* The plausible slip: a source in error is not read again.
CanStartMutant(c, src, up) == call[c] = "none" /\ up /\ src[c] \notin {"unavailable", "error"}

\* The guard of a pass: not while one is under way, connected, and offered.
CanStart(c, src, up) == call[c] = "none" /\ up /\ src[c] # "unavailable"

\* The plausible slip: a pass only shows at its end.
StartingMutant(started, src) == src

\* Passes that start show their source as reconciling.
Starting(started, src) ==
    [s \in Sources |-> IF s \in started THEN "reconciling" ELSE src[s]]

\* What started now will have seen everything the last gap swallowed.
Begins(started) == fresh' = fresh \cup started

\* syncSchedules(): it needs both cron methods.
CronIdle          == call["cron"] = "none" /\ call["roster"] = "none"
CronStarts(m, up) == IF CronIdle /\ up /\ "cron" \in m THEN {"cron"} ELSE {}
ScheduleOn(m, up) == IF CronIdle /\ up /\ "cron" \notin m THEN "unavailable" ELSE schedule

\* The passes a new connection begins with, once it is subscribed or cannot be.
FirstPasses(src, up) == {c \in Passes : CanStart(c, src, up)}

-----------------------------------------------------------------------------
Init ==
    /\ ClientInit
    /\ sync = "starting" /\ source = AllOffline /\ schedule = "offline"
    /\ methods = {} /\ greeting = FALSE
    /\ unread = {} /\ stale = {} /\ fresh = {}

(* handleGatewayState, up to its first await, per notice.                   *)

OnConnecting ==
    /\ sync' = "starting" /\ source' = AllOffline
    /\ UNCHANGED <<schedule, methods, greeting, history>>

OnConnected(asked) ==
    \E m \in Builds :
        LET offered(c) == IF c \in m THEN "reconciling" ELSE "unavailable"
            src == [s \in Sources |-> offered(IF s = "events" THEN "subscribe" ELSE s)]
            started == IF "subscribe" \in m THEN {} ELSE FirstPasses(src, TRUE)
        IN  /\ methods' = m
            /\ asked = IF "subscribe" \in m THEN {"subscribe"}
                       ELSE started \cup CronStarts(m, TRUE)
            /\ schedule' = IF "subscribe" \in m THEN schedule ELSE ScheduleOn(m, TRUE)
            /\ source' = src /\ sync' = "reconciling"
            /\ greeting' = TRUE
            /\ unread' = Passes \cap m /\ stale' = {} /\ fresh' = started

OnRefused(n) ==
    /\ sync' = n /\ source' = AllOffline /\ schedule' = "offline"
    /\ UNCHANGED <<methods, greeting, history>>

OnError ==
    /\ sync' = IF connected' THEN sync ELSE "error"
    /\ UNCHANGED <<source, schedule, methods, greeting, history>>

\* The plausible slips: the sources keep their states, or a refusal is forgotten.
OnDisconnectedMutant ==
    /\ IF sync \in Refusal
       THEN UNCHANGED <<sync, schedule>>
       ELSE sync' = "offline" /\ schedule' = "offline"
    /\ UNCHANGED source
    /\ greeting' = FALSE
    /\ UNCHANGED <<methods, history>>

OnClosedMutant ==
    /\ sync' = "offline" /\ source' = AllOffline /\ schedule' = "offline"
    /\ greeting' = FALSE
    /\ UNCHANGED <<methods, history>>

\* A refusal stays in sight until the next attempt.  What the connected handler
\* still had to do fails with the connection and then changes nothing.
OnDisconnected ==
    /\ IF sync \in Refusal
       THEN UNCHANGED <<sync, source, schedule>>
       ELSE sync' = "offline" /\ source' = AllOffline /\ schedule' = "offline"
    /\ greeting' = FALSE
    /\ UNCHANGED <<methods, history>>

\* handleGatewayEvent, after handleGap when the number jumped.  A task event
\* without the task, or a session change that names no phase, starts a pass.
OnEvent(gap, asked) ==
    \E hint \in {{}, {"tasks"}, {"sessions"}} :
        LET src     == [source EXCEPT !["events"] = "live"]
            wanted  == hint \cup (IF gap THEN Passes ELSE {})
            started == {c \in wanted : CanStart(c, source, connected)}
            base    == IF gap THEN "reconciling" ELSE sync
        IN  /\ asked = started
            /\ source' = Starting(started, src)
            /\ sync' = Derived(base, source', connected)
            /\ stale' = IF gap THEN stale \cup (Passes \cap methods) ELSE stale
            /\ fresh' = IF gap THEN started ELSE fresh \cup started
            /\ UNCHANGED <<schedule, methods, greeting, unread>>

Handle(n, asked) ==
    \/ n = "none" /\ UNCHANGED <<runtimeVars, history>>
    \/ n = "connecting" /\ OnConnecting
    \/ n = "connected" /\ OnConnected(asked)
    \/ n \in Refusal /\ OnRefused(n)
    \/ n = "error" /\ OnError
    \/ n = "disconnected" /\ OnDisconnected
    \/ n \in {"event", "gap"} /\ OnEvent(n = "gap", asked)

\* A step of the connection and what the runtime makes of it.
Connection(n, asked) == ClientStep(n, asked) /\ Handle(n, asked)

-----------------------------------------------------------------------------
(* The runtime's own steps.                                                 *)

\* The connected handler goes on after its subscription was answered.
Subscribed ==
    LET c       == "subscribe"
        src     == [source EXCEPT !["events"] = IF call[c] = "ok" THEN "live" ELSE "error"]
        started == FirstPasses(src, connected)
    IN  /\ Resume(c, started \cup CronStarts(methods, connected))
        /\ source' = Starting(started, src)
        /\ sync' = IF started = {} THEN sync ELSE Derived(sync, source', connected)
        /\ schedule' = ScheduleOn(methods, connected)
        /\ Begins(started)
        /\ UNCHANGED <<methods, greeting, unread, stale>>

\* Its last act, once the passes it waits for are over.
EndGreeting ==
    /\ greeting /\ greeting' = FALSE
    /\ call["subscribe"] = "none" /\ CronIdle
    /\ sync' = Derived(sync, source, connected)
    /\ UNCHANGED <<clientVars, source, schedule, methods, history>>

\* syncTasks() and syncSessions(), from their interval to their first request.
StartPass(c) ==
    /\ Ask(c)
    /\ CanStart(c, source, connected)
    /\ source' = Starting({c}, source)
    /\ sync' = Derived(sync, source', connected)
    /\ Begins({c})
    /\ UNCHANGED <<schedule, methods, greeting, unread, stale>>

\* ... and from the last answer, or the first failure, to the end.
EndPass(c) ==
    /\ Resume(c, {})
    /\ source' = [source EXCEPT ![c] = IF call[c] = "ok" THEN "live" ELSE "error"]
    /\ sync' = Derived(sync, source', connected)
    /\ unread' = IF call[c] = "ok" THEN unread \ {c} ELSE unread
    /\ stale'  = IF call[c] = "ok" /\ c \in fresh THEN stale \ {c} ELSE stale
    /\ fresh'  = fresh \ {c}
    /\ UNCHANGED <<schedule, methods, greeting>>

\* The plausible slip: only a forecast that is live is refreshed.
StartSchedulesMutant ==
    /\ CronIdle /\ "cron" \in methods /\ schedule = "live"
    /\ Ask("cron")
    /\ UNCHANGED <<runtimeVars, history>>

\* syncSchedules(): the cron jobs.
StartSchedules ==
    /\ CronIdle /\ "cron" \in methods
    /\ Ask("cron")
    /\ UNCHANGED <<runtimeVars, history>>

\* The jobs are there: the default agent is asked for unless it is known.
CronAnswered ==
    /\ \/ /\ call["cron"] = "ok" /\ "roster" \in methods
          /\ Resume("cron", {"roster"})
          /\ UNCHANGED schedule
       \/ /\ Resume("cron", {})
          /\ schedule' = IF call["cron"] = "ok" THEN "live" ELSE "error"
    /\ UNCHANGED <<sync, source, methods, greeting, history>>

\* A failure of that request only leaves jobs without an agent.
RosterAnswered ==
    /\ Resume("roster", {})
    /\ schedule' = "live"
    /\ UNCHANGED <<sync, source, methods, greeting, history>>

Runtime ==
    \/ Subscribed \/ EndGreeting \/ StartSchedules \/ CronAnswered \/ RosterAnswered
    \/ \E c \in Passes : StartPass(c) \/ EndPass(c)

Next ==
    \/ \E n \in Notices, asked \in SUBSET Idle : Connection(n, asked)
    \/ Runtime

Spec == Init /\ [][Next]_vars

\* Beside the event loop of the client: the intervals keep starting passes.
Joined(Step(_, _)) == \E n \in Notices, asked \in SUBSET Idle :
                         Step(n, asked) /\ Handle(n, asked)

Fairness ==
    /\ WF_vars(Joined(Start))
    /\ WF_vars(Joined(Reconnect)) /\ WF_vars(Joined(SocketOpens))
    /\ WF_vars(Joined(Challenge)) /\ SF_vars(Joined(SocketEnds))
    /\ WF_vars(Joined(Greeted))   /\ WF_vars(Joined(Refused))
    /\ \A c \in Calls : SF_vars(Answer(c, "none", {}) /\ Handle("none", {}))
    /\ WF_vars(Subscribed) /\ WF_vars(EndGreeting)
    /\ WF_vars(CronAnswered) /\ WF_vars(RosterAnswered)
    /\ \A c \in Passes : SF_vars(StartPass(c)) /\ WF_vars(EndPass(c))
    /\ SF_vars(StartSchedules)

FairSpec == Spec /\ Fairness

-----------------------------------------------------------------------------
States == {"live", "reconciling", "error", "offline", "unavailable"}

\* Types.
TypeOK ==
    /\ ClientTypeOK
    /\ sync \in Down \cup {"starting", "reconciling", "live"}
    /\ source \in [Sources -> States]
    /\ schedule \in {"offline", "unavailable", "live", "error"}
    /\ methods \in Builds \cup {{}} /\ greeting \in BOOLEAN
    /\ unread \subseteq Passes /\ stale \subseteq Passes /\ fresh \subseteq Passes

\* The collector calls itself live only on a connection it has, and after every
\* source this Gateway offers was read whole on that same connection: never from
\* what the one before left, whatever was in flight when it was lost.  Where a
\* Gateway offers nothing but events, and they were live before their subscription
\* failed, the failure shows at the end of the greeting.
LiveIsEarned ==
    sync = "live" /\ life = "running" =>
        /\ connected /\ unread = {}
        /\ \A c \in Passes : source[c] \in {"live", "unavailable"}
        /\ \/ source["events"] \in {"live", "unavailable"}
           \/ /\ source["events"] = "error" /\ greeting
              /\ \A c \in Passes : source[c] = "unavailable"

\* The same for each source on its own: a pass of a lost connection does not
\* come back to mark its source live.
SourceIsEarned ==
    \A c \in Passes : source[c] = "live" /\ life = "running" => connected /\ c \notin unread

\* A pass that is under way shows, so nobody takes its source for settled, and
\* a source that shows one has it (or is about to begin it): it cannot hang.
ReconcilingIsReal ==
    \A c \in Passes :
        life = "running" /\ connected =>
            /\ call[c] # "none" => source[c] = "reconciling"
            /\ source[c] = "reconciling" => call[c] # "none" \/ call["subscribe"] # "none"

\* What the collector says of itself and of its sources is earned: the three
\* facts above.
StatusIsEarned == LiveIsEarned /\ SourceIsEarned /\ ReconcilingIsReal

\* A refused token or protocol stays in sight until the next attempt: neither
\* the close of its socket nor a late answer covers it up (handleGatewayState,
\* disconnected).  Only a jump in the events a Gateway still sends could.
RefusalStays ==
    [][(sync \in Refusal) => (sync' \in {sync, "starting"} \/ missed)]_vars

\* What the forecast's documentation says of a lost connection: the forecast is
\* cleared and marked offline, so none is shown as live.
ForecastIsCurrent == schedule = "live" => connected \/ life = "stopped"

\* What a gap swallowed is read in the end by a pass that began after it.
GapIsRepaired == \A c \in Passes : []<>(c \notin stale \/ life = "stopped")

\* After any trouble the collector is live or reconciling for good, its passes'
\* sources become live again and again (so no request of theirs, and no lost
\* connection, stays as it is), the other requests are settled, and the forecast
\* comes back or says that this Gateway has none.  The exception are the events:
\* a subscription that failed is not tried again on its connection, and they
\* stay in error.
Recovers ==
    /\ <>[](sync \in {"live", "reconciling"} \/ source["events"] = "error" \/ life = "stopped")
    /\ \A c \in Passes :
          []<>(source[c] \in {"live", "unavailable"} \/ life = "stopped")
    /\ \A c \in {"subscribe", "cron"} : []<>(call[c] # "pending")
    /\ []<>(schedule \in {"live", "unavailable"} \/ life = "stopped")
=============================================================================
