------------------------------ MODULE HubFanIn ------------------------------
(***************************************************************************)
(* The hub (src/hub/runtime.ts, node-client.ts, merge.ts): it keeps one    *)
(* bundle per node, what the node answered last, refreshed by an interval, *)
(* by the frames of the node's event stream and by readers that ask for    *)
(* another range of settled work.  Requests overlap, and their answers may *)
(* come back in any order.                                                 *)
(*                                                                         *)
(* Abstracted: a node's board is its version; a refresh is one request     *)
(* (status, snapshot and settled groups are read together and fail         *)
(* together); the delays of the reconnect timer; ids and their             *)
(* qualification by host.                                                  *)
(***************************************************************************)
EXTENDS Integers, Sequences, FiniteSets

CONSTANTS
    Nodes,         \* the collector nodes
    Ranges,        \* ranges of settled work
    Slots,         \* bound: requests to one node under way at a time
    MaxVersion,    \* bound: changes of a node
    MaxAsks,       \* bound: readers' questions
    MaxHubFaults   \* bound: failures of nodes, requests and streams

NoSnapshot == -1
NoRange    == "none"

ASSUME HubAssumption ==
    /\ IsFiniteSet(Nodes) /\ IsFiniteSet(Slots) /\ NoRange \notin Ranges
    /\ {MaxVersion, MaxAsks, MaxHubFaults} \subseteq Nat

VARIABLES
    version,     \* node: what its board holds
    up,          \* node: it answers
    bundle,      \* bundles: what the hub holds of each node
    job,         \* requests under way, by node and slot
    stream,      \* event stream of each node: none, opening, open
    frames,      \* frames of the stream the hub has not handled
    retry,       \* sseRetryTimers
    settledFor,  \* lastSettledRange
    hubLife,     \* before start(), running, after stop()
    asks,        \* questions of readers, for the bound
    hubFaults    \* how many happened, for the bound

nodeVars == <<version, up>>
hubVars  == <<nodeVars, bundle, job, stream, frames, retry, settledFor, hubLife, asks, hubFaults>>

Idle == [kind |-> "idle"]
Bundles == [reachable : BOOLEAN, status : BOOLEAN,
            snapshot : Int, settled : Ranges \cup {NoRange}]

Unreachable == [reachable |-> FALSE, status |-> FALSE, snapshot |-> NoSnapshot, settled |-> NoRange]

HubFault == hubFaults < MaxHubFaults /\ hubFaults' = hubFaults + 1

\* Request of a kind that was sent now; `prior` is the bundle read before it.
Request(kind, n, range) ==
    [kind |-> kind, range |-> range, read |-> NoSnapshot,
     prior |-> IF kind = "settled" THEN bundle[n] ELSE Unreachable]

\* The slip: a bundle that was lost stays lost when its node answers.
AnsweredMutant(n, j) == [bundle[n] EXCEPT !.snapshot = j.read, !.status = TRUE, !.settled = j.range]

\* refreshNode and refreshSettled: what an answer makes of the bundle.
Answered(n, j) ==
    IF j.kind = "refresh"
    THEN [reachable |-> TRUE, status |-> TRUE, snapshot |-> j.read, settled |-> j.range]
    ELSE [j.prior EXCEPT !.settled = j.range]

\* What a failure makes of it.
Failed(n, j) ==
    IF j.kind = "refresh" THEN Unreachable
    ELSE IF j.prior.settled \notin {NoRange, j.range}
    THEN [j.prior EXCEPT !.settled = NoRange] ELSE bundle[n]

\* A node's status frame: it is reachable, and what was read of it stays.
Reported(n) == [bundle[n] EXCEPT !.reachable = TRUE, !.status = TRUE]

-----------------------------------------------------------------------------
HubInit ==
    /\ version = [n \in Nodes |-> 0] /\ up \in [Nodes -> BOOLEAN]
    /\ bundle = [n \in Nodes |-> Unreachable]
    /\ job = [n \in Nodes |-> [i \in Slots |-> Idle]]
    /\ stream = [n \in Nodes |-> "none"] /\ frames = [n \in Nodes |-> <<>>]
    /\ retry = [n \in Nodes |-> FALSE]
    /\ settledFor \in Ranges /\ hubLife = "new" /\ asks = 0 /\ hubFaults = 0

\* The first refreshAll, and the streams.
HubStart ==
    /\ hubLife = "new" /\ hubLife' = "running"
    /\ \E i \in Slots :
          job' = [n \in Nodes |-> [job[n] EXCEPT ![i] = Request("refresh", n, settledFor)]]
    /\ stream' = [n \in Nodes |-> "opening"]
    /\ UNCHANGED <<nodeVars, bundle, frames, retry, settledFor, asks, hubFaults>>

\* What is under way at stop() goes on, and its answer is still stored.
HubStop ==
    /\ hubLife = "running" /\ hubLife' = "stopped"
    /\ HubFault
    /\ retry' = [n \in Nodes |-> FALSE]
    /\ stream' = [n \in Nodes |-> "none"] /\ frames' = [n \in Nodes |-> <<>>]
    /\ UNCHANGED <<nodeVars, bundle, job, settledFor, asks>>

Changes(n) ==
    /\ up[n] /\ version[n] < MaxVersion /\ Len(frames[n]) < 2
    /\ version' = [version EXCEPT ![n] = @ + 1]
    /\ frames' = IF stream[n] = "open" THEN [frames EXCEPT ![n] = Append(@, "invalidate")] ELSE frames
    /\ UNCHANGED <<up, bundle, job, stream, retry, settledFor, hubLife, asks, hubFaults>>

Fails(n) ==
    /\ up[n] /\ HubFault /\ up' = [up EXCEPT ![n] = FALSE]
    /\ UNCHANGED <<version, bundle, job, stream, frames, retry, settledFor, hubLife, asks>>

Returns(n) ==
    /\ ~up[n] /\ HubFault /\ up' = [up EXCEPT ![n] = TRUE]
    /\ UNCHANGED <<version, bundle, job, stream, frames, retry, settledFor, hubLife, asks>>

Free(n, i) == job[n][i] = Idle

\* refreshAll, for one node: the interval does not wait for the last round.
IntervalRefresh(n, i) ==
    /\ hubLife = "running" /\ Free(n, i)
    /\ job' = [job EXCEPT ![n][i] = Request("refresh", n, settledFor)]
    /\ UNCHANGED <<nodeVars, bundle, stream, frames, retry, settledFor, hubLife, asks, hubFaults>>

\* The node takes the request and answers with what it holds then.
Reads(n, i) ==
    /\ ~Free(n, i) /\ job[n][i].read = NoSnapshot /\ up[n]
    /\ job' = [job EXCEPT ![n][i].read = version[n]]
    /\ UNCHANGED <<nodeVars, bundle, stream, frames, retry, settledFor, hubLife, asks, hubFaults>>

\* The answer reaches the hub.
Answers(n, i) ==
    /\ ~Free(n, i) /\ job[n][i].read # NoSnapshot
    /\ bundle' = [bundle EXCEPT ![n] = Answered(n, job[n][i])]
    /\ job' = [job EXCEPT ![n][i] = Idle]
    /\ UNCHANGED <<nodeVars, stream, frames, retry, settledFor, hubLife, asks, hubFaults>>

\* The request times out or is refused: always, while the node does not answer.
RequestFails(n, i) ==
    /\ ~Free(n, i)
    /\ \/ ~up[n] /\ UNCHANGED hubFaults
       \/ up[n] /\ HubFault
    /\ bundle' = [bundle EXCEPT ![n] = Failed(n, job[n][i])]
    /\ job' = [job EXCEPT ![n][i] = Idle]
    /\ UNCHANGED <<nodeVars, stream, frames, retry, settledFor, hubLife, asks>>

\* A new stream begins with a status and an invalidation.
StreamOpens(n) ==
    /\ stream[n] = "opening" /\ up[n]
    /\ stream' = [stream EXCEPT ![n] = "open"]
    /\ frames' = [frames EXCEPT ![n] = <<"status", "invalidate">>]
    /\ UNCHANGED <<nodeVars, bundle, job, retry, settledFor, hubLife, asks, hubFaults>>

HandlesStatus(n) ==
    /\ frames[n] # <<>> /\ Head(frames[n]) = "status"
    /\ frames' = [frames EXCEPT ![n] = Tail(@)]
    /\ bundle' = [bundle EXCEPT ![n] = Reported(n)]
    /\ UNCHANGED <<nodeVars, job, stream, retry, settledFor, hubLife, asks, hubFaults>>

HandlesInvalidate(n, i) ==
    /\ frames[n] # <<>> /\ Head(frames[n]) = "invalidate" /\ Free(n, i)
    /\ frames' = [frames EXCEPT ![n] = Tail(@)]
    /\ job' = [job EXCEPT ![n][i] = Request("refresh", n, settledFor)]
    /\ UNCHANGED <<nodeVars, bundle, stream, retry, settledFor, hubLife, asks, hubFaults>>

\* The slip: the timer is not armed for a stream that never opened.
ArmedMutant(n) == stream[n] = "open"

Armed(n) == TRUE

\* onError: the stream could not be opened, or ended.
StreamFails(n) ==
    /\ stream[n] # "none"
    /\ \/ ~up[n] /\ UNCHANGED hubFaults
       \/ up[n] /\ HubFault
    /\ stream' = [stream EXCEPT ![n] = "none"] /\ frames' = [frames EXCEPT ![n] = <<>>]
    /\ bundle' = [bundle EXCEPT ![n] = Unreachable]
    /\ retry' = [retry EXCEPT ![n] = Armed(n)]
    /\ UNCHANGED <<nodeVars, job, settledFor, hubLife, asks>>

\* attachEvents when the timer fires.
Reattach(n) ==
    /\ retry[n] /\ retry' = [retry EXCEPT ![n] = FALSE]
    /\ stream' = [stream EXCEPT ![n] = "opening"] /\ frames' = [frames EXCEPT ![n] = <<>>]
    /\ UNCHANGED <<nodeVars, bundle, job, settledFor, hubLife, asks, hubFaults>>

\* getSettledGroups: unless all reachable bundles have the range, every node is asked.
Fresh(range) == \A n \in Nodes : bundle[n].reachable => bundle[n].settled = range

AskSettled(range) ==
    /\ hubLife # "new" /\ asks < MaxAsks /\ asks' = asks + 1
    /\ settledFor' = range
    /\ \/ Fresh(range) /\ UNCHANGED job
       \/ /\ ~Fresh(range)
          /\ \E slot \in [Nodes -> Slots] :
                /\ \A n \in Nodes : Free(n, slot[n])
                /\ job' = [n \in Nodes |-> [job[n] EXCEPT ![slot[n]] = Request("settled", n, range)]]
    /\ UNCHANGED <<nodeVars, bundle, stream, frames, retry, hubLife, hubFaults>>

HubNext ==
    \/ HubStart
    \/ HubStop
    \/ \E r \in Ranges : AskSettled(r)
    \/ \E n \in Nodes :
          \/ Changes(n)
          \/ Fails(n)
          \/ Returns(n)
          \/ StreamOpens(n)
          \/ HandlesStatus(n)
          \/ StreamFails(n)
          \/ Reattach(n)
          \/ \E i \in Slots :
                \/ IntervalRefresh(n, i)
                \/ Reads(n, i)
                \/ Answers(n, i)
                \/ RequestFails(n, i)
                \/ HandlesInvalidate(n, i)

HubSpec == HubInit /\ [][HubNext]_hubVars

\* Intervals and timers fire, requests and streams settle one way or the other.
HubProgress(n) ==
    /\ WF_hubVars(HubStart)
    /\ WF_hubVars(StreamOpens(n) \/ StreamFails(n))
    /\ WF_hubVars(HandlesStatus(n))
    /\ WF_hubVars(Reattach(n))
    /\ SF_hubVars(\E i \in Slots : HandlesInvalidate(n, i))
    /\ SF_hubVars(\E i \in Slots : IntervalRefresh(n, i))
    /\ \A i \in Slots : WF_hubVars(Reads(n, i) \/ Answers(n, i) \/ RequestFails(n, i))

FairHubSpec == HubSpec /\ \A n \in Nodes : HubProgress(n)

-----------------------------------------------------------------------------
HubTypeOK ==
    /\ version \in [Nodes -> 0..MaxVersion] /\ up \in [Nodes -> BOOLEAN]
    /\ bundle \in [Nodes -> Bundles]
    /\ stream \in [Nodes -> {"none", "opening", "open"}]
    /\ \A n \in Nodes : frames[n] # <<>> => stream[n] = "open"
    /\ retry \in [Nodes -> BOOLEAN] /\ settledFor \in Ranges

(* While the hub runs every node has a stream, one that is being opened or a  *)
(* timer that will open one, never two of them; once it is stopped none       *)
(* (attachEvents, onError, scheduleSseReconnect, stop).                       *)
StreamIsKept ==
    /\ hubLife = "running" => \A n \in Nodes : retry[n] = (stream[n] = "none")
    /\ hubLife = "stopped" => \A n \in Nodes : ~retry[n] /\ stream[n] = "none"

\* What the hub's board shows of a node (mergeSnapshots).
Shown(n) == IF bundle[n].reachable THEN bundle[n].snapshot ELSE NoSnapshot

Board ==
    INSTANCE Mirror WITH Sources <- Nodes, Nothing <- NoSnapshot, source <- version,
                         copy <- [n \in Nodes |-> Shown(n)],
                         answering <- {n \in Nodes : up[n] /\ hubLife = "running"}

(* The board of the hub is a mirror of its nodes: overlapping refreshes,      *)
(* failures, streams that break and questions for another range may set it    *)
(* back for a while, and never leave it behind a node that answers.           *)
HubMirrors == Board!MirrorSpec
=============================================================================
