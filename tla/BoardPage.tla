----------------------------- MODULE BoardPage -----------------------------
(***************************************************************************)
(* A browser page of the board and the event stream it listens to          *)
(* (web/src/state/collector-context.tsx, use-agents.ts and the events      *)
(* route of src/http/server.ts).  An event only says which topics changed: *)
(* the page gathers topics until the stream pauses, then reads again what  *)
(* they touch.  The board (status, snapshot, settled groups) is read by    *)
(* requests that may overtake each other; the roster drops every answer    *)
(* but the newest request's.                                               *)
(*                                                                         *)
(* Abstracted: what is read of a topic is its version; topics other than   *)
(* the board's and the roster's; status events, which carry their own      *)
(* payload; heartbeats; the attempts counted for the notice.               *)
(***************************************************************************)
EXTENDS Integers, Sequences, FiniteSets, SequencesExt

CONSTANTS
    PageRanges,     \* ranges of settled work the reader may choose
    MaxServed,      \* bound: changes of a topic
    MaxPageFrames,  \* bound: events written and not yet handled
    MaxAsked,       \* bound: requests under way
    MaxGestures,    \* bound: what the reader does
    MaxPageFaults   \* bound: failures of requests and of the stream

ASSUME PageAssumption ==
    {MaxServed, MaxPageFrames, MaxGestures, MaxPageFaults} \subseteq Nat /\ MaxAsked \in Nat \ {0, 1}

\* Topics and the resource each is shown in.
Topics == {"activities", "agents"}
NotRead == -1

VARIABLES
    served,      \* server: the version of each topic
    events,      \* frames of the stream the page has not handled
    live,        \* live.state
    pending,     \* pendingTopics
    flushTimer,  \* refreshTimer is armed
    asked,       \* requests under way, in the order they were sent
    range,       \* the range chosen
    shown,       \* what the page shows of each topic
    shownRange,  \* the range of the settled groups it holds
    trouble,     \* topics whose last settled read failed (error)
    overtaken,   \* history: the board shown was overtaken by an older answer
    gestures,    \* how often the reader did something, for the bound
    pageFaults   \* how many happened, for the bound

pageVars == <<served, events, live, pending, flushTimer, asked, range, shown, shownRange,
              trouble, overtaken, gestures, pageFaults>>

PageFault == pageFaults < MaxPageFaults /\ pageFaults' = pageFaults + 1
Gesture   == gestures < MaxGestures /\ gestures' = gestures + 1

Read(topic, r) == [of |-> topic, range |-> r, read |-> NotRead, late |-> FALSE]

\* The slip: an older roster request is not told from the newest.
SentMutant(requests, topics, r) ==
    requests \o [i \in 1..Cardinality(topics) |-> Read(SetToSeq(topics)[i], r)]

\* Requests are sent; a new one of the roster makes its older ones obsolete.
Sent(requests, topics, r) ==
    [i \in DOMAIN requests |->
        IF requests[i].of = "agents" /\ "agents" \in topics
        THEN [requests[i] EXCEPT !.late = TRUE] ELSE requests[i]]
    \o [i \in 1..Cardinality(topics) |-> Read(SetToSeq(topics)[i], r)]

Asks(topics, r) ==
    /\ Len(asked) + Cardinality(topics) <= MaxAsked
    /\ asked' = Sent(asked, topics, r)

-----------------------------------------------------------------------------
\* The provider mounts: everything is read and the stream is opened.
PageInit ==
    /\ served = [t \in Topics |-> 0] /\ events = <<>>
    /\ live = "connecting" /\ pending = {} /\ flushTimer = FALSE
    /\ range \in PageRanges /\ asked = Sent(<<>>, Topics, range)
    /\ shown = [t \in Topics |-> NotRead] /\ shownRange = "none"
    /\ trouble = {} /\ overtaken = FALSE /\ gestures = 0 /\ pageFaults = 0

\* The repository changes and announces the topics to every stream.
ServerChanges(t) ==
    /\ served[t] < MaxServed /\ Len(events) < MaxPageFrames
    /\ served' = [served EXCEPT ![t] = @ + 1]
    /\ events' = IF live = "open" THEN Append(events, {t}) ELSE events
    /\ UNCHANGED <<live, pending, flushTimer, asked, range, shown, shownRange, trouble,
                   overtaken, gestures, pageFaults>>

\* scheduleInvalidation: topics are gathered and the timer starts anew.
Gather(topics) == pending' = pending \cup topics /\ flushTimer' = TRUE

\* The slip: the page leaves it to the events of the stream.
OnOpenMutant == UNCHANGED <<pending, flushTimer>>

\* onopen: whatever changed while the stream was down was never announced.
OnOpen == Gather(Topics)

\* The stream opens; the server has written an invalidation of everything.
StreamConnects ==
    /\ live \in {"connecting", "reconnecting"}
    /\ live' = "open" /\ events' = <<Topics>>
    /\ OnOpen /\ trouble' = trouble \ {"activities"}
    /\ UNCHANGED <<served, asked, range, shown, shownRange, overtaken, gestures, pageFaults>>

\* An invalidation.
HandlesEvent ==
    /\ events # <<>>
    /\ events' = Tail(events)
    /\ Gather(Head(events))
    /\ UNCHANGED <<served, live, asked, range, shown, shownRange, trouble, overtaken,
                   gestures, pageFaults>>

\* The roster shows the live state of its agents, so it is read again with the
\* board's topics too; the board is not read for the roster's.
Touched(topics) == IF topics = {} THEN {} ELSE topics \cup {"agents"}

\* flushInvalidation, once nothing has arrived for a while.
Flush ==
    /\ flushTimer /\ flushTimer' = FALSE
    /\ pending' = {} /\ Asks(Touched(pending), range)
    /\ UNCHANGED <<served, events, live, range, shown, shownRange, trouble, overtaken,
                   gestures, pageFaults>>

\* onerror: the browser tries again by itself, or gives up for good.
StreamBreaks ==
    /\ PageFault /\ live # "stopped"
    /\ live' \in {"reconnecting", "stopped"} /\ events' = <<>>
    /\ trouble' = trouble \cup {"activities"}
    /\ UNCHANGED <<served, pending, flushTimer, asked, range, shown, shownRange, overtaken, gestures>>

\* retryLive: a new stream; the timer of the old one is cleared, its topics stay.
RetryLive ==
    /\ live = "stopped" /\ Gesture
    /\ live' = "connecting" /\ events' = <<>> /\ flushTimer' = FALSE
    /\ trouble' = trouble \ {"activities"}
    /\ UNCHANGED <<served, pending, asked, range, shown, shownRange, overtaken, pageFaults>>

\* setRange: the board is read again for the range.
ChooseRange(r) ==
    /\ r # range /\ range' = r /\ Gesture /\ Asks({"activities"}, r)
    /\ UNCHANGED <<served, events, live, pending, flushTimer, shown, shownRange, trouble,
                   overtaken, pageFaults>>

\* The server takes a request and answers with what it holds then.
ServerReads(i) ==
    /\ asked[i].read = NotRead
    /\ asked' = [asked EXCEPT ![i].read = served[asked[i].of]]
    /\ UNCHANGED <<served, events, live, pending, flushTimer, range, shown, shownRange, trouble,
                   overtaken, gestures, pageFaults>>

\* The request is settled: older ones of the board come too late from now on.
Settled(i) ==
    RemoveAt([k \in DOMAIN asked |->
        IF k < i /\ asked[k].of = "activities" /\ asked[i].of = "activities"
        THEN [asked[k] EXCEPT !.late = TRUE] ELSE asked[k]], i)

\* The roster ignores a settled request that is not its newest.
Ignored(i) == asked[i].of = "agents" /\ asked[i].late

Arrives(i) ==
    /\ asked[i].read # NotRead
    /\ asked' = Settled(i)
    /\ IF Ignored(i) THEN UNCHANGED <<shown, shownRange, trouble, overtaken>>
       ELSE /\ shown' = [shown EXCEPT ![asked[i].of] = asked[i].read]
            /\ trouble' = trouble \ {asked[i].of}
            /\ IF asked[i].of = "activities"
               THEN shownRange' = asked[i].range /\ overtaken' = asked[i].late
               ELSE UNCHANGED <<shownRange, overtaken>>
    /\ UNCHANGED <<served, events, live, pending, flushTimer, range, gestures, pageFaults>>

ReadFails(i) ==
    /\ PageFault /\ asked' = Settled(i)
    /\ trouble' = IF Ignored(i) THEN trouble ELSE trouble \cup {asked[i].of}
    /\ UNCHANGED <<served, events, live, pending, flushTimer, range, shown, shownRange,
                   overtaken, gestures>>

PageNext ==
    \/ \E t \in Topics : ServerChanges(t)
    \/ StreamConnects
    \/ HandlesEvent
    \/ Flush
    \/ StreamBreaks
    \/ RetryLive
    \/ \E r \in PageRanges : ChooseRange(r)
    \/ \E i \in DOMAIN asked :
          \/ ServerReads(i)
          \/ Arrives(i)
          \/ ReadFails(i)

PageSpec == PageInit /\ [][PageNext]_pageVars

\* Requests settle, timers fire, the browser opens the stream and hands over
\* its events.  Nothing makes a reader retry a stream that was given up.
FairPageSpec ==
    /\ PageSpec
    /\ WF_pageVars(StreamConnects)
    /\ WF_pageVars(HandlesEvent)
    /\ WF_pageVars(Flush)
    /\ WF_pageVars(\E i \in DOMAIN asked : ServerReads(i) \/ Arrives(i))

-----------------------------------------------------------------------------
PageTypeOK ==
    /\ served \in [Topics -> 0..MaxServed] /\ pending \subseteq Topics
    /\ live \in {"connecting", "open", "reconnecting", "stopped"}
    /\ events # <<>> => live = "open"
    /\ shown \in [Topics -> {NotRead} \cup 0..MaxServed]
    /\ trouble \subseteq Topics /\ Len(asked) <= MaxAsked

(* Topics that wait on an open stream have a timer that will read them: what  *)
(* is gathered survives a stream that was replaced (pendingTopics outlives    *)
(* the cleared refreshTimer) and is never left without one.                   *)
GatheredIsScheduled == live = "open" /\ pending # {} => flushTimer

(* When the server rests, a page whose stream is open ends up with what it    *)
(* holds: of the roster always, of the board unless an answer overtook a      *)
(* newer one, in the range chosen; or it says that its last read failed.      *)
PageFollows ==
    <>[](live = "open" =>
            /\ "agents" \in trouble \/ shown["agents"] = served["agents"]
            /\ \/ "activities" \in trouble \/ overtaken
               \/ shown["activities"] = served["activities"] /\ shownRange = range)
=============================================================================
