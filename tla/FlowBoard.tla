----------------------------- MODULE FlowBoard -----------------------------
(***************************************************************************)
(* What becomes of an activity between its row and the board: each node    *)
(* lists its rows, links them, counts them by stage and sums its settled   *)
(* runs up in series (src/storage/repository.ts); the hub qualifies the    *)
(* ids and merges the nodes (src/hub/merge.ts, src/host/ids.ts); the page  *)
(* sorts what it got into lanes (web/src/lib/flow-board-model.ts).  These  *)
(* are pure functions of the rows; the steps are those of the rows, of the *)
(* nodes and of the reader, and the invariants compare the board with the  *)
(* rows.                                                                   *)
(*                                                                         *)
(* Abstracted: an activity's identity (agent, kind, title, parent, run) is *)
(* fixed by its id, and ids are the same on every node; the text filter is *)
(* the kind filter; the order of cards; how old what the hub holds may be  *)
(* (HubFanIn).                                                             *)
(***************************************************************************)
EXTENDS Integers, FiniteSets, FiniteSetsExt, Functions

CONSTANTS
    Hosts,          \* the nodes of the hub
    Ids,            \* ids of activities on a node, numbers
    Shape,          \* what an id stands for: [agent, kind, title, parent, run]
    Outcomes,       \* outcomes of a terminal run
    Span,           \* SETTLED_RANGE_MS: range |-> ticks
    RecentLimit,    \* recentTerminalLimit
    MaxClock,       \* bound: ticks
    MaxRowSteps     \* bound: steps of rows and of nodes

NoLink == 0         \* no parentTaskId, no runRef

ASSUME BoardAssumption ==
    /\ IsFiniteSet(Hosts) /\ IsFiniteSet(Outcomes) /\ IsFiniteSet(Ids) /\ Ids \subseteq Nat \ {NoLink}
    /\ \A i \in Ids : Shape[i].kind \in {"task", "attempt"} /\ Shape[i].parent \in Nat
    /\ {RecentLimit, MaxClock, MaxRowSteps} \subseteq Nat

VARIABLES
    boardRow,       \* activities: node and id to row
    clock,          \* the time
    reachable,      \* nodes the hub can read
    boardRange,     \* the range of settled work the page shows
    heldRange,      \* the range of the settled work the hub holds of a node
    kindFilter,     \* the kind the reader looks at
    rowSteps        \* how many happened, for the bound

boardVars == <<boardRow, clock, reachable, boardRange, heldRange, kindFilter, rowSteps>>

NoRow == [state |-> "none", mark |-> "none", outcome |-> "none", at |-> 0]

\* mark: attention and freshness, as far as the board asks for them.
RowStates ==
    [state : {"queued"}, mark : {"none", "stale"}, outcome : {"none"}, at : {0}] \cup
    [state : {"active"}, mark : {"none", "waiting", "stale"}, outcome : {"none"}, at : {0}] \cup
    [state : {"unknown"}, mark : {"stale"}, outcome : {"none"}, at : {0}]

TerminalStates == [state : {"terminal"}, mark : {"none"}, outcome : Outcomes, at : 0..MaxClock]

-----------------------------------------------------------------------------
(* The node: what it lists of its rows.                                    *)

Ended(h)   == {i \in Ids : boardRow[h][i].state = "terminal"}
Running(h) == {i \in Ids : boardRow[h][i].state \notin {"none", "terminal"}}

\* list: all that is operational and the terminal rows that changed last, ties as SQLite likes.
Listings(h) ==
    {Running(h) \cup recent : recent \in
        {S \in SUBSET Ended(h) :
            /\ Cardinality(S) = Min({RecentLimit, Cardinality(Ended(h))})
            /\ \A i \in S, j \in Ended(h) \ S : boardRow[h][i].at >= boardRow[h][j].at}}

StageFor(row) ==
    CASE row.state = "terminal" -> "settled"
      [] row.state = "queued" -> "incoming"
      [] row.state = "active" /\ row.mark = "waiting" -> "waiting"
      [] row.state = "active" /\ row.mark # "waiting" -> "inFlight"
      [] OTHER -> "unresolved"

Stages == {"incoming", "inFlight", "waiting", "settled", "unresolved"}

CountStages(h, ids) == [s \in Stages |-> Cardinality({i \in ids : StageFor(boardRow[h][i]) = s})]

\* buildRelations.
Relations(listing) ==
    {[type |-> "parent_task", from |-> Shape[i].parent, to |-> i] :
        i \in {j \in listing : Shape[j].parent \in listing}} \cup
    {[type |-> "run_correlation", from |-> p[1], to |-> p[2]] :
        p \in {q \in listing \X listing :
                  /\ Shape[q[1]].kind = "task" /\ Shape[q[2]].kind = "attempt"
                  /\ Shape[q[1]].run # NoLink /\ Shape[q[1]].run = Shape[q[2]].run}}

-----------------------------------------------------------------------------
(* The node: its settled runs, by series.                                  *)

InRange(h, range) == {i \in Ended(h) : boardRow[h][i].at \in (clock - Span[range])..clock}

SeriesKey(i) == <<Shape[i].agent, Shape[i].title, Shape[i].kind>>

Having(h, runs, outcomes) == Cardinality({i \in runs : boardRow[h][i].outcome \in outcomes})

Latest(h, runs) ==
    CHOOSE i \in runs : \A j \in runs :
        \/ boardRow[h][i].at > boardRow[h][j].at
        \/ boardRow[h][i].at = boardRow[h][j].at /\ i <= j

PriorityTier(h, runs) ==
    LET last == boardRow[h][Latest(h, runs)].outcome
    IN CASE last \in {"failed", "timed_out", "blocked"} -> 0
         [] last \in {"unknown", "none"} -> 1
         [] last = "cancelled" -> 2
         [] last = "succeeded" /\ Having(h, runs, {"failed", "timed_out"}) > 0 -> 2
         [] Having(h, runs, {"succeeded"}) = Cardinality(runs) -> 3
         [] OTHER -> 1

Group(h, series, range) ==
    LET runs == {i \in InRange(h, range) : SeriesKey(i) = series}
    IN [host |-> h, series |-> series, agent |-> series[1], kind |-> series[3],
        runCount |-> Cardinality(runs),
        outcomes |-> [o \in Outcomes |-> Having(h, runs, {o})],
        failures |-> Having(h, runs, {"failed", "timed_out"}),
        last |-> boardRow[h][Latest(h, runs)].outcome,
        latestAt |-> boardRow[h][Latest(h, runs)].at, tier |-> PriorityTier(h, runs)]

\* aggregateSettledGroups and settledGroups.
Groups(h, range) == {Group(h, series, range) : series \in {SeriesKey(i) : i \in InRange(h, range)}}

\* settledSeriesRuns: the runs behind one card.
SeriesRuns(h, series, range) == {i \in InRange(h, range) : SeriesKey(i) = series}

\* Order of the first field that differs; failure rates are compared without dividing.
FirstDiffers(less) == \E k \in DOMAIN less : less[k] < 0 /\ \A j \in 1..(k - 1) : less[j] = 0

\* compareSettledGroups, up to the titles.
Precedes(g, o) ==
    FirstDiffers(<<g.tier - o.tier,
                   IF g.tier = 2 THEN o.failures * g.runCount - g.failures * o.runCount ELSE 0,
                   IF g.tier = 3 THEN g.runCount - o.runCount ELSE 0,
                   o.latestAt - g.latestAt>>)

-----------------------------------------------------------------------------
(* The hub.                                                                *)

\* The slip: the hub passes local ids on.
QualifyIdMutant(h, id) == <<"local", id>>

QualifyId(h, id) == <<h, id>>

\* mergeSnapshots of the listings the nodes answered with.
MergedItems(listing) ==
    UNION {{[host |-> h, id |-> QualifyId(h, i), agent |-> QualifyId(h, Shape[i].agent),
             kind |-> Shape[i].kind, row |-> boardRow[h][i]] : i \in listing[h]} : h \in reachable}

MergedRelations(listing) ==
    UNION {{[r EXCEPT !.from = QualifyId(h, @), !.to = QualifyId(h, @)] :
              r \in Relations(listing[h])} : h \in reachable}

MergedSummary(listing) ==
    [s \in Stages |-> SumFunction([h \in reachable |-> CountStages(h, listing[h])[s]])]

\* mergeSettledGroups takes the nodes that hold the range.
Holding == {h \in reachable : heldRange[h] = boardRange}
MergedGroups == UNION {Groups(h, boardRange) : h \in Holding}
MergedRuns   == SumFunction([h \in Holding |-> Cardinality(InRange(h, boardRange))])
Complete     == Holding = Hosts

-----------------------------------------------------------------------------
(* The page: buildFlowBoardModel.                                          *)

MatchesKind(kind) == kindFilter \in {"all", kind}

IsUnconfirmed(item) == item.row.state = "unknown" \/ item.row.mark = "stale"

IsAwaitingApproval(item) ==
    item.row.state = "active" /\ ~IsUnconfirmed(item) /\ item.row.mark = "waiting"

Current(items) == {item \in items : item.row.state # "terminal" /\ MatchesKind(item.kind)}

Confirmed(items) == {item \in Current(items) : ~IsUnconfirmed(item)}

LaneKeys(items) == {<<item.host, item.agent>> : item \in Confirmed(items)}

Lane(items, key) ==
    LET mine == {item \in Confirmed(items) : <<item.host, item.agent>> = key}
    IN [queued  |-> {item \in mine : item.row.state = "queued"},
        running |-> {item \in mine : item.row.state # "queued"}]

Unconfirmed(items) == {item \in Current(items) : IsUnconfirmed(item)}
Attention(items)   == {item \in Confirmed(items) : IsAwaitingApproval(item)}

HistoryShown == {g \in MergedGroups : MatchesKind(g.kind)}

-----------------------------------------------------------------------------
BoardInit ==
    /\ boardRow = [h \in Hosts |-> [i \in Ids |-> NoRow]]
    /\ clock = 0 /\ reachable = Hosts /\ boardRange \in DOMAIN Span
    /\ heldRange \in [Hosts -> {boardRange}] /\ kindFilter = "all" /\ rowSteps = 0

Steps == rowSteps < MaxRowSteps /\ rowSteps' = rowSteps + 1

Observe(h, i, row) ==
    /\ Steps /\ boardRow[h][i].state # "terminal" /\ row # boardRow[h][i]
    /\ boardRow' = [boardRow EXCEPT ![h][i] = row]
    /\ UNCHANGED <<clock, reachable, boardRange, heldRange, kindFilter>>

Prunes(h, i) ==
    /\ Steps /\ boardRow[h][i].state = "terminal"
    /\ boardRow' = [boardRow EXCEPT ![h][i] = NoRow]
    /\ UNCHANGED <<clock, reachable, boardRange, heldRange, kindFilter>>

Ticks ==
    /\ clock < MaxClock /\ clock' = clock + 1
    /\ UNCHANGED <<boardRow, reachable, boardRange, heldRange, kindFilter, rowSteps>>

HostChanges(h) ==
    /\ Steps /\ reachable' = SymDiff(reachable, {h})
    /\ UNCHANGED <<boardRow, clock, boardRange, heldRange, kindFilter>>

ShowRange(range) ==
    /\ Steps /\ range # boardRange /\ boardRange' = range
    /\ UNCHANGED <<boardRow, clock, reachable, heldRange, kindFilter>>

HoldRange(h) ==
    /\ h \in reachable /\ heldRange[h] # boardRange
    /\ heldRange' = [heldRange EXCEPT ![h] = boardRange]
    /\ UNCHANGED <<boardRow, clock, reachable, boardRange, kindFilter, rowSteps>>

ShowKind(kind) ==
    /\ Steps /\ kind # kindFilter /\ kindFilter' = kind
    /\ UNCHANGED <<boardRow, clock, reachable, boardRange, heldRange>>

BoardNext ==
    \/ Ticks
    \/ \E range \in DOMAIN Span : ShowRange(range)
    \/ \E kind \in {"all", "task", "attempt"} : ShowKind(kind)
    \/ \E h \in Hosts :
          \/ HostChanges(h)
          \/ HoldRange(h)
          \/ \E i \in Ids :
                \/ Prunes(h, i)
                \/ \E row \in RowStates : Observe(h, i, row)
                \/ \E outcome \in Outcomes :
                      Observe(h, i, [state |-> "terminal", mark |-> "none",
                                     outcome |-> outcome, at |-> clock])

BoardSpec == BoardInit /\ [][BoardNext]_boardVars

-----------------------------------------------------------------------------
BoardTypeOK ==
    /\ boardRow \in [Hosts -> [Ids -> {NoRow} \cup RowStates \cup TerminalStates]]
    /\ clock \in 0..MaxClock /\ reachable \subseteq Hosts
    /\ boardRange \in DOMAIN Span /\ heldRange \in [Hosts -> DOMAIN Span]

Views == {v \in [Hosts -> SUBSET Ids] : \A h \in Hosts : v[h] \in Listings(h)}

\* The rows of the reachable nodes that the board has to place.
Due == UNION {{<<h, i>> : i \in {j \in Running(h) : MatchesKind(Shape[j].kind)}} : h \in reachable}

\* The places where the board shows a row.
Places(items, h, i) ==
    {<<"unconfirmed", item.id>> : item \in {u \in Unconfirmed(items) : u.id = QualifyId(h, i)}} \cup
    UNION {{<<"queued", key, item.id>> : item \in {q \in Lane(items, key).queued : q.id = QualifyId(h, i)}} \cup
           {<<"running", key, item.id>> : item \in {q \in Lane(items, key).running : q.id = QualifyId(h, i)}}
             : key \in LaneKeys(items)}

(* Whatever the nodes hold, each of their running activities that passes the  *)
(* filter has one place on the board and nothing else has one, although the   *)
(* nodes use the same ids; and what awaits approval stands in a lane too      *)
(* (list, mergeSnapshots, buildFlowBoardModel).                               *)
OnePlace ==
    \A v \in Views :
        LET items == MergedItems(v)
        IN /\ \A h \in reachable, i \in Ids :
                 Cardinality(Places(items, h, i)) = IF <<h, i>> \in Due THEN 1 ELSE 0
           /\ Cardinality(Current(items)) = Cardinality(Due)
           /\ Attention(items) \subseteq UNION {Lane(items, key).running : key \in LaneKeys(items)}

(* A link of the merged board joins two items of one node that the board      *)
(* holds, each found by its id alone (buildRelations, qualifyRelation).       *)
LinksResolve ==
    \A v \in Views : \A r \in MergedRelations(v) :
        \E h \in reachable : \A end \in {r.from, r.to} :
            LET found == {item \in MergedItems(v) : item.id = end}
            IN Cardinality(found) = 1 /\ \A item \in found : item.host = h

(* The settled side counts every run of the range once: over the groups, over *)
(* their outcomes and behind each card; a history that calls itself complete  *)
(* leaves no node out (aggregateSettledGroups, mergeSettledGroups).           *)
RunsCountOnce ==
    /\ SumFunction([g \in MergedGroups |-> g.runCount]) = MergedRuns
    /\ \A g \in MergedGroups :
          /\ SumFunction(g.outcomes) = g.runCount
          /\ g.runCount = Cardinality(SeriesRuns(g.host, g.series, boardRange))
    /\ Complete => MergedRuns = SumFunction([h \in Hosts |-> Cardinality(InRange(h, boardRange))])

(* The order of the cards is one: no two are each before the other, a card    *)
(* between two others stays between them, and a series that failed last is    *)
(* never behind one that did not (compareSettledGroups, priorityTier).        *)
OrderHolds ==
    \A g, o, p \in HistoryShown :
        /\ ~(Precedes(g, o) /\ Precedes(o, g))
        /\ Precedes(g, o) /\ Precedes(o, p) => Precedes(g, p)
        /\ g.last = "failed" /\ o.last # "failed" => ~Precedes(o, g) \/ o.tier = 0

(* The stages the header counts are those of the items under it.              *)
StagesAddUp ==
    \A v \in Views :
        SumFunction(MergedSummary(v)) = Cardinality(MergedItems(v))

(* The board shows what the nodes hold: every activity in one place, every    *)
(* link resolved, every settled run counted once.                             *)
BoardIsExact == OnePlace /\ LinksResolve /\ RunsCountOnce /\ OrderHolds /\ StagesAddUp
=============================================================================
