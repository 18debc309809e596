----------------------------- MODULE UsageLedger -----------------------------
(***************************************************************************)
(* Token and cost accounting (src/collector/usage-sync.ts,                 *)
(* src/storage/usage-store.ts, src/activity/usage-projector.ts).           *)
(*                                                                         *)
(* The Gateway reports a session's running totals.  A round reads a few    *)
(* sessions, one request each, and stores their readings in one batch;     *)
(* retention folds the readings of old days into a daily rollup of         *)
(* increments and deletes them; summaries add what is folded and what is   *)
(* not.  Time is counted in ticks, DayTicks to a day.                      *)
(*                                                                         *)
(* Abstracted: the four kinds of tokens are one; agents and models (every  *)
(* total is split by both in the same way); the completeness flag of a     *)
(* cost; the prices of whole ranges, which are kept in memory only.  A     *)
(* session spends no token without being active, so that the time it was   *)
(* last active and the time of its usage row are one.                      *)
(***************************************************************************)
EXTENDS Integers, Sequences, FiniteSets, FiniteSetsExt, SequencesExt, TLC

CONSTANTS
    Metered,          \* sessions of the Gateway, numbers
    DayTicks,         \* ticks of a day
    RollupAfter,      \* USAGE_ROLLUP_AFTER_DAYS, in ticks
    RecentWindow,     \* USAGE_RECENT_WINDOW_MS, in ticks
    StaleAfter,       \* USAGE_STALE_AFTER_MS, in ticks
    StaleLimit,       \* idle sessions of one round (20 in the code)
    UsageRoundLimit,  \* sessions of one round (100 in the code)
    Datings,          \* whether usage rows carry the time of their last change
    MaxTick,          \* bound: the clock
    MaxSpend,         \* bound: tokens of each session
    Openings,         \* bound: the moments at which a window is watched
    MaxUsageFaults    \* bound: failures, stale and unpriced answers, deletions

ASSUME UsageAssumption ==
    /\ Metered \subseteq Nat /\ IsFiniteSet(Metered)
    /\ {DayTicks, RollupAfter, StaleAfter, StaleLimit, UsageRoundLimit} \subseteq Nat \ {0}
    /\ {RecentWindow, MaxTick, MaxUsageFaults} \subseteq Nat
    /\ MaxSpend \in [Metered -> Nat]
    /\ Openings \subseteq Nat /\ Datings \subseteq BOOLEAN

VARIABLES
    tick,       \* the clock
    meter,      \* Gateway: spent tokens and last activity of each session, and
                \* whether it dates its rows
    present,    \* sessions table: sessions with a row
    raw,        \* session_usage_snapshots: readings of a session by their time
    folded,     \* usage_rollup_watermark
    rolled,     \* usage_daily_rollup
    reading,    \* the round: sessions still to ask, its readings, options.now
    best,       \* history: the highest reading stored of a session
    before,     \* history: the highest one from before `since`
    since,      \* history: the moment at which some window opens
    gone,       \* history: what the rollup keeps of deleted sessions
    fell,       \* history: sessions stored below an earlier reading
    usageFaults \* how many happened, for the bound

usageTables == <<present, raw, folded, rolled>>
usagePast   == <<best, before, since, gone, fell>>
usageVars   == <<tick, meter, usageTables, reading, usagePast, usageFaults>>

NoCost == -1
NoDay  == -1
NoRound == [asking |-> <<>>, gathered |-> {}, at |-> -1]

Ticks == 0..MaxTick
DayOf(t) == t \div DayTicks
Days  == {DayOf(t) : t \in Ticks}
Unread   == [tokens |-> 0, cost |-> NoCost]
Unfolded == [tokens |-> 0, cost |-> NoCost, day |-> NoDay]
Nothing  == [tokens |-> 0, cost |-> 0, sessions |-> 0]

\* Beyond this tick sessions are idle and the Gateway answers what it counted.
Quiet == MaxTick - StaleAfter
UsageFault == usageFaults < MaxUsageFaults /\ usageFaults' = usageFaults + 1

-----------------------------------------------------------------------------
(* Readings and what is counted of them.                                   *)

Rises(n, m) == Max({0, n - m})
Priced(c)   == Max({0, c})

Higher(r, q) == [tokens |-> Max({r.tokens, q.tokens}), cost |-> Max({r.cost, q.cost})]

\* The part of a cumulative reading above a mark, counted as n sessions.
NetOfFold(r, mark, n) ==
    [tokens   |-> Rises(r.tokens, mark.tokens),
     cost     |-> Rises(Priced(r.cost), Priced(mark.cost)),
     sessions |-> n]

Plus(a, b) == [tokens   |-> a.tokens + b.tokens,
               cost     |-> a.cost + b.cost,
               sessions |-> a.sessions + b.sessions]
Added(parts) == FoldFunction(Plus, Nothing, parts)

ReadIn(s, from, to) == {t \in DOMAIN raw[s] : t \in from..to}
NewestIn(s, from, to) == raw[s][Max(ReadIn(s, from, to))]
IsUnread(s) == ReadIn(s, 0, MaxTick) = {}
Newest(s)   == NewestIn(s, 0, MaxTick)

\* The slip the fold invites: what days hold is not taken off the reading.
RemainderMutant(s, from, to) == NetOfFold(NewestIn(s, from, to), Unread, 1)

\* What a summary takes of a session's newest reading in the range.
Remainder(s, from, to) ==
    NetOfFold(NewestIn(s, from, to), folded[s],
              IF folded[s].day \in DayOf(from)..DayOf(to) THEN 0 ELSE 1)

Summary(from, to) ==
    Plus(Added([s \in {p \in present : ReadIn(p, from, to) # {}} |-> Remainder(s, from, to)]),
         Added([d \in DayOf(from)..DayOf(to) |-> rolled[d]]))

\* Where a session stood when the window opened: its last reading from before
\* then, or the mark that replaced it.
Standing(s, opens) ==
    IF ReadIn(s, 0, opens - 1) # {} THEN NewestIn(s, 0, opens - 1) ELSE folded[s]

\* One session's part of the figure of a window that ends now.
WindowOf(s, opens) ==
    IF ReadIn(s, opens, MaxTick) = {} THEN Nothing
    ELSE NetOfFold(Newest(s), Standing(s, opens), 1)

-----------------------------------------------------------------------------
UsageInit ==
    /\ tick = 0
    /\ \E dated \in Datings :
          meter = [spent |-> [s \in Metered |-> 0], active |-> [s \in Metered |-> 0],
                   dated |-> dated]
    /\ present = Metered
    /\ raw = [s \in Metered |-> <<>>]
    /\ folded = [s \in Metered |-> Unfolded]
    /\ rolled = [d \in Days |-> Nothing]
    /\ reading = NoRound
    /\ best = [s \in Metered |-> Unread] /\ before = best
    /\ since \in Openings
    /\ gone = Nothing /\ fell = {} /\ usageFaults = 0

Spend(s) ==
    /\ tick <= Quiet /\ meter.spent[s] < MaxSpend[s]
    /\ meter' = [meter EXCEPT !.spent[s] = @ + 1, !.active[s] = tick]
    /\ UNCHANGED <<tick, usageTables, reading, usagePast, usageFaults>>

\* Bound: a round is over within a tick.
PassTime ==
    /\ tick < MaxTick /\ tick' = tick + 1
    /\ reading = NoRound \/ reading.at = tick
    /\ UNCHANGED <<meter, usageTables, reading, usagePast, usageFaults>>

\* The latest active first.
MoreActive(s, p) == \/ meter.active[s] > meter.active[p]
                    \/ meter.active[s] = meter.active[p] /\ s < p
ByActivity(S) ==
    [i \in 1..Cardinality(S) |->
        CHOOSE s \in S : Cardinality({p \in S : MoreActive(p, s)}) = i - 1]
Upto(n, seq) == SubSeq(seq, 1, Min({n, Len(seq)}))

Recent == {s \in present : meter.active[s] >= tick - RecentWindow}

\* The slip: a session is asked again whether or not it was measured just now.
StaleMutant == present \ Recent

\* Idle sessions that nobody has measured for a while.
Stale ==
    {s \in present \ Recent : \A t \in DOMAIN raw[s] : t <= tick - StaleAfter}

\* runOnce up to its first request: the round asks who was chosen now.
UsageStart ==
    /\ reading = NoRound
    /\ LET wanted == ByActivity(Recent) \o Upto(StaleLimit, ByActivity(Stale))
       IN  /\ wanted # <<>>
           /\ reading' = [asking |-> Upto(UsageRoundLimit, wanted), gathered |-> {}, at |-> tick]
    /\ UNCHANGED <<tick, meter, usageTables, usagePast, usageFaults>>

\* A row's own time when the Gateway gives one, never later than the round's.
ObservedAt(s) == IF meter.dated THEN Min({meter.active[s], reading.at}) ELSE reading.at

\* What the rows answer for the session: no write when every count is zero.
WritesOf(s, tokens, cost) ==
    IF tokens = 0 THEN {}
    ELSE {[of |-> s, at |-> ObservedAt(s), tokens |-> tokens, cost |-> cost]}

\* One row replaces a reading of the same time; a cost is floored at the last one.
Stored(w) ==
    LET last == IF IsUnread(w.of) THEN Unread ELSE Newest(w.of)
        row  == [tokens |-> w.tokens, cost |-> Max({w.cost, last.cost})]
    IN  [t \in DOMAIN raw[w.of] \cup {w.at} |-> IF t = w.at THEN row ELSE raw[w.of][t]]

\* The slip: whatever the Gateway answers replaces the reading before it.
HighWaterMutant(w) == TRUE

\* A total below the newest reading's is dropped.
HighWater(w) == IsUnread(w.of) \/ w.tokens >= Newest(w.of).tokens

\* Store a batch: one transaction, refused as a whole for a session without a row.
Record(writes) ==
    LET kept == {w \in writes : HighWater(w)}
        \* A round asks each session once.
        Has(s) == \E w \in kept : w.of = s
        Its(s) == CHOOSE w \in kept : w.of = s
    IN  IF \E w \in kept : w.of \notin present
        THEN UNCHANGED <<raw, best, before, fell>>
        ELSE /\ raw' = [s \in Metered |-> IF Has(s) THEN Stored(Its(s)) ELSE raw[s]]
             /\ best' = [s \in Metered |-> IF Has(s) THEN Higher(Its(s), best[s]) ELSE best[s]]
             /\ before' = [s \in Metered |->
                   IF Has(s) /\ Its(s).at < since THEN Higher(Its(s), before[s]) ELSE before[s]]
             /\ fell' = fell \cup {s \in Metered : Has(s) /\ Its(s).tokens < best[s].tokens}

\* The request for the first session to ask settles; the last one stores them all.
Settles(writes) ==
    /\ reading.asking # <<>>
    /\ LET gathered == reading.gathered \cup writes
       IN  IF Len(reading.asking) > 1
           THEN /\ reading' = [reading EXCEPT !.asking = Tail(@), !.gathered = gathered]
                /\ UNCHANGED <<raw, best, before, fell>>
           ELSE reading' = NoRound /\ Record(gathered)
    /\ UNCHANGED <<tick, meter, present, folded, rolled, since, gone>>

Asked == Head(reading.asking)

UsageAnswered ==
    /\ Settles(WritesOf(Asked, meter.spent[Asked], meter.spent[Asked]))
    /\ UNCHANGED usageFaults

\* The same counts without their price.
Unpriced == UsageFault /\ Settles(WritesOf(Asked, meter.spent[Asked], NoCost))

\* A cache that lags behind answers for less.
Lagging ==
    /\ reading.asking # <<>> /\ UsageFault /\ tick <= Quiet
    /\ \E n \in 1..(meter.spent[Asked] - 1) : Settles(WritesOf(Asked, n, n))

UsageFails == UsageFault /\ Settles({})

-----------------------------------------------------------------------------
(* Retention.                                                              *)

\* The slip: the cutoff is not brought back to the day it falls in.
FoldBeforeMutant == tick - RollupAfter + 1

\* Whole days are folded: the cutoff is brought back to the start of its day.
FoldBefore == DayOf(Max({0, tick - RollupAfter})) * DayTicks

FoldedDays(s) == {DayOf(t) : t \in ReadIn(s, 0, FoldBefore - 1)}
OfDay(s, d)   == NewestIn(s, d * DayTicks, (d + 1) * DayTicks - 1)

\* The mark a day is measured against: it only rises, from day to day.
MarkAt(s, d) ==
    LET passed == {folded[s]} \cup {OfDay(s, e) : e \in {x \in FoldedDays(s) : x < d}}
    IN  [tokens |-> Max({r.tokens : r \in passed}), cost |-> Max({r.cost : r \in passed})]
DayPart(s, d) == NetOfFold(OfDay(s, d), MarkAt(s, d), 0)
Contributes(s, d) == DayPart(s, d) # Nothing

FirstDay(s) ==
    LET days == {d \in FoldedDays(s) : Contributes(s, d)}
    IN  IF folded[s].day # NoDay \/ days = {} THEN folded[s].day ELSE Min(days)

\* rollupOlderThan: days take the increments, marks rise, the readings go.
RollUp ==
    /\ \E s \in present : ReadIn(s, 0, FoldBefore - 1) # {}
    /\ rolled' = [d \in Days |->
          Plus(rolled[d],
               Added([s \in {p \in present : d \in FoldedDays(p)} |->
                         [DayPart(s, d) EXCEPT !.sessions =
                            IF folded[s].day = NoDay /\ FirstDay(s) = d THEN 1 ELSE 0]]))]
    /\ folded' = [s \in Metered |->
          LET mark == MarkAt(s, DayOf(MaxTick) + 1)
          IN  [tokens |-> mark.tokens, cost |-> mark.cost, day |-> FirstDay(s)]]
    /\ raw' = [s \in Metered |-> [t \in {u \in DOMAIN raw[s] : u >= FoldBefore} |-> raw[s][t]]]
    /\ UNCHANGED <<tick, meter, present, reading, usagePast, usageFaults>>

\* pruneSessions: a session's row takes its readings and its mark with it.
DeleteSession(s) ==
    /\ UsageFault /\ s \in present \ Recent
    /\ present' = present \ {s}
    /\ raw' = [raw EXCEPT ![s] = <<>>]
    /\ folded' = [folded EXCEPT ![s] = Unfolded]
    /\ gone' = Plus(gone, NetOfFold(folded[s], Unread, IF folded[s].day = NoDay THEN 0 ELSE 1))
    /\ best' = [best EXCEPT ![s] = Unread] /\ before' = [before EXCEPT ![s] = Unread]
    /\ fell' = fell \ {s}
    /\ UNCHANGED <<tick, meter, rolled, reading, since>>

\* upsertSessions: the Gateway lists the session again.
ListSession(s) ==
    /\ s \notin present /\ present' = present \cup {s}
    /\ UNCHANGED <<tick, meter, raw, folded, rolled, reading, usagePast, usageFaults>>

UsageNext ==
    \/ \E s \in Metered : Spend(s)
    \/ PassTime
    \/ UsageStart
    \/ UsageAnswered
    \/ Unpriced
    \/ Lagging
    \/ UsageFails
    \/ RollUp
    \/ \E s \in Metered : DeleteSession(s)
    \/ \E s \in Metered : ListSession(s)

UsageSpec == UsageInit /\ [][UsageNext]_usageVars

\* The clock runs and rounds follow one another (setInterval); each request
\* of a round is answered or fails.
FairUsageSpec ==
    /\ UsageSpec
    /\ WF_usageVars(PassTime)
    /\ WF_usageVars(UsageStart)
    /\ WF_usageVars(UsageAnswered \/ UsageFails)

-----------------------------------------------------------------------------
UsageTypeOK ==
    /\ tick \in Ticks
    /\ present \subseteq Metered /\ fell \subseteq Metered
    /\ \A s \in Metered : DOMAIN raw[s] \subseteq 0..tick /\ folded[s].day \in Days \cup {NoDay}
    /\ rolled \in [Days -> [tokens : Nat, cost : Nat, sessions : Nat]]
    /\ usageFaults \in 0..MaxUsageFaults

(* What all days and readings add up to is the highest reading of each       *)
(* session, once, plus what the rollup kept of deleted sessions: folding,    *)
(* lagging and unpriced answers and failed batches neither lose a measured   *)
(* total nor count it twice (usage-store.ts record, summary, rollup).        *)
TotalIsHighWater ==
    LET kept == Added([s \in present |->
                         NetOfFold(best[s], Unread, IF best[s].tokens > 0 THEN 1 ELSE 0)])
    IN  Summary(0, MaxTick) = Plus(gone, kept)

(* The figure of a window that opens no earlier than the rollup cutoff is     *)
(* what was measured since it opened and nothing from before, whether the     *)
(* readings from before are still there or were folded (agentWindows); except *)
(* for a session stored below an earlier reading once that one was folded.    *)
WindowCountsOnce ==
    \A s \in present \ fell :
        /\ since >= tick - RollupAfter
        /\ ReadIn(s, since, MaxTick) # {}
        => WindowOf(s, since).tokens = best[s].tokens - before[s].tokens

(* Every session is measured up to its last token in the end, the idle ones   *)
(* too ("so the long tail still converges", usage-sync.ts), when rows bear    *)
(* the time they were read and fewer than StaleLimit sessions have nothing    *)
(* to report: those are asked again in every round, before the others.        *)
Uncounted == {s \in present : meter.spent[s] = 0}
TailConverges ==
    <>[](~meter.dated /\ Cardinality(Uncounted) < StaleLimit) =>
        <>[](\A s \in present : best[s].tokens = meter.spent[s])
=============================================================================
