----------------------------- MODULE AuditSync -----------------------------
(***************************************************************************)
(* The incremental copy of the Gateway's audit trail                       *)
(* (src/collector/audit-sync.ts over src/storage/audit-store.ts).          *)
(*                                                                         *)
(* The Gateway keeps a table of records numbered from 1; it prunes the     *)
(* oldest, and a reset of its state database starts a new numbering (a new *)
(* era).  audit.list pages newest first, with a cursor "sequence below     *)
(* this one".  The collector reads it in rounds: a tail read from the top  *)
(* down to the mark of the previous round, then a backwards walk below the *)
(* oldest row it holds.  The rows, the mark and the complete flag are      *)
(* durable; everything else of a round is lost in a crash.                 *)
(*                                                                         *)
(* Abstracted: the fields of a record (a row is its era and its sequence,  *)
(* which is what event_id identifies), the callback naming the sessions    *)
(* that gained rows, the outcome object, and which error a request failed  *)
(* with.  A round that is not started because the Gateway is not connected *)
(* or the method is missing is a round that does not start yet.            *)
(***************************************************************************)
EXTENDS Naturals, FiniteSets, FiniteSetsExt

CONSTANTS
    PageLimit,     \* AUDIT_PAGE_LIMIT
    TailBudget,    \* AUDIT_TAIL_PAGE_BUDGET
    RoundBudget,   \* AUDIT_ROUND_PAGE_BUDGET
    Unreadable,    \* sequences of records this build cannot project
    BurstLimit,    \* bound: records above the mark the Gateway may accumulate
    MaxSeq,        \* bound: records of one era
    MaxEra,        \* bound: resets of the Gateway's state database
    MaxFailures,   \* bound: failed requests
    MaxCrashes     \* bound: crashes or stops of the collector inside a round

ASSUME BudgetAssumption ==
    /\ PageLimit \in Nat \ {0}
    /\ TailBudget \in Nat \ {0}
    /\ RoundBudget \in Nat /\ TailBudget <= RoundBudget
    /\ Unreadable \subseteq Nat

ASSUME BoundAssumption ==
    /\ BurstLimit \in Nat /\ MaxSeq \in Nat /\ MaxEra \in Nat
    /\ MaxFailures \in Nat /\ MaxCrashes \in Nat

VARIABLES
    trail,       \* Gateway: sequences of the records it retains in this era
    nextSeq,     \* Gateway: sequence of the next record
    era,         \* Gateway: how often the numbering started again
    store,       \* audit_events: the rows <<era, sequence>> held
    mark,        \* meta audit_newest_sequence
    complete,    \* meta audit_backfill_complete
    pc,          \* where the round stands
    requests,    \* pages requested by this round
    cursor,      \* what the next page is below
    floor,       \* the round's own copy of the mark
    newestSeen,  \* newest sequence this round read
    rewound,     \* this round found the numbering below its mark
    caughtUp,    \* this round's tail met a row already read, or the end
    failed,      \* this round's tail ended in a failed request
    aged,        \* history: rows retention deleted
    markEra,     \* history: the era the mark was taken in
    intact,      \* history: no reset, and no crash while no mark was kept
    blank,       \* history: complete was recorded while no mark was kept
    failures, crashes   \* how many happened, for the bounds

gateway == <<trail, nextSeq, era>>
durable == <<store, mark, complete>>
local   == <<pc, requests, cursor, floor, newestSeen, rewound, caughtUp, failed>>
history == <<aged, markEra, intact, blank>>
faults  == <<failures, crashes>>
vars    == <<gateway, durable, local, history, faults>>

\* Sequences count from 1, so 0 stands for an absent mark, cursor or newest.
NoSeq == 0

-----------------------------------------------------------------------------
(* What audit.list answers: the newest PageLimit retained records below the *)
(* cursor, and a cursor for the next page when older records remain.        *)

Below(c)   == IF c = NoSeq THEN trail ELSE {s \in trail : s < c}
Page(c)    == {s \in Below(c) : Cardinality({t \in Below(c) : t > s}) < PageLimit}
HasMore(c) == Page(c) # Below(c)

\* projectAuditPage: the rows of a page this build can store.
Writes(page) == page \ Unreadable

\* The plausible slip: a page nothing could be read on is taken for the end.
ReachesEndMutant(c) == Writes(Page(c)) = {} \/ ~HasMore(c)

\* A page without a cursor is the last one, whatever could be read on it.
ReachesEnd(c) == ~HasMore(c)

Rows(sequences)   == {<<era, s>> : s \in sequences}
OldestSequence    == Min({r[2] : r \in store})
EverHeld          == store \cup aged

-----------------------------------------------------------------------------
Init ==
    /\ \E n \in 0..MaxSeq : trail = 1..n /\ nextSeq = n + 1
    /\ era = 0
    /\ store = {} /\ mark = NoSeq /\ complete = FALSE
    /\ pc = "idle" /\ requests = 0 /\ cursor = NoSeq /\ floor = NoSeq
    /\ newestSeen = NoSeq /\ rewound = FALSE /\ caughtUp = FALSE /\ failed = FALSE
    /\ aged = {} /\ markEra = 0 /\ intact = TRUE /\ blank = FALSE
    /\ failures = 0 /\ crashes = 0

(* The Gateway (external).                                                  *)

\* How many retained records lie above what the collector read contiguously.
Unread == Cardinality({s \in trail : s > mark})

RecordEvent ==
    /\ nextSeq <= MaxSeq
    /\ mark # NoSeq \/ complete => Unread < BurstLimit
    /\ trail' = trail \cup {nextSeq}
    /\ nextSeq' = nextSeq + 1
    /\ UNCHANGED <<era, durable, local, history, faults>>

\* Age and row count both prune from the oldest end.
PruneTrail ==
    /\ trail # {}
    /\ trail' = trail \ {Min(trail)}
    /\ UNCHANGED <<nextSeq, era, durable, local, history, faults>>

\* A reset restarts the Gateway, which fails the request of a round under
\* way: it can only fall between rounds.
ResetTrail ==
    /\ era < MaxEra
    /\ pc = "idle"
    /\ era' = era + 1
    /\ trail' = {} /\ nextSeq' = 1
    /\ intact' = FALSE
    /\ UNCHANGED <<durable, local, aged, markEra, blank, faults>>

-----------------------------------------------------------------------------
(* The collector.                                                           *)

\* The plausible slip: the pages of a round that ends are charged to the next.
EndRoundMutant ==
    /\ pc' = "idle" /\ requests' = requests /\ cursor' = NoSeq /\ floor' = NoSeq
    /\ newestSeen' = NoSeq /\ rewound' = FALSE /\ caughtUp' = FALSE /\ failed' = FALSE

EndRound ==
    /\ pc' = "idle" /\ requests' = 0 /\ cursor' = NoSeq /\ floor' = NoSeq
    /\ newestSeen' = NoSeq /\ rewound' = FALSE /\ caughtUp' = FALSE /\ failed' = FALSE

StartRound ==
    /\ pc = "idle"
    /\ pc' = "tail"
    /\ floor' = mark
    /\ UNCHANGED <<gateway, durable, history, faults>>
    /\ UNCHANGED <<requests, cursor, newestSeen, rewound, caughtUp, failed>>

\* The page that names the round's newest sequence: the first with a row.
NamesNewest(page) == newestSeen = NoSeq /\ Writes(page) # {}
NewestWith(page)  == IF NamesNewest(page) THEN Max(Writes(page)) ELSE newestSeen

\* The plausible slips: finding nothing new counts as a restart, or the numbering
\* is assumed to go on for ever.
GoesBackMutant(page)   == NamesNewest(page) /\ floor # NoSeq /\ NewestWith(page) <= floor
NoGoesBackMutant(page) == FALSE

\* The numbering restarted: the trail's newest record is below the mark.
GoesBack(page)    == NamesNewest(page) /\ floor # NoSeq /\ NewestWith(page) < floor
FloorWith(page)   == IF GoesBack(page) THEN NoSeq ELSE floor
Fresh(page)       == {s \in Writes(page) : s > FloorWith(page)}
MeetsFloor(page)  == FloorWith(page) # NoSeq /\ \E s \in Writes(page) : s <= FloorWith(page)

\* One page of the tail is answered and stored.
TailPage ==
    /\ pc = "tail"
    /\ LET page == Page(cursor)
           met  == MeetsFloor(page)
           end  == ~met /\ ReachesEnd(cursor)
       IN  /\ store' = store \cup Rows(Fresh(page))
           /\ newestSeen' = NewestWith(page)
           /\ rewound' = (rewound \/ GoesBack(page))
           /\ floor' = FloorWith(page)
           /\ complete' = (end \/ (complete /\ ~GoesBack(page)))
           /\ caughtUp' = (met \/ end)
           /\ requests' = requests + 1
           /\ cursor' = IF met \/ end THEN cursor ELSE Min(page)
           /\ pc' = IF met \/ end \/ requests + 1 = TailBudget THEN "settle" ELSE "tail"
    /\ UNCHANGED <<gateway, mark, failed, history, faults>>

PagesLeft(spent) == spent < RoundBudget

\* The plausible slips: the mark moves whenever something was read, or only for
\* a first read and after a rewind.
MovesMarkMutant == newestSeen # NoSeq
StuckMarkMutant == newestSeen # NoSeq /\ (rewound \/ floor = NoSeq)

\* The mark only moves on a read without a gap, or when there was none to keep.
MovesMark == newestSeen # NoSeq /\ (caughtUp \/ rewound \/ floor = NoSeq)

\* The tail is over: move the mark, then walk below the oldest row if allowed.
SettleTail ==
    /\ pc = "settle"
    /\ mark' = IF MovesMark THEN newestSeen ELSE mark
    /\ markEra' = IF MovesMark /\ floor = NoSeq THEN era ELSE markEra
    /\ blank' = (blank \/ (complete /\ mark' = NoSeq))
    /\ IF ~complete /\ ~failed /\ store # {} /\ PagesLeft(requests)
       THEN /\ pc' = "backfill"
            /\ cursor' = OldestSequence
            /\ UNCHANGED <<requests, floor, newestSeen, rewound, caughtUp, failed>>
       ELSE EndRound
    /\ UNCHANGED <<gateway, store, complete, aged, intact, faults>>

\* One page of the backwards walk is answered and stored.
BackfillPage ==
    /\ pc = "backfill"
    /\ store' = store \cup Rows(Writes(Page(cursor)))
    /\ complete' = (complete \/ ReachesEnd(cursor))
    /\ IF ~ReachesEnd(cursor) /\ PagesLeft(requests + 1)
       THEN /\ requests' = requests + 1
            /\ cursor' = Min(Page(cursor))
            /\ UNCHANGED <<pc, floor, newestSeen, rewound, caughtUp, failed>>
       ELSE EndRound
    /\ UNCHANGED <<gateway, mark, history, faults>>

\* A request is rejected: the tail goes on to settle, the walk just ends.
RequestFails ==
    /\ failures < MaxFailures
    /\ failures' = failures + 1
    /\ \/ /\ pc = "tail"
          /\ pc' = "settle" /\ failed' = TRUE
          /\ UNCHANGED <<requests, cursor, floor, newestSeen, rewound, caughtUp>>
       \/ pc = "backfill" /\ EndRound
    /\ UNCHANGED <<gateway, durable, history, crashes>>

\* The process ends inside a round, at an await or between two statements: the
\* page in hand may be stored without what was to be written after it.
Crash ==
    /\ crashes < MaxCrashes
    /\ crashes' = crashes + 1
    /\ pc # "idle"
    /\ \/ UNCHANGED <<store, complete>>
       \/ /\ pc = "tail"
          /\ store' \in {store, store \cup Rows(Fresh(Page(cursor)))}
          /\ complete' = (complete /\ ~GoesBack(Page(cursor)))
       \/ /\ pc = "backfill"
          /\ store' = store \cup Rows(Writes(Page(cursor)))
          /\ UNCHANGED complete
    /\ intact' = (intact /\ mark # NoSeq)
    /\ EndRound
    /\ UNCHANGED <<gateway, mark, aged, markEra, blank, failures>>

\* Retention deletes every row up to a point in time; the timer that runs it
\* cannot fire between a page and the end of the tail, which share one turn.
Retention ==
    /\ pc # "settle"
    /\ \E last \in store :
          LET old == {r \in store : r[1] < last[1] \/ (r[1] = last[1] /\ r[2] <= last[2])}
          IN  store' = store \ old /\ aged' = aged \cup old
    /\ UNCHANGED <<gateway, mark, complete, local, markEra, intact, blank, faults>>

-----------------------------------------------------------------------------
Gateway == RecordEvent \/ PruneTrail \/ ResetTrail
Round   == StartRound \/ TailPage \/ SettleTail \/ BackfillPage
Faults  == RequestFails \/ Crash

Next == Gateway \/ Round \/ Faults \/ Retention

Spec == Init /\ [][Next]_vars

\* The interval timer keeps starting rounds and every request is settled by an
\* answer or a timeout; failures are bounded, so answers keep coming.
Fairness ==
    /\ WF_vars(StartRound) /\ WF_vars(TailPage)
    /\ WF_vars(SettleTail) /\ WF_vars(BackfillPage)

FairSpec == Spec /\ Fairness

-----------------------------------------------------------------------------
Row == (0..MaxEra) \X (1..MaxSeq)
Seqs == 0..MaxSeq

\* A round that has a page on request has not spent its budget on those before;
\* the tail's share is part of the round's.
RequestsInBudget ==
    /\ pc = "tail" => requests < TailBudget
    /\ pc = "backfill" => requests < RoundBudget
    /\ pc = "idle" => requests = 0

\* Types, and the pages of a round stay within its budget (audit-sync.ts,
\* AUDIT_ROUND_PAGE_BUDGET: what one round may cost the Gateway).
TypeOK ==
    /\ RequestsInBudget
    /\ trail \subseteq 1..MaxSeq /\ nextSeq \in 1..(MaxSeq + 1) /\ era \in 0..MaxEra
    /\ store \subseteq Row /\ aged \subseteq Row
    /\ mark \in Seqs /\ markEra \in 0..MaxEra
    /\ complete \in BOOLEAN /\ rewound \in BOOLEAN /\ caughtUp \in BOOLEAN
    /\ failed \in BOOLEAN /\ intact \in BOOLEAN /\ blank \in BOOLEAN
    /\ pc \in {"idle", "tail", "settle", "backfill"}
    /\ requests \in 0..RoundBudget
    /\ cursor \in Seqs /\ floor \in Seqs /\ newestSeen \in Seqs
    /\ failures \in 0..MaxFailures /\ crashes \in 0..MaxCrashes

Known(s) == <<era, s>> \in EverHeld

\* The mark says how far the trail was read contiguously (audit-store.ts,
\* readNewestMark): between the oldest row ever held and the mark there is no
\* retained, readable record that was not stored.
MarkIsContiguous ==
    intact /\ mark # NoSeq =>
        \A s \in trail \ Unreadable :
            s <= mark /\ (\E r \in EverHeld : r[2] <= s) => Known(s)

\* Nothing retained below the mark is missing once complete is recorded.
BelowMarkIsKnown ==
    complete /\ mark # NoSeq => \A s \in trail \ Unreadable : s <= mark => Known(s)

\* Once the backwards walk is recorded as complete, nothing retained below the
\* mark is missing: the flag stops that walk for good, so a wrong flag is a
\* hole nobody reads again.  It can be trusted unless the Gateway was reset,
\* the collector died before its first mark, or its first round met no record.
CompleteIsWhole == intact /\ ~blank => BelowMarkIsKnown

\* What the comments promise without those conditions, for the numbering the
\* mark was taken in ("The mark only moves on a contiguous read", and complete
\* is "True once the backwards walk has reached the end of the retained trail").
NothingLeftBehind == markEra = era => BelowMarkIsKnown

\* Pruning at the Gateway and unreadable pages never look like a restarted
\* numbering: a round that believes in a rewind is right.
NoFalseRewind == rewound => ~intact

\* Every readable record the Gateway retains is stored in the end, unless the
\* Gateway drops it first, retention already deleted newer rows, the numbering
\* or the rows before the first mark were lost, or the first round met no record.
EveryRecordIsRead ==
    \A s \in 1..MaxSeq \ Unreadable :
        []<>(s \in trail => \/ Known(s) \/ ~intact \/ blank
                            \/ \E r \in aged : r[2] >= s)

\* The mark does not stand still above nothing: a gap above it that fits in a
\* tail, unreadable records counted, is closed, so that later rounds start from
\* the top again only for what is new.  A reset adds to the records above the
\* mark without bound, and so is left out.
MarkCatchesUp ==
    []<>(intact /\ Cardinality({s \in trail : s > mark}) <= BurstLimit =>
            \A s \in trail \ Unreadable : s <= mark)

\* The mark goes down only for a round that read without a floor, so one that
\* takes the numbering for a new one (readNewestMark, writeNewestMark).
OnlyARestartLowersTheMark == [][mark' < mark => markEra' = era]_vars

\* A numbering that restarted below the mark is noticed, unless it grows past
\* the old mark first: the mark goes down for no other reason, and does not stay
\* above a trail that has records.  Unnoticed, the stop condition would take
\* every new record for one already read and the trail would silently stop being
\* collected.
RestartIsNoticed ==
    /\ OnlyARestartLowersTheMark
    /\ []<>(mark # NoSeq /\ markEra < era /\ trail \ Unreadable # {} => nextSeq > mark)

\* The rounds of a collector that keeps running read what there is to read.
RoundsCatchUp == EveryRecordIsRead /\ MarkCatchesUp /\ RestartIsNoticed
=============================================================================
