-------------------------- MODULE AuditSyncProofs --------------------------
(***************************************************************************)
(* What holds of AuditSync for every page size, budget and bound: its type *)
(* invariant, that the mark is contiguous and falls only for a restarted   *)
(* numbering, and that the complete flag can be trusted.  The invariants   *)
(* IInv and WholeInv are proved step by step, one lemma per action.        *)
(***************************************************************************)
EXTENDS AuditSync, FiniteSetTheorems, TLAPS

-----------------------------------------------------------------------------
(* Why the mark is contiguous: the invariant the steps preserve.            *)

\* While no fault tore the copy, the tail has stored everything above its floor
\* from its cursor up to the newest sequence it read, the walk everything from
\* its cursor up to the mark, and nothing is held before there is a mark except
\* by a tail under way.
TailReads(s)  == pc = "tail" /\ cursor # NoSeq /\ s >= cursor
Contiguous(top) ==
    \A s \in trail \ Unreadable :
        s <= top /\ (\E r \in EverHeld : r[2] <= s) => Known(s)

TrailIsInterval ==
    \A s \in trail : s < nextSeq /\ \A t \in s..(nextSeq - 1) : t \in trail

HeldIsPast ==
    /\ era = 0
    /\ \A r \in EverHeld : r[1] = 0 /\ r[2] < nextSeq
    /\ mark < nextSeq /\ newestSeen < nextSeq
    /\ mark # NoSeq => mark \notin Unreadable
    /\ newestSeen # NoSeq => newestSeen \notin Unreadable /\ pc # "idle"

TailIsContiguous ==
    pc \in {"tail", "settle"} =>
        /\ floor = mark
        /\ \A s \in trail \ Unreadable :
              /\ TailReads(s) /\ floor < s /\ s <= newestSeen => Known(s)
              /\ TailReads(s) /\ newestSeen = NoSeq => mark < s
        /\ pc = "tail" /\ cursor = NoSeq => newestSeen = NoSeq
        /\ pc = "settle" /\ caughtUp =>
              \A s \in trail \ Unreadable : floor < s /\ s <= newestSeen => Known(s)
        /\ mark = NoSeq =>
              /\ newestSeen = NoSeq => EverHeld = {}
              /\ pc = "tail" => \A r \in EverHeld : r[2] >= cursor
              /\ Contiguous(newestSeen)

WalkIsContiguous ==
    pc = "backfill" =>
        /\ mark # NoSeq /\ cursor # NoSeq
        /\ \A s \in trail \ Unreadable : cursor <= s /\ s <= mark => Known(s)

CopyInv ==
    /\ HeldIsPast
    /\ ~rewound
    /\ pc = "idle" => cursor = NoSeq
    /\ caughtUp => pc \in {"settle", "backfill"}
    /\ mark = NoSeq /\ pc = "idle" => EverHeld = {}
    /\ mark # NoSeq => Contiguous(mark)
    /\ TailIsContiguous
    /\ WalkIsContiguous

IInv == TypeOK /\ TrailIsInterval /\ (intact => CopyInv)

-----------------------------------------------------------------------------
(* Facts about the smallest and the largest member, and about pages.        *)

\* A set of sequences has a smallest member, which is what Min picks.
LEMMA MinIsSmallest ==
    ASSUME NEW S \in SUBSET Nat, S # {}
    PROVE  Min(S) \in S /\ \A x \in S : Min(S) <= x
<1> DEFINE T == {0..x : x \in S}
<1>1. T \subseteq FiniteSubsetsOf(Nat) /\ T # {}
  <2>1. ASSUME NEW x \in S PROVE 0..x \in FiniteSubsetsOf(Nat)
    <3>1. x \in Int /\ 0 \in Int /\ 0..x \in SUBSET Nat
      OBVIOUS
    <3> QED
      BY <3>1, FS_Interval DEF FiniteSubsetsOf
  <2> QED
    BY <2>1
<1>2. \E U \in T : \A V \in T : <<V, U>> \notin StrictSubsetOrdering(Nat)
  BY <1>1, FS_StrictSubsetOrderingWellFounded, WFMin
<1>3. PICK m \in S : \A y \in S : <<0..y, 0..m>> \notin StrictSubsetOrdering(Nat)
  BY <1>2
<1>4. \A y \in S : m <= y
  <2>1. SUFFICES ASSUME NEW y \in S, y < m PROVE FALSE
    OBVIOUS
  <2>2. 0..y \subseteq 0..m /\ m \in 0..m /\ m \notin 0..y
    BY <2>1
  <2>3. 0..y # 0..m /\ 0..y \in SUBSET Nat /\ 0..m \in SUBSET Nat
    BY <2>2
  <2>4. <<0..y, 0..m>> \in StrictSubsetOrdering(Nat)
    BY <2>2, <2>3 DEF StrictSubsetOrdering
  <2> QED
    BY <1>3, <2>4
<1> QED
  BY <1>4 DEF Min

\* A bounded set of sequences has a largest member, which is what Max picks.
LEMMA MaxIsLargest ==
    ASSUME NEW n \in Nat, NEW S \in SUBSET (0..n), S # {}
    PROVE  Max(S) \in S /\ \A x \in S : x <= Max(S)
<1> DEFINE T == {n - x : x \in S}
<1>1. \A x \in S : x \in Nat /\ n - x \in Nat
  OBVIOUS
<1>2. T \in SUBSET Nat /\ T # {}
  BY <1>1
<1>3. Min(T) \in T /\ \A y \in T : Min(T) <= y
  BY <1>2, MinIsSmallest
<1>4. PICK m \in S : Min(T) = n - m
  BY <1>3
<1>5. \A x \in S : n - m <= n - x
  BY <1>3, <1>4
<1>6. \A x \in S : x <= m
  BY <1>1, <1>5
<1> HIDE DEF T
<1> QED
  BY <1>6 DEF Max

\* What is below a cursor is a finite set of sequences.
LEMMA BelowIsFinite ==
    ASSUME TypeOK, NEW c \in Nat
    PROVE  /\ Below(c) \subseteq trail
           /\ Below(c) \in SUBSET (0..MaxSeq)
           /\ IsFiniteSet(Below(c))
<1>1. Below(c) \subseteq trail
  BY DEF Below
<1>2. Below(c) \in SUBSET (0..MaxSeq)
  <2>1. 1..MaxSeq \subseteq 0..MaxSeq
    BY BoundAssumption
  <2>2. trail \subseteq 1..MaxSeq
    BY DEF TypeOK
  <2> QED
    BY <1>1, <2>1, <2>2
<1>3. IsFiniteSet(0..MaxSeq)
  BY FS_Interval, BoundAssumption
<1> QED
  BY <1>1, <1>2, <1>3, FS_Subset

\* A page is a top segment of what is below its cursor: nothing newer than one
\* of its records is left out.
LEMMA PageIsTop ==
    ASSUME TypeOK, NEW c \in Nat,
           NEW p \in Page(c), NEW s \in Below(c), p <= s
    PROVE  s \in Page(c)
<1> DEFINE Above(x) == {t \in Below(c) : t > x}
<1>1. Below(c) \in SUBSET Nat /\ IsFiniteSet(Below(c)) /\ p \in Below(c)
  BY BelowIsFinite DEF Page
<1>2. IsFiniteSet(Above(p)) /\ IsFiniteSet(Above(s))
  BY <1>1, FS_Subset
<1>3. Above(s) \in SUBSET Above(p)
  BY <1>1
<1>4. /\ Cardinality(Above(s)) <= Cardinality(Above(p))
      /\ Cardinality(Above(s)) \in Nat /\ Cardinality(Above(p)) \in Nat
  BY <1>2, <1>3, FS_Subset, FS_CardinalityType
<1>5. Cardinality(Above(p)) < PageLimit
  BY DEF Page
<1> QED
  BY <1>4, <1>5, BudgetAssumption DEF Page

\* A page is empty only when nothing is below its cursor.
LEMMA PageHasRecords ==
    ASSUME TypeOK, NEW c \in Nat, Below(c) # {}
    PROVE  /\ Page(c) # {}
           /\ Min(Page(c)) \in Page(c)
           /\ \A s \in Page(c) : Min(Page(c)) <= s
<1> DEFINE top == Max(Below(c))
<1>1. top \in Below(c) /\ \A s \in Below(c) : s <= top
  BY BelowIsFinite, MaxIsLargest, BoundAssumption
<1>2. {t \in Below(c) : t > top} = {}
  BY <1>1, BelowIsFinite
<1>3. top \in Page(c)
  BY <1>1, <1>2, FS_EmptySet, BudgetAssumption DEF Page
<1>4. Page(c) \in SUBSET Nat
  BY BelowIsFinite DEF Page
<1> QED
  BY <1>3, <1>4, MinIsSmallest

\* What a page is, in one place: retained records below the cursor, every one
\* that is newer than the oldest of the page, and the cursor of the next page.
LEMMA PageFacts ==
    ASSUME TypeOK, NEW c \in Nat
    PROVE  /\ Page(c) \in SUBSET (0..MaxSeq) /\ Page(c) \subseteq trail
           /\ \A s \in Page(c) : c = NoSeq \/ s < c
           /\ \A p \in Page(c), s \in trail :
                 p <= s /\ (c = NoSeq \/ s < c) => s \in Page(c)
           /\ ReachesEnd(c) => \A s \in trail : (c = NoSeq \/ s < c) => s \in Page(c)
           /\ ~ReachesEnd(c) => Min(Page(c)) \in Page(c)
           /\ ~ReachesEnd(c) => \A s \in Page(c) : Min(Page(c)) <= s
<1>1. Page(c) \subseteq Below(c)
  BY DEF Page
<1>2. Page(c) \in SUBSET (0..MaxSeq) /\ Page(c) \subseteq trail
  BY <1>1, BelowIsFinite
<1>3. \A s \in trail : s \in Below(c) <=> (c = NoSeq \/ s < c)
  BY DEF Below
<1>4. \A s \in Page(c) : c = NoSeq \/ s < c
  BY <1>1, <1>2, <1>3
<1>5. \A p \in Page(c), s \in trail :
         p <= s /\ (c = NoSeq \/ s < c) => s \in Page(c)
  BY <1>3, PageIsTop
<1>6. ReachesEnd(c) => Page(c) = Below(c)
  BY DEF ReachesEnd, HasMore
<1>7. ~ReachesEnd(c) => Below(c) # {}
  BY <1>1 DEF ReachesEnd, HasMore
<1> QED
  BY <1>2, <1>3, <1>4, <1>5, <1>6, <1>7, PageHasRecords

\* The cursor of the next page and the sequences a page adds are sequences.
LEMMA PageTypes ==
    ASSUME TypeOK
    PROVE  /\ Page(cursor) \subseteq 1..MaxSeq
           /\ Writes(Page(cursor)) \subseteq 1..MaxSeq
           /\ Rows(Writes(Page(cursor))) \subseteq Row
           /\ Rows(Fresh(Page(cursor))) \subseteq Row
           /\ NewestWith(Page(cursor)) \in Seqs
           /\ FloorWith(Page(cursor)) \in Seqs
           /\ ~ReachesEnd(cursor) => Min(Page(cursor)) \in Seqs
<1> DEFINE page == Page(cursor)
<1>1. cursor \in Nat /\ 0 \in Seqs /\ 1..MaxSeq \subseteq Seqs
  BY BoundAssumption DEF TypeOK, Seqs
<1>2. page \subseteq 1..MaxSeq
  BY <1>1, PageFacts DEF TypeOK
<1>3. Writes(page) \subseteq 1..MaxSeq /\ Fresh(page) \subseteq 1..MaxSeq
  BY <1>2 DEF Writes, Fresh
<1>4. \A X \in SUBSET (1..MaxSeq) : Rows(X) \subseteq Row
  BY DEF Rows, Row, TypeOK
<1>5. NewestWith(page) \in Seqs
  <2>1. CASE NamesNewest(page)
    <3>1. Writes(page) # {} /\ Writes(page) \in SUBSET (0..MaxSeq)
      BY <1>3, <2>1, BoundAssumption DEF NamesNewest
    <3>2. Max(Writes(page)) \in Writes(page)
      BY <3>1, MaxIsLargest, BoundAssumption
    <3> QED
      BY <1>1, <1>3, <2>1, <3>2 DEF NewestWith
  <2>2. CASE ~NamesNewest(page)
    BY <2>2 DEF NewestWith, TypeOK
  <2> QED
    BY <2>1, <2>2
<1>6. FloorWith(page) \in Seqs
  BY <1>1 DEF FloorWith, NoSeq, TypeOK
<1>7. ~ReachesEnd(cursor) => Min(page) \in page
  BY <1>1, PageFacts
<1> QED
  BY <1>1, <1>2, <1>3, <1>4, <1>5, <1>6, <1>7

-----------------------------------------------------------------------------
(* The type invariant.                                                      *)

\* Ending a round leaves its local state well typed.
LEMMA EndRoundTypes ==
    ASSUME EndRound
    PROVE  /\ pc' \in {"idle", "tail", "settle", "backfill"}
           /\ requests' \in 0..RoundBudget
           /\ cursor' \in Seqs /\ floor' \in Seqs /\ newestSeen' \in Seqs
           /\ rewound' \in BOOLEAN /\ caughtUp' \in BOOLEAN /\ failed' \in BOOLEAN
<1>1. 0 \in 0..RoundBudget /\ 0 \in Seqs
  BY BudgetAssumption, BoundAssumption DEF Seqs
<1> QED
  BY <1>1 DEF EndRound, NoSeq

\* The type invariant is inductive as it stands.
TypeInv == TypeOK

LEMMA InitTypeInv == Init => TypeInv
<1> SUFFICES ASSUME Init PROVE TypeInv
  OBVIOUS
<1>1. PICK n \in 0..MaxSeq : trail = 1..n /\ nextSeq = n + 1
  BY DEF Init
<1>2. trail \subseteq 1..MaxSeq /\ nextSeq \in 1..(MaxSeq + 1)
  BY <1>1, BoundAssumption
<1>3. 0 \in 0..MaxEra /\ 0 \in Seqs /\ 0 \in 0..RoundBudget
      /\ 0 \in 0..MaxFailures /\ 0 \in 0..MaxCrashes
  BY BudgetAssumption, BoundAssumption DEF Seqs
<1> QED
  BY <1>2, <1>3
  DEF Init, TypeInv, TypeOK, RequestsInBudget, Row, Seqs, NoSeq

LEMMA NextTypeInv == TypeInv /\ [Next]_vars => TypeInv'
<1> SUFFICES ASSUME TypeInv, [Next]_vars PROVE TypeInv'
  OBVIOUS
<1> USE DEF TypeInv, TypeOK, RequestsInBudget
<1>1. CASE RecordEvent
  <2>1. trail' \subseteq 1..MaxSeq /\ nextSeq' \in 1..(MaxSeq + 1)
    BY <1>1, BoundAssumption DEF RecordEvent
  <2> QED
    BY <1>1, <2>1 DEF RecordEvent, durable, local, history, faults
<1>2. CASE PruneTrail
  <2>1. trail' \subseteq 1..MaxSeq
    BY <1>2 DEF PruneTrail
  <2> QED
    BY <1>2, <2>1 DEF PruneTrail, durable, local, history, faults
<1>3. CASE ResetTrail
  <2>1. trail' \subseteq 1..MaxSeq /\ nextSeq' \in 1..(MaxSeq + 1) /\ era' \in 0..MaxEra
    BY <1>3, BoundAssumption DEF ResetTrail
  <2> QED
    BY <1>3, <2>1 DEF ResetTrail, durable, local, faults
<1>4. CASE StartRound
  BY <1>4, BudgetAssumption, BoundAssumption
  DEF StartRound, gateway, durable, history, faults
<1>5. CASE TailPage
  <2>1. store' \subseteq Row
    BY <1>5, PageTypes DEF TailPage
  <2>2. cursor' \in Seqs /\ newestSeen' \in Seqs /\ floor' \in Seqs
    BY <1>5, PageTypes DEF TailPage
  <2>3. requests' \in 0..RoundBudget /\ RequestsInBudget'
    BY <1>5, BudgetAssumption DEF TailPage
  <2>4. pc' \in {"idle", "tail", "settle", "backfill"}
    BY <1>5 DEF TailPage
  <2>5. rewound' \in BOOLEAN /\ caughtUp' \in BOOLEAN /\ complete' \in BOOLEAN
    BY <1>5 DEF TailPage
  <2> QED
    BY <1>5, <2>1, <2>2, <2>3, <2>4, <2>5
    DEF TailPage, gateway, history, faults
<1>6. CASE SettleTail
  <2>1. mark' \in Seqs /\ markEra' \in 0..MaxEra /\ blank' \in BOOLEAN
    BY <1>6 DEF SettleTail
  <2>2. CASE EndRound
    BY <1>6, <2>1, <2>2, EndRoundTypes DEF SettleTail, EndRound, gateway, faults
  <2>3. CASE ~EndRound
    <3>1. store # {} /\ cursor' = OldestSequence
      BY <1>6, <2>3 DEF SettleTail
    <3>2. {r[2] : r \in store} \in SUBSET (1..MaxSeq)
      BY DEF Row
    <3>3. {r[2] : r \in store} \in SUBSET Nat /\ {r[2] : r \in store} # {}
      BY <3>1, <3>2
    <3>4. cursor' \in {r[2] : r \in store}
      BY <3>1, <3>3, MinIsSmallest DEF OldestSequence
    <3>5. cursor' \in Seqs
      BY <3>2, <3>4, BoundAssumption DEF Seqs
    <3>6. requests' = requests /\ requests < RoundBudget /\ pc' = "backfill"
      BY <1>6, <2>3 DEF SettleTail, PagesLeft
    <3> QED
      BY <1>6, <2>1, <2>3, <3>5, <3>6 DEF SettleTail, gateway, faults
  <2> QED
    BY <2>2, <2>3
<1>7. CASE BackfillPage
  <2>1. store' \subseteq Row /\ complete' \in BOOLEAN
    BY <1>7, PageTypes DEF BackfillPage
  <2>2. CASE EndRound
    BY <1>7, <2>1, <2>2, EndRoundTypes
    DEF BackfillPage, EndRound, gateway, history, faults
  <2>3. CASE ~EndRound
    <3>1. cursor' \in Seqs /\ pc' = "backfill"
      BY <1>7, <2>3, PageTypes DEF BackfillPage
    <3>2. requests' \in 0..RoundBudget /\ requests' < RoundBudget
      BY <1>7, <2>3, BudgetAssumption DEF BackfillPage, PagesLeft
    <3> QED
      BY <1>7, <2>1, <2>3, <3>1, <3>2 DEF BackfillPage, gateway, history, faults
  <2> QED
    BY <2>2, <2>3
<1>8. CASE RequestFails
  <2>1. failures' \in 0..MaxFailures
    BY <1>8, BoundAssumption DEF RequestFails
  <2>2. CASE EndRound
    BY <1>8, <2>1, <2>2, EndRoundTypes
    DEF RequestFails, EndRound, gateway, durable, history
  <2>3. CASE ~EndRound
    BY <1>8, <2>1, <2>3 DEF RequestFails, gateway, durable, history
  <2> QED
    BY <2>2, <2>3
<1>9. CASE Crash
  <2>1. crashes' \in 0..MaxCrashes
    BY <1>9, BoundAssumption DEF Crash
  <2>2. store' \subseteq Row /\ complete' \in BOOLEAN /\ intact' \in BOOLEAN
    BY <1>9, PageTypes DEF Crash
  <2> QED
    BY <1>9, <2>1, <2>2, EndRoundTypes DEF Crash, EndRound, gateway
<1>10. CASE Retention
  BY <1>10 DEF Retention, gateway, local, faults
<1>11. CASE UNCHANGED vars
  BY <1>11 DEF vars, gateway, durable, local, history, faults
<1> QED
  BY <1>1, <1>2, <1>3, <1>4, <1>5, <1>6, <1>7, <1>8, <1>9, <1>10, <1>11
  DEF Next, Gateway, Round, Faults

\* Every reachable state is well typed; in particular no round requests more
\* pages than its budget (audit-sync.ts, AUDIT_ROUND_PAGE_BUDGET).
THEOREM TypeCorrect == Spec => []TypeOK
<1>1. TypeInv => TypeOK
  BY DEF TypeInv
<1> QED
  BY <1>1, InitTypeInv, NextTypeInv, PTL DEF Spec

-----------------------------------------------------------------------------
(* The mark is contiguous.                                                  *)

\* The retained records stay an interval that ends at the newest one.
LEMMA IntervalStep ==
    ASSUME TypeOK, TrailIsInterval, [Next]_vars
    PROVE  TrailIsInterval'
<1> USE DEF TrailIsInterval
<1>1. CASE RecordEvent
  <2>1. trail' = trail \cup {nextSeq} /\ nextSeq' = nextSeq + 1 /\ nextSeq \in Nat
    BY <1>1 DEF RecordEvent, TypeOK
  <2>2. \A s \in trail : s \in Nat
    BY DEF TypeOK
  <2> QED
    BY <2>1, <2>2
<1>2. CASE PruneTrail
  <2>1. trail' = trail \ {Min(trail)} /\ nextSeq' = nextSeq /\ trail # {}
    BY <1>2 DEF PruneTrail
  <2>2. trail \in SUBSET Nat
    BY DEF TypeOK
  <2>3. \A s \in trail : Min(trail) <= s /\ Min(trail) \in Nat
    BY <2>1, <2>2, MinIsSmallest
  <2> QED
    BY <2>1, <2>2, <2>3
<1>3. CASE ResetTrail
  BY <1>3 DEF ResetTrail
<1>4. CASE ~Gateway
  <2>1. UNCHANGED gateway
    BY <1>4
    DEF Next, Round, Faults, StartRound, TailPage, SettleTail, BackfillPage,
        RequestFails, Crash, Retention, vars
  <2> QED
    BY <2>1 DEF gateway
<1> QED
  BY <1>1, <1>2, <1>3, <1>4 DEF Gateway

\* What the steps below assume of the state they start in.
Good == TypeInv /\ TrailIsInterval /\ CopyInv

\* A new record lies above the mark and above whatever the round has read.
LEMMA RecordEventStep == ASSUME Good, RecordEvent PROVE CopyInv'
<1>1. /\ trail' = trail \cup {nextSeq} /\ nextSeq' = nextSeq + 1 /\ nextSeq \in Nat
      /\ era' = era /\ UNCHANGED <<durable, local, history, faults>>
  BY DEF RecordEvent, Good, TypeInv, TypeOK
<1>2. mark < nextSeq /\ newestSeen < nextSeq /\ mark \in Nat /\ newestSeen \in Nat
  BY BoundAssumption DEF Good, CopyInv, HeldIsPast, TypeInv, TypeOK, Seqs
<1>3. \A r \in EverHeld : r[2] \in Nat
  BY DEF Good, TypeInv, TypeOK, Row, EverHeld
<1>4. EverHeld' = EverHeld /\ \A s : Known(s)' <=> Known(s)
  BY <1>1 DEF durable, history, EverHeld, Known
<1>5. HeldIsPast'
  BY <1>1, <1>2, <1>3, <1>4
  DEF Good, CopyInv, HeldIsPast, durable, local, history, NoSeq
<1>6. \A top \in Nat : top < nextSeq /\ Contiguous(top) => Contiguous(top)'
  BY <1>1, <1>4 DEF Contiguous
<1>7. mark' # NoSeq => Contiguous(mark)'
  BY <1>1, <1>2, <1>6 DEF Good, CopyInv, durable
<1>8. TailIsContiguous'
  BY <1>1, <1>2, <1>4, <1>6
  DEF Good, CopyInv, TailIsContiguous, TailReads, durable, local, NoSeq
<1>9. WalkIsContiguous'
  BY <1>1, <1>2, <1>4 DEF Good, CopyInv, WalkIsContiguous, durable, local
<1> QED
  BY <1>1, <1>4, <1>5, <1>7, <1>8, <1>9
  DEF Good, CopyInv, durable, local

\* Pruning at the Gateway only leaves fewer records to be held.
LEMMA PruneTrailStep == ASSUME Good, PruneTrail PROVE CopyInv'
<1>1. /\ trail' \subseteq trail /\ nextSeq' = nextSeq /\ era' = era
      /\ UNCHANGED <<durable, local, history, faults>>
  BY DEF PruneTrail
<1>2. EverHeld' = EverHeld /\ \A s : Known(s)' <=> Known(s)
  BY <1>1 DEF durable, history, EverHeld, Known
<1>3. HeldIsPast'
  BY <1>1, <1>2 DEF Good, CopyInv, HeldIsPast, durable, local
<1>4. \A top : Contiguous(top) => Contiguous(top)'
  BY <1>1, <1>2 DEF Contiguous
<1>5. mark' # NoSeq => Contiguous(mark)'
  BY <1>1, <1>4 DEF Good, CopyInv, durable
<1>6. TailIsContiguous'
  BY <1>1, <1>2, <1>4
  DEF Good, CopyInv, TailIsContiguous, TailReads, durable, local
<1>7. WalkIsContiguous'
  BY <1>1, <1>2 DEF Good, CopyInv, WalkIsContiguous, durable, local
<1> QED
  BY <1>1, <1>2, <1>3, <1>5, <1>6, <1>7 DEF Good, CopyInv, durable, local

\* Retention moves rows from what is held to what was held.
LEMMA RetentionStep == ASSUME Good, Retention PROVE CopyInv'
<1>1. EverHeld' = EverHeld
  BY DEF Retention, EverHeld
<1>2. UNCHANGED <<gateway, mark, complete, local, markEra, intact, blank, faults>>
  BY DEF Retention
<1>3. \A s : Known(s)' <=> Known(s)
  BY <1>1, <1>2 DEF gateway, Known
<1>4. HeldIsPast'
  BY <1>1, <1>2 DEF Good, CopyInv, HeldIsPast, gateway, local
<1>5. \A top : Contiguous(top) => Contiguous(top)'
  BY <1>1, <1>2, <1>3 DEF Contiguous, gateway
<1>6. mark' # NoSeq => Contiguous(mark)'
  BY <1>2, <1>5 DEF Good, CopyInv
<1>7. TailIsContiguous'
  BY <1>1, <1>2, <1>3, <1>5
  DEF Good, CopyInv, TailIsContiguous, TailReads, gateway, local
<1>8. WalkIsContiguous'
  BY <1>2, <1>3 DEF Good, CopyInv, WalkIsContiguous, gateway, local
<1> QED
  BY <1>1, <1>2, <1>4, <1>6, <1>7, <1>8 DEF Good, CopyInv, local

\* A round starts with the mark as its floor and nothing read.
LEMMA StartRoundStep == ASSUME Good, StartRound PROVE CopyInv'
<1>1. /\ pc = "idle" /\ pc' = "tail" /\ floor' = mark /\ cursor' = cursor
      /\ newestSeen' = newestSeen /\ rewound' = rewound /\ caughtUp' = caughtUp
      /\ UNCHANGED <<gateway, durable, history, faults>>
  BY DEF StartRound
<1>2. EverHeld' = EverHeld /\ \A s : Known(s)' <=> Known(s)
  BY <1>1 DEF gateway, durable, history, EverHeld, Known
<1>3. cursor = NoSeq /\ newestSeen = NoSeq /\ (mark = NoSeq => EverHeld = {})
  BY <1>1 DEF Good, CopyInv, HeldIsPast
<1>4. HeldIsPast'
  BY <1>1, <1>2, <1>3 DEF Good, CopyInv, HeldIsPast, gateway, durable
<1>5. \A top : Contiguous(top) => Contiguous(top)'
  BY <1>1, <1>2 DEF Contiguous, gateway
<1>6. mark' # NoSeq => Contiguous(mark)'
  BY <1>1, <1>5 DEF Good, CopyInv, durable
<1>7. TailIsContiguous'
  BY <1>1, <1>2, <1>3
  DEF TailIsContiguous, TailReads, Contiguous, gateway, durable, NoSeq
<1>8. WalkIsContiguous'
  BY <1>1 DEF WalkIsContiguous
<1>9. ~caughtUp'
  BY <1>1 DEF Good, CopyInv
<1> QED
  BY <1>1, <1>4, <1>6, <1>7, <1>8, <1>9 DEF Good, CopyInv

\* The page in hand, while no fault tore the copy: it never reads as a
\* restarted numbering, so the floor stays and what is fresh is above it.
LEMMA NoRewindOnPage ==
    ASSUME Good, pc = "tail"
    PROVE  /\ ~GoesBack(Page(cursor))
           /\ FloorWith(Page(cursor)) = mark
           /\ Fresh(Page(cursor)) = {s \in Writes(Page(cursor)) : s > mark}
<1> DEFINE page == Page(cursor)
<1> USE DEF Good, NoSeq
<1>1. TypeOK /\ cursor \in Nat /\ mark \in Nat /\ floor = mark /\ nextSeq \in Nat
  BY DEF TypeInv, TypeOK, Seqs, CopyInv, TailIsContiguous
<1>2. SUFFICES ~GoesBack(page)
  BY <1>1 DEF FloorWith, Fresh
<1>3. SUFFICES ASSUME GoesBack(page) PROVE FALSE
  OBVIOUS
<1>4. /\ newestSeen = NoSeq /\ Writes(page) # {} /\ mark # NoSeq
      /\ Max(Writes(page)) < mark
  BY <1>1, <1>3 DEF GoesBack, NamesNewest, NewestWith
<1>5. page \in SUBSET (0..MaxSeq) /\ page \subseteq trail /\ Writes(page) \subseteq page
  BY <1>1, PageFacts DEF Writes
<1>6. Max(Writes(page)) \in Writes(page) /\ \A s \in Writes(page) : s <= Max(Writes(page))
  BY <1>4, <1>5, MaxIsLargest, BoundAssumption
<1>7. PICK top \in Writes(page) : top < mark /\ \A s \in Writes(page) : s <= top
  BY <1>4, <1>6
<1>8. mark \in trail /\ mark \notin Unreadable
  <2>1. top \in trail /\ mark < nextSeq /\ mark \notin Unreadable
    BY <1>4, <1>5, <1>7 DEF CopyInv, HeldIsPast
  <2>2. mark \in top..(nextSeq - 1)
    BY <1>1, <1>5, <1>7, <2>1
  <2> QED
    BY <2>1, <2>2 DEF TrailIsInterval
<1>9. CASE cursor = NoSeq \/ mark < cursor
  <2>1. mark \in page
    BY <1>1, <1>5, <1>7, <1>8, <1>9, PageFacts
  <2>2. mark \in Writes(page)
    BY <1>8, <2>1 DEF Writes
  <2> QED
    BY <1>1, <1>5, <1>7, <2>2
<1>10. CASE cursor # NoSeq /\ mark >= cursor
  <2>1. TailReads(mark)
    BY <1>10 DEF TailReads
  <2> QED
    BY <1>1, <1>4, <1>8, <2>1 DEF CopyInv, TailIsContiguous
<1> QED
  BY <1>1, <1>9, <1>10

\* Storing what a tail page has above the mark leaves the copy contiguous up to
\* the mark, whatever the rest of the round becomes.
LEMMA FreshKeepsMark ==
    ASSUME Good, mark # NoSeq, era' = era, trail' = trail, mark' = mark, aged' = aged,
           \/ store' = store
           \/ pc = "tail" /\ store' = store \cup Rows(Fresh(Page(cursor)))
    PROVE  Contiguous(mark)'
<1> USE DEF Good
<1>1. mark \in Nat /\ \A r \in EverHeld : r[2] \in Nat
  BY DEF TypeInv, TypeOK, Seqs, Row, EverHeld
<1>2. \A r \in EverHeld' : r \in EverHeld \/ (r[2] \in Nat /\ r[2] > mark)
  <2>1. CASE store' = store
    BY <2>1 DEF EverHeld
  <2>2. CASE pc = "tail" /\ store' = store \cup Rows(Fresh(Page(cursor)))
    <3>1. \A s \in Fresh(Page(cursor)) : s \in Nat /\ s > mark
      BY <2>2, NoRewindOnPage, PageTypes DEF TypeInv, Fresh
    <3>2. \A r \in Rows(Fresh(Page(cursor))) : r[2] \in Nat /\ r[2] > mark
      BY <3>1 DEF Rows
    <3> QED
      BY <2>2, <3>2 DEF EverHeld
  <2> QED
    BY <2>1, <2>2
<1>3. EverHeld \subseteq EverHeld'
  BY DEF EverHeld
<1>4. Contiguous(mark)
  BY DEF CopyInv
<1>5. \A s \in trail : s \in Nat
  BY DEF TypeInv, TypeOK
<1> QED
  BY <1>1, <1>2, <1>3, <1>4, <1>5 DEF Contiguous, Known

\* One page of the tail.
LEMMA TailPageStep == ASSUME Good, TailPage PROVE CopyInv'
<1> DEFINE page  == Page(cursor)
           rows  == Writes(page)
           fresh == Fresh(page)
           met   == MeetsFloor(page)
           end   == ~met /\ ReachesEnd(cursor)
<1> USE DEF Good, NoSeq
<1>1. /\ pc = "tail" /\ store' = store \cup Rows(fresh) /\ newestSeen' = NewestWith(page)
      /\ rewound' = (rewound \/ GoesBack(page)) /\ floor' = FloorWith(page)
      /\ caughtUp' = (met \/ end)
      /\ cursor' = IF met \/ end THEN cursor ELSE Min(page)
      /\ pc' = IF met \/ end \/ requests + 1 = TailBudget THEN "settle" ELSE "tail"
      /\ UNCHANGED <<gateway, mark, failed, history, faults>>
  BY DEF TailPage
<1>2. /\ TypeOK /\ cursor \in Nat /\ mark \in Nat /\ floor = mark /\ newestSeen \in Nat
      /\ nextSeq \in Nat /\ \A s \in trail : s \in Nat
      /\ \A r \in EverHeld : r[2] \in Nat
  BY <1>1 DEF TypeInv, TypeOK, Seqs, Row, EverHeld, CopyInv, TailIsContiguous
<1>3. /\ ~GoesBack(page) /\ FloorWith(page) = mark
      /\ fresh = {s \in rows : s > mark}
  BY <1>1, NoRewindOnPage
<1>4. /\ era' = era /\ trail' = trail /\ nextSeq' = nextSeq /\ mark' = mark
      /\ aged' = aged /\ floor' = mark /\ ~rewound'
  BY <1>1, <1>3 DEF gateway, history, CopyInv
<1>5. /\ page \in SUBSET (0..MaxSeq) /\ page \subseteq trail
      /\ rows = page \ Unreadable
      /\ \A s \in page : cursor = NoSeq \/ s < cursor
      /\ \A p \in page, s \in trail : p <= s /\ (cursor = NoSeq \/ s < cursor) => s \in page
      /\ ReachesEnd(cursor) => \A s \in trail : (cursor = NoSeq \/ s < cursor) => s \in page
      /\ ~ReachesEnd(cursor) => Min(page) \in page /\ \A s \in page : Min(page) <= s
  BY <1>2, PageFacts DEF Writes
<1>6. /\ EverHeld' = EverHeld \cup Rows(fresh)
      /\ \A s : Known(s)' <=> Known(s) \/ s \in fresh
  BY <1>1, <1>4 DEF EverHeld, Known, Rows
<1>7. \A r \in Rows(fresh) : r[1] = era /\ r[2] \in fresh /\ r[2] \in Nat
  BY <1>2, <1>3, <1>5 DEF Rows
<1>8. /\ newestSeen # NoSeq => newestSeen' = newestSeen
      /\ newestSeen = NoSeq /\ rows = {} => newestSeen' = NoSeq
      /\ newestSeen = NoSeq /\ rows # {} =>
            newestSeen' \in rows /\ \A s \in rows : s <= newestSeen'
  <2>1. rows # {} => Max(rows) \in rows /\ \A s \in rows : s <= Max(rows)
    BY <1>5, MaxIsLargest, BoundAssumption
  <2> QED
    BY <1>1, <2>1 DEF NewestWith, NamesNewest
<1>9. newestSeen' \in Nat
  BY <1>2, <1>5, <1>8
<1>10. HeldIsPast'
  <2>1. \A s \in page : s < nextSeq
    BY <1>5 DEF TrailIsInterval
  <2>2. era = 0 /\ mark < nextSeq /\ newestSeen < nextSeq
        /\ (newestSeen # NoSeq => newestSeen \notin Unreadable)
    BY DEF CopyInv, HeldIsPast
  <2>3. newestSeen' < nextSeq /\ (newestSeen' # NoSeq => newestSeen' \notin Unreadable)
    BY <1>2, <1>5, <1>8, <2>1, <2>2
  <2>4. \A r \in EverHeld' : r[1] = 0 /\ r[2] < nextSeq
    BY <1>3, <1>5, <1>6, <1>7, <2>1, <2>2 DEF CopyInv, HeldIsPast
  <2>5. pc' # "idle"
    BY <1>1
  <2> QED
    BY <1>4, <2>2, <2>3, <2>4, <2>5 DEF CopyInv, HeldIsPast
\* A retained record above the floor and inside what the tail has covered so
\* far is held once this page is stored.
<1>11. ASSUME NEW s \in trail, s \notin Unreadable, mark < s, s <= newestSeen',
              s \in page \/ ~(cursor = NoSeq \/ s < cursor)
       PROVE  Known(s)'
  <2>1. CASE s \in page
    BY <1>3, <1>5, <1>6, <1>11, <2>1
  <2>2. CASE s \notin page
    <3>1. cursor # NoSeq /\ s >= cursor
      BY <1>2, <1>11, <2>2
    <3>2. TailReads(s)
      BY <1>1, <3>1 DEF TailReads
    <3>3. newestSeen # NoSeq
      <4>1. SUFFICES ASSUME newestSeen = NoSeq PROVE FALSE
        OBVIOUS
      <4>2. newestSeen' \in page \/ newestSeen' = NoSeq
        BY <1>5, <1>8, <4>1
      <4> QED
        BY <1>2, <1>5, <1>9, <1>11, <3>1, <4>2
    <3>4. newestSeen' = newestSeen
      BY <1>8, <3>3
    <3> QED
      BY <1>1, <1>2, <1>6, <1>11, <3>2, <3>4 DEF CopyInv, TailIsContiguous
  <2> QED
    BY <2>1, <2>2
<1>12. ASSUME NEW s \in trail, s \notin Unreadable, TailReads(s)'
       PROVE  /\ s \in page \/ ~(cursor = NoSeq \/ s < cursor)
              /\ newestSeen' = NoSeq => mark < s
  <2>1. ~met /\ ~end /\ cursor' = Min(page) /\ s >= Min(page)
    BY <1>1, <1>12 DEF TailReads
  <2>2. Min(page) \in page
    BY <1>5, <2>1
  <2>3. s \in page \/ ~(cursor = NoSeq \/ s < cursor)
    BY <1>2, <1>5, <2>1, <2>2
  <2>4. ASSUME newestSeen' = NoSeq PROVE mark < s
    <3>1. newestSeen = NoSeq /\ rows = {}
      BY <1>5, <1>8, <2>4, <1>2 DEF TypeOK
    <3>2. s \notin page
      BY <1>5, <1>12, <3>1
    <3>3. TailReads(s)
      BY <1>1, <1>2, <2>3, <3>2 DEF TailReads
    <3> QED
      BY <1>1, <1>12, <3>1, <3>3 DEF CopyInv, TailIsContiguous
  <2> QED
    BY <2>3, <2>4
<1>13. ASSUME caughtUp', NEW s \in trail, s \notin Unreadable, mark < s
       PROVE  s \in page \/ ~(cursor = NoSeq \/ s < cursor)
  <2>1. CASE end
    BY <1>5, <2>1
  <2>2. CASE met
    <3>1. PICK p \in rows : p <= mark
      BY <1>3, <2>2 DEF MeetsFloor
    <3> QED
      BY <1>2, <1>5, <1>13, <3>1
  <2> QED
    BY <1>1, <1>13, <2>1, <2>2
<1>14. mark' # NoSeq => Contiguous(mark)'
  BY <1>1, <1>4, FreshKeepsMark
<1>15. ASSUME mark = NoSeq
       PROVE  /\ newestSeen' = NoSeq => EverHeld' = {}
              /\ pc' = "tail" => \A r \in EverHeld' : r[2] >= cursor'
              /\ Contiguous(newestSeen)'
  <2>1. /\ newestSeen = NoSeq => EverHeld = {}
        /\ \A r \in EverHeld : r[2] >= cursor
        /\ Contiguous(newestSeen)
    BY <1>1, <1>15 DEF CopyInv, TailIsContiguous
  <2>2. \A s \in page : s > 0
    BY <1>2, <1>5 DEF TypeOK
  <2>3. fresh = rows
    BY <1>3, <1>5, <1>15, <2>2
  <2>4. newestSeen' = NoSeq => EverHeld' = {}
    <3>1. SUFFICES ASSUME newestSeen' = NoSeq PROVE EverHeld' = {}
      OBVIOUS
    <3>2. newestSeen = NoSeq /\ rows = {}
      BY <1>5, <1>8, <2>2, <3>1
    <3> QED
      BY <1>6, <2>1, <2>3, <3>2 DEF Rows
  <2>5. ASSUME pc' = "tail", NEW r \in EverHeld' PROVE r[2] >= cursor'
    <3>1. ~met /\ ~end /\ cursor' = Min(page) /\ Min(page) \in page
          /\ \A s \in page : Min(page) <= s
      BY <1>1, <1>5, <2>5
    <3>2. CASE r \in EverHeld
      <4>1. cursor # NoSeq
        <5>1. newestSeen # NoSeq
          BY <2>1, <3>2
        <5> QED
          BY <1>1, <5>1 DEF CopyInv, TailIsContiguous
      <4> QED
        BY <1>2, <1>5, <2>1, <3>1, <3>2, <4>1
    <3>3. CASE r \in Rows(fresh)
      BY <1>3, <1>5, <1>7, <3>1, <3>3
    <3> QED
      BY <1>6, <3>2, <3>3
  <2>6. ASSUME NEW s \in trail, s \notin Unreadable, s <= newestSeen',
               NEW r \in EverHeld', r[2] <= s
        PROVE  Known(s)'
    <3>1. CASE r \in EverHeld
      <4>1. newestSeen # NoSeq /\ newestSeen' = newestSeen
        BY <1>8, <2>1, <3>1
      <4> QED
        BY <1>6, <2>1, <2>6, <3>1, <4>1 DEF Contiguous
    <3>2. CASE r \in Rows(fresh)
      <4>1. r[2] \in page /\ r[2] \in Nat
        BY <1>3, <1>5, <1>7, <3>2
      <4>2. s \in page \/ ~(cursor = NoSeq \/ s < cursor)
        BY <1>5, <2>6, <4>1
      <4>3. mark < s
        BY <1>2, <1>15, <2>2, <2>6, <4>1
      <4> QED
        BY <1>11, <2>6, <4>2, <4>3
    <3> QED
      BY <1>6, <2>6, <3>1, <3>2
  <2>7. Contiguous(newestSeen)'
    BY <1>4, <2>6 DEF Contiguous
  <2> QED
    BY <2>4, <2>5, <2>7
<1>16. TailIsContiguous'
  <2>1. pc' = "tail" /\ cursor' = NoSeq => newestSeen' = NoSeq
    <3>1. SUFFICES ASSUME pc' = "tail" PROVE cursor' # NoSeq
      OBVIOUS
    <3>2. cursor' \in page
      BY <1>1, <1>5, <3>1
    <3> QED
      BY <1>2, <1>5, <3>2 DEF TypeOK
  <2>2. \A s \in trail' \ Unreadable :
           /\ TailReads(s)' /\ floor' < s /\ s <= newestSeen' => Known(s)'
           /\ TailReads(s)' /\ newestSeen' = NoSeq => mark' < s
    BY <1>4, <1>11, <1>12
  <2>3. caughtUp' => \A s \in trail' \ Unreadable :
                        floor' < s /\ s <= newestSeen' => Known(s)'
    BY <1>4, <1>11, <1>13
  <2> QED
    BY <1>4, <1>15, <2>1, <2>2, <2>3 DEF TailIsContiguous
<1>17. WalkIsContiguous' /\ pc' # "idle" /\ (caughtUp' => pc' = "settle")
  BY <1>1 DEF WalkIsContiguous
<1> QED
  BY <1>4, <1>10, <1>14, <1>16, <1>17 DEF CopyInv

\* The end of a round drops what the round knew; the mark it leaves decides.
LEMMA EndRoundKeeps ==
    ASSUME EndRound, HeldIsPast', mark' # NoSeq, Contiguous(mark)'
    PROVE  CopyInv'
<1>1. pc' = "idle" /\ cursor' = NoSeq /\ rewound' = FALSE /\ caughtUp' = FALSE
  BY DEF EndRound
<1>2. TailIsContiguous' /\ WalkIsContiguous'
  BY <1>1 DEF TailIsContiguous, WalkIsContiguous
<1> QED
  BY <1>1, <1>2 DEF CopyInv

\* The end of the tail: the mark moves over records that are all held.
LEMMA SettleTailStep == ASSUME Good, SettleTail PROVE CopyInv'
<1> USE DEF Good, NoSeq
<1>1. /\ pc = "settle" /\ mark' = IF MovesMark THEN newestSeen ELSE mark
      /\ UNCHANGED <<gateway, store, complete, aged, intact, faults>>
  BY DEF SettleTail
<1>2. /\ EverHeld' = EverHeld /\ trail' = trail /\ nextSeq' = nextSeq /\ era' = era
      /\ \A s : Known(s)' <=> Known(s)
  BY <1>1 DEF gateway, EverHeld, Known
<1>3. /\ floor = mark /\ mark \in Nat /\ newestSeen \in Nat /\ ~rewound
      /\ \A s \in trail : s \in Nat
      /\ \A r \in EverHeld : r[2] \in Nat /\ r[2] \in 1..MaxSeq
  BY <1>1 DEF TypeInv, TypeOK, Seqs, Row, EverHeld, CopyInv, TailIsContiguous
<1>4. mark' = NoSeq => mark = NoSeq /\ EverHeld = {}
  BY <1>1, <1>3 DEF MovesMark, CopyInv, TailIsContiguous
<1>5. ASSUME mark' # NoSeq PROVE Contiguous(mark')
  <2>1. CASE ~MovesMark
    BY <1>1, <1>5, <2>1 DEF CopyInv
  <2>2. CASE MovesMark /\ mark = NoSeq
    BY <1>1, <2>2 DEF CopyInv, TailIsContiguous
  <2>3. CASE MovesMark /\ mark # NoSeq
    <3>1. caughtUp /\ mark' = newestSeen
      BY <1>1, <1>3, <2>3 DEF MovesMark
    <3>2. \A s \in trail \ Unreadable : mark < s /\ s <= newestSeen => Known(s)
      BY <1>1, <1>3, <3>1 DEF CopyInv, TailIsContiguous
    <3>3. Contiguous(mark)
      BY <2>3 DEF CopyInv
    <3> QED
      BY <1>3, <3>1, <3>2, <3>3 DEF Contiguous
  <2> QED
    BY <2>1, <2>2, <2>3
<1>6. mark' # NoSeq => Contiguous(mark)'
  BY <1>2, <1>5 DEF Contiguous
<1>6a. 0 < nextSeq /\ mark' < nextSeq /\ (mark' # NoSeq => mark' \notin Unreadable)
  <2>1. 0 < nextSeq /\ mark < nextSeq /\ newestSeen < nextSeq
        /\ (mark # NoSeq => mark \notin Unreadable)
        /\ (newestSeen # NoSeq => newestSeen \notin Unreadable)
    BY BoundAssumption DEF TypeInv, TypeOK, CopyInv, HeldIsPast
  <2>2. mark' = newestSeen \/ mark' = mark
    BY <1>1
  <2> QED
    BY <2>1, <2>2
<1>7. CASE EndRound
  <2>1. HeldIsPast'
    BY <1>2, <1>6a, <1>7 DEF EndRound, CopyInv, HeldIsPast
  <2>2. CASE mark' # NoSeq
    BY <1>6, <1>7, <2>1, <2>2, EndRoundKeeps
  <2>3. CASE mark' = NoSeq
    <3>1. pc' = "idle" /\ cursor' = NoSeq /\ rewound' = FALSE /\ caughtUp' = FALSE
      BY <1>7 DEF EndRound
    <3>2. EverHeld' = {}
      BY <1>2, <1>4, <2>3
    <3>3. TailIsContiguous' /\ WalkIsContiguous'
      BY <3>1 DEF TailIsContiguous, WalkIsContiguous
    <3> QED
      BY <2>1, <2>3, <3>1, <3>2, <3>3 DEF CopyInv
  <2> QED
    BY <2>2, <2>3
<1>8. CASE ~EndRound
  <2>1. /\ store # {} /\ pc' = "backfill" /\ cursor' = OldestSequence
        /\ newestSeen' = newestSeen /\ rewound' = rewound
    BY <1>8 DEF SettleTail
  <2>2. mark' # NoSeq
    BY <1>4, <2>1 DEF EverHeld
  <2>3. PICK r \in store : r[2] = cursor' /\ r[2] # NoSeq
    <3>1. {r[2] : r \in store} \in SUBSET Nat /\ {r[2] : r \in store} # {}
      BY <1>3, <2>1 DEF EverHeld
    <3>2. OldestSequence \in {r[2] : r \in store}
      BY <3>1, MinIsSmallest DEF OldestSequence
    <3> QED
      BY <1>3, <2>1, <3>2 DEF EverHeld
  <2>4. WalkIsContiguous'
    <3>1. \A s \in trail \ Unreadable : cursor' <= s /\ s <= mark' => Known(s)
      BY <1>5, <2>2, <2>3 DEF Contiguous, EverHeld
    <3> QED
      BY <1>2, <2>2, <2>3, <3>1 DEF WalkIsContiguous
  <2>5. HeldIsPast'
    BY <1>1, <1>2, <2>1 DEF MovesMark, CopyInv, HeldIsPast
  <2>6. TailIsContiguous'
    BY <2>1 DEF TailIsContiguous
  <2> QED
    BY <1>3, <1>6, <2>1, <2>2, <2>4, <2>5, <2>6 DEF CopyInv
<1> QED
  BY <1>7, <1>8

\* A page of the walk extends what is held downwards without a gap.
LEMMA WalkPageKeepsMark ==
    ASSUME Good, pc = "backfill", era' = era, trail' = trail, mark' = mark, aged' = aged,
           store' = store \cup Rows(Writes(Page(cursor)))
    PROVE  /\ Contiguous(mark)'
           /\ ~ReachesEnd(cursor) =>
                 \A s \in trail \ Unreadable :
                    Min(Page(cursor)) <= s /\ s <= mark => Known(s)'
           /\ \A r \in EverHeld' : r \in EverHeld \/ (r[1] = era /\ r[2] \in trail)
<1> DEFINE page == Page(cursor)
<1> USE DEF Good, NoSeq
<1>1. /\ TypeOK /\ cursor \in Nat /\ cursor # NoSeq /\ mark \in Nat /\ mark # NoSeq
      /\ \A s \in trail : s \in Nat
      /\ \A s \in trail \ Unreadable : cursor <= s /\ s <= mark => Known(s)
      /\ Contiguous(mark)
  BY DEF TypeInv, TypeOK, Seqs, CopyInv, WalkIsContiguous
<1>2. /\ page \subseteq trail
      /\ \A s \in page : s < cursor
      /\ \A p \in page, s \in trail : p <= s /\ s < cursor => s \in page
      /\ ~ReachesEnd(cursor) => Min(page) \in page
  BY <1>1, PageFacts
<1>3. /\ \A s : Known(s)' <=> Known(s) \/ s \in page \ Unreadable
      /\ \A r \in EverHeld' : r \in EverHeld \/ (r[1] = era /\ r[2] \in page)
  BY DEF EverHeld, Known, Rows, Writes
<1>4. ASSUME NEW s \in trail, s \notin Unreadable, s <= mark, NEW p \in page, p <= s
      PROVE  Known(s)'
  <2>1. CASE s < cursor
    BY <1>2, <1>3, <1>4, <2>1
  <2>2. CASE ~(s < cursor)
    BY <1>1, <1>3, <1>4, <2>2
  <2> QED
    BY <2>1, <2>2
<1>5. Contiguous(mark)'
  <2>1. ASSUME NEW s \in trail, s \notin Unreadable, s <= mark,
               NEW r \in EverHeld', r[2] <= s
        PROVE  Known(s)'
    <3>1. CASE r \in EverHeld
      BY <1>1, <1>3, <2>1, <3>1 DEF Contiguous
    <3>2. CASE r[2] \in page
      BY <1>4, <2>1, <3>2
    <3> QED
      BY <1>3, <3>1, <3>2
  <2> QED
    BY <2>1 DEF Contiguous
<1>6. ~ReachesEnd(cursor) =>
         \A s \in trail \ Unreadable : Min(page) <= s /\ s <= mark => Known(s)'
  BY <1>2, <1>4
<1> QED
  BY <1>2, <1>3, <1>5, <1>6

\* What is held stays behind the trail's end when a retained page is stored.
LEMMA HeldStaysPast ==
    ASSUME Good, UNCHANGED <<gateway, mark>>, EndRound,
           \A r \in EverHeld' : r \in EverHeld \/ (r[1] = era /\ r[2] \in trail)
    PROVE  HeldIsPast'
<1>1. /\ nextSeq' = nextSeq /\ era' = era /\ mark' = mark /\ newestSeen' = NoSeq
      /\ nextSeq \in Nat /\ 0 < nextSeq
  BY BoundAssumption DEF EndRound, gateway, Good, TypeInv, TypeOK
<1>2. /\ era = 0 /\ mark < nextSeq
      /\ (mark # NoSeq => mark \notin Unreadable)
      /\ \A r \in EverHeld : r[1] = 0 /\ r[2] < nextSeq
  BY DEF Good, CopyInv, HeldIsPast
<1>3. \A s \in trail : s < nextSeq
  BY DEF Good, TrailIsInterval
<1>4. \A r \in EverHeld' : r[1] = 0 /\ r[2] < nextSeq
  BY <1>2, <1>3
<1> QED
  BY <1>1, <1>2, <1>4 DEF HeldIsPast, NoSeq

\* One page of the backwards walk.
LEMMA BackfillPageStep == ASSUME Good, BackfillPage PROVE CopyInv'
<1>1. /\ pc = "backfill" /\ store' = store \cup Rows(Writes(Page(cursor)))
      /\ UNCHANGED <<gateway, mark, history, faults>>
  BY DEF BackfillPage
<1>2. era' = era /\ trail' = trail /\ nextSeq' = nextSeq /\ mark' = mark /\ aged' = aged
  BY <1>1 DEF gateway, history
<1>3. mark # NoSeq /\ ~rewound
  BY <1>1 DEF Good, CopyInv, WalkIsContiguous
<1>4. /\ Contiguous(mark)'
      /\ ~ReachesEnd(cursor) =>
            \A s \in trail \ Unreadable :
               Min(Page(cursor)) <= s /\ s <= mark => Known(s)'
      /\ \A r \in EverHeld' : r \in EverHeld \/ (r[1] = era /\ r[2] \in trail)
  BY <1>1, <1>2, WalkPageKeepsMark
<1>5. CASE EndRound
  <2>1. HeldIsPast'
    BY <1>1, <1>4, <1>5, HeldStaysPast
  <2> QED
    BY <1>2, <1>3, <1>4, <1>5, <2>1, EndRoundKeeps
<1>6. CASE ~EndRound
  <2>1. /\ ~ReachesEnd(cursor) /\ cursor' = Min(Page(cursor)) /\ pc' = pc
        /\ newestSeen' = newestSeen /\ rewound' = rewound
    BY <1>6 DEF BackfillPage
  <2>2. HeldIsPast'
    <3>1. \A s \in trail : s < nextSeq
      BY DEF Good, TrailIsInterval
    <3>2. \A r \in EverHeld' : r[1] = 0 /\ r[2] < nextSeq
      BY <1>4, <3>1 DEF Good, CopyInv, HeldIsPast
    <3> QED
      BY <1>2, <2>1, <3>2 DEF Good, CopyInv, HeldIsPast
  <2>3. cursor' # NoSeq
    <3>1. cursor \in Nat /\ \A s \in trail : s > 0
      BY DEF Good, TypeInv, TypeOK, Seqs
    <3>2. cursor' \in trail
      BY <2>1, <3>1, PageFacts DEF Good, TypeInv
    <3> QED
      BY <3>1, <3>2 DEF NoSeq
  <2>4. WalkIsContiguous'
    BY <1>2, <1>3, <1>4, <2>1, <2>3 DEF WalkIsContiguous
  <2>5. TailIsContiguous'
    BY <1>1, <2>1 DEF TailIsContiguous
  <2> QED
    BY <1>1, <1>2, <1>3, <1>4, <2>1, <2>2, <2>4, <2>5 DEF CopyInv
<1> QED
  BY <1>5, <1>6

\* A failed tail request goes on to settle without having met its floor; a
\* failed request of the walk ends the round.
LEMMA RequestFailsStep == ASSUME Good, RequestFails PROVE CopyInv'
<1>1. UNCHANGED <<gateway, durable, history, crashes>>
  BY DEF RequestFails
<1>2. /\ EverHeld' = EverHeld /\ trail' = trail /\ nextSeq' = nextSeq /\ mark' = mark
      /\ \A s : Known(s)' <=> Known(s)
  BY <1>1 DEF gateway, durable, history, EverHeld, Known
<1>3. \A top : Contiguous(top) => Contiguous(top)'
  BY <1>2 DEF Contiguous
<1>4. mark' # NoSeq => Contiguous(mark)'
  BY <1>2, <1>3 DEF Good, CopyInv
<1>5. CASE pc = "tail"
  <2>1. /\ pc' = "settle"
        /\ UNCHANGED <<requests, cursor, floor, newestSeen, rewound, caughtUp>>
    BY <1>5 DEF RequestFails
  <2>2. HeldIsPast'
    BY <1>1, <1>2, <2>1 DEF Good, CopyInv, HeldIsPast, gateway
  <2>3. ~caughtUp
    BY <1>5 DEF Good, CopyInv
  <2>4. TailIsContiguous'
    <3>1. /\ floor' = mark' /\ \A s : ~TailReads(s)'
          /\ (mark' = NoSeq => /\ newestSeen' = NoSeq => EverHeld' = {}
                               /\ Contiguous(newestSeen)')
      BY <1>2, <1>3, <1>5, <2>1 DEF Good, CopyInv, TailIsContiguous, TailReads
    <3> QED
      BY <2>1, <2>3, <3>1 DEF TailIsContiguous
  <2>5. WalkIsContiguous'
    BY <2>1 DEF WalkIsContiguous
  <2> QED
    BY <1>4, <2>1, <2>2, <2>4, <2>5 DEF Good, CopyInv
<1>6. CASE pc # "tail"
  <2>1. pc = "backfill" /\ EndRound
    BY <1>6 DEF RequestFails
  <2>2. HeldIsPast'
    BY <1>1, <1>2, <2>1, HeldStaysPast DEF durable
  <2>3. mark' # NoSeq
    BY <1>2, <2>1 DEF Good, CopyInv, WalkIsContiguous
  <2> QED
    BY <1>4, <2>1, <2>2, <2>3, EndRoundKeeps
<1> QED
  BY <1>5, <1>6

\* A crash ends the round with or without the page in hand; it leaves the copy
\* intact only when there is a mark to come back to.
LEMMA CrashStep == ASSUME Good, Crash, intact' PROVE CopyInv'
<1>1. /\ EndRound /\ mark # NoSeq /\ mark' = mark /\ aged' = aged
      /\ UNCHANGED gateway
  BY DEF Crash
<1>2. era' = era /\ trail' = trail
  BY <1>1 DEF gateway
<1>3. CASE \/ store' = store
           \/ pc = "tail" /\ store' = store \cup Rows(Fresh(Page(cursor)))
  <2>1. Contiguous(mark)'
    BY <1>1, <1>2, <1>3, FreshKeepsMark
  <2>2. \A r \in EverHeld' : r \in EverHeld \/ (r[1] = era /\ r[2] \in trail)
    <3>1. CASE store' = store
      BY <1>1, <3>1 DEF EverHeld
    <3>2. CASE pc = "tail" /\ store' = store \cup Rows(Fresh(Page(cursor)))
      <4>1. Fresh(Page(cursor)) \subseteq trail
        <5>1. cursor \in Nat
          BY DEF Good, TypeInv, TypeOK, Seqs
        <5> QED
          BY <5>1, PageFacts DEF Good, TypeInv, Fresh, Writes
      <4> QED
        BY <1>1, <3>2, <4>1 DEF EverHeld, Rows
    <3> QED
      BY <1>3, <3>1, <3>2
  <2>3. HeldIsPast'
    BY <1>1, <2>2, HeldStaysPast
  <2> QED
    BY <1>1, <2>1, <2>3, EndRoundKeeps
<1>4. CASE pc = "backfill" /\ store' = store \cup Rows(Writes(Page(cursor)))
  <2>1. /\ Contiguous(mark)'
        /\ \A r \in EverHeld' : r \in EverHeld \/ (r[1] = era /\ r[2] \in trail)
    BY <1>1, <1>2, <1>4, WalkPageKeepsMark
  <2>2. HeldIsPast'
    BY <1>1, <2>1, HeldStaysPast
  <2> QED
    BY <1>1, <2>1, <2>2, EndRoundKeeps
<1> QED
  BY <1>3, <1>4 DEF Crash

\* The collector starts with nothing held and no mark.
LEMMA InitGood == Init => TrailIsInterval /\ CopyInv
<1>1. SUFFICES ASSUME Init PROVE TrailIsInterval /\ CopyInv
  OBVIOUS
<1>2. /\ store = {} /\ aged = {} /\ mark = NoSeq /\ newestSeen = NoSeq /\ pc = "idle"
      /\ cursor = NoSeq /\ rewound = FALSE /\ caughtUp = FALSE /\ era = 0
  BY <1>1 DEF Init
<1>3. PICK n \in Nat : trail = 1..n /\ nextSeq = n + 1
  BY <1>1, BoundAssumption DEF Init
<1>4. TrailIsInterval
  BY <1>3 DEF TrailIsInterval
<1>5. HeldIsPast
  BY <1>2, <1>3 DEF HeldIsPast, EverHeld, NoSeq
<1>6. TailIsContiguous /\ WalkIsContiguous
  BY <1>2 DEF TailIsContiguous, WalkIsContiguous
<1> QED
  BY <1>2, <1>4, <1>5, <1>6 DEF CopyInv, EverHeld

\* The copy stays contiguous in every step that leaves it intact.
LEMMA NextCopyInv ==
    ASSUME Good, intact, [Next]_vars, intact'
    PROVE  CopyInv'
<1>1. CASE RecordEvent
  BY <1>1, RecordEventStep
<1>2. CASE PruneTrail
  BY <1>2, PruneTrailStep
<1>3. CASE ResetTrail
  BY <1>3 DEF ResetTrail
<1>4. CASE StartRound
  BY <1>4, StartRoundStep
<1>5. CASE TailPage
  BY <1>5, TailPageStep
<1>6. CASE SettleTail
  BY <1>6, SettleTailStep
<1>7. CASE BackfillPage
  BY <1>7, BackfillPageStep
<1>8. CASE RequestFails
  BY <1>8, RequestFailsStep
<1>9. CASE Crash
  BY <1>9, CrashStep
<1>10. CASE Retention
  BY <1>10, RetentionStep
<1>11. CASE UNCHANGED vars
  <2>1. UNCHANGED <<gateway, durable, local, history, faults>>
    BY <1>11 DEF vars
  <2>2. EverHeld' = EverHeld /\ \A s : Known(s)' <=> Known(s)
    BY <2>1 DEF gateway, durable, history, EverHeld, Known
  <2> QED
    BY <2>1, <2>2
    DEF Good, CopyInv, HeldIsPast, Contiguous, TailIsContiguous, TailReads,
        WalkIsContiguous, gateway, durable, local
<1> QED
  BY <1>1, <1>2, <1>3, <1>4, <1>5, <1>6, <1>7, <1>8, <1>9, <1>10, <1>11
  DEF Next, Gateway, Round, Faults

\* A copy that a fault tore is never called intact again.
LEMMA TornStaysTorn == ASSUME [Next]_vars, intact' PROVE intact
  BY DEF Next, Gateway, Round, Faults, RecordEvent, PruneTrail, ResetTrail,
         StartRound, TailPage, SettleTail, BackfillPage, RequestFails, Crash,
         Retention, vars, history

\* The invariant every reachable state satisfies.
LEMMA Inductive == Spec => [](IInv /\ TypeInv)
<1>1. Init => IInv /\ TypeInv
  BY InitTypeInv, InitGood DEF IInv, TypeInv
<1>2. IInv /\ TypeInv /\ [Next]_vars => (IInv /\ TypeInv)'
  <2>1. SUFFICES ASSUME IInv, TypeInv, [Next]_vars PROVE (IInv /\ TypeInv)'
    OBVIOUS
  <2>2. TypeInv' /\ TrailIsInterval'
    BY <2>1, NextTypeInv, IntervalStep DEF IInv
  <2>3. ASSUME intact' PROVE CopyInv'
    <3>1. intact
      BY <2>1, <2>3, TornStaysTorn
    <3> QED
      BY <2>1, <2>3, <3>1, NextCopyInv DEF IInv, Good
  <2> QED
    BY <2>2, <2>3 DEF IInv, TypeInv
<1> QED
  BY <1>1, <1>2, PTL DEF Spec

\* Between the oldest row ever held and the mark no retained, readable record
\* is missing: what the mark promises to the round that reads down to it.
THEOREM MarkContiguous == Spec => []MarkIsContiguous
<1>1. IInv => MarkIsContiguous
  BY DEF IInv, CopyInv, Contiguous, MarkIsContiguous
<1> QED
  BY <1>1, Inductive, PTL

\* Neither pruning at the Gateway nor unreadable records make a round believe
\* that the numbering restarted.
THEOREM RewindIsReal == Spec => []NoFalseRewind
<1>1. IInv => NoFalseRewind
  BY DEF IInv, CopyInv, NoFalseRewind
<1> QED
  BY <1>1, Inductive, PTL

-----------------------------------------------------------------------------
(* The complete flag.  The invariant says two things the copy's does not:   *)
(* a tail that has not met its floor read nothing at or below the mark, and *)
(* a flag that was just set before there is a mark stands only for the one  *)
(* statement between the page that set it and the mark that page moves.     *)

HoldsDownFrom(top) == \A s \in trail \ Unreadable : s <= top => Known(s)

WholeInv ==
    /\ pc = "tail" => \A s \in trail \ Unreadable : TailReads(s) => mark < s
    /\ ~blank /\ complete /\ mark # NoSeq => HoldsDownFrom(mark)
    /\ ~blank /\ complete /\ mark = NoSeq => pc = "settle" /\ HoldsDownFrom(newestSeen)

\* What the steps below assume of the state they start in.
Whole == Good /\ WholeInv

\* What is held is held after a step that only adds rows or ages them.
LEMMA HeldStaysHeld ==
    ASSUME era' = era, trail' \subseteq trail, EverHeld \subseteq EverHeld', NEW top \in Nat,
           HoldsDownFrom(top)
    PROVE  \A s \in trail' \ Unreadable : s <= top => Known(s)'
  BY DEF HoldsDownFrom, Known

\* A new record is newer than the mark and than what the round has read.
LEMMA RecordEventWhole == ASSUME Whole, RecordEvent PROVE WholeInv'
<1>1. /\ trail' = trail \cup {nextSeq} /\ nextSeq \in Nat /\ era' = era
      /\ UNCHANGED <<durable, local, history>>
  BY DEF RecordEvent, Whole, Good, TypeInv, TypeOK
<1>2. mark < nextSeq /\ newestSeen < nextSeq /\ mark \in Nat /\ newestSeen \in Nat
  BY DEF Whole, Good, CopyInv, HeldIsPast, TypeInv, TypeOK, Seqs
<1>3. \A s : Known(s)' <=> Known(s)
  BY <1>1 DEF durable, history, EverHeld, Known
<1>4. /\ pc' = pc /\ cursor' = cursor /\ newestSeen' = newestSeen
      /\ mark' = mark /\ complete' = complete /\ blank' = blank
  BY <1>1 DEF durable, local, history
<1>5. HoldsDownFrom(mark) => HoldsDownFrom(mark)'
  BY <1>1, <1>2, <1>3, <1>4 DEF HoldsDownFrom
<1>6. HoldsDownFrom(newestSeen) => HoldsDownFrom(newestSeen)'
  BY <1>1, <1>2, <1>3, <1>4 DEF HoldsDownFrom
<1>7. pc' = "tail" => \A s \in trail' \ Unreadable : TailReads(s)' => mark' < s
  BY <1>1, <1>2, <1>4 DEF Whole, WholeInv, TailReads
<1> QED
  BY <1>4, <1>5, <1>6, <1>7 DEF Whole, WholeInv

\* Pruning at the Gateway and retention take nothing away that was held.
LEMMA QuietStepsWhole ==
    ASSUME Whole, PruneTrail \/ Retention \/ StartRound
    PROVE  WholeInv'
<1>1. /\ trail' \subseteq trail /\ era' = era
      /\ UNCHANGED <<mark, complete, blank, cursor, newestSeen>>
  BY DEF PruneTrail, Retention, StartRound, gateway, durable, local, history
<1>2. EverHeld' = EverHeld
  BY DEF PruneTrail, Retention, StartRound, durable, history, EverHeld
<1>3. mark \in Nat /\ newestSeen \in Nat
  BY DEF Whole, Good, TypeInv, TypeOK, Seqs
<1>4. HoldsDownFrom(mark) => HoldsDownFrom(mark)'
  BY <1>1, <1>2, <1>3, HeldStaysHeld DEF HoldsDownFrom
<1>5. HoldsDownFrom(newestSeen) => HoldsDownFrom(newestSeen)'
  BY <1>1, <1>2, <1>3, HeldStaysHeld DEF HoldsDownFrom
<1>6. pc' = pc \/ (pc = "idle" /\ cursor = NoSeq)
  BY DEF PruneTrail, Retention, StartRound, local, Whole, Good, CopyInv
<1>7. pc' = "tail" => \A s \in trail' \ Unreadable : TailReads(s)' => mark' < s
  BY <1>1, <1>6 DEF Whole, WholeInv, TailReads
<1> QED
  BY <1>1, <1>4, <1>5, <1>6, <1>7 DEF Whole, WholeInv

\* A page of the tail: when it is the last one every retained record was read,
\* and when it did not meet the floor none of those is at or below the mark.
LEMMA TailPageWhole == ASSUME Whole, TailPage PROVE WholeInv'
<1> DEFINE page == Page(cursor)
           rows == Writes(page)
           met  == MeetsFloor(page)
           end  == ~met /\ ReachesEnd(cursor)
           Seen(s) == s \in page \/ ~(cursor = NoSeq \/ s < cursor)
<1> USE DEF NoSeq
<1>1. /\ pc = "tail" /\ store' = store \cup Rows(Fresh(page))
      /\ newestSeen' = NewestWith(page)
      /\ complete' = (end \/ (complete /\ ~GoesBack(page)))
      /\ cursor' = IF met \/ end THEN cursor ELSE Min(page)
      /\ pc' = IF met \/ end \/ requests + 1 = TailBudget THEN "settle" ELSE "tail"
      /\ UNCHANGED <<gateway, mark, failed, history, faults>>
  BY DEF TailPage
<1>2. Good /\ CopyInv /\ TypeOK
  BY DEF Whole, Good, TypeInv
<1>3. cursor \in Nat /\ mark \in Nat /\ \A s \in trail : s \in Nat /\ s > 0
  BY <1>2 DEF TypeOK, Seqs
<1>4. ~GoesBack(page) /\ FloorWith(page) = mark
  BY <1>1, <1>2, NoRewindOnPage
<1>5. /\ era' = era /\ trail' = trail /\ mark' = mark /\ blank' = blank
      /\ EverHeld \subseteq EverHeld'
  BY <1>1 DEF gateway, history, EverHeld
<1>6. /\ page \in SUBSET (0..MaxSeq) /\ page \subseteq trail /\ rows = page \ Unreadable
      /\ \A p \in page, s \in trail : p <= s /\ (cursor = NoSeq \/ s < cursor) => s \in page
      /\ ReachesEnd(cursor) => \A s \in trail : (cursor = NoSeq \/ s < cursor) => s \in page
      /\ ~ReachesEnd(cursor) => Min(page) \in page
  BY <1>2, <1>3, PageFacts DEF Writes
\* A page that does not meet the floor leaves nothing read at or below the mark.
<1>7. ASSUME ~met, mark # NoSeq, NEW s \in trail, s \notin Unreadable, Seen(s)
      PROVE  mark < s
  <2>1. CASE s \in page
    BY <1>3, <1>4, <1>6, <1>7, <2>1 DEF MeetsFloor
  <2>2. CASE cursor # NoSeq /\ s >= cursor
    <3>1. TailReads(s)
      BY <1>1, <2>2 DEF TailReads
    <3> QED
      BY <1>1, <1>7, <3>1 DEF Whole, WholeInv
  <2> QED
    BY <1>3, <1>7, <2>1, <2>2
<1>8. pc' = "tail" => \A s \in trail' \ Unreadable : TailReads(s)' => mark' < s
  <2>1. SUFFICES ASSUME pc' = "tail", NEW s \in trail, s \notin Unreadable, TailReads(s)'
                 PROVE  mark < s
    BY <1>5
  <2>2. ~met /\ ~ReachesEnd(cursor) /\ Min(page) \in page /\ s >= Min(page)
    BY <1>1, <1>6, <2>1 DEF TailReads
  <2>3. Seen(s)
    BY <1>3, <1>6, <2>2
  <2>4. CASE mark # NoSeq
    BY <1>7, <2>1, <2>2, <2>3, <2>4
  <2>5. CASE mark = NoSeq
    BY <1>3, <2>5
  <2> QED
    BY <2>4, <2>5
<1>9. end => \A s \in trail : Seen(s)
  BY <1>6
<1>10. ASSUME ~blank, complete', mark # NoSeq PROVE HoldsDownFrom(mark)'
  <2>1. CASE end
    <3>1. \A s \in trail \ Unreadable : mark < s
      BY <1>7, <1>9, <1>10, <2>1
    <3> QED
      BY <1>3, <1>5, <3>1 DEF HoldsDownFrom
  <2>2. CASE ~end
    <3>1. HoldsDownFrom(mark)
      BY <1>1, <1>10, <2>2 DEF Whole, WholeInv
    <3> QED
      BY <1>3, <1>5, <3>1, HeldStaysHeld DEF HoldsDownFrom
  <2> QED
    BY <2>1, <2>2
<1>11. ASSUME ~blank, complete', mark = NoSeq
       PROVE  pc' = "settle" /\ HoldsDownFrom(newestSeen)'
  <2>1. end
    <3>1. ~complete
      BY <1>1, <1>11 DEF Whole, WholeInv
    <3>2. complete' => end \/ complete
      BY <1>1
    <3> QED
      BY <1>11, <3>1, <3>2
  <2>2. pc' = "settle" /\ caughtUp' /\ floor' = mark
    BY <1>1, <1>4, <2>1 DEF TailPage
  <2>3. CopyInv'
    BY <1>2, TailPageStep
  <2>4. \A s \in trail \ Unreadable : s <= newestSeen' => Known(s)'
    BY <1>3, <1>5, <1>11, <2>2, <2>3 DEF CopyInv, TailIsContiguous
  <2> QED
    BY <1>5, <2>2, <2>4 DEF HoldsDownFrom
<1> QED
  BY <1>5, <1>8, <1>10, <1>11 DEF WholeInv

\* The mark moves over what the tail holds, on top of what the flag promises.
LEMMA SettleTailWhole == ASSUME Whole, SettleTail PROVE WholeInv'
<1> USE DEF NoSeq
<1>1. /\ pc = "settle" /\ mark' = IF MovesMark THEN newestSeen ELSE mark
      /\ blank' = (blank \/ (complete /\ mark' = NoSeq))
      /\ UNCHANGED <<gateway, store, complete, aged>>
  BY DEF SettleTail
<1>2. /\ trail' = trail /\ complete' = complete /\ \A s : Known(s)' <=> Known(s)
  BY <1>1 DEF gateway, EverHeld, Known
<1>3. /\ mark \in Nat /\ newestSeen \in Nat /\ \A s \in trail : s \in Nat
  BY DEF Whole, Good, TypeInv, TypeOK, Seqs
<1>4. /\ ~rewound /\ floor = mark
      /\ caughtUp => \A s \in trail \ Unreadable : mark < s /\ s <= newestSeen => Known(s)
  BY <1>1 DEF Whole, Good, CopyInv, TailIsContiguous
<1>5. pc' # "tail" /\ (~blank' => ~blank) /\ (~blank' /\ complete => mark' # NoSeq)
  BY <1>1 DEF SettleTail, EndRound
<1>6. ASSUME ~blank', complete', mark' # NoSeq PROVE HoldsDownFrom(mark)'
  <2>1. CASE mark = NoSeq
    <3>1. mark' = newestSeen
      BY <1>1, <1>6, <2>1
    <3>2. HoldsDownFrom(newestSeen)
      BY <1>1, <1>2, <1>5, <1>6, <2>1 DEF Whole, WholeInv
    <3> QED
      BY <1>2, <3>1, <3>2 DEF HoldsDownFrom
  <2>2. CASE mark # NoSeq
    <3>1. HoldsDownFrom(mark)
      BY <1>1, <1>2, <1>5, <1>6, <2>2 DEF Whole, WholeInv
    <3>2. CASE MovesMark
      <4>1. caughtUp /\ mark' = newestSeen
        BY <1>1, <1>4, <2>2, <3>2 DEF MovesMark
      <4> QED
        BY <1>2, <1>3, <1>4, <3>1, <4>1 DEF HoldsDownFrom
    <3>3. CASE ~MovesMark
      BY <1>1, <1>2, <3>1, <3>3 DEF HoldsDownFrom
    <3> QED
      BY <3>2, <3>3
  <2> QED
    BY <2>1, <2>2
<1> QED
  BY <1>2, <1>5, <1>6 DEF WholeInv

\* The last page of the walk holds every readable record below the page before.
LEMMA BackfillPageWhole == ASSUME Whole, BackfillPage PROVE WholeInv'
<1> DEFINE page == Page(cursor)
<1> USE DEF NoSeq
<1>1. /\ pc = "backfill" /\ store' = store \cup Rows(Writes(page))
      /\ complete' = (complete \/ ReachesEnd(cursor))
      /\ UNCHANGED <<gateway, mark, history, faults>>
  BY DEF BackfillPage
<1>2. /\ TypeOK /\ cursor \in Nat /\ cursor # NoSeq /\ mark \in Nat /\ mark # NoSeq
      /\ \A s \in trail : s \in Nat
      /\ \A s \in trail \ Unreadable : cursor <= s /\ s <= mark => Known(s)
  BY <1>1 DEF Whole, Good, TypeInv, TypeOK, Seqs, CopyInv, WalkIsContiguous
<1>3. /\ era' = era /\ trail' = trail /\ mark' = mark /\ blank' = blank
      /\ EverHeld \subseteq EverHeld'
  BY <1>1 DEF gateway, history, EverHeld
<1>4. \A s : Known(s) \/ s \in page \ Unreadable => Known(s)'
  BY <1>1, <1>3 DEF EverHeld, Known, Rows, Writes
<1>5. ASSUME ~blank', complete' PROVE HoldsDownFrom(mark)'
  <2>1. CASE ReachesEnd(cursor)
    <3>1. \A s \in trail : s < cursor => s \in page
      BY <1>2, <2>1, PageFacts
    <3> QED
      BY <1>2, <1>3, <1>4, <3>1 DEF HoldsDownFrom
  <2>2. CASE ~ReachesEnd(cursor)
    <3>1. HoldsDownFrom(mark)
      BY <1>1, <1>2, <1>3, <1>5, <2>2 DEF Whole, WholeInv
    <3> QED
      BY <1>2, <1>3, <3>1, HeldStaysHeld DEF HoldsDownFrom
  <2> QED
    BY <2>1, <2>2
<1>6. pc' # "tail" /\ mark' # NoSeq
  BY <1>1, <1>2 DEF BackfillPage, EndRound
<1> QED
  BY <1>5, <1>6 DEF WholeInv

\* A failed request and a crash that leaves the copy intact set no flag.
LEMMA FaultsWhole == ASSUME Whole, Faults, intact' PROVE WholeInv'
<1>1. /\ era' = era /\ trail' = trail /\ mark' = mark /\ blank' = blank /\ pc' # "tail"
      /\ (complete' => complete) /\ store \subseteq store' /\ aged' = aged
  <2>1. CASE RequestFails
    BY <2>1 DEF RequestFails, EndRound, gateway, durable, history
  <2>2. CASE Crash
    <3>1. EndRound /\ UNCHANGED <<gateway, mark, aged, blank>>
      BY <2>2 DEF Crash
    <3>2. store \subseteq store'
      BY <2>2 DEF Crash
    <3>3. complete' => complete
      BY <2>2 DEF Crash
    <3> QED
      BY <3>1, <3>2, <3>3 DEF EndRound, gateway
  <2> QED
    BY <2>1, <2>2 DEF Faults
<1>2. ~blank /\ complete => mark # NoSeq
  BY DEF Whole, WholeInv, Good, CopyInv, WalkIsContiguous, Faults, RequestFails, Crash
<1>3. mark \in Nat
  BY DEF Whole, Good, TypeInv, TypeOK, Seqs
<1>4. EverHeld \subseteq EverHeld'
  BY <1>1 DEF EverHeld
<1>5. HoldsDownFrom(mark) => HoldsDownFrom(mark)'
  BY <1>1, <1>3, <1>4, HeldStaysHeld DEF HoldsDownFrom
<1> QED
  BY <1>1, <1>2, <1>5 DEF Whole, WholeInv

\* The flag keeps its promise in every step that leaves the copy intact.
LEMMA NextWholeInv ==
    ASSUME Whole, intact, [Next]_vars, intact'
    PROVE  WholeInv'
<1>1. CASE RecordEvent
  BY <1>1, RecordEventWhole
<1>2. CASE PruneTrail \/ Retention \/ StartRound
  BY <1>2, QuietStepsWhole
<1>3. CASE ResetTrail
  BY <1>3 DEF ResetTrail
<1>4. CASE TailPage
  BY <1>4, TailPageWhole
<1>5. CASE SettleTail
  BY <1>5, SettleTailWhole
<1>6. CASE BackfillPage
  BY <1>6, BackfillPageWhole
<1>7. CASE Faults
  BY <1>7, FaultsWhole
<1>8. CASE UNCHANGED vars
  BY <1>8 DEF Whole, WholeInv, HoldsDownFrom, Known, EverHeld, TailReads,
              vars, gateway, durable, local, history
<1> QED
  BY <1>1, <1>2, <1>3, <1>4, <1>5, <1>6, <1>7, <1>8 DEF Next, Gateway, Round

\* Once the walk is recorded as complete nothing retained below the mark is
\* missing, so the walk that is never repeated left no hole behind.
THEOREM CompleteWhole == Spec => []CompleteIsWhole
<1> DEFINE Flag == intact => WholeInv
<1>1. Init => Flag
  BY DEF Init, WholeInv
<1>2. IInv /\ TypeInv /\ Flag /\ [Next]_vars => Flag'
  <2>1. SUFFICES ASSUME IInv, TypeInv, Flag, [Next]_vars, intact' PROVE WholeInv'
    OBVIOUS
  <2>2. intact
    BY <2>1, TornStaysTorn
  <2> QED
    BY <2>1, <2>2, NextWholeInv DEF IInv, Whole, Good
<1>3. Flag => CompleteIsWhole
  BY DEF WholeInv, HoldsDownFrom, CompleteIsWhole, BelowMarkIsKnown
<1> HIDE DEF Flag
<1> QED
  BY <1>1, <1>2, <1>3, Inductive, PTL DEF Spec

-----------------------------------------------------------------------------
(* What the mark may do.                                                    *)

\* The floor of a tail is the mark it began with, or none once the numbering was
\* found below it; and a tail that has a floor has read nothing lower first.
FloorInv ==
    /\ pc = "idle" => newestSeen = NoSeq
    /\ pc \in {"tail", "settle"} =>
          /\ floor \in {mark, NoSeq}
          /\ floor # NoSeq /\ newestSeen # NoSeq => floor <= newestSeen

\* Every step keeps that.
LEMMA NextFloorInv == TypeInv /\ FloorInv /\ [Next]_vars => FloorInv'
<1> SUFFICES ASSUME TypeInv, FloorInv, [Next]_vars PROVE FloorInv'
  OBVIOUS
<1> DEFINE page == Page(cursor)
<1>1. CASE Gateway \/ Retention \/ UNCHANGED vars
  <2>1. UNCHANGED <<mark, pc, floor, newestSeen>>
    BY <1>1 DEF Gateway, RecordEvent, PruneTrail, ResetTrail, Retention, durable, local, vars
  <2> QED
    BY <2>1 DEF FloorInv
<1>2. CASE StartRound
  BY <1>2 DEF StartRound, FloorInv, durable
<1>3. CASE TailPage
  <2>1. /\ pc = "tail" /\ mark' = mark /\ newestSeen' = NewestWith(page)
        /\ floor' = FloorWith(page) /\ pc' \in {"tail", "settle"}
    BY <1>3 DEF TailPage
  <2>2. floor \in Nat /\ newestSeen \in Nat
    BY BoundAssumption DEF TypeInv, TypeOK, Seqs
  <2>3. CASE NamesNewest(page)
    <3>1. NewestWith(page) \in Nat
      <4>1. newestSeen' \in Nat
        BY NextTypeInv, BoundAssumption DEF TypeInv, TypeOK, Seqs
      <4> QED
        BY <2>1, <4>1
    <3>2. FloorWith(page) # NoSeq => FloorWith(page) = floor /\ floor <= NewestWith(page)
      BY <2>2, <2>3, <3>1 DEF FloorWith, GoesBack, NoSeq
    <3> QED
      BY <2>1, <3>2 DEF FloorInv
  <2>4. CASE ~NamesNewest(page)
    BY <2>1, <2>4 DEF NewestWith, FloorWith, GoesBack, FloorInv
  <2> QED
    BY <2>3, <2>4
<1>4. CASE SettleTail
  <2>1. pc' = "backfill" \/ (pc' = "idle" /\ newestSeen' = NoSeq)
    BY <1>4 DEF SettleTail, EndRound
  <2> QED
    BY <2>1 DEF FloorInv
<1>5. CASE BackfillPage
  <2>1. pc' = "backfill" \/ (pc' = "idle" /\ newestSeen' = NoSeq)
    BY <1>5 DEF BackfillPage, EndRound
  <2> QED
    BY <2>1 DEF FloorInv
<1>6. CASE RequestFails
  <2>1. mark' = mark
    BY <1>6 DEF RequestFails, durable
  <2>2. \/ pc = "tail" /\ pc' = "settle" /\ UNCHANGED <<floor, newestSeen>>
        \/ pc' = "idle" /\ newestSeen' = NoSeq
    BY <1>6 DEF RequestFails, EndRound
  <2> QED
    BY <2>1, <2>2 DEF FloorInv
<1>7. CASE Crash
  BY <1>7 DEF Crash, EndRound, FloorInv
<1> QED
  BY <1>1, <1>2, <1>3, <1>4, <1>5, <1>6, <1>7 DEF Next, Round, Faults

\* The mark never goes down but for a round that found the numbering below it, or
\* had no mark, and then it is of the numbering there is: half of RestartIsNoticed.
THEOREM MarkFallsWithRestart == Spec => OnlyARestartLowersTheMark
<1>1. Init => FloorInv
  BY DEF Init, FloorInv
<1>2. TypeInv /\ FloorInv /\ [Next]_vars => [mark' < mark => markEra' = era]_vars
  <2>1. SUFFICES ASSUME TypeInv, FloorInv, [Next]_vars, mark' < mark PROVE markEra' = era
    OBVIOUS
  <2>2. mark \in Nat /\ newestSeen \in Nat
    BY <2>1, BoundAssumption DEF TypeInv, TypeOK, Seqs
  <2>3. mark' # mark
    BY <2>1, <2>2
  <2>4. SettleTail
    BY <2>1, <2>3 DEF Next, Gateway, Round, Faults, RecordEvent, PruneTrail, ResetTrail,
       StartRound, TailPage, BackfillPage, RequestFails, Crash, Retention, durable, vars
  <2>5. MovesMark /\ mark' = newestSeen /\ pc = "settle"
    BY <2>3, <2>4 DEF SettleTail
  <2>6. floor = NoSeq
    BY <2>1, <2>2, <2>5 DEF FloorInv, MovesMark
  <2> QED
    BY <2>4, <2>5, <2>6 DEF SettleTail
<1> QED
  BY <1>1, <1>2, InitTypeInv, NextTypeInv, NextFloorInv, PTL DEF Spec, OnlyARestartLowersTheMark
=============================================================================
