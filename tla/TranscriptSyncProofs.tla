------------------------ MODULE TranscriptSyncProofs ------------------------
(***************************************************************************)
(* What holds of TranscriptSync for all sessions, page sizes and budgets:  *)
(* its type invariant, that the archive is what its sync rows say, that no *)
(* evidence is forgotten, and that a round begins with room.  Four         *)
(* invariants: TypeInv, with the candidates of a round; ArchiveInv, with   *)
(* the walk back of every session; EvidenceInv; and RoomInv, with the size *)
(* that the synchronizer takes the archive to have.                        *)
(***************************************************************************)
EXTENDS TranscriptSync, Inductions

-----------------------------------------------------------------------------
(* Facts about the operators.                                               *)

\* The smaller of two numbers.
LEMMA MinOfTwo ==
    ASSUME NEW a \in Int, NEW b \in Int
    PROVE  Min({a, b}) = IF a <= b THEN a ELSE b
<1> DEFINE m == IF a <= b THEN a ELSE b
<1>1. m \in {a, b} /\ \A y \in {a, b} : m <= y
  OBVIOUS
<1>2. \A x \in {a, b} : (\A y \in {a, b} : x <= y) => x = m
  OBVIOUS
<1> HIDE DEF m
<1>3. Min({a, b}) = m
  BY <1>2 DEF Min
<1> QED
  BY <1>3 DEF m

\* A finite set of numbers has a largest member, which is what Max picks.
LEMMA MaxIsLargest ==
    ASSUME NEW n \in Nat, NEW S \in SUBSET (0..n), S # {}
    PROVE  Max(S) \in S /\ \A x \in S : x <= Max(S)
<1> DEFINE T == {0..(n - x) : x \in S}
<1>1. T \subseteq FiniteSubsetsOf(Nat) /\ T # {}
  <2>1. ASSUME NEW x \in S PROVE 0..(n - x) \in FiniteSubsetsOf(Nat)
    <3>1. n - x \in Int /\ 0 \in Int /\ 0..(n - x) \in SUBSET Nat
      OBVIOUS
    <3> QED
      BY FS_Interval DEF FiniteSubsetsOf
  <2> QED
    BY <2>1
<1>2. \E U \in T : \A V \in T : <<V, U>> \notin StrictSubsetOrdering(Nat)
  BY <1>1, FS_StrictSubsetOrderingWellFounded, WFMin
<1>3. PICK m \in S : \A y \in S : <<0..(n - y), 0..(n - m)>> \notin StrictSubsetOrdering(Nat)
  BY <1>2
<1>4. \A y \in S : y <= m
  <2>1. SUFFICES ASSUME NEW y \in S, m < y PROVE FALSE
    OBVIOUS
  <2>2. 0..(n - y) \subseteq 0..(n - m) /\ n - m \in 0..(n - m) /\ n - m \notin 0..(n - y)
    BY <2>1
  <2>3. 0..(n - y) # 0..(n - m)
        /\ 0..(n - y) \in SUBSET Nat /\ 0..(n - m) \in SUBSET Nat
    BY <2>2
  <2>4. <<0..(n - y), 0..(n - m)>> \in StrictSubsetOrdering(Nat)
    BY <2>2 DEF StrictSubsetOrdering
  <2> QED
    BY <1>3, <2>4
<1> QED
  BY <1>4 DEF Max

\* The sessions can be ranked.
LEMMA RankingExists == (CHOOSE f \in Rankings : TRUE) \in Rankings
<1> DEFINE n == Cardinality(Sessions)
<1>1. n \in Nat /\ ExistsBijection(1..n, Sessions)
  BY TranscriptAssumption, FS_CardinalityType
<1>2. PICK b : b \in Bijection(1..n, Sessions)
  BY <1>1 DEF ExistsBijection
<1>3. /\ b \in [1..n -> Sessions]
      /\ \A s \in Sessions : \E i \in 1..n : b[i] = s
  BY <1>2 DEF Bijection, Surjection
<1> DEFINE at(s) == CHOOSE i \in 1..n : b[i] = s
           f == [s \in Sessions |-> at(s) - 1]
<1>4. \A s \in Sessions : at(s) \in 1..n /\ b[at(s)] = s
  BY <1>3
<1> HIDE DEF at
<1>5. \A s \in Sessions : f[s] = at(s) - 1 /\ f[s] \in 0..(n - 1)
  BY <1>1, <1>4
<1>6. f \in [Sessions -> 0..(n - 1)]
  BY <1>5
<1>7. \A s, x \in Sessions : f[s] = f[x] => s = x
  <2>1. SUFFICES ASSUME NEW s \in Sessions, NEW x \in Sessions, f[s] = f[x] PROVE s = x
    OBVIOUS
  <2>2. at(s) = at(x)
    BY <1>4, <2>1
  <2> QED
    BY <1>4, <2>2
<1>8. f \in Rankings
  BY <1>6, <1>7 DEF Rankings, IsInjective
<1> QED
  BY <1>8

\* Any sessions can be put in the order of their recency.
LEMMA RecencyOrders ==
    ASSUME recency \in Rankings, NEW S \in SUBSET Sessions
    PROVE  /\ Cardinality(S) \in Nat
           /\ ByRecency[S] \in [1..Cardinality(S) -> S]
           /\ \A i, j \in 1..Cardinality(S) : ByRecency[S][i] = ByRecency[S][j] => i = j
<1> DEFINE n == Cardinality(S)
           Before(s) == {x \in S : recency[x] < recency[s]}
           rank == [s \in S |-> Cardinality(Before(s))]
<1>1. /\ IsFiniteSet(S) /\ n \in Nat
      /\ \A s \in S : Before(s) \in SUBSET S /\ IsFiniteSet(Before(s))
  BY TranscriptAssumption, FS_Subset, FS_CardinalityType
<1>2. \A s \in S : recency[s] \in Int
  BY DEF Rankings
<1>3. \A s, x \in S : recency[s] = recency[x] => s = x
  BY DEF Rankings, IsInjective
<1>4. \A s \in S : rank[s] = Cardinality(Before(s)) /\ rank[s] \in Nat
  BY <1>1, FS_CardinalityType
<1>5. ASSUME NEW s \in S, NEW x \in S, recency[s] < recency[x] PROVE rank[s] < rank[x]
  <2>1. Before(s) \cup {s} \in SUBSET Before(x) /\ s \notin Before(s)
    BY <1>2, <1>5
  <2>2. Cardinality(Before(s) \cup {s}) = Cardinality(Before(s)) + 1
    BY <1>1, <2>1, FS_AddElement
  <2>3. Cardinality(Before(s) \cup {s}) <= Cardinality(Before(x))
    BY <1>1, <2>1, FS_Subset
  <2> QED
    BY <1>4, <2>2, <2>3
<1>6. ASSUME NEW s \in S PROVE rank[s] \in 0..(n - 1)
  <2>1. Before(s) \cup {s} \in SUBSET S /\ s \notin Before(s)
    BY <1>2
  <2>2. Cardinality(Before(s) \cup {s}) = Cardinality(Before(s)) + 1
    BY <1>1, <2>1, FS_AddElement
  <2>3. Cardinality(Before(s) \cup {s}) <= n
    BY <1>1, FS_Subset
  <2> QED
    BY <1>1, <1>4, <2>2, <2>3
<1> HIDE DEF rank
<1>7. ASSUME NEW s \in S, NEW x \in S, rank[s] = rank[x] PROVE s = x
  <2> DEFINE v == rank[s]
             w == rank[x]
  <2>0. v \in Nat /\ w \in Nat /\ v = w
    BY <1>4, <1>7
  <2>1. ~(v < w) /\ ~(w < v)
    <3> HIDE DEF v, w
    <3> QED
      BY <2>0
  <2>2. ~(recency[s] < recency[x]) /\ ~(recency[x] < recency[s])
    BY <1>5, <2>1
  <2> QED
    BY <1>2, <1>3, <2>2
<1>8. rank \in Injection(S, 0..(n - 1))
  <2>1. rank \in [S -> 0..(n - 1)]
    BY <1>6 DEF rank
  <2> QED
    BY <1>7, <2>1 DEF Injection, IsInjective
<1>9. IsFiniteSet(0..(n - 1)) /\ Cardinality(0..(n - 1)) = n
  BY <1>1, FS_Interval
<1>10. rank \in Surjection(S, 0..(n - 1))
  BY <1>8, <1>9, FS_Injection
<1>11. \A i \in 1..n : \E s \in S : rank[s] = i - 1
  BY <1>1, <1>10 DEF Surjection
<1> DEFINE q == [i \in 1..n |-> CHOOSE s \in S : Cardinality(Before(s)) = i - 1]
<1>12. ASSUME NEW i \in 1..n PROVE q[i] \in S /\ rank[q[i]] = i - 1
  <2>1. PICK s \in S : Cardinality(Before(s)) = i - 1
    BY <1>4, <1>11
  <2>2. q[i] \in S /\ Cardinality(Before(q[i])) = i - 1
    <3> HIDE DEF Before
    <3> QED
      BY <2>1
  <2> QED
    BY <1>4, <2>2
<1>13. ByRecency[S] = q
  BY DEF ByRecency
<1>14. q \in [1..n -> S]
  BY <1>12
<1> HIDE DEF q
<1>15. \A i, j \in 1..n : q[i] = q[j] => i = j
  BY <1>12
<1> QED
  BY <1>1, <1>13, <1>14, <1>15

\* A candidate is a session with the sync row that was read of it.
Candidate == [key : Sessions, was : SyncRow]

\* A list of candidates that is still right about the sync rows y: each names a
\* listed session once, with its row, unless something fell on it since (torn).
Current(q, y, names, lost) ==
    /\ q \in Seq(Candidate)
    /\ \A i \in 1..Len(q) : q[i].key \in names \cup lost
    /\ \A i \in 1..Len(q) : q[i].key \notin lost => q[i].was = y[q[i].key]
    /\ \A i, j \in 1..Len(q) : q[i].key = q[j].key => i = j

\* Candidates are right when they are read.
LEMMA CandidatesAreCurrent ==
    ASSUME recency \in Rankings, NEW names \in SUBSET Sessions, NEW S \in SUBSET names,
           NEW n \in Nat, NEW y \in [Sessions -> SyncRow], NEW lost
    PROVE  Current(Candidates(First(ByRecency[S], n), y), y, names, lost)
<1> DEFINE q == ByRecency[S]
           k == Cardinality(S)
           f == First(q, n)
           c == Candidates(f, y)
           m == IF n <= k THEN n ELSE k
<1>1. /\ k \in Nat /\ q \in [1..k -> S]
      /\ \A i, j \in 1..k : q[i] = q[j] => i = j
  BY RecencyOrders
<1> HIDE DEF q, k
<1>2. q \in Seq(S) /\ Len(q) = k
  BY <1>1
<1>3. m \in Nat /\ m <= k /\ f = SubSeq(q, 1, m)
  BY <1>2, MinOfTwo DEF First
<1>4. \A i \in 1..m : q[i] \in S
  BY <1>1
<1>5. f \in Seq(S) /\ Len(f) = m /\ \A i \in 1..m : f[i] = q[i]
  <2> HIDE DEF f, m
  <2>1. /\ SubSeq(q, 1, m) \in Seq(S)
        /\ Len(SubSeq(q, 1, m)) = (IF 1 <= m THEN m - 1 + 1 ELSE 0)
        /\ \A i \in 1..(m - 1 + 1) : SubSeq(q, 1, m)[i] = q[1 + i - 1]
    BY <1>3, <1>4
  <2> QED
    BY <1>3, <2>1
<1> HIDE DEF f, m
<1>6. DOMAIN f = 1..m /\ \A i \in 1..m : f[i] \in Sessions /\ f[i] \in names
  BY <1>5
<1>7. c = [i \in 1..m |-> [key |-> f[i], was |-> y[f[i]]]]
  BY <1>6 DEF Candidates
<1>8. \A i \in 1..m : y[f[i]] \in SyncRow
  BY <1>6
<1>9. \A i \in 1..m : c[i] \in Candidate /\ c[i].key = f[i] /\ c[i].was = y[f[i]]
  BY <1>6, <1>7 DEF Candidate
<1> HIDE DEF c
<1>10. c \in Seq(Candidate) /\ Len(c) = m
  BY <1>3, <1>7, <1>9
<1>11. \A i, j \in 1..m : c[i].key = c[j].key => i = j
  BY <1>1, <1>3, <1>5, <1>9
<1> QED
  BY <1>6, <1>9, <1>10, <1>11 DEF Current, c, f, q

\* Nothing is right about everything.
LEMMA NothingIsCurrent == ASSUME NEW y, NEW names, NEW lost PROVE Current(<<>>, y, names, lost)
<1>1. <<>> \in Seq(Candidate) /\ Len(<<>>) = 0
  OBVIOUS
<1> QED
  BY DEF Current

\* Where a round goes on, its list is right; it ends when the list does.
LEMMA OnwardIsCurrent ==
    ASSUME recency \in Rankings, listed \in SUBSET Sessions,
           NEW mode \in {"tail", "backfill"}, NEW q, NEW n \in Nat,
           NEW y \in [Sessions -> SyncRow], NEW room, NEW lost, Current(q, y, listed, lost)
    PROVE  /\ Onward(mode, q, n, y, room).phase \in {"idle", "tail", "backfill"}
           /\ Onward(mode, q, n, y, room).phase = "idle"
                 <=> Onward(mode, q, n, y, room).todo = <<>>
           /\ Onward(mode, q, n, y, room).phase # "idle" => n < RoundBudget
           /\ Current(Onward(mode, q, n, y, room).todo, y, listed, lost)
<1> DEFINE S == {s \in listed : ~y[s].complete}
           b == BackfillCandidates(y)
           o == Onward(mode, q, n, y, room)
<1>1. Current(b, y, listed, lost)
  <2>1. BackfillBudget \in Nat /\ S \in SUBSET listed
    BY TranscriptAssumption
  <2> QED
    BY <2>1, CandidatesAreCurrent DEF BackfillCandidates
<1>2. Current(<<>>, y, listed, lost)
  BY NothingIsCurrent
<1> HIDE DEF b
<1>3. o = (IF q # <<>> /\ n < RoundBudget THEN [phase |-> mode, todo |-> q]
           ELSE IF mode = "tail" /\ room = "ok" /\ n < RoundBudget /\ b # <<>>
           THEN [phase |-> "backfill", todo |-> b]
           ELSE [phase |-> "idle", todo |-> <<>>])
  BY DEF Onward, b
<1> HIDE DEF o
<1> QED
  <2>1. CASE q # <<>> /\ n < RoundBudget
    <3>1. o.phase = mode /\ o.todo = q
      BY <1>3, <2>1
    <3> QED
      BY <2>1, <3>1 DEF o
  <2>2. CASE ~(q # <<>> /\ n < RoundBudget)
             /\ mode = "tail" /\ room = "ok" /\ n < RoundBudget /\ b # <<>>
    <3>1. o.phase = "backfill" /\ o.todo = b
      BY <1>3, <2>2
    <3> QED
      BY <1>1, <2>2, <3>1 DEF o
  <2>3. CASE ~(q # <<>> /\ n < RoundBudget)
             /\ ~(mode = "tail" /\ room = "ok" /\ n < RoundBudget /\ b # <<>>)
    <3>1. o.phase = "idle" /\ o.todo = <<>>
      BY <1>3, <2>3
    <3> QED
      BY <1>2, <3>1 DEF o
  <2> QED
    BY <2>1, <2>2, <2>3

-----------------------------------------------------------------------------
(* The request in flight and its page.                                      *)

\* What a list that is not over has in flight.
LEMMA AskedIsFirst ==
    ASSUME NEW y, NEW names, NEW lost, Current(todo, y, names, lost), todo # <<>>
    PROVE  /\ Asked \in Candidate
           /\ Asked.key \in Sessions /\ Asked.was \in SyncRow
           /\ Asked.key \in names \cup lost
           /\ Asked.key \notin lost => Asked.was = y[Asked.key]
           /\ Asked.key \in InFlight
           /\ Current(Tail(todo), y, names, lost)
           /\ \A i \in 1..Len(Tail(todo)) : Tail(todo)[i].key # Asked.key
<1>1. todo \in Seq(Candidate) /\ Len(todo) \in Nat /\ Len(todo) # 0 /\ Asked = todo[1]
  BY DEF Current, Asked
<1>2. /\ Tail(todo) \in Seq(Candidate) /\ Len(Tail(todo)) = Len(todo) - 1
      /\ \A i \in 1..Len(Tail(todo)) : Tail(todo)[i] = todo[i + 1]
  BY <1>1
<1>3. 1 \in 1..Len(todo) /\ \A i \in 1..Len(Tail(todo)) : i + 1 \in 1..Len(todo) /\ i + 1 # 1
  OBVIOUS
<1>4. Asked \in Candidate
  BY <1>1
<1>5. Asked.key \in Sessions /\ Asked.was \in SyncRow
  BY <1>4 DEF Candidate
<1>6. Asked.key \in InFlight
  BY <1>1 DEF InFlight
<1>7. Current(Tail(todo), y, names, lost)
  BY DEF Current
<1>8. \A i \in 1..Len(Tail(todo)) : Tail(todo)[i].key # Asked.key
  BY <1>1 DEF Current
<1> QED
  BY <1>1, <1>5, <1>6 DEF Current

\* What chat.history answers: the page that ends at the offset from the newest
\* message; a page that is not full reaches the first one.
LEMMA PageFacts ==
    ASSUME Asked.key \in Sessions, Asked.was \in SyncRow, top \in [Sessions -> Nat]
    PROVE  /\ Offset \in Nat
           /\ Offset = (IF phase = "backfill" THEN Asked.was.cursor ELSE 0)
           /\ Page \in SUBSET (1..top[Asked.key])
           /\ \A m \in 1..top[Asked.key] :
                 m \in Page <=> m + Offset <= top[Asked.key]
                                /\ m + Offset + PageLimit > top[Asked.key]
           /\ Full => Cardinality(Page) = PageLimit
           /\ ~Full => \A m \in 1..top[Asked.key] : m + Offset <= top[Asked.key] => m \in Page
           /\ IsFiniteSet(Page) /\ Cardinality(Page) \in Nat
<1> DEFINE t == top[Asked.key]
           o == Offset
           P == PageLimit
<1>1. t \in Nat /\ P \in Nat /\ P # 0 /\ o \in Nat
      /\ o = (IF phase = "backfill" THEN Asked.was.cursor ELSE 0)
  BY TranscriptAssumption DEF Offset, SyncRow
<1>2. Page = {m \in 1..t : m + o <= t /\ m + o + P > t}
  BY DEF Page
<1> HIDE DEF t, o, P
<1>3. CASE t - o >= P
  <2>1. Page = (t - o - P + 1)..(t - o)
    BY <1>1, <1>2, <1>3
  <2>2. t - o - P + 1 \in Int /\ t - o \in Int /\ (t - o) - (t - o - P + 1) + 1 = P
        /\ ~(t - o - P + 1 > t - o)
    BY <1>1
  <2>3. IsFiniteSet(Page) /\ Cardinality(Page) = P
    BY <2>1, <2>2, FS_Interval
  <2>4. Full
    BY <1>1, <2>3 DEF Full, P
  <2> QED
    BY <1>1, <1>2, <2>3, <2>4 DEF t, o, P
<1>4. CASE t - o < P
  <2>1. Page = 1..(t - o)
    BY <1>1, <1>2, <1>4
  <2>2. /\ IsFiniteSet(Page)
        /\ Cardinality(Page) = IF 1 > t - o THEN 0 ELSE (t - o) - 1 + 1
    <3> DEFINE h == t - o
    <3>1. h \in Int /\ 1 \in Int
      BY <1>1
    <3> HIDE DEF h
    <3>2. IsFiniteSet(1..h) /\ Cardinality(1..h) = IF 1 > h THEN 0 ELSE h - 1 + 1
      BY <3>1, FS_Interval
    <3> QED
      BY <2>1, <3>2 DEF h
  <2>3. Cardinality(Page) < P /\ Cardinality(Page) \in Nat
    BY <1>1, <1>4, <2>2
  <2>4. ~Full
    BY <1>1, <2>3 DEF Full, P
  <2>5. \A m \in 1..t : m + o <= t => m \in Page
    BY <1>1, <2>1
  <2> QED
    BY <1>1, <1>2, <2>2, <2>4, <2>5 DEF t, o, P
<1> QED
  BY <1>1, <1>3, <1>4

\* What is projected of a page: each message with text once, with its number,
\* or else with one above the candidate's watermark.
LEMMA ProjectedFacts ==
    ASSUME Asked.key \in Sessions, Asked.was \in SyncRow, top \in [Sessions -> Nat]
    PROVE  /\ Projected \in SUBSET (Nat \X (Page \ Textless))
           /\ \A m \in Page \ Textless : \E e \in Projected : e[2] = m
           /\ \A e, f \in Projected : e[2] = f[2] => e = f
           /\ numbered => \A e \in Projected : e[1] = e[2]
           /\ ~numbered => \A e \in Projected : e[1] > Asked.was.lastSeq
           /\ \A e \in Projected : e[1] <= Asked.was.lastSeq + top[Asked.key]
<1> DEFINE text == Page \ Textless
           Rank(m) == Cardinality({k \in text : k <= m})
           t == top[Asked.key]
           l == Asked.was.lastSeq
           num(m) == IF numbered THEN m ELSE l + Rank(m)
<1>1. t \in Nat /\ l \in Nat /\ text \in SUBSET (1..t) /\ text \subseteq Page
  BY PageFacts DEF SyncRow
<1>2. IsFiniteSet(1..t) /\ Cardinality(1..t) <= t
  <2>1. t \in Int /\ 1 \in Int
    OBVIOUS
  <2> HIDE DEF t
  <2>2. IsFiniteSet(1..t) /\ Cardinality(1..t) = IF 1 > t THEN 0 ELSE t - 1 + 1
    BY <2>1, FS_Interval
  <2> QED
    BY <1>1, <2>2
<1>3. ASSUME NEW m \in text PROVE Rank(m) \in Nat /\ Rank(m) >= 1 /\ Rank(m) <= t
  <2> DEFINE R == {k \in text : k <= m}
  <2>1. R \in SUBSET (1..t) /\ m \in R
    BY <1>1
  <2>2. IsFiniteSet(R) /\ Cardinality(R) <= Cardinality(1..t)
    BY <1>2, <2>1, FS_Subset
  <2>3. Cardinality(R) \in Nat /\ Cardinality(R) # 0
    BY <2>1, <2>2, FS_CardinalityType, FS_EmptySet
  <2>4. Cardinality(1..t) \in Nat
    BY <1>2, FS_CardinalityType
  <2> QED
    BY <1>2, <2>2, <2>3, <2>4
<1>4. Projected = {<<num(m), m>> : m \in text}
  BY DEF Projected
<1> HIDE DEF Rank
<1>5. \A m \in text : num(m) \in Nat /\ num(m) <= l + t /\ (numbered => num(m) = m)
                      /\ (~numbered => num(m) > l)
  BY <1>1, <1>3
<1> HIDE DEF num
<1>6. \A e \in Projected : e[2] \in text /\ e = <<num(e[2]), e[2]>>
  BY <1>4
<1>7. \A m \in text : <<num(m), m>> \in Projected
  BY <1>4
<1>8. Projected \in SUBSET (Nat \X text)
  BY <1>5, <1>6
<1>9. \A m \in text : \E e \in Projected : e[2] = m
  BY <1>7
<1>10. \A e, f \in Projected : e[2] = f[2] => e = f
  BY <1>6
<1>11. \A e \in Projected :
          /\ numbered => e[1] = e[2]
          /\ ~numbered => e[1] > l
          /\ e[1] <= l + t
  <2>1. SUFFICES ASSUME NEW e \in Projected
                 PROVE  /\ numbered => e[1] = e[2]
                        /\ ~numbered => e[1] > l
                        /\ e[1] <= l + t
    OBVIOUS
  <2>2. e[2] \in text /\ e[1] = num(e[2])
    BY <1>6
  <2> QED
    BY <1>5, <2>2
<1> QED
  BY <1>8, <1>9, <1>10, <1>11

\* What is stored of a page, and what is recorded of it.
LEMMA RecordFacts ==
    ASSUME Asked.key \in Sessions, Asked.was \in SyncRow, top \in [Sessions -> Nat],
           sync \in [Sessions -> SyncRow]
    PROVE  /\ Inserted \subseteq Offered /\ Offered \subseteq Projected
           /\ Recorded \in SyncRow
           /\ Recorded.lastSeq >= sync[Asked.key].lastSeq
           /\ \A e \in Inserted : e[1] <= Recorded.lastSeq
           /\ Recorded.complete <=> (phase = "tail" /\ Asked.was.complete) \/ ~Full
           /\ Recorded.cursor =
                 (IF phase = "backfill" THEN IF Full THEN Offset + PageLimit ELSE 0
                  ELSE IF Asked.was.cursor = 0 /\ ~Asked.was.complete /\ Full
                  THEN Offset + PageLimit ELSE sync[Asked.key].cursor)
<1> DEFINE W == {sync[Asked.key].lastSeq, Asked.was.lastSeq} \cup Numbers(Offered)
           l == sync[Asked.key].lastSeq
           w == Asked.was.lastSeq
           t == top[Asked.key]
<1>1. Inserted \subseteq Offered /\ Offered \subseteq Projected
  BY DEF Inserted, Offered
<1>2. l \in Nat /\ w \in Nat /\ t \in Nat
  BY DEF SyncRow
<1>3. \A e \in Offered : e[1] \in Nat /\ e[1] <= w + t
  BY <1>1, ProjectedFacts
<1>4. W \in SUBSET (0..(l + w + t)) /\ W # {}
  <2>1. \A x \in Numbers(Offered) : x \in Nat /\ x <= w + t
    BY <1>3 DEF Numbers
  <2>2. \A x \in W : x \in Nat /\ x <= l + w + t
    BY <1>2, <2>1
  <2> QED
    BY <2>2
<1>5. l + w + t \in Nat
  BY <1>2
<1>6. Max(W) \in W /\ \A x \in W : x <= Max(W)
  <2> HIDE DEF W
  <2> QED
    BY <1>4, <1>5, MaxIsLargest
<1>7. Watermark = Max(W)
  BY DEF Watermark
<1> DEFINE top0 == Watermark
<1>8. top0 \in Nat /\ top0 >= l /\ \A e \in Offered : e[1] <= top0
  <2>1. \A e \in Offered : e[1] \in W
    BY DEF Numbers
  <2>2. l \in W
    OBVIOUS
  <2> HIDE DEF W, l, w, t
  <2>3. top0 \in W /\ \A x \in W : x <= top0 /\ x \in Nat
    BY <1>4, <1>6, <1>7
  <2> QED
    BY <2>1, <2>2, <2>3
<1>9. Offset \in Nat /\ (Full => Cardinality(Page) = PageLimit) /\ PageLimit \in Nat
  BY PageFacts, TranscriptAssumption
<1> DEFINE cur == IF phase = "backfill" THEN IF Full THEN Offset + PageLimit ELSE 0
                  ELSE IF Asked.was.cursor = 0 /\ ~Asked.was.complete /\ Full
                  THEN Offset + PageLimit ELSE sync[Asked.key].cursor
           com == (phase = "tail" /\ Asked.was.complete) \/ ~Full
<1>10. Recorded = [cursor |-> cur, lastSeq |-> top0, complete |-> com]
  BY <1>9 DEF Recorded
<1>11. cur \in Nat /\ com \in BOOLEAN
  BY <1>9 DEF SyncRow
<1> HIDE DEF cur, com, top0, l
<1>12. Recorded \in SyncRow /\ Recorded.lastSeq = top0 /\ Recorded.cursor = cur
       /\ Recorded.complete = com
  BY <1>8, <1>10, <1>11 DEF SyncRow
<1> QED
  BY <1>1, <1>8, <1>12 DEF cur, com, l

\* What is stored is added to the rows of the session that was asked for.
LEMMA AppendFacts ==
    ASSUME Asked.key \in Sessions, Asked.was \in SyncRow, top \in [Sessions -> Nat],
           sync \in [Sessions -> SyncRow], rows \in [Sessions -> SUBSET (Nat \X Nat)]
    PROVE  /\ Appended \in [Sessions -> SUBSET (Nat \X Nat)]
           /\ Appended[Asked.key] = rows[Asked.key] \cup Inserted
           /\ \A s \in Sessions : s # Asked.key => Appended[s] = rows[s]
           /\ Held(Inserted) \subseteq Page \ Textless
           /\ Gained \in SUBSET {Asked.key}
<1>1. Inserted \in SUBSET (Nat \X (Page \ Textless)) /\ Page \in SUBSET (1..top[Asked.key])
  BY RecordFacts, ProjectedFacts, PageFacts
<1>2. Inserted \in SUBSET (Nat \X Nat)
  <2>1. Page \in SUBSET Nat
    BY <1>1
  <2> QED
    BY <1>1, <2>1
<1>3. Held(Inserted) \subseteq Page \ Textless
  BY <1>1 DEF Held
<1> QED
  BY <1>2, <1>3 DEF Appended, Gained

-----------------------------------------------------------------------------
(* The type invariant.                                                      *)

\* Strengthened: every listed session has a message, requests stay below the
\* budget while one may be made, and the candidates are right.
ListedHasMessages == busy \cup listed \subseteq Known
QueueIsCurrent ==
    /\ phase # "idle" => requests < RoundBudget
    /\ Current(todo, sync, listed, torn)

TypeInv ==
    /\ TypeOK
    /\ requests \in Nat /\ faults \in Nat
    /\ ListedHasMessages
    /\ QueueIsCurrent

\* The request in flight, when there is one.
LEMMA InFlightFacts ==
    ASSUME TypeInv, phase # "idle"
    PROVE  /\ todo # <<>> /\ phase \in {"tail", "backfill"}
           /\ Asked.key \in Sessions /\ Asked.was \in SyncRow
           /\ top \in [Sessions -> Nat] /\ sync \in [Sessions -> SyncRow]
           /\ rows \in [Sessions -> SUBSET (Nat \X Nat)]
           /\ Asked.key \in listed \cup torn
           /\ Asked.key \notin torn => Asked.was = sync[Asked.key]
           /\ Asked.key \in InFlight
           /\ Current(Tail(todo), sync, listed, torn)
           /\ \A i \in 1..Len(Tail(todo)) : Tail(todo)[i].key # Asked.key
<1>1. todo # <<>> /\ phase \in {"tail", "backfill"} /\ Current(todo, sync, listed, torn)
  BY DEF TypeInv, TypeOK, QueueIsCurrent
<1> QED
  BY <1>1, AskedIsFirst DEF TypeInv, TypeOK

\* Candidates other than the one in flight stay right when its row changes.
LEMMA RestStaysCurrent ==
    ASSUME TypeInv, phase # "idle", NEW row \in SyncRow
    PROVE  Current(Tail(todo), [sync EXCEPT ![Asked.key] = row], listed, torn)
<1>1. /\ sync \in [Sessions -> SyncRow] /\ Asked.key \in Sessions
      /\ Current(Tail(todo), sync, listed, torn)
      /\ \A i \in 1..Len(Tail(todo)) : Tail(todo)[i].key # Asked.key
  BY InFlightFacts
<1>2. \A i \in 1..Len(Tail(todo)) : Tail(todo)[i].key \in Sessions
  <2>1. \A i \in 1..Len(Tail(todo)) : Tail(todo)[i] \in Candidate
    BY <1>1 DEF Current
  <2> QED
    BY <2>1 DEF Candidate
<1>3. \A i \in 1..Len(Tail(todo)) :
         [sync EXCEPT ![Asked.key] = row][Tail(todo)[i].key] = sync[Tail(todo)[i].key]
  BY <1>1
<1> QED
  BY <1>1 DEF Current

\* A session that has a new message is the most recent one.
LEMMA RankingMoves ==
    ASSUME recency \in Rankings, NEW s \in Sessions
    PROVE  [x \in Sessions |-> IF x = s THEN 0
                               ELSE IF recency[x] < recency[s] THEN recency[x] + 1
                               ELSE recency[x]] \in Rankings
<1> DEFINE n == Cardinality(Sessions)
           f == [x \in Sessions |-> IF x = s THEN 0
                               ELSE IF recency[x] < recency[s] THEN recency[x] + 1
                               ELSE recency[x]]
<1>1. n \in Nat
  BY TranscriptAssumption, FS_CardinalityType
<1>2. /\ \A x \in Sessions : recency[x] \in 0..(n - 1)
      /\ \A x, z \in Sessions : recency[x] = recency[z] => x = z
  BY DEF Rankings, IsInjective
<1> HIDE DEF n
<1>3. \A x \in Sessions : recency[x] \in Nat /\ recency[x] <= n - 1
  BY <1>2
<1>4. \A x \in Sessions :
         /\ x = s => f[x] = 0
         /\ x # s /\ recency[x] < recency[s] => f[x] = recency[x] + 1
         /\ x # s /\ ~(recency[x] < recency[s]) => f[x] = recency[x]
  OBVIOUS
<1> HIDE DEF f
<1>5. \A x \in Sessions : f[x] \in 0..(n - 1)
  <2>1. SUFFICES ASSUME NEW x \in Sessions PROVE f[x] \in 0..(n - 1)
    OBVIOUS
  <2>2. recency[x] \in Nat /\ recency[s] \in Nat /\ recency[x] <= n - 1 /\ recency[s] <= n - 1
    BY <1>3
  <2> QED
    BY <1>1, <1>4, <2>2
<1>6. ASSUME NEW x \in Sessions, NEW z \in Sessions, f[x] = f[z] PROVE x = z
  <2>1. recency[x] \in Nat /\ recency[s] \in Nat /\ recency[z] \in Nat
    BY <1>3
  <2>2. x # s => recency[x] # recency[s]
    BY <1>2
  <2>3. z # s => recency[z] # recency[s]
    BY <1>2
  <2>4. x = s /\ z # s => FALSE
    BY <1>4, <1>6, <2>1, <2>3
  <2>5. x # s /\ z = s => FALSE
    BY <1>4, <1>6, <2>1, <2>2
  <2>6. x # s /\ z # s => recency[x] = recency[z]
    BY <1>4, <1>6, <2>1, <2>2, <2>3
  <2> QED
    BY <1>2, <2>4, <2>5, <2>6
<1>7. f \in [Sessions -> 0..(n - 1)]
  BY <1>5 DEF f
<1>8. f \in Rankings
  BY <1>6, <1>7 DEF Rankings, IsInjective, n
<1> QED
  BY <1>8 DEF f

\* A round goes on or ends, and so do its records of who grew.
LEMMA EndsOrGoesTypes ==
    ASSUME NEW to, NEW g \in SUBSET Sessions, EndsOrGoes(to, g),
           grew \in SUBSET Sessions, stale \in SUBSET Sessions,
           newer \in SUBSET Sessions, unscored \in SUBSET Sessions
    PROVE  /\ phase' = to.phase /\ todo' = to.todo
           /\ grew' \in SUBSET Sessions /\ stale' \in SUBSET Sessions
           /\ newer' \in SUBSET Sessions /\ unscored' \in SUBSET Sessions
  BY DEF EndsOrGoes, Goes

\* A round that dies is over.
LEMMA RoundDiesTypes ==
    ASSUME NEW g \in SUBSET Sessions, RoundDies(g), grew \in SUBSET Sessions,
           cut \in SUBSET Sessions, unscored \in SUBSET Sessions
    PROVE  /\ phase' = "idle" /\ todo' = <<>> /\ grew' = {}
           /\ cut' \in SUBSET Sessions /\ unscored' \in SUBSET Sessions
  BY DEF RoundDies, Goes

\* At the start.
LEMMA InitTypeInv == Init => TypeInv
<1> SUFFICES ASSUME Init PROVE TypeInv
  OBVIOUS
<1>1. recency \in Rankings
  BY RankingExists DEF Init
<1>2. numbered \in BOOLEAN
  BY TranscriptAssumption DEF Init
<1>3. Current(todo, sync, listed, torn)
  BY NothingIsCurrent DEF Init
<1>4. Fresh \in SyncRow
  BY DEF Fresh, SyncRow
<1>5. RoundBudget \in Nat /\ MaxFaults \in Nat
  BY TranscriptAssumption
<1>6. /\ rows \in [Sessions -> SUBSET (Nat \X Nat)] /\ sync \in [Sessions -> SyncRow]
      /\ \A s \in Sessions : Held(rows[s]) = {}
  BY <1>4 DEF Init, Held
<1>7. /\ top \in [Sessions -> Nat] /\ newest \in [Sessions -> Nat]
      /\ aged \in [Sessions -> Nat]
      /\ \A s \in Sessions : top[s] = 0 /\ newest[s] = 0 /\ aged[s] = 0
  BY DEF Init
<1>8. TypeOK
  <2>1. /\ measured \in BOOLEAN /\ active = {} /\ listed = {} /\ busy = {} /\ grew = {}
        /\ stale = {} /\ newer = {} /\ unscored = {} /\ torn = {} /\ cut = {}
        /\ phase = "idle" /\ todo = <<>> /\ capacity = "ok"
    BY DEF Init
  <2>2. requests <= RoundBudget /\ faults <= MaxFaults
    BY <1>5 DEF Init
  <2>3. \A s \in Sessions : newest[s] <= top[s] /\ aged[s] <= top[s]
    BY <1>7
  <2> QED
    BY <1>1, <1>2, <1>6, <1>7, <2>1, <2>2 DEF TypeOK
<1> QED
  BY <1>3, <1>8 DEF Init, TypeInv, ListedHasMessages, QueueIsCurrent

\* Emptied sessions, and sync rows that start again.
LEMMA EmptiedFacts ==
    ASSUME NEW r \in [Sessions -> SUBSET (Nat \X Nat)], NEW y \in [Sessions -> SyncRow],
           NEW gone
    PROVE  /\ Emptied(r, gone) \in [Sessions -> SUBSET (Nat \X Nat)]
           /\ \A s \in Sessions : Emptied(r, gone)[s] = IF s \in gone THEN {} ELSE r[s]
           /\ Reset(y, gone) \in [Sessions -> SyncRow]
           /\ \A s \in Sessions : Reset(y, gone)[s] = IF s \in gone THEN Fresh ELSE y[s]
<1>1. Fresh \in SyncRow
  BY DEF Fresh, SyncRow
<1> QED
  BY <1>1 DEF Emptied, Reset

\* A round starts with room made and its candidates just read.
LEMMA StartRoundTypes == ASSUME TypeInv, StartRound PROVE TypeInv'
<1> USE DEF TypeInv, TypeOK
<1> DEFINE over == (IF measured THEN estimate ELSE Size(rows)) >= MaxRows
           gone == IF over THEN Doomed(rows) ELSE {}
           left == Size(Emptied(rows, gone))
           room == IF over THEN "paused" ELSE "ok"
           y    == Reset(sync, gone)
<1>1. /\ rows' = Emptied(rows, gone) /\ sync' = y
      /\ torn' = torn \ gone /\ measured' = TRUE
      /\ capacity' = room /\ requests' = 0
      /\ IF IsFull(over, left)
         THEN Goes([phase |-> "idle", todo |-> <<>>])
         ELSE Goes(Onward("tail", ActiveCandidates(y), 0, y, room))
  BY DEF StartRound
<1>0. room \in {"paused", "ok"}
  OBVIOUS
<1> HIDE DEF over, gone, left, room
<1>2. UNCHANGED <<gateway, sessions, grew, verdicts, newest, aged, cut, faults>>
  BY DEF StartRound
<1>3. /\ rows' \in [Sessions -> SUBSET (Nat \X Nat)]
      /\ \A s \in Sessions : rows'[s] \subseteq rows[s]
      /\ y \in [Sessions -> SyncRow] /\ sync' = y
  <2>1. /\ Emptied(rows, gone) \in [Sessions -> SUBSET (Nat \X Nat)]
        /\ \A s \in Sessions : Emptied(rows, gone)[s] = IF s \in gone THEN {} ELSE rows[s]
        /\ Reset(sync, gone) \in [Sessions -> SyncRow]
    <3>1. rows \in [Sessions -> SUBSET (Nat \X Nat)] /\ sync \in [Sessions -> SyncRow]
      OBVIOUS
    <3> HIDE DEF TypeInv, TypeOK
    <3> QED
      BY <3>1, EmptiedFacts
  <2>2. \A s \in Sessions : rows'[s] = IF s \in gone THEN {} ELSE rows[s]
    BY <1>1, <2>1
  <2>3. \A s \in Sessions : rows'[s] \subseteq rows[s]
    BY <2>2
  <2> QED
    BY <1>1, <2>1
<1> HIDE DEF y
<1>4. Current(ActiveCandidates(y), y, listed, torn')
  <2>1. RoundBudget \in Nat /\ listed \in SUBSET Sessions /\ active \in SUBSET listed
    BY TranscriptAssumption
  <2> QED
    BY <1>3, <2>1, CandidatesAreCurrent DEF ActiveCandidates
<1>5. /\ phase' \in {"idle", "tail", "backfill"} /\ (phase' = "idle" <=> todo' = <<>>)
      /\ phase' # "idle" => 0 < RoundBudget
      /\ Current(todo', y, listed, torn')
  <2>1. CASE IsFull(over, left)
    <3>1. phase' = "idle" /\ todo' = <<>>
      BY <1>1, <2>1 DEF Goes
    <3> QED
      BY <3>1, NothingIsCurrent
  <2>2. CASE ~IsFull(over, left)
    <3> DEFINE o == Onward("tail", ActiveCandidates(y), 0, y, room)
    <3>1. phase' = o.phase /\ todo' = o.todo
      BY <1>1, <2>2 DEF Goes
    <3>2. 0 \in Nat /\ "tail" \in {"tail", "backfill"} /\ listed \in SUBSET Sessions
      OBVIOUS
    <3>3. /\ o.phase \in {"idle", "tail", "backfill"} /\ (o.phase = "idle" <=> o.todo = <<>>)
          /\ o.phase # "idle" => 0 < RoundBudget
          /\ Current(o.todo, y, listed, torn')
      BY <1>3, <1>4, OnwardIsCurrent
    <3> HIDE DEF o
    <3> QED
      BY <3>1, <3>3
  <2> QED
    BY <2>1, <2>2
<1>6. QueueIsCurrent'
  BY <1>1, <1>2, <1>5 DEF QueueIsCurrent, sessions
<1>7. \A s \in Sessions : Held(rows'[s]) \subseteq Held(rows[s])
  BY <1>3 DEF Held
<1>8. 0 <= RoundBudget
  BY TranscriptAssumption
<1>9. TypeOK'
  BY <1>0, <1>1, <1>2, <1>3, <1>5, <1>7, <1>8 DEF gateway, sessions, verdicts
<1> QED
  BY <1>1, <1>2, <1>6, <1>9 DEF ListedHasMessages, Known, gateway, sessions

\* A request was answered or failed, and its row is recorded: the round goes on
\* with what is left, as long as its budget lasts.
LEMMA GoesOn ==
    ASSUME TypeInv, phase # "idle", NEW row \in SyncRow, NEW g \in SUBSET Sessions,
           sync' = [sync EXCEPT ![Asked.key] = row], requests' = requests + 1,
           EndsOrGoes(Onward(phase, Tail(todo), requests + 1,
                             [sync EXCEPT ![Asked.key] = row], capacity), g),
           listed' = listed, torn' = torn
    PROVE  /\ sync' \in [Sessions -> SyncRow]
           /\ phase' \in {"idle", "tail", "backfill"} /\ (phase' = "idle" <=> todo' = <<>>)
           /\ requests' \in Nat /\ requests' <= RoundBudget
           /\ QueueIsCurrent'
           /\ grew' \in SUBSET Sessions /\ stale' \in SUBSET Sessions
           /\ newer' \in SUBSET Sessions /\ unscored' \in SUBSET Sessions
<1> DEFINE y == [sync EXCEPT ![Asked.key] = row]
           n == requests + 1
           o == Onward(phase, Tail(todo), n, y, capacity)
<1>1. /\ recency \in Rankings /\ listed \in SUBSET Sessions
      /\ phase \in {"tail", "backfill"} /\ y \in [Sessions -> SyncRow]
  BY DEF TypeInv, TypeOK
<1>2. requests \in Nat /\ requests < RoundBudget /\ RoundBudget \in Nat
  BY TranscriptAssumption DEF TypeInv, QueueIsCurrent
<1>3. Current(Tail(todo), y, listed, torn)
  BY RestStaysCurrent
<1>4. n \in Nat /\ n <= RoundBudget
  BY <1>2
<1> HIDE DEF y, n
<1>5. /\ o.phase \in {"idle", "tail", "backfill"} /\ (o.phase = "idle" <=> o.todo = <<>>)
      /\ o.phase # "idle" => n < RoundBudget
      /\ Current(o.todo, y, listed, torn)
  BY <1>1, <1>3, <1>4, OnwardIsCurrent
<1>6. /\ phase' = o.phase /\ todo' = o.todo
      /\ grew' \in SUBSET Sessions /\ stale' \in SUBSET Sessions
      /\ newer' \in SUBSET Sessions /\ unscored' \in SUBSET Sessions
  <2>1. EndsOrGoes(o, g)
    BY DEF y, n
  <2>2. /\ grew \in SUBSET Sessions /\ stale \in SUBSET Sessions
        /\ newer \in SUBSET Sessions /\ unscored \in SUBSET Sessions
    BY DEF TypeInv, TypeOK
  <2> HIDE DEF o
  <2> QED
    BY <2>1, <2>2, EndsOrGoesTypes
<1> HIDE DEF o
<1>7. QueueIsCurrent'
  BY <1>5, <1>6 DEF QueueIsCurrent, n, y
<1> QED
  BY <1>1, <1>4, <1>5, <1>6, <1>7 DEF y, n

\* What a page adds is known to the Gateway.
LEMMA AppendedTypes ==
    ASSUME TypeInv, phase # "idle"
    PROVE  /\ Appended \in [Sessions -> SUBSET (Nat \X Nat)]
           /\ \A s \in Sessions : Held(Appended[s]) \subseteq 1..top[s]
           /\ Gained \in SUBSET Sessions
<1>1. Asked.key \in Sessions /\ Asked.was \in SyncRow /\ top \in [Sessions -> Nat]
      /\ sync \in [Sessions -> SyncRow] /\ rows \in [Sessions -> SUBSET (Nat \X Nat)]
  BY InFlightFacts
<1>2. /\ Appended \in [Sessions -> SUBSET (Nat \X Nat)]
      /\ Appended[Asked.key] = rows[Asked.key] \cup Inserted
      /\ \A s \in Sessions : s # Asked.key => Appended[s] = rows[s]
      /\ Held(Inserted) \subseteq Page \ Textless
      /\ Gained \in SUBSET {Asked.key}
  BY <1>1, AppendFacts
<1>3. Page \in SUBSET (1..top[Asked.key])
  BY <1>1, PageFacts
<1>4. \A s \in Sessions : Held(rows[s]) \subseteq 1..top[s]
  BY DEF TypeInv, TypeOK
<1>5. Held(Appended[Asked.key]) = Held(rows[Asked.key]) \cup Held(Inserted)
  BY <1>2 DEF Held
<1>6. \A s \in Sessions : Held(Appended[s]) \subseteq 1..top[s]
  BY <1>2, <1>3, <1>4, <1>5
<1> QED
  BY <1>1, <1>2, <1>6

\* A page is stored and recorded, or the round dies of it.
LEMMA HistoryAnsweredTypes == ASSUME TypeInv, HistoryAnswered PROVE TypeInv'
<1>1. /\ phase # "idle" /\ rows' = Appended /\ requests' = requests + 1
      /\ newest' = IF Offset = 0 THEN [newest EXCEPT ![Asked.key] = top[Asked.key]] ELSE newest
      /\ UNCHANGED <<gateway, sessions, capacity, measured, aged, torn, faults>>
  BY DEF HistoryAnswered
<1>2. /\ Appended \in [Sessions -> SUBSET (Nat \X Nat)]
      /\ \A s \in Sessions : Held(Appended[s]) \subseteq 1..top[s]
      /\ Gained \in SUBSET Sessions
  BY <1>1, AppendedTypes
<1>3. /\ Asked.key \in Sessions /\ Asked.was \in SyncRow /\ top \in [Sessions -> Nat]
      /\ sync \in [Sessions -> SyncRow] /\ rows \in [Sessions -> SUBSET (Nat \X Nat)]
  BY <1>1, InFlightFacts
<1>4. Recorded \in SyncRow
  BY <1>3, RecordFacts
<1>5. requests \in Nat /\ requests < RoundBudget /\ RoundBudget \in Nat
  BY <1>1, TranscriptAssumption DEF TypeInv, QueueIsCurrent
<1>6. /\ sync' \in [Sessions -> SyncRow]
      /\ phase' \in {"idle", "tail", "backfill"} /\ (phase' = "idle" <=> todo' = <<>>)
      /\ requests' \in Nat /\ requests' <= RoundBudget
      /\ QueueIsCurrent'
      /\ grew' \in SUBSET Sessions /\ stale' \in SUBSET Sessions
      /\ newer' \in SUBSET Sessions /\ unscored' \in SUBSET Sessions
      /\ cut' \in SUBSET Sessions
  <2>1. CASE Asked.key \in listed
    <3>1. /\ sync' = [sync EXCEPT ![Asked.key] = Recorded]
          /\ EndsOrGoes(Onward(phase, Tail(todo), requests + 1,
                               [sync EXCEPT ![Asked.key] = Recorded], capacity), Gained)
          /\ cut' = cut
      BY <2>1 DEF HistoryAnswered
    <3>2. listed' = listed /\ torn' = torn /\ cut \in SUBSET Sessions
      BY <1>1 DEF sessions, TypeInv, TypeOK
    <3> QED
      BY <1>1, <1>2, <1>4, <3>1, <3>2, GoesOn
  <2>2. CASE Asked.key \notin listed
    <3>1. RoundDies(Gained) /\ sync' = sync /\ stale' = stale /\ newer' = newer
      BY <2>2 DEF HistoryAnswered
    <3>2. /\ grew \in SUBSET Sessions /\ stale \in SUBSET Sessions /\ newer \in SUBSET Sessions
          /\ cut \in SUBSET Sessions /\ unscored \in SUBSET Sessions
      BY DEF TypeInv, TypeOK
    <3>3. /\ phase' = "idle" /\ todo' = <<>> /\ grew' = {}
          /\ cut' \in SUBSET Sessions /\ unscored' \in SUBSET Sessions
      BY <1>2, <3>1, <3>2, RoundDiesTypes
    <3>4. QueueIsCurrent'
      BY <3>3, NothingIsCurrent DEF QueueIsCurrent
    <3> QED
      BY <1>1, <1>3, <1>5, <3>1, <3>2, <3>3, <3>4
  <2> QED
    BY <2>1, <2>2
<1>7. newest' \in [Sessions -> Nat] /\ \A s \in Sessions : newest'[s] <= top[s]
  <2>1. newest \in [Sessions -> Nat] /\ \A s \in Sessions : newest[s] <= top[s]
    BY DEF TypeInv, TypeOK
  <2>2. \A s \in Sessions : top[s] \in Nat
    BY <1>3
  <2> QED
    BY <1>1, <1>3, <2>1
<1>8. TypeOK'
  BY <1>1, <1>2, <1>6, <1>7 DEF TypeInv, TypeOK, gateway, sessions
<1> QED
  BY <1>1, <1>6, <1>8 DEF TypeInv, ListedHasMessages, Known, gateway, sessions

\* A request fails: the row says so, and keeps what it said of the archive.
LEMMA HistoryFailsTypes == ASSUME TypeInv, HistoryFails PROVE TypeInv'
<1> DEFINE row == [sync[Asked.key] EXCEPT !.complete = Asked.was.complete]
<1>1. /\ phase # "idle" /\ faults < MaxFaults /\ faults' = faults + 1
      /\ requests' = requests + 1
      /\ UNCHANGED <<gateway, sessions, rows, capacity, size, newest, aged, torn>>
  BY DEF HistoryFails, Fault
<1>2. /\ Asked.key \in Sessions /\ Asked.was \in SyncRow /\ sync \in [Sessions -> SyncRow]
  BY <1>1, InFlightFacts
<1>3. row \in SyncRow
  BY <1>2 DEF SyncRow
<1>4. [sync EXCEPT ![Asked.key].complete = Asked.was.complete]
        = [sync EXCEPT ![Asked.key] = row]
  OBVIOUS
<1> HIDE DEF row
<1>5. requests \in Nat /\ requests < RoundBudget /\ RoundBudget \in Nat
  BY <1>1, TranscriptAssumption DEF TypeInv, QueueIsCurrent
<1>6. /\ sync' \in [Sessions -> SyncRow]
      /\ phase' \in {"idle", "tail", "backfill"} /\ (phase' = "idle" <=> todo' = <<>>)
      /\ requests' \in Nat /\ requests' <= RoundBudget
      /\ QueueIsCurrent'
      /\ grew' \in SUBSET Sessions /\ stale' \in SUBSET Sessions
      /\ newer' \in SUBSET Sessions /\ unscored' \in SUBSET Sessions
      /\ cut' \in SUBSET Sessions
  <2>1. CASE Asked.key \in listed
    <3>1. /\ sync' = [sync EXCEPT ![Asked.key] = row]
          /\ EndsOrGoes(Onward(phase, Tail(todo), requests + 1,
                               [sync EXCEPT ![Asked.key] = row], capacity), {})
          /\ cut' = cut
      BY <1>4, <2>1 DEF HistoryFails
    <3>2. listed' = listed /\ torn' = torn /\ cut \in SUBSET Sessions /\ {} \in SUBSET Sessions
      BY <1>1 DEF sessions, TypeInv, TypeOK
    <3> QED
      BY <1>1, <1>3, <3>1, <3>2, GoesOn
  <2>2. CASE Asked.key \notin listed
    <3>1. RoundDies({}) /\ sync' = sync /\ stale' = stale /\ newer' = newer
      BY <2>2 DEF HistoryFails
    <3>2. /\ grew \in SUBSET Sessions /\ stale \in SUBSET Sessions /\ newer \in SUBSET Sessions
          /\ cut \in SUBSET Sessions /\ unscored \in SUBSET Sessions /\ {} \in SUBSET Sessions
      BY DEF TypeInv, TypeOK
    <3>3. /\ phase' = "idle" /\ todo' = <<>> /\ grew' = {}
          /\ cut' \in SUBSET Sessions /\ unscored' \in SUBSET Sessions
      BY <3>1, <3>2, RoundDiesTypes
    <3>4. QueueIsCurrent'
      BY <3>3, NothingIsCurrent DEF QueueIsCurrent
    <3> QED
      BY <1>1, <1>2, <1>5, <3>1, <3>2, <3>3, <3>4
  <2> QED
    BY <2>1, <2>2
<1>7. faults' <= MaxFaults /\ faults' \in Nat
  BY <1>1, TranscriptAssumption DEF TypeInv
<1>8. TypeOK'
  BY <1>1, <1>6, <1>7 DEF TypeInv, TypeOK, gateway, sessions, size
<1> QED
  BY <1>1, <1>6, <1>8 DEF TypeInv, ListedHasMessages, Known, gateway, sessions

\* The process stops, perhaps after a page was stored.
LEMMA CrashTypes == ASSUME TypeInv, Crash PROVE TypeInv'
<1>1. /\ phase # "idle" /\ faults < MaxFaults /\ faults' = faults + 1
      /\ measured' = FALSE
      /\ UNCHANGED <<gateway, sessions, sync, requests, capacity, stale, newer, newest, aged>>
  BY DEF Crash, Fault
<1>2. /\ Appended \in [Sessions -> SUBSET (Nat \X Nat)]
      /\ \A s \in Sessions : Held(Appended[s]) \subseteq 1..top[s]
      /\ Gained \in SUBSET Sessions /\ Asked.key \in Sessions
  BY <1>1, AppendedTypes, InFlightFacts
<1>3. /\ rows \in [Sessions -> SUBSET (Nat \X Nat)]
      /\ \A s \in Sessions : Held(rows[s]) \subseteq 1..top[s]
      /\ grew \in SUBSET Sessions /\ cut \in SUBSET Sessions /\ unscored \in SUBSET Sessions
      /\ torn \in SUBSET Sessions /\ {} \in SUBSET Sessions
  BY DEF TypeInv, TypeOK
<1>4. /\ rows' \in [Sessions -> SUBSET (Nat \X Nat)]
      /\ \A s \in Sessions : Held(rows'[s]) \subseteq 1..top[s]
      /\ torn' \in SUBSET Sessions
      /\ phase' = "idle" /\ todo' = <<>> /\ grew' = {}
      /\ cut' \in SUBSET Sessions /\ unscored' \in SUBSET Sessions
  <2>1. CASE rows' = rows /\ torn' = torn /\ RoundDies({})
    BY <1>3, <2>1, RoundDiesTypes
  <2>2. CASE rows' = Appended /\ torn' = torn \cup {Asked.key} /\ RoundDies(Gained)
    BY <1>2, <1>3, <2>2, RoundDiesTypes
  <2> QED
    BY <2>1, <2>2 DEF Crash
<1>5. QueueIsCurrent'
  BY <1>4, NothingIsCurrent DEF QueueIsCurrent
<1>6. faults' <= MaxFaults /\ faults' \in Nat
  BY <1>1, TranscriptAssumption DEF TypeInv
<1>7. TypeOK'
  BY <1>1, <1>4, <1>6 DEF TypeInv, TypeOK, gateway, sessions
<1> QED
  BY <1>1, <1>5, <1>7 DEF TypeInv, ListedHasMessages, Known, gateway, sessions

\* What retention does, of the sessions it lets go (dropped), the archives that
\* end empty (gone) and the messages of s that are too old (up to age).
PruneFor(dropped, gone, s, age) ==
    /\ dropped \subseteq gone
    /\ rows' = Emptied(Younger(Emptied(rows, dropped), s, age), gone)
    /\ sync' = Reset(sync, gone)
    /\ torn' = (torn \ gone) \cup (gone \cap InFlight)
    /\ aged' = [aged EXCEPT ![s] = age]
    /\ listed' = listed \ dropped
    /\ stale' = stale \ dropped /\ unscored' = unscored \ dropped

\* Retention chooses once.
LEMMA PruneChooses ==
    ASSUME Prune
    PROVE  \E gone : \E dropped \in SUBSET Archived, s \in Sessions :
              \E age \in {aged[s], Min({aged[s] + 1, top[s]})} : PruneFor(dropped, gone, s, age)
<1>1. PICK dropped \in SUBSET Archived, s \in Sessions :
           \E age \in {aged[s], Min({aged[s] + 1, top[s]})} :
             PruneFor(dropped, dropped \cup Doomed(Younger(Emptied(rows, dropped), s, age)), s, age)
  BY Zenon DEF Prune, PruneFor
<1>2. PICK age \in {aged[s], Min({aged[s] + 1, top[s]})} :
             PruneFor(dropped, dropped \cup Doomed(Younger(Emptied(rows, dropped), s, age)), s, age)
  BY <1>1
<1> DEFINE gone == dropped \cup Doomed(Younger(Emptied(rows, dropped), s, age))
<1>3. PruneFor(dropped, gone, s, age)
  BY <1>2
<1> HIDE DEF gone
<1> QED
  BY <1>3

\* The age of what goes moves on, and never past the newest message.
LEMMA AgeMovesOn ==
    ASSUME TypeInv, NEW s \in Sessions, NEW age \in {aged[s], Min({aged[s] + 1, top[s]})}
    PROVE  age \in Nat /\ aged[s] <= age /\ age <= top[s]
<1> DEFINE a == aged[s]
           t == top[s]
<1>1. a \in Nat /\ t \in Nat /\ a <= t
  BY DEF TypeInv, TypeOK
<1>2. age = a \/ age = Min({a + 1, t})
  OBVIOUS
<1> HIDE DEF a, t
<1>3. Min({a + 1, t}) = IF a + 1 <= t THEN a + 1 ELSE t
  BY <1>1, MinOfTwo
<1>4. age \in Nat /\ a <= age /\ age <= t
  BY <1>1, <1>2, <1>3
<1> QED
  BY <1>4 DEF a, t

\* What is left of the rows, and of what was said of them.
PruneLeft(dropped, gone, s, age) ==
    /\ dropped \subseteq gone /\ age \in Nat /\ aged[s] <= age /\ age <= top[s]
    /\ rows' \in [Sessions -> SUBSET (Nat \X Nat)] /\ sync' \in [Sessions -> SyncRow]
    /\ \A x \in Sessions : sync'[x] = IF x \in gone THEN Fresh ELSE sync[x]
    /\ \A x \in Sessions :
          rows'[x] = IF x \in gone THEN {} ELSE {e \in rows[x] : x = s => e[2] > age}
    /\ torn' = (torn \ gone) \cup (gone \cap InFlight)
    /\ aged' = [aged EXCEPT ![s] = age]
    /\ listed' = listed \ dropped
    /\ stale' = stale \ dropped /\ unscored' = unscored \ dropped

\* Retention leaves that.
LEMMA PruneLeaves ==
    ASSUME TypeInv, Prune
    PROVE  \E gone : \E dropped \in SUBSET Archived, s \in Sessions :
              \E age : PruneLeft(dropped, gone, s, age)
<1>1. PICK gone : \E dropped \in SUBSET Archived, s \in Sessions :
           \E age \in {aged[s], Min({aged[s] + 1, top[s]})} : PruneFor(dropped, gone, s, age)
  BY PruneChooses
<1>2. PICK dropped \in SUBSET Archived, s \in Sessions :
           \E age \in {aged[s], Min({aged[s] + 1, top[s]})} : PruneFor(dropped, gone, s, age)
  BY <1>1
<1>3. PICK age \in {aged[s], Min({aged[s] + 1, top[s]})} : PruneFor(dropped, gone, s, age)
  BY <1>2
<1> DEFINE kept == Emptied(rows, dropped)
           young == Younger(kept, s, age)
<1>4. age \in Nat /\ aged[s] <= age /\ age <= top[s]
  BY AgeMovesOn
<1>5. rows \in [Sessions -> SUBSET (Nat \X Nat)] /\ sync \in [Sessions -> SyncRow]
  BY DEF TypeInv, TypeOK
<1>6. /\ kept \in [Sessions -> SUBSET (Nat \X Nat)]
      /\ \A x \in Sessions : kept[x] = IF x \in dropped THEN {} ELSE rows[x]
  BY <1>5, EmptiedFacts
<1>7. /\ young \in [Sessions -> SUBSET (Nat \X Nat)]
      /\ \A x \in Sessions : young[x] = IF x = s THEN {e \in kept[x] : e[2] > age} ELSE kept[x]
  BY <1>6 DEF Younger
<1>8. /\ rows' = Emptied(young, gone) /\ sync' = Reset(sync, gone) /\ dropped \subseteq gone
      /\ torn' = (torn \ gone) \cup (gone \cap InFlight)
      /\ aged' = [aged EXCEPT ![s] = age]
      /\ listed' = listed \ dropped
      /\ stale' = stale \ dropped /\ unscored' = unscored \ dropped
  BY <1>3 DEF PruneFor
<1> HIDE DEF kept, young
<1>9. /\ rows' \in [Sessions -> SUBSET (Nat \X Nat)]
      /\ \A x \in Sessions : rows'[x] = IF x \in gone THEN {} ELSE young[x]
      /\ sync' \in [Sessions -> SyncRow]
      /\ \A x \in Sessions : sync'[x] = IF x \in gone THEN Fresh ELSE sync[x]
  BY <1>5, <1>7, <1>8, EmptiedFacts
<1>10. \A x \in Sessions \ gone : rows'[x] = {e \in rows[x] : x = s => e[2] > age}
  BY <1>6, <1>7, <1>8, <1>9
<1>11. PruneLeft(dropped, gone, s, age)
  BY <1>4, <1>8, <1>9, <1>10 DEF PruneLeft
<1> QED
  BY <1>11

\* Retention leaves a list of candidates that is right about what it left.
LEMMA PruneTypes == ASSUME TypeInv, Prune PROVE TypeInv'
<1>1. PICK gone : \E dropped \in SUBSET Archived, s \in Sessions :
           \E age : PruneLeft(dropped, gone, s, age)
  BY PruneLeaves
<1>2. PICK dropped \in SUBSET Archived, s \in Sessions :
           \E age : PruneLeft(dropped, gone, s, age)
  BY <1>1
<1>0. PICK age : PruneLeft(dropped, gone, s, age)
  BY <1>2
<1>3. age \in Nat /\ age <= top[s]
  BY <1>0 DEF PruneLeft
<1>4. /\ rows' \in [Sessions -> SUBSET (Nat \X Nat)] /\ sync' \in [Sessions -> SyncRow]
      /\ \A x \in Sessions : rows'[x] \subseteq rows[x]
      /\ \A x \in Sessions : x \notin gone => sync'[x] = sync[x]
  BY <1>0 DEF PruneLeft
<1>5. /\ dropped \subseteq gone
      /\ torn' = (torn \ gone) \cup (gone \cap InFlight)
      /\ aged' = [aged EXCEPT ![s] = age]
      /\ listed' = listed \ dropped
      /\ stale' = stale \ dropped /\ unscored' = unscored \ dropped
  BY <1>0 DEF PruneLeft
<1>6. /\ faults < MaxFaults /\ faults' = faults + 1 /\ measured' = FALSE
      /\ UNCHANGED <<gateway, active, round, newer, newest, cut>>
  BY DEF Prune, Fault
<1>7. Current(todo', sync', listed', torn')
  <2>1. Current(todo, sync, listed, torn) /\ todo' = todo
    BY <1>6 DEF round, TypeInv, QueueIsCurrent
  <2>2. \A i \in 1..Len(todo) : todo[i].key \in InFlight /\ todo[i].key \in Sessions
    <3>1. todo \in Seq(Candidate)
      BY <2>1 DEF Current
    <3>2. \A i \in 1..Len(todo) : todo[i] \in Candidate /\ i \in DOMAIN todo
      BY <3>1
    <3> QED
      BY <3>2 DEF InFlight, Candidate
  <2>3. \A i \in 1..Len(todo) : todo[i].key \in gone => todo[i].key \in torn'
    BY <1>5, <2>2
  <2>4. \A i \in 1..Len(todo) :
           todo[i].key \notin gone => (todo[i].key \in torn' <=> todo[i].key \in torn)
    BY <1>5
  <2>5. \A i \in 1..Len(todo) : todo[i].key \in listed' \cup torn'
    BY <1>5, <2>1, <2>3 DEF Current
  <2>6. \A i \in 1..Len(todo) : todo[i].key \notin torn' => todo[i].was = sync'[todo[i].key]
    BY <1>4, <2>1, <2>2, <2>3, <2>4 DEF Current
  <2> QED
    BY <2>1, <2>5, <2>6 DEF Current
<1>8. QueueIsCurrent'
  BY <1>6, <1>7 DEF round, TypeInv, QueueIsCurrent
<1>9. /\ aged' \in [Sessions -> Nat]
      /\ \A x \in Sessions : aged'[x] <= top[x]
  BY <1>3, <1>5 DEF TypeInv, TypeOK
<1>10. \A x \in Sessions : Held(rows'[x]) \subseteq 1..top[x]
  <2>1. \A x \in Sessions : Held(rows'[x]) \subseteq Held(rows[x])
    BY <1>4 DEF Held
  <2> QED
    BY <2>1 DEF TypeInv, TypeOK
<1>11. faults' <= MaxFaults /\ faults' \in Nat
  BY <1>6, TranscriptAssumption DEF TypeInv
<1>12. active \subseteq listed' /\ listed' \subseteq Sessions
  <2>1. dropped \subseteq listed \ active
    BY DEF Archived
  <2> QED
    BY <1>5, <2>1 DEF TypeInv, TypeOK
<1>13. torn' \subseteq Sessions
  <2>1. InFlight \subseteq Sessions
    <3>1. todo \in Seq(Candidate)
      BY DEF TypeInv, QueueIsCurrent, Current
    <3>2. \A i \in DOMAIN todo : todo[i] \in Candidate
      BY <3>1
    <3> QED
      BY <3>2 DEF InFlight, Candidate
  <2> QED
    BY <1>5, <2>1 DEF TypeInv, TypeOK
<1>14. TypeOK'
  BY <1>4, <1>5, <1>6, <1>9, <1>10, <1>11, <1>12, <1>13
  DEF TypeInv, TypeOK, gateway, round
<1> QED
  BY <1>5, <1>6, <1>8, <1>14 DEF TypeInv, ListedHasMessages, Known, gateway, round

\* The Gateway moves on.
LEMMA NewMessageTypes == ASSUME TypeInv, NEW s \in Sessions, NewMessage(s) PROVE TypeInv'
<1>1. /\ top' = [top EXCEPT ![s] = @ + 1] /\ busy' = busy \cup {s} /\ newer' = newer \cup {s}
      /\ recency' = [x \in Sessions |-> IF x = s THEN 0
                                        ELSE IF recency[x] < recency[s] THEN recency[x] + 1
                                        ELSE recency[x]]
      /\ UNCHANGED <<numbered, sessions, archive, round, size, stale, unscored, history, faults>>
  BY DEF NewMessage
<1>2. recency' \in Rankings
  BY <1>1, RankingMoves DEF TypeInv, TypeOK
<1>3. /\ top' \in [Sessions -> Nat]
      /\ \A x \in Sessions : top[x] <= top'[x] /\ (top[x] > 0 => top'[x] > 0)
      /\ top'[s] > 0
  BY <1>1 DEF TypeInv, TypeOK
<1>4. \A x \in Sessions : /\ Held(rows[x]) \subseteq 1..top'[x]
                          /\ newest[x] <= top'[x] /\ aged[x] <= top'[x]
  <2>1. SUFFICES ASSUME NEW x \in Sessions
                 PROVE  /\ Held(rows[x]) \subseteq 1..top'[x]
                        /\ newest[x] <= top'[x] /\ aged[x] <= top'[x]
    OBVIOUS
  <2>2. /\ Held(rows[x]) \subseteq 1..top[x] /\ newest[x] <= top[x] /\ aged[x] <= top[x]
        /\ top[x] \in Nat /\ newest[x] \in Nat /\ aged[x] \in Nat
    BY DEF TypeInv, TypeOK
  <2>3. top'[x] \in Nat /\ top[x] <= top'[x]
    BY <1>3
  <2> QED
    BY <2>2, <2>3
<1>5. ListedHasMessages'
  BY <1>1, <1>3 DEF TypeInv, ListedHasMessages, Known, sessions
<1>6. TypeOK'
  BY <1>1, <1>2, <1>4 DEF TypeInv, TypeOK, sessions, archive, round, size, history
<1>7. QueueIsCurrent'
  BY <1>1 DEF TypeInv, QueueIsCurrent, archive, round, sessions, history
<1> QED
  BY <1>1, <1>5, <1>6, <1>7 DEF TypeInv, round

\* Whatever leaves the archive and its rounds alone.
LEMMA OthersTypes ==
    ASSUME TypeInv, (\E s \in Sessions : Calm(s)) \/ ListPass \/ Recompute \/ UNCHANGED vars
    PROVE  TypeInv'
<1> USE DEF TypeInv, TypeOK, ListedHasMessages, QueueIsCurrent, Current, Known,
            gateway, sessions, archive, round, size, verdicts, history
<1>1. CASE \E s \in Sessions : Calm(s)
  BY <1>1 DEF Calm
<1>2. CASE ListPass
  <2>1. /\ listed' = {s \in Sessions : top[s] > 0} /\ active' = busy
        /\ listed \subseteq listed'
    BY <1>2 DEF ListPass
  <2>2. QueueIsCurrent'
    BY <1>2 DEF ListPass
  <2>3. TypeOK'
    BY <1>2 DEF ListPass, MovedIn
  <2> QED
    BY <1>2, <2>3 DEF ListPass
<1>3. CASE Recompute
  BY <1>3 DEF Recompute
<1>4. CASE UNCHANGED vars
  BY <1>4 DEF vars
<1> QED
  BY <1>1, <1>2, <1>3, <1>4

\* Every step keeps the types and the candidates.
LEMMA NextTypes == TypeInv /\ [Next]_vars => TypeInv'
<1> SUFFICES ASSUME TypeInv, [Next]_vars PROVE TypeInv'
  OBVIOUS
<1>1. CASE \E s \in Sessions : NewMessage(s)
  BY <1>1, NewMessageTypes
<1>2. CASE (\E s \in Sessions : Calm(s)) \/ ListPass \/ Recompute \/ UNCHANGED vars
  BY <1>2, OthersTypes
<1>3. CASE StartRound
  BY <1>3, StartRoundTypes
<1>4. CASE HistoryAnswered
  BY <1>4, HistoryAnsweredTypes
<1>5. CASE HistoryFails
  BY <1>5, HistoryFailsTypes
<1>6. CASE Crash
  BY <1>6, CrashTypes
<1>7. CASE Prune
  BY <1>7, PruneTypes
<1> QED
  BY <1>1, <1>2, <1>3, <1>4, <1>5, <1>6, <1>7 DEF Next

\* Every variable stays in its range, and nobody is asked past the budget of a
\* round (TranscriptSynchronizer.runOnce).
THEOREM TypeCorrect == Spec => []TypeOK
<1>1. TypeInv => TypeOK
  BY DEF TypeInv
<1> QED
  BY <1>1, InitTypeInv, NextTypes, PTL DEF Spec

-----------------------------------------------------------------------------
(* The archive.                                                             *)

\* A message is archived, has nothing to archive, or was old enough to drop.
KeptIn(r, old, m) == m \in Held(r) \/ m \in Textless \/ m <= old

\* No message twice, and with the Gateway's numbers where it has them.
StoredOnce(r) ==
    /\ \A e, f \in r : e[2] = f[2] => e = f
    /\ numbered => \A e \in r : e[1] = e[2]

\* What a sync row says of rows r that were read up to new, of t messages:
\* last_seq is above all numbers, a complete archive is whole, and the walk back
\* has left nothing out on its way.
RowIsTrue(row, r, new, old, t) ==
    /\ \A e \in r : e[1] <= row.lastSeq
    /\ row.complete => new > 0 /\ \A m \in 1..new : KeptIn(r, old, m)
    /\ row.cursor > 0 => /\ new > 0
                         /\ \A m \in 1..new : m + row.cursor > t => KeptIn(r, old, m)

\* The inductive invariant of the archive.  A session that was read has at most
\* a page of news.
ArchiveInv ==
    \A s \in Sessions :
        /\ newest[s] > 0 => top[s] <= newest[s] + PageLimit
        /\ StoredOnce(rows[s])
        /\ s \notin torn => RowIsTrue(sync[s], rows[s], newest[s], aged[s], top[s])

\* It says what ArchiveIsSound says.
LEMMA InvIsSound == ASSUME TypeInv, ArchiveInv PROVE ArchiveIsSound
<1>1. CompleteIsWhole
  <2>1. SUFFICES ASSUME NEW s \in Sessions \ torn, sync[s].complete,
                        NEW m \in ((aged[s] + 1)..newest[s]) \ Textless
                 PROVE  m \in Held(rows[s])
    BY DEF CompleteIsWhole
  <2>2. newest[s] \in Nat /\ aged[s] \in Nat
    BY DEF TypeInv, TypeOK
  <2>3. m \in 1..newest[s] /\ ~(m <= aged[s])
    BY <2>2
  <2>4. KeptIn(rows[s], aged[s], m)
    BY <2>1, <2>3 DEF ArchiveInv, RowIsTrue
  <2> QED
    BY <2>3, <2>4 DEF KeptIn
<1>2. KeptOnce
  BY DEF ArchiveInv, StoredOnce, KeptOnce
<1>3. WatermarkCovers
  BY DEF ArchiveInv, RowIsTrue, WatermarkCovers, Numbers
<1> QED
  BY <1>1, <1>2, <1>3 DEF ArchiveIsSound

\* An empty archive is what a fresh row says.
LEMMA FreshIsTrue ==
    ASSUME NEW new, NEW old, NEW t
    PROVE  StoredOnce({}) /\ RowIsTrue(Fresh, {}, new, old, t)
  BY DEF StoredOnce, RowIsTrue, Fresh

\* Nothing is archived at the start.
LEMMA InitArchiveInv == Init => ArchiveInv
<1> SUFFICES ASSUME Init PROVE ArchiveInv
  OBVIOUS
<1>1. \A s \in Sessions : newest[s] = 0 /\ rows[s] = {} /\ sync[s] = Fresh
  BY DEF Init
<1>2. \A s \in Sessions : StoredOnce(rows[s]) /\ RowIsTrue(sync[s], rows[s], newest[s], aged[s], top[s])
  BY <1>1, FreshIsTrue
<1> QED
  BY <1>1, <1>2 DEF ArchiveInv

\* A new message leaves what is archived behind by one more.
LEMMA NewMessageArchiveInv ==
    ASSUME TypeInv, ArchiveInv, NEW s \in Sessions, NewMessage(s)
    PROVE  ArchiveInv'
<1>1. /\ newest[s] > 0 => top[s] - newest[s] < PageLimit
      /\ top' = [top EXCEPT ![s] = @ + 1]
      /\ numbered' = numbered /\ rows' = rows /\ sync' = sync /\ newest' = newest
      /\ aged' = aged /\ torn' = torn
  BY DEF NewMessage, archive, history
<1>2. \A x \in Sessions : /\ top[x] \in Nat /\ newest[x] \in Nat
                          /\ sync[x].cursor \in Nat /\ top'[x] \in Nat
                          /\ x # s => top'[x] = top[x]
                          /\ top'[s] = top[s] + 1
  BY <1>1 DEF TypeInv, TypeOK, SyncRow
<1>3. ASSUME NEW x \in Sessions, x \notin torn
      PROVE  RowIsTrue(sync[x], rows[x], newest[x], aged[x], top'[x])
  <2>1. RowIsTrue(sync[x], rows[x], newest[x], aged[x], top[x])
    BY <1>3 DEF ArchiveInv
  <2>2. top[x] \in Nat /\ top'[x] \in Nat /\ top[x] <= top'[x] /\ newest[x] \in Nat
        /\ sync[x].cursor \in Nat
    BY <1>2
  <2>3. \A m \in 1..newest[x] : m + sync[x].cursor > top'[x] => m + sync[x].cursor > top[x]
    BY <2>2
  <2> QED
    BY <2>1, <2>3 DEF RowIsTrue
<1>4. \A x \in Sessions : newest[x] > 0 => top'[x] <= newest[x] + PageLimit
  <2>1. \A x \in Sessions : newest[x] > 0 => top[x] <= newest[x] + PageLimit
    BY DEF ArchiveInv
  <2>2. PageLimit \in Nat
    BY TranscriptAssumption
  <2> QED
    BY <1>1, <1>2, <2>1, <2>2
<1>5. \A x \in Sessions : StoredOnce(rows[x]) /\ StoredOnce(rows[x])'
  BY <1>1 DEF ArchiveInv, StoredOnce
<1> QED
  BY <1>1, <1>3, <1>4, <1>5 DEF ArchiveInv

\* A page is stored once, whatever its session went through.
LEMMA PageIsStoredOnce ==
    ASSUME TypeInv, ArchiveInv, phase # "idle"
    PROVE  StoredOnce(rows[Asked.key] \cup Inserted)
<1> DEFINE k == Asked.key
<1>1. /\ k \in Sessions /\ Asked.was \in SyncRow /\ top \in [Sessions -> Nat]
      /\ sync \in [Sessions -> SyncRow]
  BY InFlightFacts
<1>2. /\ Inserted \subseteq Offered /\ Offered \subseteq Projected
      /\ \A e, f \in Projected : e[2] = f[2] => e = f
      /\ numbered => \A e \in Projected : e[1] = e[2]
  BY <1>1, RecordFacts, ProjectedFacts
<1>3. StoredOnce(rows[k])
  BY <1>1 DEF ArchiveInv
<1>4. \A e \in Inserted, f \in rows[k] : e[2] # f[2]
  BY <1>2 DEF Offered, Held
<1>5. \A e, f \in rows[k] \cup Inserted : e[2] = f[2] => e = f
  BY <1>2, <1>3, <1>4 DEF StoredOnce
<1>6. numbered => \A e \in rows[k] \cup Inserted : e[1] = e[2]
  BY <1>2, <1>3 DEF StoredOnce
<1> QED
  BY <1>5, <1>6 DEF StoredOnce

\* Nothing of a page is lost to a number that is taken: a session that nothing
\* fell on is archived under the Gateway's numbers, or below the watermark that
\* the candidate was read with.
LEMMA PageIsKept ==
    ASSUME TypeInv, ArchiveInv, phase # "idle", Asked.key \notin torn, NEW old
    PROVE  \A m \in Page : KeptIn(rows[Asked.key] \cup Inserted, old, m)
<1> DEFINE k == Asked.key
<1>1. /\ k \in Sessions /\ Asked.was \in SyncRow /\ top \in [Sessions -> Nat]
      /\ Asked.was = sync[k] /\ rows \in [Sessions -> SUBSET (Nat \X Nat)]
  BY InFlightFacts
<1>2. /\ \A m \in Page \ Textless : \E e \in Projected : e[2] = m
      /\ numbered => \A e \in Projected : e[1] = e[2]
      /\ ~numbered => \A e \in Projected : e[1] > Asked.was.lastSeq
      /\ Projected \in SUBSET (Nat \X (Page \ Textless))
  BY <1>1, ProjectedFacts
<1>3. StoredOnce(rows[k]) /\ \A f \in rows[k] : f[1] <= sync[k].lastSeq
  BY <1>1 DEF ArchiveInv, RowIsTrue
<1>4. ASSUME NEW e \in Offered PROVE e \in Inserted
  <2>1. e \in Projected /\ e[2] \notin Held(rows[k])
    BY DEF Offered
  <2>2. \A f \in rows[k] : f[2] # e[2]
    BY <2>1 DEF Held
  <2>3. ASSUME NEW f \in rows[k], f[1] = e[1] PROVE FALSE
    <3>1. CASE numbered
      BY <1>2, <1>3, <2>1, <2>2, <2>3, <3>1 DEF StoredOnce
    <3>2. CASE ~numbered
      <4>1. e[1] > sync[k].lastSeq /\ f[1] <= sync[k].lastSeq
        BY <1>1, <1>2, <1>3, <2>1, <3>2
      <4>2. e[1] \in Nat /\ f[1] \in Nat /\ sync[k].lastSeq \in Nat
        BY <1>1, <1>2, <2>1 DEF SyncRow
      <4> QED
        BY <2>3, <4>1, <4>2
    <3> QED
      BY <3>1, <3>2
  <2>4. e[1] \notin Numbers(rows[k])
    BY <2>3 DEF Numbers
  <2> QED
    BY <2>4 DEF Inserted
<1>5. SUFFICES ASSUME NEW m \in Page, m \notin Textless
               PROVE  m \in Held(rows[k] \cup Inserted)
  BY DEF KeptIn
<1>6. PICK e \in Projected : e[2] = m
  BY <1>2, <1>5
<1>7. CASE m \in Held(rows[k])
  BY <1>7 DEF Held
<1>8. CASE m \notin Held(rows[k])
  <2>1. e \in Inserted
    BY <1>4, <1>6, <1>8 DEF Offered
  <2> QED
    BY <1>6, <2>1 DEF Held
<1> QED
  BY <1>7, <1>8

\* What is recorded of a page is true of what it left in the archive.
LEMMA RecordIsTrue ==
    ASSUME TypeInv, ArchiveInv, phase # "idle", Asked.key \in listed, Asked.key \notin torn
    PROVE  RowIsTrue(Recorded, rows[Asked.key] \cup Inserted,
                     IF Offset = 0 THEN top[Asked.key] ELSE newest[Asked.key],
                     aged[Asked.key], top[Asked.key])
<1> DEFINE k == Asked.key
           r == rows[k] \cup Inserted
           t == top[k]
           n == newest[k]
           a == aged[k]
           o == Offset
           c == sync[k].cursor
           P == PageLimit
           new == IF o = 0 THEN t ELSE n
           Is(m) == KeptIn(r, a, m)
<1>1. /\ k \in Sessions /\ Asked.was \in SyncRow /\ top \in [Sessions -> Nat]
      /\ sync \in [Sessions -> SyncRow] /\ phase \in {"tail", "backfill"}
      /\ Asked.was = sync[k] /\ rows \in [Sessions -> SUBSET (Nat \X Nat)]
  BY InFlightFacts
<1>2. /\ t \in Nat /\ t > 0 /\ n \in Nat /\ n <= t /\ c \in Nat /\ P \in Nat /\ P > 0
      /\ n > 0 => t <= n + P
  BY TranscriptAssumption
  DEF TypeInv, TypeOK, ListedHasMessages, Known, ArchiveInv, SyncRow
<1>3. RowIsTrue(sync[k], rows[k], n, a, t)
  BY <1>1 DEF ArchiveInv
<1>4. /\ o \in Nat
      /\ o = (IF phase = "backfill" THEN c ELSE 0)
      /\ \A m \in 1..t : m \in Page <=> m + o <= t /\ m + o + P > t
      /\ ~Full => \A m \in 1..t : m + o <= t => m \in Page
  BY <1>1, PageFacts
<1>5. /\ Recorded \in SyncRow
      /\ Recorded.lastSeq >= sync[k].lastSeq
      /\ \A e \in Inserted : e[1] <= Recorded.lastSeq
      /\ Recorded.complete <=> (phase = "tail" /\ sync[k].complete) \/ ~Full
      /\ Recorded.cursor = (IF phase = "backfill" THEN IF Full THEN o + P ELSE 0
                            ELSE IF c = 0 /\ ~sync[k].complete /\ Full THEN o + P ELSE c)
  BY <1>1, RecordFacts
<1>6. \A m \in Page : Is(m)
  BY PageIsKept
<1>7. \A m : KeptIn(rows[k], a, m) => Is(m)
  BY DEF KeptIn, Held
<1>8. /\ sync[k].complete => n > 0 /\ \A m \in 1..n : Is(m)
      /\ c > 0 => n > 0 /\ \A m \in 1..n : m + c > t => Is(m)
  BY <1>3, <1>7 DEF RowIsTrue
<1>9. \A e \in r : e[1] <= Recorded.lastSeq
  <2>1. \A e \in rows[k] : e[1] \in Nat /\ e[1] <= sync[k].lastSeq
    BY <1>1, <1>3 DEF RowIsTrue
  <2>2. Recorded.lastSeq \in Nat /\ sync[k].lastSeq \in Nat
    BY <1>1, <1>5 DEF SyncRow
  <2> QED
    BY <1>5, <2>1, <2>2
<1> HIDE DEF t, n, o, c, P, Is
<1>10. Recorded.complete => new > 0 /\ \A m \in 1..new : Is(m)
  <2>1. CASE phase = "tail" /\ sync[k].complete
    <3>1. o = 0 /\ new = t /\ n > 0 /\ \A m \in 1..n : Is(m)
      BY <1>4, <1>8, <2>1
    <3>2. \A m \in 1..t : m > n => m \in Page
      BY <1>2, <1>4, <3>1
    <3>3. \A m \in 1..t : Is(m)
      BY <1>2, <1>6, <3>1, <3>2
    <3> QED
      BY <1>2, <3>1, <3>3
  <2>2. CASE ~Full
    <3>1. CASE o = 0
      <4>1. \A m \in 1..t : m \in Page
        BY <1>4, <2>2, <3>1
      <4> QED
        BY <1>2, <1>6, <3>1, <4>1
    <3>2. CASE o # 0
      <4>1. o = c /\ c > 0 /\ new = n /\ n > 0 /\ \A m \in 1..n : m + c > t => Is(m)
        BY <1>4, <1>8, <3>2
      <4>2. \A m \in 1..n : m \in 1..t /\ (m + c > t \/ m + o <= t)
        BY <1>2, <4>1
      <4>3. \A m \in 1..n : Is(m)
        BY <1>4, <1>6, <2>2, <4>1, <4>2
      <4> QED
        BY <4>1, <4>3
    <3> QED
      BY <3>1, <3>2
  <2> QED
    BY <1>5, <2>1, <2>2
<1>11. Recorded.cursor > 0 => /\ new > 0
                              /\ \A m \in 1..new : m + Recorded.cursor > t => Is(m)
  <2>1. CASE phase = "backfill" /\ Full
    <3>1. Recorded.cursor = o + P
      BY <1>5, <2>1
    <3>2. CASE o = 0
      <4>1. \A m \in 1..t : m + (o + P) > t => m \in Page
        BY <1>2, <1>4, <3>2
      <4> QED
        BY <1>2, <1>6, <3>1, <3>2, <4>1
    <3>3. CASE o # 0
      <4>1. o = c /\ c > 0 /\ new = n /\ n > 0 /\ \A m \in 1..n : m + c > t => Is(m)
        BY <1>4, <1>8, <3>3
      <4>2. \A m \in 1..n : m \in 1..t /\ (m + c > t \/ m + o <= t)
        BY <1>2, <4>1
      <4>3. \A m \in 1..n : m + (o + P) > t => m + c > t \/ m \in Page
        BY <1>2, <1>4
      <4> QED
        BY <1>6, <3>1, <4>1, <4>3
    <3> QED
      BY <3>2, <3>3
  <2>2. CASE phase = "backfill" /\ ~Full
    BY <1>5, <2>2
  <2>3. CASE phase = "tail" /\ c = 0 /\ ~sync[k].complete /\ Full
    <3>1. Recorded.cursor = P /\ o = 0
      BY <1>2, <1>4, <1>5, <2>3
    <3>2. \A m \in 1..t : m + P > t => m \in Page
      BY <1>4, <3>1
    <3> QED
      BY <1>2, <1>6, <3>1, <3>2
  <2>4. CASE phase = "tail" /\ ~(c = 0 /\ ~sync[k].complete /\ Full)
    <3>1. Recorded.cursor = c /\ o = 0 /\ new = t
      BY <1>4, <1>5, <2>4
    <3>2. SUFFICES ASSUME c > 0 PROVE \A m \in 1..t : m + c > t => Is(m)
      BY <1>2, <3>1
    <3>3. n > 0 /\ \A m \in 1..n : m + c > t => Is(m)
      BY <1>8, <3>2
    <3>4. \A m \in 1..t : m > n => m \in Page
      BY <1>2, <1>4, <3>1, <3>3
    <3> QED
      BY <1>2, <1>6, <3>3, <3>4
  <2> QED
    BY <1>1, <2>1, <2>2, <2>3, <2>4
<1> QED
  BY <1>9, <1>10, <1>11 DEF RowIsTrue, t, n, o, Is

\* What the invariant says of one session.
SessionIsSound(s) ==
    /\ newest[s] > 0 => top[s] <= newest[s] + PageLimit
    /\ StoredOnce(rows[s])
    /\ s \notin torn => RowIsTrue(sync[s], rows[s], newest[s], aged[s], top[s])

\* A session whose tables do not change stays sound.
LEMMA OthersStaySound ==
    ASSUME ArchiveInv, NEW s \in Sessions, numbered' = numbered, top'[s] = top[s],
           rows'[s] = rows[s], sync'[s] = sync[s], newest'[s] = newest[s], aged'[s] = aged[s],
           s \in torn => s \in torn'
    PROVE  SessionIsSound(s)'
  BY DEF ArchiveInv, SessionIsSound, StoredOnce

\* A page is stored and recorded.
LEMMA HistoryAnsweredArchiveInv ==
    ASSUME TypeInv, ArchiveInv, HistoryAnswered
    PROVE  ArchiveInv'
<1> DEFINE k == Asked.key
           new == IF Offset = 0 THEN top[k] ELSE newest[k]
<1>1. /\ phase # "idle" /\ rows' = Appended
      /\ newest' = IF Offset = 0 THEN [newest EXCEPT ![k] = top[k]] ELSE newest
      /\ numbered' = numbered /\ top' = top /\ aged' = aged /\ torn' = torn
      /\ k \in listed => sync' = [sync EXCEPT ![k] = Recorded]
      /\ k \notin listed => sync' = sync
  BY DEF HistoryAnswered, gateway
<1>2. /\ k \in Sessions /\ Asked.was \in SyncRow /\ top \in [Sessions -> Nat]
      /\ sync \in [Sessions -> SyncRow] /\ rows \in [Sessions -> SUBSET (Nat \X Nat)]
      /\ k \in listed \cup torn
  BY <1>1, InFlightFacts
<1>3. /\ rows'[k] = rows[k] \cup Inserted
      /\ \A s \in Sessions : s # k => rows'[s] = rows[s]
  BY <1>1, <1>2, AppendFacts
<1>4. newest \in [Sessions -> Nat]
  BY DEF TypeInv, TypeOK
<1>5. newest'[k] = new /\ \A s \in Sessions : s # k => newest'[s] = newest[s]
  BY <1>1, <1>2, <1>4
<1>6. \A s \in Sessions : s # k => sync'[s] = sync[s]
  BY <1>1, <1>2
<1>7. ASSUME NEW s \in Sessions, s # k PROVE SessionIsSound(s)'
  BY <1>1, <1>3, <1>6, <1>7, OthersStaySound
<1>8. ASSUME NEW s \in Sessions, s = k PROVE SessionIsSound(s)'
  <2>1. new > 0 => top[k] <= new + PageLimit
    <3>1. top[k] \in Nat /\ PageLimit \in Nat
      BY <1>2, TranscriptAssumption
    <3>2. newest[k] > 0 => top[k] <= newest[k] + PageLimit
      BY <1>2 DEF ArchiveInv
    <3> QED
      BY <3>1, <3>2
  <2>2. StoredOnce(rows[k] \cup Inserted)
    BY <1>1, PageIsStoredOnce
  <2>3. k \notin torn => /\ sync'[k] = Recorded
                         /\ RowIsTrue(Recorded, rows[k] \cup Inserted, new, aged[k], top[k])
    <3>1. SUFFICES ASSUME k \notin torn
                   PROVE  /\ sync'[k] = Recorded
                          /\ RowIsTrue(Recorded, rows[k] \cup Inserted, new, aged[k], top[k])
      OBVIOUS
    <3>2. k \in listed
      BY <1>2, <3>1
    <3>3. sync'[k] = Recorded
      BY <1>1, <1>2, <3>2
    <3> QED
      BY <1>1, <3>1, <3>2, <3>3, RecordIsTrue
  <2> HIDE DEF k, new
  <2>4. StoredOnce(rows'[s])
    BY <1>3, <1>8, <2>2
  <2>5. StoredOnce(rows[s])'
    BY <1>1, <2>4 DEF StoredOnce
  <2>6. s \notin torn' => RowIsTrue(sync'[s], rows'[s], newest'[s], aged'[s], top'[s])
    BY <1>1, <1>3, <1>5, <1>8, <2>3
  <2> QED
    BY <1>1, <1>5, <1>8, <2>1, <2>5, <2>6 DEF SessionIsSound
<1>9. \A s \in Sessions : SessionIsSound(s)'
  BY <1>7, <1>8
<1> QED
  BY <1>9 DEF SessionIsSound, ArchiveInv

\* A failed request records nothing new of a session that nothing fell on.
LEMMA HistoryFailsArchiveInv ==
    ASSUME TypeInv, ArchiveInv, HistoryFails
    PROVE  ArchiveInv'
<1> DEFINE k == Asked.key
<1>1. /\ phase # "idle" /\ rows' = rows /\ newest' = newest
      /\ numbered' = numbered /\ top' = top /\ aged' = aged /\ torn' = torn
      /\ k \in listed => sync' = [sync EXCEPT ![k].complete = Asked.was.complete]
      /\ k \notin listed => sync' = sync
  BY DEF HistoryFails, gateway
<1>2. /\ k \in Sessions /\ sync \in [Sessions -> SyncRow]
      /\ k \notin torn => Asked.was = sync[k]
  BY <1>1, InFlightFacts
<1>3. \A s \in Sessions : s # k => sync'[s] = sync[s]
  BY <1>1, <1>2
<1>4. k \notin torn => sync'[k] = sync[k]
  <2>1. SUFFICES ASSUME k \notin torn PROVE sync'[k] = sync[k]
    OBVIOUS
  <2>2. sync[k] \in SyncRow
    BY <1>2
  <2>3. [sync[k] EXCEPT !.complete = sync[k].complete] = sync[k]
    BY <2>2 DEF SyncRow
  <2> QED
    BY <1>1, <1>2, <2>1, <2>3
<1>5. ASSUME NEW s \in Sessions PROVE SessionIsSound(s)'
  <2>1. CASE s = k /\ k \in torn
    <3>1. s \in torn'
      BY <1>1, <2>1
    <3>2. newest[s] > 0 => top[s] <= newest[s] + PageLimit
      BY DEF ArchiveInv
    <3>3. StoredOnce(rows[s]) /\ StoredOnce(rows[s])'
      BY <1>1 DEF ArchiveInv, StoredOnce
    <3> QED
      BY <1>1, <3>1, <3>2, <3>3 DEF SessionIsSound
  <2>2. CASE ~(s = k /\ k \in torn)
    <3>1. sync'[s] = sync[s]
      BY <1>3, <1>4, <2>2
    <3> QED
      BY <1>1, <3>1, OthersStaySound
  <2> QED
    BY <2>1, <2>2
<1> QED
  BY <1>5 DEF SessionIsSound, ArchiveInv

\* A crash may leave a page that no row tells of.
LEMMA CrashArchiveInv == ASSUME TypeInv, ArchiveInv, Crash PROVE ArchiveInv'
<1> DEFINE k == Asked.key
<1>1. /\ phase # "idle" /\ sync' = sync /\ newest' = newest
      /\ numbered' = numbered /\ top' = top /\ aged' = aged
      /\ \/ rows' = rows /\ torn' = torn
         \/ rows' = Appended /\ torn' = torn \cup {k}
  BY DEF Crash, gateway
<1>2. /\ k \in Sessions /\ Asked.was \in SyncRow /\ top \in [Sessions -> Nat]
      /\ sync \in [Sessions -> SyncRow] /\ rows \in [Sessions -> SUBSET (Nat \X Nat)]
  BY <1>1, InFlightFacts
<1>3. /\ Appended[k] = rows[k] \cup Inserted
      /\ \A s \in Sessions : s # k => Appended[s] = rows[s]
  BY <1>2, AppendFacts
<1>4. ASSUME NEW s \in Sessions PROVE SessionIsSound(s)'
  <2>1. CASE rows'[s] = rows[s]
    BY <1>1, <2>1, OthersStaySound
  <2>2. CASE rows'[s] # rows[s]
    <3>1. s = k /\ rows' = Appended /\ s \in torn'
      BY <1>1, <1>3, <2>2
    <3>2. newest[s] > 0 => top[s] <= newest[s] + PageLimit
      BY DEF ArchiveInv
    <3>3. StoredOnce(rows'[s])
      BY <1>1, <1>3, <3>1, PageIsStoredOnce
    <3>4. StoredOnce(rows[s])'
      BY <1>1, <3>3 DEF StoredOnce
    <3> QED
      BY <1>1, <3>1, <3>2, <3>4 DEF SessionIsSound
  <2> QED
    BY <2>1, <2>2
<1> QED
  BY <1>4 DEF SessionIsSound, ArchiveInv

\* An emptied session starts again.
LEMMA EmptiedIsSound ==
    ASSUME ArchiveInv, NEW s \in Sessions, numbered' = numbered, top'[s] = top[s],
           newest'[s] = newest[s], rows'[s] = {}, s \notin torn' => sync'[s] = Fresh
    PROVE  SessionIsSound(s)'
<1>1. StoredOnce(rows[s])'
  BY DEF StoredOnce
<1>2. s \notin torn' => RowIsTrue(sync'[s], rows'[s], newest'[s], aged'[s], top'[s])
  <2>1. RowIsTrue(Fresh, {}, newest'[s], aged'[s], top'[s])
    BY FreshIsTrue
  <2> QED
    BY <2>1
<1>3. newest[s] > 0 => top[s] <= newest[s] + PageLimit
  BY DEF ArchiveInv
<1> QED
  BY <1>1, <1>2, <1>3 DEF SessionIsSound

\* Room is made from whole sessions.
LEMMA StartRoundArchiveInv == ASSUME TypeInv, ArchiveInv, StartRound PROVE ArchiveInv'
<1> DEFINE gone == IF (IF measured THEN estimate ELSE Size(rows)) >= MaxRows
                   THEN Doomed(rows) ELSE {}
<1>1. /\ rows' = Emptied(rows, gone) /\ sync' = Reset(sync, gone) /\ torn' = torn \ gone
      /\ numbered' = numbered /\ top' = top /\ newest' = newest /\ aged' = aged
  BY DEF StartRound, gateway
<1> HIDE DEF gone
<1>2. rows \in [Sessions -> SUBSET (Nat \X Nat)] /\ sync \in [Sessions -> SyncRow]
  BY DEF TypeInv, TypeOK
<1>3. \A s \in Sessions : /\ rows'[s] = IF s \in gone THEN {} ELSE rows[s]
                          /\ sync'[s] = IF s \in gone THEN Fresh ELSE sync[s]
  BY <1>1, <1>2, EmptiedFacts
<1>4. ASSUME NEW s \in Sessions PROVE SessionIsSound(s)'
  <2>1. CASE s \in gone
    <3>1. rows'[s] = {} /\ sync'[s] = Fresh
      BY <1>3, <2>1
    <3> QED
      BY <1>1, <3>1, EmptiedIsSound
  <2>2. CASE s \notin gone
    <3>1. rows'[s] = rows[s] /\ sync'[s] = sync[s] /\ (s \in torn => s \in torn')
      BY <1>1, <1>3, <2>2
    <3> QED
      BY <1>1, <3>1, OthersStaySound
  <2> QED
    BY <2>1, <2>2
<1> QED
  BY <1>4 DEF SessionIsSound, ArchiveInv

\* Retention empties sessions, and drops what aged moved past.
LEMMA PruneArchiveInv == ASSUME TypeInv, ArchiveInv, Prune PROVE ArchiveInv'
<1>1. PICK gone : \E dropped \in SUBSET Archived, s \in Sessions :
           \E age : PruneLeft(dropped, gone, s, age)
  BY PruneLeaves
<1>2. PICK dropped \in SUBSET Archived, s \in Sessions :
           \E age : PruneLeft(dropped, gone, s, age)
  BY <1>1
<1>3. PICK age : PruneLeft(dropped, gone, s, age)
  BY <1>2
<1>4. /\ numbered' = numbered /\ top' = top /\ newest' = newest
      /\ aged \in [Sessions -> Nat] /\ newest \in [Sessions -> Nat]
      /\ rows \in [Sessions -> SUBSET (Nat \X Nat)] /\ sync \in [Sessions -> SyncRow]
  BY DEF Prune, gateway, TypeInv, TypeOK
<1>5. /\ age \in Nat /\ aged[s] <= age
      /\ \A x \in Sessions : sync'[x] = IF x \in gone THEN Fresh ELSE sync[x]
      /\ \A x \in Sessions :
            rows'[x] = IF x \in gone THEN {} ELSE {e \in rows[x] : x = s => e[2] > age}
      /\ torn' = (torn \ gone) \cup (gone \cap InFlight)
      /\ aged' = [aged EXCEPT ![s] = age]
  BY <1>3 DEF PruneLeft
<1>6. \A x \in Sessions : /\ x = s => aged'[x] = age
                          /\ x # s => aged'[x] = aged[x]
  BY <1>4, <1>5
<1>7. ASSUME NEW x \in Sessions PROVE SessionIsSound(x)'
  <2>1. CASE x \in gone
    <3>1. rows'[x] = {} /\ sync'[x] = Fresh
      BY <1>5, <2>1
    <3> QED
      BY <1>4, <3>1, EmptiedIsSound
  <2>2. CASE x \notin gone /\ x # s
    <3>1. rows'[x] = rows[x]
      BY <1>5, <2>2
    <3>2. sync'[x] = sync[x] /\ (x \in torn => x \in torn') /\ aged'[x] = aged[x]
      BY <1>5, <2>2
    <3> QED
      BY <1>4, <3>1, <3>2, OthersStaySound
  <2>3. CASE x \notin gone /\ x = s
    <3>1. /\ rows'[x] = {e \in rows[x] : e[2] > age} /\ sync'[x] = sync[x]
          /\ aged'[x] = age /\ (x \in torn' <=> x \in torn)
      BY <1>5, <1>6, <2>3
    <3>2. StoredOnce(rows[x]) /\ (newest[x] > 0 => top[x] <= newest[x] + PageLimit)
      BY DEF ArchiveInv
    <3>3. StoredOnce(rows[x])'
      BY <1>4, <3>1, <3>2 DEF StoredOnce
    <3>4. ASSUME NEW m \in 1..newest[x], KeptIn(rows[x], aged[x], m)
          PROVE  KeptIn(rows'[x], age, m)
      <4>1. m \in Nat /\ aged[x] \in Nat /\ aged[x] <= age /\ age \in Nat
        BY <1>4, <1>5, <2>3
      <4>2. CASE m \in Held(rows[x]) /\ m > age
        BY <3>1, <4>2 DEF KeptIn, Held
      <4>3. CASE m <= age
        BY <4>3 DEF KeptIn
      <4>4. CASE m \in Textless
        BY <4>4 DEF KeptIn
      <4> QED
        BY <3>4, <4>1, <4>2 DEF KeptIn
    <3>5. x \notin torn' => RowIsTrue(sync'[x], rows'[x], newest'[x], aged'[x], top'[x])
      <4>1. SUFFICES ASSUME x \notin torn'
                     PROVE  RowIsTrue(sync[x], rows'[x], newest[x], age, top[x])
        BY <1>4, <3>1
      <4>2. RowIsTrue(sync[x], rows[x], newest[x], aged[x], top[x])
        BY <3>1, <4>1 DEF ArchiveInv
      <4>3. \A e \in rows'[x] : e \in rows[x]
        BY <3>1
      <4> QED
        BY <3>4, <4>2, <4>3 DEF RowIsTrue
    <3> QED
      BY <1>4, <3>2, <3>3, <3>5 DEF SessionIsSound
  <2> QED
    BY <2>1, <2>2, <2>3
<1> QED
  BY <1>7 DEF SessionIsSound, ArchiveInv

\* Every step keeps the archive.
LEMMA NextArchiveInv == TypeInv /\ ArchiveInv /\ [Next]_vars => ArchiveInv'
<1> SUFFICES ASSUME TypeInv, ArchiveInv, [Next]_vars PROVE ArchiveInv'
  OBVIOUS
<1>1. CASE \E s \in Sessions : NewMessage(s)
  BY <1>1, NewMessageArchiveInv
<1>2. CASE (\E s \in Sessions : Calm(s)) \/ ListPass \/ Recompute \/ UNCHANGED vars
  <2>1. /\ numbered' = numbered /\ top' = top /\ rows' = rows /\ sync' = sync
        /\ newest' = newest /\ aged' = aged /\ torn' = torn
    BY <1>2 DEF Calm, ListPass, Recompute, vars, gateway, archive, history
  <2> QED
    BY <2>1 DEF ArchiveInv, StoredOnce
<1>3. CASE StartRound
  BY <1>3, StartRoundArchiveInv
<1>4. CASE HistoryAnswered
  BY <1>4, HistoryAnsweredArchiveInv
<1>5. CASE HistoryFails
  BY <1>5, HistoryFailsArchiveInv
<1>6. CASE Crash
  BY <1>6, CrashArchiveInv
<1>7. CASE Prune
  BY <1>7, PruneArchiveInv
<1> QED
  BY <1>1, <1>2, <1>3, <1>4, <1>5, <1>6, <1>7 DEF Next

\* The archive is whole where its rows say so, holds no message twice, and has
\* no number above its watermark, whatever eviction, retention, failures and
\* stops do to the sessions that nothing fell on between a request and its
\* record (TranscriptSynchronizer.syncSession, TranscriptArchive.recordSync).
THEOREM ArchiveSound == Spec => []ArchiveIsSound
<1>1. Init => TypeInv /\ ArchiveInv
  BY InitTypeInv, InitArchiveInv
<1>2. TypeInv /\ ArchiveInv /\ [Next]_vars => (TypeInv /\ ArchiveInv)'
  BY NextTypes, NextArchiveInv
<1>3. TypeInv /\ ArchiveInv => ArchiveIsSound
  BY InvIsSound
<1> QED
  BY <1>1, <1>2, <1>3, PTL DEF Spec

-----------------------------------------------------------------------------
(* The verdicts.                                                            *)

\* A session with news for its verdict is listed, so that the end of its round
\* scores it, or its round died.
EvidenceInv ==
    /\ EvidenceIsRemembered
    /\ unscored \subseteq listed \cup cut

\* No verdict is due at the start.
LEMMA InitEvidenceInv == Init => EvidenceInv
  BY DEF Init, EvidenceInv, EvidenceIsRemembered

\* What gained goes on with the others that grew, or is scored with them.
LEMMA EndsOrGoesEvidence ==
    ASSUME EvidenceInv, NEW to, NEW g \in SUBSET listed, EndsOrGoes(to, g),
           listed' = listed, cut' = cut
    PROVE  EvidenceInv'
<1>1. CASE phase' = "idle"
  BY DEF EndsOrGoes, EvidenceInv, EvidenceIsRemembered
<1>2. CASE phase' # "idle"
  BY DEF EndsOrGoes, EvidenceInv, EvidenceIsRemembered
<1> QED
  BY <1>1, <1>2

\* A round that dies is remembered as such.
LEMMA RoundDiesEvidence ==
    ASSUME EvidenceInv, NEW g, RoundDies(g), listed' = listed, stale' = stale, newer' = newer
    PROVE  EvidenceInv'
  BY DEF RoundDies, EvidenceInv, EvidenceIsRemembered

\* Every step remembers.
LEMMA NextEvidenceInv == TypeInv /\ EvidenceInv /\ [Next]_vars => EvidenceInv'
<1> SUFFICES ASSUME TypeInv, EvidenceInv, [Next]_vars PROVE EvidenceInv'
  OBVIOUS
<1>1. CASE \E s \in Sessions : NewMessage(s)
  BY <1>1 DEF NewMessage, EvidenceInv, EvidenceIsRemembered, sessions, round, history
<1>2. CASE \E s \in Sessions : Calm(s)
  BY <1>2 DEF Calm, EvidenceInv, EvidenceIsRemembered, sessions, round, history, verdicts
<1>3. CASE ListPass
  <2>1. listed \subseteq Known
    BY DEF TypeInv, ListedHasMessages
  <2> QED
    BY <1>3, <2>1 DEF ListPass, EvidenceInv, EvidenceIsRemembered, round, history
<1>4. CASE Recompute
  BY <1>4 DEF Recompute, EvidenceInv, EvidenceIsRemembered, sessions, round, history
<1>5. CASE UNCHANGED vars
  BY <1>5 DEF vars, EvidenceInv, EvidenceIsRemembered, sessions, round, history, verdicts
<1>6. CASE StartRound
  BY <1>6 DEF StartRound, EvidenceInv, EvidenceIsRemembered, sessions, verdicts
<1>7. CASE HistoryAnswered
  <2>1. Gained \in SUBSET {Asked.key} /\ listed' = listed
    BY <1>7 DEF Gained, HistoryAnswered, sessions
  <2>2. CASE Asked.key \in listed
    <3>1. Gained \in SUBSET listed /\ cut' = cut
      BY <1>7, <2>1, <2>2 DEF HistoryAnswered
    <3>2. EndsOrGoes(Onward(phase, Tail(todo), requests + 1,
                            [sync EXCEPT ![Asked.key] = Recorded], capacity), Gained)
      BY <1>7, <2>2 DEF HistoryAnswered
    <3> QED
      BY <2>1, <3>1, <3>2, EndsOrGoesEvidence
  <2>3. CASE Asked.key \notin listed
    <3>1. RoundDies(Gained) /\ stale' = stale /\ newer' = newer
      BY <1>7, <2>3 DEF HistoryAnswered
    <3> QED
      BY <2>1, <3>1, RoundDiesEvidence
  <2> QED
    BY <2>2, <2>3
<1>8. CASE HistoryFails
  <2>1. listed' = listed /\ {} \in SUBSET listed
    BY <1>8 DEF HistoryFails, sessions
  <2>2. CASE Asked.key \in listed
    <3>1. /\ cut' = cut
          /\ EndsOrGoes(Onward(phase, Tail(todo), requests + 1,
                               [sync EXCEPT ![Asked.key].complete = Asked.was.complete],
                               capacity), {})
      BY <1>8, <2>2 DEF HistoryFails
    <3> QED
      BY <2>1, <3>1, EndsOrGoesEvidence
  <2>3. CASE Asked.key \notin listed
    <3>1. RoundDies({}) /\ stale' = stale /\ newer' = newer
      BY <1>8, <2>3 DEF HistoryFails
    <3> QED
      BY <2>1, <3>1, RoundDiesEvidence
  <2> QED
    BY <2>2, <2>3
<1>9. CASE Crash
  <2>1. listed' = listed /\ stale' = stale /\ newer' = newer
    BY <1>9 DEF Crash, sessions
  <2>2. RoundDies({}) \/ RoundDies(Gained)
    BY <1>9 DEF Crash
  <2> QED
    BY <2>1, <2>2, RoundDiesEvidence
<1>10. CASE Prune
  <2>1. PICK dropped :
           listed' = listed \ dropped /\ stale' = stale \ dropped /\ unscored' = unscored \ dropped
    BY <1>10 DEF Prune
  <2>2. grew' = grew /\ newer' = newer /\ cut' = cut
    BY <1>10 DEF Prune, round
  <2> QED
    BY <2>1, <2>2 DEF EvidenceInv, EvidenceIsRemembered
<1> QED
  BY <1>1, <1>2, <1>3, <1>4, <1>5, <1>6, <1>7, <1>8, <1>9, <1>10 DEF Next

\* No session that gained rows is forgotten by the verdicts, unless the round
\* that brought them died (runOnce's listener, SignalStore.staleSessions).
THEOREM EvidenceRemembered == Spec => []EvidenceIsRemembered
<1>1. Init => TypeInv /\ EvidenceInv
  BY InitTypeInv, InitEvidenceInv
<1>2. TypeInv /\ EvidenceInv /\ [Next]_vars => (TypeInv /\ EvidenceInv)'
  BY NextTypes, NextEvidenceInv
<1>3. EvidenceInv => EvidenceIsRemembered
  BY DEF EvidenceInv
<1> QED
  BY <1>1, <1>2, <1>3, PTL DEF Spec

-----------------------------------------------------------------------------
(* The room of a round.                                                     *)

\* Everything archived, each message with its session.
Pairs(r) == {x \in Sessions \X UNION {r[s] : s \in Sessions} : x[2] \in r[x[1]]}

\* The size of an archive is the number of its messages: the sum over sessions is
\* one over the parts of a set.
LEMMA SizeCounts ==
    ASSUME NEW r, \A s \in Sessions : IsFiniteSet(r[s])
    PROVE  IsFiniteSet(Pairs(r)) /\ Size(r) = Cardinality(Pairs(r)) /\ Size(r) \in Nat
<1> DEFINE f == [s \in Sessions |-> Cardinality(r[s])]
           Of(h) == [u \in SUBSET Sessions |->
                       IF u = {} THEN 0
                       ELSE LET x == CHOOSE x \in u : TRUE IN Cardinality(r[x]) + h[u \ {x}]]
           By(h) == [u \in SUBSET Sessions |->
                       IF u = {} THEN 0
                       ELSE LET x == CHOOSE x \in u : TRUE IN f[x] + h[u \ {x}]]
           p == [x \in Pairs(r) |-> x[1]]
<1>1. IsFiniteSet(Sessions)
  BY TranscriptAssumption
<1>2. IsFiniteSet(Pairs(r))
  <2>1. IsFiniteSet({r[s] : s \in Sessions})
    <3> DEFINE T == {r[s] : s \in Sessions}
               g == [s \in Sessions |-> r[s]]
    <3>1. g \in Surjection(Sessions, T)
      BY DEF Surjection
    <3> QED
      BY <1>1, <3>1, FS_Surjection
  <2>2. IsFiniteSet(UNION {r[s] : s \in Sessions})
    BY <2>1, FS_UNION
  <2>3. IsFiniteSet(Sessions \X UNION {r[s] : s \in Sessions})
    BY <1>1, <2>2, FS_Product
  <2> QED
    BY <2>3, FS_Subset DEF Pairs
<1>3. ASSUME NEW s \in Sessions
      PROVE  f[s] = Cardinality({x \in Pairs(r) : p[x] = s})
  <2> DEFINE g == [e \in r[s] |-> <<s, e>>]
  <2>1. \A d, e \in r[s] : g[d] = g[e] => d = e
    OBVIOUS
  <2>2. Cardinality({g[e] : e \in r[s]}) = Cardinality(r[s])
    <3> HIDE DEF g
    <3> QED
      BY <2>1, ImagesCount
  <2>3. {g[e] : e \in r[s]} = {x \in Pairs(r) : p[x] = s}
    <3>1. ASSUME NEW e \in r[s] PROVE <<s, e>> \in Pairs(r)
      BY DEF Pairs
    <3>2. ASSUME NEW x \in Pairs(r), x[1] = s PROVE x[2] \in r[s] /\ x = <<s, x[2]>>
      BY <3>2 DEF Pairs
    <3>3. \A x \in Pairs(r) : p[x] = x[1]
      OBVIOUS
    <3>4. \A e \in r[s] : <<s, e>>[1] = s /\ g[e] = <<s, e>>
      OBVIOUS
    <3>5. {g[e] : e \in r[s]} \subseteq {x \in Pairs(r) : p[x] = s}
      <4> HIDE DEF p, g
      <4> QED
        BY <3>1, <3>3, <3>4
    <3>6. {x \in Pairs(r) : p[x] = s} \subseteq {g[e] : e \in r[s]}
      <4> HIDE DEF p, g
      <4> QED
        BY <3>2, <3>3, <3>4
    <3> QED
      BY <3>5, <3>6
  <2> QED
    BY <2>2, <2>3
<1>4. \A x \in Pairs(r) : p[x] \in Sessions
  BY DEF Pairs
<1>5. SumFunction(f) = Cardinality(Pairs(r))
  <2>1. DOMAIN f = Sessions
    OBVIOUS
  <2> HIDE DEF f, p
  <2> QED
    BY <1>1, <1>2, <1>3, <1>4, <2>1, SumOfParts
<1>6. Size(r) = SumFunction(f)
  <2>1. Size(r) = (CHOOSE h : h = Of(h))[Sessions]
    BY DEF Size, MapThenSumSet, MapThenFoldSet
  <2>2. SumFunction(f) = (CHOOSE h : h = By(h))[Sessions]
    <3>1. DOMAIN f = Sessions
      OBVIOUS
    <3> HIDE DEF f
    <3> QED
      BY <3>1 DEF SumFunction, SumFunctionOnSet, FoldFunctionOnSet, MapThenFoldSet
  <2>3. \A h : Of(h) = By(h)
    OBVIOUS
  <2>4. (CHOOSE h : h = Of(h)) = (CHOOSE h : h = By(h))
    <3> HIDE DEF Of, By
    <3> QED
      BY <2>3, Zenon
  <2> QED
    BY <2>1, <2>2, <2>4
<1> QED
  BY <1>2, <1>5, <1>6, FS_CardinalityType

\* A page adds no more to the size than the messages inserted.
LEMMA AppendedSize ==
    ASSUME TypeInv, phase # "idle", \A s \in Sessions : IsFiniteSet(rows[s])
    PROVE  /\ \A s \in Sessions : IsFiniteSet(Appended[s])
           /\ Cardinality(Inserted) \in Nat
           /\ Size(Appended) <= Size(rows) + Cardinality(Inserted)
<1> DEFINE k == Asked.key
           A == {<<k, e>> : e \in Inserted}
           g == [e \in Inserted |-> <<k, e>>]
<1>1. Asked.key \in Sessions /\ Asked.was \in SyncRow /\ top \in [Sessions -> Nat]
      /\ sync \in [Sessions -> SyncRow] /\ rows \in [Sessions -> SUBSET (Nat \X Nat)]
  BY InFlightFacts
<1>2. IsFiniteSet(Inserted)
  <2> DEFINE h == [e \in Inserted |-> e[2]]
  <2>1. Inserted \subseteq Projected
    BY DEF Inserted, Offered
  <2>2. \A e \in Inserted : e[2] \in Page
    BY <1>1, <2>1, ProjectedFacts
  <2>3. \A d, e \in Inserted : d[2] = e[2] => d = e
    BY <1>1, <2>1, ProjectedFacts
  <2>4. IsFiniteSet(Page)
    BY <1>1, PageFacts
  <2>5. h \in [Inserted -> Page] /\ IsInjective(h)
    BY <2>2, <2>3 DEF IsInjective
  <2>6. h \in Injection(Inserted, Page)
    BY <2>5 DEF Injection, IsInjective
  <2> QED
    BY <2>4, <2>6, FS_Injection
<1>3. /\ Appended[k] = rows[k] \cup Inserted
      /\ \A s \in Sessions : s # k => Appended[s] = rows[s]
  BY <1>1, AppendFacts
<1>4. \A s \in Sessions : IsFiniteSet(Appended[s])
  <2>1. IsFiniteSet(rows[k] \cup Inserted)
    BY <1>1, <1>2, FS_Union
  <2> QED
    BY <1>3, <2>1
<1>5. IsFiniteSet(A) /\ Cardinality(A) = Cardinality(Inserted) /\ Cardinality(A) \in Nat
  <2>1. \A d, e \in Inserted : g[d] = g[e] => d = e
    OBVIOUS
  <2>2. {g[e] : e \in Inserted} = A
    OBVIOUS
  <2>3. IsFiniteSet({g[e] : e \in Inserted})
        /\ Cardinality({g[e] : e \in Inserted}) = Cardinality(Inserted)
    <3> HIDE DEF g
    <3> QED
      BY <1>2, <2>1, ImagesCount
  <2> QED
    BY <1>2, <2>2, <2>3, FS_CardinalityType
<1>6. Pairs(Appended) \subseteq Pairs(rows) \cup A
  <2>1. SUFFICES ASSUME NEW x \in Pairs(Appended), x \notin Pairs(rows) PROVE x \in A
    OBVIOUS
  <2>2. x[1] \in Sessions /\ x[2] \in Appended[x[1]] /\ x = <<x[1], x[2]>>
    BY DEF Pairs
  <2>3. x[2] \notin rows[x[1]]
    <3>1. SUFFICES ASSUME x[2] \in rows[x[1]] PROVE FALSE
      OBVIOUS
    <3>2. <<x[1], x[2]>> \in Pairs(rows)
      BY <2>2, <3>1 DEF Pairs
    <3> QED
      BY <2>1, <2>2, <3>2
  <2>4. x[1] = k /\ x[2] \in Inserted
    BY <1>3, <2>2, <2>3
  <2> QED
    BY <2>2, <2>4
<1>7. Cardinality(Pairs(Appended)) <= Cardinality(Pairs(rows)) + Cardinality(A)
  <2>1. IsFiniteSet(Pairs(rows)) /\ IsFiniteSet(Pairs(Appended))
    BY <1>4, SizeCounts
  <2>2. Cardinality(Pairs(rows)) \in Nat /\ Cardinality(Pairs(Appended)) \in Nat
    BY <2>1, FS_CardinalityType
  <2> HIDE DEF A
  <2> DEFINE B == Pairs(rows)
  <2>3. B \cap A \subseteq B /\ IsFiniteSet(B \cup A)
        /\ Cardinality(B \cup A) = Cardinality(B) + Cardinality(A) - Cardinality(B \cap A)
    BY <1>5, <2>1, FS_Union
  <2>4. IsFiniteSet(B \cap A) /\ Cardinality(B \cap A) \in Nat
    BY <2>1, <2>3, FS_Subset, FS_CardinalityType
  <2>5. Cardinality(Pairs(Appended)) <= Cardinality(B \cup A)
    BY <1>6, <2>3, FS_Subset
  <2>6. Cardinality(B \cup A) \in Nat
    BY <2>3, FS_CardinalityType
  <2> QED
    BY <1>5, <2>2, <2>3, <2>4, <2>5, <2>6
<1>8. Size(Appended) = Cardinality(Pairs(Appended)) /\ Size(rows) = Cardinality(Pairs(rows))
  BY <1>4, SizeCounts
<1> QED
  BY <1>4, <1>5, <1>7, <1>8

\* What the synchronizer takes the archive to hold is at least what it holds, once
\* it has measured it.
RoomInv ==
    /\ \A s \in Sessions : IsFiniteSet(rows[s])
    /\ estimate \in Nat
    /\ measured => Cardinality(Pairs(rows)) <= estimate

\* Where a round begins: with what fits, and with the size known.
LEMMA StartsWithRoom ==
    ASSUME TypeInv, RoomInv, StartRound
    PROVE  RoomInv' /\ (phase' # "idle" => Size(rows') <= MaxRows)
<1> DEFINE held == IF measured THEN estimate ELSE Size(rows)
           over == held >= MaxRows
           gone == IF over THEN Doomed(rows) ELSE {}
           left == Size(Emptied(rows, gone))
<1>1. /\ rows' = Emptied(rows, gone) /\ measured' = TRUE
      /\ estimate' = IF gone = {} THEN held ELSE left
      /\ IsFull(over, left) => phase' = "idle"
  <2>1. IsFull(over, left) => Goes([phase |-> "idle", todo |-> <<>>])
    BY Zenon DEF StartRound
  <2> QED
    BY <2>1, Zenon DEF StartRound, Goes
<1> HIDE DEF gone
<1>2. rows \in [Sessions -> SUBSET (Nat \X Nat)] /\ sync \in [Sessions -> SyncRow]
  BY DEF TypeInv, TypeOK
<1>3. /\ \A s \in Sessions : Emptied(rows, gone)[s] = IF s \in gone THEN {} ELSE rows[s]
      /\ Emptied(rows, gone) \in [Sessions -> SUBSET (Nat \X Nat)]
  BY <1>2, EmptiedFacts
<1>4. \A s \in Sessions : IsFiniteSet(Emptied(rows, gone)[s])
  BY <1>3, FS_EmptySet DEF RoomInv
<1>5. Size(rows) \in Nat /\ left \in Nat
  BY <1>4, SizeCounts DEF RoomInv
<1>6. gone = {} => Emptied(rows, gone) = rows
  BY <1>2, <1>3
<1>7. held \in Nat /\ Size(rows) <= held /\ MaxRows \in Nat
  BY <1>5, SizeCounts, TranscriptAssumption DEF RoomInv
<1>8. RoomInv'
  <2>1. estimate' \in Nat /\ left <= estimate'
    BY <1>1, <1>5, <1>6, <1>7
  <2>2. Cardinality(Pairs(Emptied(rows, gone))) = left
    BY <1>4, SizeCounts
  <2>3. Cardinality(Pairs(rows')) <= estimate' /\ \A s \in Sessions : IsFiniteSet(rows'[s])
    BY <1>1, <1>4, <2>1, <2>2
  <2> QED
    BY <2>1, <2>3 DEF RoomInv, Pairs
<1>9. ASSUME phase' # "idle" PROVE Size(rows') <= MaxRows
  <2>1. CASE over
    BY <1>1, <1>5, <1>7, <1>9, <2>1 DEF IsFull
  <2>2. CASE ~over
    <3>1. rows' = rows
      BY <1>1, <1>6, <2>2 DEF gone
    <3>2. Size(rows) <= MaxRows
      BY <1>5, <1>7, <2>2
    <3> QED
      BY <3>1, <3>2
  <2> QED
    BY <2>1, <2>2
<1> QED
  BY <1>8, <1>9

\* The other steps know the size no worse.
LEMMA NextRoomInv == TypeInv /\ RoomInv /\ [Next]_vars => RoomInv'
<1> SUFFICES ASSUME TypeInv, RoomInv, [Next]_vars PROVE RoomInv'
  OBVIOUS
<1>1. ASSUME UNCHANGED <<rows, estimate, measured>> PROVE RoomInv'
  BY <1>1 DEF RoomInv, Pairs
<1>2. CASE \E s \in Sessions : NewMessage(s) \/ Calm(s)
  BY <1>1, <1>2 DEF NewMessage, Calm, archive, size
<1>3. CASE ListPass \/ Recompute \/ UNCHANGED vars
  BY <1>1, <1>3 DEF ListPass, Recompute, archive, size, vars
<1>4. CASE StartRound
  BY <1>4, StartsWithRoom
<1>5. CASE HistoryAnswered
  <2>1. phase # "idle" /\ rows' = Appended /\ measured' = measured
        /\ estimate' = estimate + Cardinality(Inserted)
    BY <1>5 DEF HistoryAnswered
  <2>2. /\ \A s \in Sessions : IsFiniteSet(Appended[s])
        /\ Cardinality(Inserted) \in Nat
        /\ Size(Appended) <= Size(rows) + Cardinality(Inserted)
    BY <2>1, AppendedSize DEF RoomInv
  <2>3. /\ Size(rows) \in Nat /\ Size(rows) = Cardinality(Pairs(rows))
        /\ Size(Appended) \in Nat /\ Size(Appended) = Cardinality(Pairs(Appended))
    BY <2>2, SizeCounts DEF RoomInv
  <2>4. measured => Cardinality(Pairs(Appended)) <= estimate + Cardinality(Inserted)
    BY <2>2, <2>3 DEF RoomInv
  <2>5. /\ \A s \in Sessions : IsFiniteSet(rows'[s])
        /\ estimate' \in Nat
        /\ measured' => Cardinality(Pairs(rows')) <= estimate'
    BY <2>1, <2>2, <2>4 DEF RoomInv
  <2> QED
    BY <2>5 DEF RoomInv, Pairs
<1>6. CASE HistoryFails
  BY <1>1, <1>6 DEF HistoryFails, size
<1>7. CASE Crash
  <2>1. estimate' = 0 /\ measured' = FALSE /\ phase # "idle" /\ (rows' = rows \/ rows' = Appended)
    BY <1>7 DEF Crash
  <2>2. \A s \in Sessions : IsFiniteSet(Appended[s])
    BY <2>1, AppendedSize DEF RoomInv
  <2> QED
    BY <2>1, <2>2 DEF RoomInv
<1>8. CASE Prune
  <2>1. estimate' = 0 /\ measured' = FALSE
    BY <1>8 DEF Prune
  <2>2. \A x \in Sessions : rows'[x] \subseteq rows[x]
    <3>1. PICK gone : \E dropped \in SUBSET Archived, s \in Sessions :
             \E age : PruneLeft(dropped, gone, s, age)
      BY <1>8, PruneLeaves
    <3>2. PICK dropped \in SUBSET Archived, s \in Sessions :
             \E age : PruneLeft(dropped, gone, s, age)
      BY <3>1
    <3> QED
      BY <3>2 DEF PruneLeft
  <2> QED
    BY <2>1, <2>2, FS_Subset DEF RoomInv
<1> QED
  BY <1>2, <1>3, <1>4, <1>5, <1>6, <1>7, <1>8 DEF Next

\* A round that archives begins with an archive that fits, whatever was evicted,
\* estimated, pruned or lost before (runOnce, evictByBytes): the part of
\* RoundsFillTheArchive that says what a round may not do.
THEOREM RoundsHaveRoom == Spec => RoundsBeginWithRoom
<1>1. Init => TypeInv /\ RoomInv
  <2>1. Init => RoomInv
    BY FS_EmptySet DEF Init, RoomInv
  <2> QED
    BY <2>1, InitTypeInv
<1>2. TypeInv /\ RoomInv /\ [Next]_vars => (TypeInv /\ RoomInv)'
  BY NextTypes, NextRoomInv
<1>3. TypeInv /\ RoomInv /\ [Next]_vars
      => [phase = "idle" /\ phase' # "idle" => Size(rows') <= MaxRows]_vars
  <2>1. SUFFICES ASSUME TypeInv, RoomInv, [Next]_vars, phase = "idle", phase' # "idle"
                 PROVE  Size(rows') <= MaxRows
    OBVIOUS
  <2>2. StartRound
    BY <2>1 DEF Next, NewMessage, Calm, ListPass, HistoryAnswered, HistoryFails, Crash, Prune,
                Recompute, round, vars
  <2> QED
    BY <2>1, <2>2, StartsWithRoom
<1> QED
  BY <1>1, <1>2, <1>3, PTL DEF Spec, RoundsBeginWithRoom
=============================================================================
