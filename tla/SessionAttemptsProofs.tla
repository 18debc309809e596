------------------------ MODULE SessionAttemptsProofs ------------------------
(***************************************************************************)
(* What is proved of SessionAttempts, for every set of sessions and runs   *)
(* and every bound: types and the unique index, that no outcome is guessed,*)
(* that only a session read in two ways doubles a run, and that a pass     *)
(* keeps what it saw at work.                                              *)
(***************************************************************************)
EXTENDS SessionAttempts, Inductions

-----------------------------------------------------------------------------
(* The inductive invariant.                                                 *)

RowType == [src : Sources, run : Runs \cup {None}, key : Sessions,
            state : {"active", "terminal"}, outcome : Outcomes \cup {None, "unknown"}]

\* A row of a run is a row of its session, and a source key is never another
\* run's or another session's.
RowIsOfOne(row) ==
    /\ row.run # None => row.key = SessionOf[row.run]
    /\ \A r \in Runs : row.src = RunSource(r) => row.run = r
    /\ \A k \in Sessions, t \in 0..MaxChanges : row.src = SessionSource(k, t) => row.key = k

OneRowPerSource(table) == \A i, j \in DOMAIN table : table[i].src = table[j].src => i = j

TableIsSound(table) ==
    /\ IsFiniteSet(DOMAIN table)
    /\ \A i \in DOMAIN table : table[i] \in RowType /\ RowIsOfOne(table[i])
    /\ OneRowPerSource(table)

\* What an attempt shows of its end, told by the Gateway of a run of its session.
RowIsTold(row, told) ==
    /\ row.outcome \in Outcomes =>
          \E r \in Runs : SessionOf[r] = row.key /\ row.outcome \in told[r]
    /\ row.state = "active" <=> row.outcome = None

TableIsTold(table, told) == \A i \in DOMAIN table : RowIsTold(table[i], told)

GatewayIsTyped ==
    /\ active \subseteq Runs /\ verdicts \in [Runs -> SUBSET Outcomes]
    /\ started \in [Sessions -> 0..MaxChanges] /\ clock \in 0..MaxChanges
    /\ order \in Seq(Sessions) /\ ToSet(order) = Sessions

\* A snapshot row names runs of its session, and only while it says that it runs.
SeenIsSound(s) ==
    /\ s.runs \subseteq Runs /\ \A r \in s.runs : SessionOf[r] = s.key
    /\ s.runs # {} => s.running
    /\ s.running => s.key \in Sessions /\ s.at \in 0..MaxChanges

ReadIsSound == read \in Seq(ToSet(read)) /\ \A s \in ToSet(read) : SeenIsSound(s)

IInv ==
    /\ GatewayIsTyped /\ ReadIsSound
    /\ TableIsSound(rows) /\ TableIsTold(rows, verdicts)
    /\ pc \in {"idle", "paging", "writing"}
    /\ refused \in BOOLEAN /\ faults \in 0..MaxFaults

OneOpen(table) ==
    \A i, j \in Open(table) : table[i].run # None /\ table[i].run = table[j].run => i = j

\* The invariant is the run's, and more.
LEMMA IInvImplies == IInv => TypeOK /\ OutcomeWasReported
<1> SUFFICES ASSUME IInv PROVE TypeOK /\ OutcomeWasReported
  OBVIOUS
<1>1. \A i \in DOMAIN rows : BySource(rows, rows[i].src) = {i}
  BY DEF IInv, TableIsSound, OneRowPerSource, BySource
<1>2. \A i \in DOMAIN rows :
          /\ rows[i].src \in Sources
          /\ rows[i].run \in Runs \cup {None} /\ rows[i].key \in Sessions
          /\ rows[i].state \in {"active", "terminal"}
          /\ rows[i].outcome \in Outcomes \cup {None, "unknown"}
  BY DEF IInv, TableIsSound, RowType
<1>3. TypeOK
  BY <1>1, <1>2 DEF IInv, GatewayIsTyped, TypeOK
<1>4. OutcomeWasReported
  BY DEF IInv, TableIsTold, RowIsTold, OutcomeWasReported
<1> QED
  BY <1>3, <1>4

LEMMA InitIsSound == Init => IInv
<1> SUFFICES ASSUME Init PROVE IInv
  OBVIOUS
<1>1. order \in Seq(Sessions) /\ ToSet(order) = Sessions
  <2>1. /\ Cardinality(Sessions) \in Nat
        /\ order \in [1..Cardinality(Sessions) -> Sessions]
        /\ \A x \in Sessions : \E i \in 1..Cardinality(Sessions) : order[i] = x
    BY AttemptsAssumption, ListedOnce DEF Init
  <2> QED
    BY <2>1 DEF ToSet
<1>2. read = <<>> /\ rows = <<>> /\ DOMAIN rows = {} /\ ToSet(read) = {}
  BY DEF Init, ToSet
<1>3. IsFiniteSet(DOMAIN rows)
  BY <1>2, FS_EmptySet
<1>4. ReadIsSound
  BY <1>2 DEF ReadIsSound
<1>5. TableIsSound(rows) /\ TableIsTold(rows, verdicts)
  BY <1>2, <1>3 DEF TableIsSound, TableIsTold, OneRowPerSource
<1>6. GatewayIsTyped
  BY <1>1, AttemptsAssumption DEF Init, GatewayIsTyped, Undated
<1> QED
  <2>1. pc = "idle" /\ refused \in BOOLEAN /\ faults = 0
    BY DEF Init
  <2>2. faults \in 0..MaxFaults
    BY <2>1, AttemptsAssumption
  <2> QED
    BY <1>4, <1>5, <1>6, <2>1, <2>2, Zenon DEF IInv

-----------------------------------------------------------------------------
(* One write.                                                               *)

\* The row a write leaves, in the place of an old one or as a new one.
Old(table, w, i) == IF i \in DOMAIN table THEN table[i] ELSE w.row

Merged(table, w, i) ==
    [w.row EXCEPT !.run = Coalesce(w.row.run, Old(table, w, i).run),
                  !.key = Coalesce(w.row.key, Old(table, w, i).key)]

\* A write changes one row, of those it may go to, or adds one.
PutAt(w, table, i, b, ok) ==
    /\ w.id # {} => i = (CHOOSE j \in w.id : TRUE) /\ i \in w.id
    /\ w.id = {} => i \notin DOMAIN table
    /\ DOMAIN b.rows = DOMAIN table \cup {i}
    /\ \A j \in DOMAIN table : j # i => b.rows[j] = table[j]
    /\ b.rows[i] = Merged(table, w, i)
    /\ b.ok = (ok /\ BySource(table, w.row.src) \subseteq {i})

LEMMA UpsertPuts ==
    ASSUME NEW batch, IsFiniteSet(DOMAIN batch.rows), NEW w
    PROVE  \E i : PutAt(w, batch.rows, i, Upsert(batch, w), batch.ok)
<1> DEFINE t == batch.rows
           i == IF w.id = {} THEN NewId(t) ELSE CHOOSE j \in w.id : TRUE
           old == IF i \in DOMAIN t THEN t[i] ELSE w.row
           new == [w.row EXCEPT !.run = Coalesce(w.row.run, old.run),
                                !.key = Coalesce(w.row.key, old.key)]
           b == Upsert(batch, w)
<1>1. b = [ok |-> batch.ok /\ BySource(t, w.row.src) \subseteq {i}, rows |-> Put(t, i, new)]
  BY Zenon DEF Upsert
<1>2. new = Merged(t, w, i)
  BY DEF Merged, Old
<1>3. w.id = {} => i \notin DOMAIN t
  BY OneIsFree DEF NewId
<1>4. w.id # {} => i = (CHOOSE j \in w.id : TRUE) /\ i \in w.id
  OBVIOUS
<1> HIDE DEF i, new, b
<1>5. /\ b.ok = (batch.ok /\ BySource(t, w.row.src) \subseteq {i})
      /\ b.rows = Put(t, i, new)
  BY <1>1
<1>6. /\ DOMAIN b.rows = DOMAIN t \cup {i} /\ b.rows[i] = new
      /\ \A j \in DOMAIN t : j # i => b.rows[j] = t[j]
  BY <1>5 DEF Put
<1>7. PutAt(w, t, i, b, batch.ok)
  BY <1>2, <1>3, <1>4, <1>5, <1>6 DEF PutAt
<1> QED
  BY <1>7 DEF b

\* A row a write may leave: of the session of the one it goes to, and with a
\* source key that is its run's, or not a run's.
Suits(w, table, i, told) ==
    /\ w.row \in RowType /\ RowIsTold(w.row, told)
    /\ i \in DOMAIN table => table[i].key = w.row.key
    /\ w.row.run # None => w.row.key = SessionOf[w.row.run]
    /\ \A r \in Runs : w.row.src = RunSource(r) =>
          \/ w.row.run = r
          \/ w.row.run = None /\ i \in DOMAIN table /\ table[i].run = r
    /\ \A k \in Sessions, t \in 0..MaxChanges : w.row.src = SessionSource(k, t) => w.row.key = k

LEMMA MergedIsSound ==
    ASSUME NEW w, NEW table, NEW i, NEW told, TableIsSound(table), Suits(w, table, i, told)
    PROVE  LET row == Merged(table, w, i)
           IN  /\ row \in RowType /\ RowIsOfOne(row) /\ RowIsTold(row, told)
               /\ row.src = w.row.src /\ row.key = w.row.key
               /\ row.state = w.row.state /\ row.outcome = w.row.outcome
               /\ row.run = Coalesce(w.row.run, Old(table, w, i).run)
<1> DEFINE row == Merged(table, w, i)  old == Old(table, w, i)
<1>1. w.row \in RowType
  BY DEF Suits
<1>2. old \in RowType /\ (i \in DOMAIN table => old = table[i] /\ RowIsOfOne(old))
      /\ (i \notin DOMAIN table => old = w.row)
  BY <1>1 DEF Old, TableIsSound
<1>3. row = [w.row EXCEPT !.run = Coalesce(w.row.run, old.run),
                          !.key = Coalesce(w.row.key, old.key)]
  BY Zenon DEF Merged
<1>4. Coalesce(w.row.run, old.run) \in Runs \cup {None} /\ Coalesce(w.row.key, old.key) = w.row.key
  BY <1>1, <1>2, AttemptsAssumption DEF RowType, Coalesce, None
<1> HIDE DEF row, old
<1>5. /\ row.src = w.row.src /\ row.key = w.row.key
      /\ row.state = w.row.state /\ row.outcome = w.row.outcome
      /\ row.run = Coalesce(w.row.run, old.run) /\ row \in RowType
  BY <1>1, <1>3, <1>4 DEF RowType
<1>6. RowIsTold(row, told)
  BY <1>5 DEF RowIsTold, Suits
<1>7. RowIsOfOne(row)
  <2>1. w.row.run = None => row.run = old.run
    BY <1>5 DEF Coalesce
  <2>2. w.row.run # None => row.run = w.row.run
    BY <1>5 DEF Coalesce
  <2>3. row.run # None => row.key = SessionOf[row.run]
    <3>1. CASE w.row.run # None
      BY <2>2, <3>1, <1>5 DEF Suits
    <3>2. CASE w.row.run = None
      BY <2>1, <3>2, <1>2, <1>5 DEF Suits, RowIsOfOne
    <3> QED
      BY <3>1, <3>2
  <2>4. \A r \in Runs : row.src = RunSource(r) => row.run = r
    <3>1. SUFFICES ASSUME NEW r \in Runs, w.row.src = RunSource(r) PROVE row.run = r
      BY <1>5
    <3>2. \/ w.row.run = r
          \/ w.row.run = None /\ i \in DOMAIN table /\ table[i].run = r
      BY <3>1 DEF Suits
    <3>3. r # None
      BY AttemptsAssumption DEF None
    <3> QED
      BY <3>2, <3>3, <2>1, <2>2, <1>2
  <2> QED
    BY <2>3, <2>4, <1>5 DEF RowIsOfOne, Suits
<1> QED
  BY <1>5, <1>6, <1>7 DEF row, old

\* A write that meets no other row's source key leaves a sound table.
LEMMA PutIsSound ==
    ASSUME NEW w, NEW table, NEW i, NEW b, NEW ok, NEW told, TableIsSound(table),
           TableIsTold(table, told), Suits(w, table, i, told),
           PutAt(w, table, i, b, ok), b.ok
    PROVE  TableIsSound(b.rows) /\ TableIsTold(b.rows, told) /\ ok
<1> DEFINE t == b.rows
<1>1. /\ ok /\ BySource(table, w.row.src) \subseteq {i}
      /\ DOMAIN t = DOMAIN table \cup {i}
      /\ \A j \in DOMAIN table : j # i => t[j] = table[j]
      /\ t[i] = Merged(table, w, i)
  BY DEF PutAt
<1>2. t[i] \in RowType /\ RowIsOfOne(t[i]) /\ RowIsTold(t[i], told) /\ t[i].src = w.row.src
  BY <1>1, MergedIsSound
<1> HIDE DEF t
<1>3. IsFiniteSet(DOMAIN t)
  BY <1>1, FS_AddElement DEF TableIsSound
<1>4. \A j \in DOMAIN t : t[j] \in RowType /\ RowIsOfOne(t[j]) /\ RowIsTold(t[j], told)
  BY <1>1, <1>2 DEF TableIsSound, TableIsTold
<1>5. OneRowPerSource(t)
  BY <1>1, <1>2 DEF TableIsSound, OneRowPerSource, BySource
<1> QED
  BY <1>1, <1>3, <1>4, <1>5 DEF TableIsSound, TableIsTold, t

\* The writes of a batch, one after the other.
LEMMA BatchIsStepwise ==
    ASSUME NEW writes, Len(writes) \in Nat
    PROVE  \E after : /\ after[0] = [ok |-> TRUE, rows |-> rows]
                      /\ \A n \in 1..Len(writes) : after[n] = Upsert(after[n - 1], writes[n])
                      /\ UpsertMany(writes) = after[Len(writes)]
<1> DEFINE len == Len(writes)
           base == [ok |-> TRUE, rows |-> rows]
           Eq(m, f) == f = [n \in 0..m |-> IF n = 0 THEN base ELSE Upsert(f[n - 1], writes[n])]
           T == {m \in Nat : \E f : Eq(m, f)}
           after == CHOOSE f : Eq(len, f)
<1>1. UpsertMany(writes) = after[len]
  BY Zenon DEF UpsertMany
<1> HIDE DEF len, base
<1>2. 0 \in T
  <2> DEFINE f == [n \in 0..0 |-> base]
  <2>1. Eq(0, f)
    OBVIOUS
  <2> QED
    BY <2>1
<1>3. \A m \in Nat : m \in T => m + 1 \in T
  <2>1. SUFFICES ASSUME NEW m \in Nat, NEW f, Eq(m, f) PROVE m + 1 \in T
    OBVIOUS
  <2> DEFINE g == [n \in 0..(m + 1) |-> IF n = 0 THEN base ELSE Upsert(f[n - 1], writes[n])]
  <2>2. \A n \in 0..m : g[n] = f[n]
    <3>1. SUFFICES ASSUME NEW n \in 0..m PROVE g[n] = f[n]
      OBVIOUS
    <3>2. f[n] = IF n = 0 THEN base ELSE Upsert(f[n - 1], writes[n])
      BY <2>1, Zenon
    <3>3. n \in 0..(m + 1)
      BY <2>1
    <3>4. g[n] = IF n = 0 THEN base ELSE Upsert(f[n - 1], writes[n])
      BY <3>3, Zenon
    <3> QED
      BY <3>2, <3>4
  <2>3. Eq(m + 1, g)
    <3>1. \A n \in 0..(m + 1) : n # 0 => n - 1 \in 0..m
      BY <2>1
    <3> QED
      BY <2>2, <3>1
  <2> HIDE DEF g
  <2>4. \E h : Eq(m + 1, h)
    BY <2>3, Zenon
  <2>5. m + 1 \in Nat
    BY <2>1
  <2> QED
    BY <2>4, <2>5, Zenon
<1>4. Eq(len, after)
  <2> HIDE DEF T
  <2>1. len \in Nat
    BY DEF len
  <2>2. len \in T
    BY <1>2, <1>3, <2>1, ByNumbers
  <2>3. \E f : Eq(len, f)
    BY <2>2 DEF T
  <2> QED
    BY <2>3, Zenon
<1> HIDE DEF after
<1>5. \A n \in 0..len : after[n] = IF n = 0 THEN base ELSE Upsert(after[n - 1], writes[n])
  BY <1>4, Zenon
<1>6. len \in Nat
  BY DEF len
<1>7. after[0] = base /\ \A n \in 1..len : after[n] = Upsert(after[n - 1], writes[n])
  BY <1>5, <1>6
<1> QED
  BY <1>1, <1>7 DEF len, base

\* A batch of one write is that write.
LEMMA BatchOfOne ==
    ASSUME NEW w
    PROVE  UpsertMany(<<w>>) = Upsert([ok |-> TRUE, rows |-> rows], w)
<1>1. Len(<<w>>) = 1 /\ 1 \in Nat /\ <<w>>[1] = w
  OBVIOUS
<1>2. PICK after : /\ after[0] = [ok |-> TRUE, rows |-> rows]
                   /\ \A n \in 1..1 : after[n] = Upsert(after[n - 1], <<w>>[n])
                   /\ UpsertMany(<<w>>) = after[1]
  BY <1>1, BatchIsStepwise
<1>3. 1 \in 1..1 /\ 1 - 1 = 0
  OBVIOUS
<1>4. after[1] = Upsert(after[0], w)
  BY <1>1, <1>2, <1>3
<1> QED
  BY <1>2, <1>4

-----------------------------------------------------------------------------
(* The row a sighting is matched with.                                      *)

ByRun(run) == {i \in Open(rows) : run # None /\ rows[i].run = run}

ByKey(run, key) ==
    {i \in Open(rows) : key # None /\ rows[i].key = key /\ (run # None => rows[i].run = None)}

LEMMA OnlyOne ==
    ASSUME NEW S, IsFiniteSet(S), Cardinality(S) = 1
    PROVE  \E x : S = {x}
BY FS_Singleton

LEMMA OpenIsFinite ==
    ASSUME TableIsSound(rows)
    PROVE  /\ IsFiniteSet(Open(rows)) /\ Open(rows) \subseteq DOMAIN rows
           /\ \A run, key : IsFiniteSet(ByKey(run, key)) /\ ByKey(run, key) \subseteq Open(rows)
<1>1. IsFiniteSet(Open(rows)) /\ Open(rows) \subseteq DOMAIN rows
  BY FS_Subset DEF TableIsSound, Open
<1>2. \A run, key : ByKey(run, key) \in SUBSET Open(rows)
  BY DEF ByKey
<1> QED
  BY <1>1, <1>2, FS_Subset

\* An open attempt found for a session is one of it; for a run, it is the run's, or
\* nobody's yet.
LEMMA OpenAttemptFits ==
    ASSUME TableIsSound(rows), NEW key \in Sessions, NEW run \in Runs \cup {None},
           run # None => SessionOf[run] = key
    PROVE  LET found == OpenAttempt(rows, run, key)
           IN  /\ found \subseteq Open(rows)
               /\ \A i \in found : rows[i].key = key
               /\ run # None => \A i \in found : rows[i].run \in {run, None}
               /\ run = None \/ OneOpen(rows) => \A i, j \in found : i = j
               /\ ByRun(run) # {} => found = ByRun(run)
               /\ found = {} => ByKey(run, key) = {} \/ Cardinality(ByKey(run, key)) # 1
<1> DEFINE found == OpenAttempt(rows, run, key)
<1>1. found = IF ByRun(run) # {} THEN ByRun(run)
              ELSE IF Cardinality(ByKey(run, key)) = 1 THEN ByKey(run, key) ELSE {}
  BY Zenon DEF OpenAttempt, ByRun, ByKey
<1> HIDE DEF found
<1>2. CASE ByRun(run) # {}
  <2>1. found = ByRun(run) /\ run # None
    BY <1>1, <1>2 DEF ByRun
  <2>2. \A i \in ByRun(run) : i \in Open(rows) /\ rows[i].run = run
    BY DEF ByRun
  <2>3. \A i \in Open(rows) : RowIsOfOne(rows[i])
    BY DEF TableIsSound, Open
  <2> QED
    BY <2>1, <2>2, <2>3, <1>2 DEF RowIsOfOne, OneOpen, found
<1>3. CASE ByRun(run) = {} /\ Cardinality(ByKey(run, key)) = 1
  <2>1. found = ByKey(run, key)
    BY <1>1, <1>3
  <2>2. \E x : ByKey(run, key) = {x}
    BY <1>3, OpenIsFinite, OnlyOne
  <2> QED
    BY <2>1, <2>2, <1>3 DEF ByKey, found
<1>4. CASE ByRun(run) = {} /\ Cardinality(ByKey(run, key)) # 1
  BY <1>1, <1>4 DEF found
<1> QED
  BY <1>2, <1>3, <1>4

\* The same of the row a write of a pass goes to.
LEMMA TargetFits ==
    ASSUME TableIsSound(rows), NEW key \in Sessions, NEW run \in Runs \cup {None},
           run # None => SessionOf[run] = key, NEW src,
           \/ run # None /\ src = RunSource(run)
           \/ run = None /\ \E t \in 0..MaxChanges : src = SessionSource(key, t)
    PROVE  LET found == Target(rows, run, key, src)
           IN  /\ found \subseteq DOMAIN rows
               /\ \A i \in found : rows[i].key = key
               /\ run # None => \A i \in found : rows[i].run \in {run, None}
               /\ run = None \/ OneOpen(rows) => \A i, j \in found : i = j
               /\ ByRun(run) # {} => found = ByRun(run)
               /\ \A i \in found : \/ i \in Open(rows)
                                   \/ ByKey(run, key) = {} \/ Cardinality(ByKey(run, key)) # 1
<1> DEFINE open == OpenAttempt(rows, run, key)
           found == Target(rows, run, key, src)
<1>1. found = IF open # {} THEN open ELSE BySource(rows, src)
  BY DEF Target
<1>2. /\ open \subseteq Open(rows)
      /\ \A i \in open : rows[i].key = key
      /\ run # None => \A i \in open : rows[i].run \in {run, None}
      /\ run = None \/ OneOpen(rows) => \A i, j \in open : i = j
      /\ ByRun(run) # {} => open = ByRun(run)
      /\ open = {} => ByKey(run, key) = {} \/ Cardinality(ByKey(run, key)) # 1
  BY OpenAttemptFits
<1>3. Open(rows) \subseteq DOMAIN rows
  BY DEF Open
<1> HIDE DEF open, found
<1>4. CASE open # {}
  BY <1>1, <1>2, <1>3, <1>4 DEF found
<1>5. CASE open = {}
  <2>1. found = BySource(rows, src)
    BY <1>1, <1>5
  <2>2. \A i \in found : i \in DOMAIN rows /\ rows[i].src = src /\ RowIsOfOne(rows[i])
    BY <2>1 DEF BySource, TableIsSound
  <2>3. \A i, j \in found : i = j
    BY <2>2 DEF TableIsSound, OneRowPerSource
  <2>4. \A i \in found : rows[i].key = key /\ (run # None => rows[i].run = run)
    BY <2>2, AttemptsAssumption DEF RowIsOfOne
  <2> QED
    BY <1>2, <1>5, <2>2, <2>3, <2>4 DEF found
<1> QED
  BY <1>4, <1>5

-----------------------------------------------------------------------------
(* Events.                                                                  *)

LEMMA SourcesDiffer ==
    /\ \A r, k, t : RunSource(r) # SessionSource(k, t)
    /\ \A r, q : RunSource(r) = RunSource(q) => r = q
    /\ \A k, t, l, u : SessionSource(k, t) = SessionSource(l, u) => k = l
BY DEF RunSource, SessionSource

LEMMA RowIsTyped ==
    ASSUME NEW src \in Sources, NEW run \in Runs \cup {None}, NEW key \in Sessions,
           NEW state \in {"active", "terminal"}, NEW outcome \in Outcomes \cup {None, "unknown"}
    PROVE  LET row == Row(src, run, key, state, outcome)
           IN  /\ row \in RowType /\ row.src = src /\ row.run = run /\ row.key = key
               /\ row.state = state /\ row.outcome = outcome
BY DEF Row, RowType

\* An event leaves a sound table, and doubles no run.
LEMMA ObservedIsSound ==
    ASSUME IInv, NEW key \in Sessions, NEW run \in Runs \cup {None},
           run # None => SessionOf[run] = key,
           NEW state \in {"active", "terminal"}, NEW outcome \in Outcomes \cup {None, "unknown"},
           clock' \in 0..MaxChanges,
           state = "active" <=> outcome = None,
           outcome \in Outcomes => \E r \in Runs : SessionOf[r] = key /\ outcome \in verdicts'[r],
           \A r \in Runs : verdicts[r] \subseteq verdicts'[r],
           Observed(run, key, state, outcome)
    PROVE  /\ TableIsSound(rows') /\ TableIsTold(rows', verdicts') /\ refused' \in BOOLEAN
           /\ OneOpen(rows) => OneOpen(rows')
<1> DEFINE given  == IF run # None THEN RunSource(run) ELSE SessionSource(key, clock')
           found  == OpenAttempt(rows, run, key)
           target == IF found # {} \/ run = None THEN found ELSE BySource(rows, given)
           src    == IF target = {} THEN given ELSE rows[CHOOSE i \in target : TRUE].src
           w      == [id |-> target, row |-> Row(src, run, key, state, outcome)]
           base   == [ok |-> TRUE, rows |-> rows]
           batch  == Upsert(base, w)
<1>1. rows' = (IF batch.ok THEN batch.rows ELSE rows) /\ refused' = ~batch.ok
  <2>1. /\ rows' = (IF UpsertMany(<<w>>).ok THEN UpsertMany(<<w>>).rows ELSE rows)
        /\ refused' = ~UpsertMany(<<w>>).ok
    BY Zenon DEF Observed
  <2> HIDE DEF w, base
  <2>2. UpsertMany(<<w>>) = batch
    BY BatchOfOne DEF base
  <2> QED
    BY <2>1, <2>2, Zenon
<1>2. TableIsSound(rows) /\ TableIsTold(rows, verdicts)
  BY DEF IInv
<1>3. TableIsTold(rows, verdicts')
  <2>1. \A i \in DOMAIN rows : RowIsTold(rows[i], verdicts)
    BY <1>2 DEF TableIsTold
  <2>2. \A i \in DOMAIN rows : RowIsTold(rows[i], verdicts')
    BY <2>1 DEF RowIsTold
  <2> QED
    BY <2>2 DEF TableIsTold
<1>4. PICK i : PutAt(w, rows, i, batch, TRUE)
  <2>1. base.rows = rows /\ base.ok = TRUE /\ IsFiniteSet(DOMAIN base.rows)
    BY <1>2 DEF TableIsSound
  <2> HIDE DEF base, w, batch
  <2>2. \E i : PutAt(w, base.rows, i, Upsert(base, w), base.ok)
    BY <2>1, UpsertPuts
  <2> QED
    BY <2>1, <2>2 DEF batch
<1>5. /\ found \subseteq Open(rows)
      /\ \A j \in found : rows[j].key = key
      /\ run # None => \A j \in found : rows[j].run \in {run, None}
      /\ run = None \/ OneOpen(rows) => \A j, k \in found : j = k
      /\ ByRun(run) # {} => found = ByRun(run)
  BY <1>2, OpenAttemptFits
<1>6. Open(rows) \subseteq DOMAIN rows
  BY DEF Open
<1> HIDE DEF found, batch, base
<1>7. /\ target \subseteq DOMAIN rows
      /\ \A j \in target : rows[j].key = key
      /\ run # None => \A j \in target : rows[j].run \in {run, None}
      /\ run = None => target = found
      /\ ByRun(run) # {} => target = ByRun(run)
  <2>1. CASE found # {} \/ run = None
    BY <1>5, <1>6, <2>1
  <2>2. CASE found = {} /\ run # None
    <3>1. target = BySource(rows, RunSource(run)) /\ run \in Runs
      BY <2>2
    <3>2. \A j \in target : j \in DOMAIN rows /\ rows[j].run = run /\ rows[j].key = key
      BY <3>1, <2>2, <1>2, AttemptsAssumption DEF BySource, TableIsSound, RowIsOfOne
    <3> QED
      BY <1>5, <2>2, <3>2
  <2> QED
    BY <2>1, <2>2
<1>8. /\ given \in Sources
      /\ run # None => given = RunSource(run)
      /\ run = None => given = SessionSource(key, clock')
  BY DEF Sources
<1> HIDE DEF given, target
<1>9. /\ target # {} => i \in target /\ i \in DOMAIN rows /\ src = rows[i].src
      /\ target = {} => i \notin DOMAIN rows /\ src = given
  BY <1>4, <1>7 DEF PutAt
<1>10. src \in Sources
  BY <1>2, <1>8, <1>9 DEF TableIsSound, RowType
<1> HIDE DEF src
<1>11. /\ w.row \in RowType /\ w.row.src = src /\ w.row.run = run /\ w.row.key = key
       /\ w.row.state = state /\ w.row.outcome = outcome /\ w.id = target
  BY <1>10, RowIsTyped
<1> HIDE DEF w
<1>12. Suits(w, rows, i, verdicts')
  <2>1. RowIsTold(w.row, verdicts')
    BY <1>11 DEF RowIsTold
  <2>2. ASSUME NEW r \in Runs, src = RunSource(r)
        PROVE  run = r \/ (run = None /\ i \in DOMAIN rows /\ rows[i].run = r)
    <3>1. CASE target # {}
      <4>1. i \in target /\ i \in DOMAIN rows /\ rows[i].run = r
        BY <1>2, <1>9, <2>2, <3>1 DEF TableIsSound, RowIsOfOne
      <4>2. r # None
        BY AttemptsAssumption DEF None
      <4> QED
        BY <1>7, <4>1, <4>2
    <3>2. CASE target = {}
      BY <1>8, <1>9, <2>2, <3>2, SourcesDiffer
    <3> QED
      BY <3>1, <3>2
  <2>3. ASSUME NEW k \in Sessions, NEW t \in 0..MaxChanges, src = SessionSource(k, t)
        PROVE  key = k
    <3>1. CASE target # {}
      BY <1>2, <1>7, <1>9, <2>3, <3>1 DEF TableIsSound, RowIsOfOne
    <3>2. CASE target = {}
      BY <1>8, <1>9, <2>3, <3>2, SourcesDiffer
    <3> QED
      BY <3>1, <3>2
  <2>4. i \in DOMAIN rows => rows[i].key = key
    BY <1>7, <1>9
  <2> QED
    BY <1>11, <2>1, <2>2, <2>3, <2>4 DEF Suits
<1>13. CASE ~batch.ok
  BY <1>1, <1>2, <1>3, <1>13
<1>14. CASE batch.ok
  <2>1. rows' = batch.rows /\ refused' = FALSE
    BY <1>1, <1>14
  <2>2. TableIsSound(batch.rows) /\ TableIsTold(batch.rows, verdicts')
    BY <1>2, <1>3, <1>4, <1>12, <1>14, PutIsSound
  <2>3. ASSUME OneOpen(rows), NEW j \in Open(batch.rows), NEW k \in Open(batch.rows),
               batch.rows[j].run # None, batch.rows[j].run = batch.rows[k].run, j = i, k # i
        PROVE  FALSE
    <3> DEFINE r == batch.rows[k].run
    <3>1. k \in DOMAIN rows /\ batch.rows[k] = rows[k] /\ k \in Open(rows)
      BY <1>4, <2>3 DEF PutAt, Open
    <3>2. batch.rows[i].run = Coalesce(run, Old(rows, w, i).run)
      <4>1. batch.rows[i] = Merged(rows, w, i)
        BY <1>4 DEF PutAt
      <4> QED
        BY <1>2, <1>11, <1>12, <4>1, MergedIsSound
    <3>3. CASE run # None
      <4>1. batch.rows[i].run = run
        BY <3>2, <3>3 DEF Coalesce
      <4>2. k \in ByRun(run)
        BY <2>3, <3>1, <3>3, <4>1 DEF ByRun
      <4>3. i \in ByRun(run)
        BY <4>2, <1>7, <1>9
      <4> QED
        BY <4>2, <4>3, <2>3, <3>3 DEF ByRun, OneOpen
    <3>4. CASE run = None
      <4>1. batch.rows[i].run = Old(rows, w, i).run
        BY <3>2, <3>4 DEF Coalesce
      <4>2. CASE target = {}
        BY <1>9, <1>11, <2>3, <3>4, <4>1, <4>2 DEF Old
      <4>3. CASE target # {}
        <5>1. i \in found /\ i \in Open(rows) /\ Old(rows, w, i) = rows[i]
          BY <1>5, <1>7, <1>9, <3>4, <4>3 DEF Old
        <5> QED
          BY <2>3, <3>1, <4>1, <5>1 DEF OneOpen
      <4> QED
        BY <4>2, <4>3
    <3> QED
      BY <3>3, <3>4
  <2>4. ASSUME OneOpen(rows) PROVE OneOpen(batch.rows)
    <3>1. SUFFICES ASSUME NEW j \in Open(batch.rows), NEW k \in Open(batch.rows),
                          batch.rows[j].run # None, batch.rows[j].run = batch.rows[k].run,
                          j # k
                   PROVE  FALSE
      BY DEF OneOpen
    <3>2. CASE j = i
      BY <2>3, <2>4, <3>1, <3>2
    <3>3. CASE k = i
      BY <2>3, <2>4, <3>1, <3>3
    <3>4. CASE j # i /\ k # i
      <4>1. /\ j \in Open(rows) /\ rows[j] = batch.rows[j]
            /\ k \in Open(rows) /\ rows[k] = batch.rows[k]
        BY <1>4, <3>1, <3>4 DEF PutAt, Open
      <4> QED
        BY <2>4, <3>1, <4>1 DEF OneOpen
    <3> QED
      BY <3>2, <3>3, <3>4
  <2> QED
    BY <2>1, <2>2, <2>4
<1> QED
  BY <1>13, <1>14

-----------------------------------------------------------------------------
(* The writes of a pass.                                                    *)

SourceOf(s, r) == IF r = None THEN SessionSource(s.key, s.at) ELSE RunSource(r)

WriteOf(s, r) ==
    [id |-> Target(rows, r, s.key, SourceOf(s, r)),
     row |-> Row(SourceOf(s, r), r, s.key, "active", None)]

RefsOf(s) ==
    IF ~s.running \/ Ambiguous(s) # {} THEN {} ELSE IF s.runs = {} THEN {None} ELSE s.runs

PassWrites == FlattenSeq([i \in DOMAIN read |-> WritesOf(read[i])])

WritesFor(s) == {WriteOf(s, r) : r \in RefsOf(s)}

Written == UNION {WritesFor(s) : s \in ToSet(read)}

LEMMA WritesOfARow ==
    ASSUME NEW s, SeenIsSound(s)
    PROVE  /\ WritesOf(s) \in Seq(WritesFor(s))
           /\ ToSet(WritesOf(s)) = WritesFor(s)
<1> DEFINE refs == RefsOf(s)  n == Cardinality(refs)  W == WritesFor(s)
<1>1. IsFiniteSet(refs)
  BY AttemptsAssumption, FS_Singleton, FS_EmptySet, FS_Subset DEF RefsOf, SeenIsSound
<1>2. WritesOf(s) = [i \in 1..n |-> WriteOf(s, SetToSeq(refs)[i])]
  BY Zenon DEF WritesOf, WriteOf, SourceOf, RefsOf
<1> HIDE DEF refs
<1>3. /\ n \in Nat /\ SetToSeq(refs) \in [1..n -> refs]
      /\ \A x \in refs : \E i \in 1..n : SetToSeq(refs)[i] = x
  BY <1>1, ListedOnce
<1> HIDE DEF n
<1>4. \A i \in 1..n : WriteOf(s, SetToSeq(refs)[i]) \in W
  BY <1>3 DEF WritesFor, refs
<1>5. \A x \in W : \E i \in 1..n : WriteOf(s, SetToSeq(refs)[i]) = x
  BY <1>3 DEF WritesFor, refs
<1> HIDE DEF W
<1>6. WritesOf(s) \in Seq(W)
  BY <1>2, <1>3, <1>4
<1>7. ToSet(WritesOf(s)) = W
  BY <1>2, <1>4, <1>5 DEF ToSet
<1> QED
  BY <1>6, <1>7 DEF W, refs

LEMMA WritesOfThePass ==
    ASSUME ReadIsSound
    PROVE  PassWrites \in Seq(Written) /\ ToSet(PassWrites) = Written
<1> DEFINE seqs == [i \in DOMAIN read |-> WritesOf(read[i])]
<1>1. \A i \in DOMAIN read : read[i] \in ToSet(read) /\ SeenIsSound(read[i])
  BY DEF ReadIsSound, ToSet
<1>2. \A i \in DOMAIN read : /\ WritesOf(read[i]) \in Seq(Written)
                             /\ ToSet(WritesOf(read[i])) =
                                   WritesFor(read[i])
  <2>1. SUFFICES ASSUME NEW i \in DOMAIN read
                 PROVE  /\ WritesOf(read[i]) \in Seq(Written)
                        /\ ToSet(WritesOf(read[i])) =
                              WritesFor(read[i])
    OBVIOUS
  <2> DEFINE W == WritesFor(read[i])
  <2> HIDE DEF W
  <2>2. WritesOf(read[i]) \in Seq(W) /\ ToSet(WritesOf(read[i])) = W
    BY <1>1, WritesOfARow DEF W
  <2>3. W \subseteq Written
    BY <1>1 DEF Written, W
  <2>4. WritesOf(read[i]) \in Seq(Written)
    BY <2>2, <2>3
  <2> QED
    BY <2>2, <2>4 DEF W
<1>3. seqs \in Seq(Seq(Written)) /\ DOMAIN seqs = DOMAIN read
  BY <1>2 DEF ReadIsSound
<1>4. UNION {ToSet(seqs[i]) : i \in DOMAIN seqs} = Written
  <2>1. \A i \in DOMAIN read : ToSet(seqs[i]) = WritesFor(read[i])
    BY <1>2
  <2>2. ToSet(read) = {read[i] : i \in DOMAIN read}
    BY DEF ToSet
  <2> HIDE DEF seqs
  <2> QED
    BY <1>3, <2>1, <2>2 DEF Written
<1> HIDE DEF seqs
<1>5. FlattenSeq(seqs) \in Seq(Written) /\ ToSet(FlattenSeq(seqs)) = Written
  BY <1>3, <1>4, Flattened
<1> QED
  BY <1>5 DEF PassWrites, seqs

\* What a write of a pass is, and that it suits the row it goes to.
LEMMA WriteFits ==
    ASSUME IInv, NEW s \in ToSet(read), NEW r \in RefsOf(s)
    PROVE  LET w == WriteOf(s, r)
           IN  /\ s.running /\ Ambiguous(s) = {} /\ s.key \in Sessions
               /\ r \in Runs \cup {None} /\ (r # None => r \in s.runs /\ SessionOf[r] = s.key)
               /\ r = None => s.runs = {}
               /\ w.row \in RowType /\ w.row.src = SourceOf(s, r) /\ w.row.run = r
               /\ w.row.key = s.key /\ w.row.state = "active" /\ w.row.outcome = None
               /\ w.id = Target(rows, r, s.key, SourceOf(s, r))
               /\ w.id \subseteq DOMAIN rows /\ \A i \in w.id : rows[i].key = s.key
<1>1. SeenIsSound(s) /\ s.running /\ Ambiguous(s) = {} /\ r \in (IF s.runs = {} THEN {None} ELSE s.runs)
  BY DEF IInv, ReadIsSound, RefsOf
<1>2. /\ s.key \in Sessions /\ s.at \in 0..MaxChanges
      /\ r \in Runs \cup {None} /\ (r # None => r \in s.runs /\ SessionOf[r] = s.key)
  BY <1>1 DEF SeenIsSound
<1>3. r = None => s.runs = {}
  BY <1>1, AttemptsAssumption DEF SeenIsSound, None
<1> DEFINE src == SourceOf(s, r)
<1>4. /\ src \in Sources
      /\ \/ r # None /\ src = RunSource(r)
         \/ r = None /\ \E t \in 0..MaxChanges : src = SessionSource(s.key, t)
  BY <1>2 DEF SourceOf, Sources
<1> HIDE DEF src
<1>5. LET row == Row(src, r, s.key, "active", None)
      IN  /\ row \in RowType /\ row.src = src /\ row.run = r /\ row.key = s.key
          /\ row.state = "active" /\ row.outcome = None
  BY <1>2, <1>4, RowIsTyped
<1>6. LET found == Target(rows, r, s.key, src)
      IN  found \subseteq DOMAIN rows /\ \A i \in found : rows[i].key = s.key
  BY <1>2, <1>4, TargetFits DEF IInv
<1>7. WriteOf(s, r) = [id |-> Target(rows, r, s.key, src), row |-> Row(src, r, s.key, "active", None)]
  BY DEF WriteOf, src
<1> QED
  BY <1>1, <1>2, <1>3, <1>5, <1>6, <1>7 DEF src

-----------------------------------------------------------------------------
(* What the writes that are done left.                                      *)

\* A row as the last write to it left it: its run is the write's, or, when that
\* names none and no session was read in two ways, the one it had before the pass.
LeftBy(w, table, j) ==
    /\ table[j].src = w.row.src /\ table[j].key = w.row.key /\ table[j].state = "active"
    /\ IF w.id = {} THEN j \notin DOMAIN rows ELSE j \in w.id
    /\ w.row.run # None => table[j].run = w.row.run
    /\ w.row.run = None /\ ~ReadInTwoWays =>
          table[j].run = IF w.id = {} THEN None ELSE rows[j].run

Done(D, table) ==
    /\ TableIsSound(table) /\ TableIsTold(table, verdicts)
    /\ DOMAIN rows \subseteq DOMAIN table
    /\ \A j \in DOMAIN rows : table[j].key = rows[j].key
    /\ \A j \in DOMAIN table : \/ j \in DOMAIN rows /\ table[j] = rows[j]
                               \/ \E w \in D : LeftBy(w, table, j)
    /\ \A w \in D : \E j \in DOMAIN table :
          /\ \E u \in D : LeftBy(u, table, j)
          /\ table[j].key = w.row.key
          /\ w.id # {} => j = (CHOOSE i \in w.id : TRUE)

LEMMA OneMoreIsDone ==
    ASSUME IInv, NEW D \in SUBSET Written, NEW table, Done(D, table), NEW w \in Written,
           NEW i, NEW b, NEW ok, PutAt(w, table, i, b, ok), b.ok
    PROVE  Done(D \cup {w}, b.rows) /\ ok
<1>20. PICK s \in ToSet(read) : \E r \in RefsOf(s) : w = WriteOf(s, r)
  BY DEF Written, WritesFor
<1>1. PICK r \in RefsOf(s) : w = WriteOf(s, r)
  BY <1>20
<1>2. /\ s.running /\ s.key \in Sessions
      /\ r \in Runs \cup {None} /\ (r # None => r \in s.runs /\ SessionOf[r] = s.key)
      /\ r = None => s.runs = {}
      /\ w.row \in RowType /\ w.row.src = SourceOf(s, r) /\ w.row.run = r
      /\ w.row.key = s.key /\ w.row.state = "active" /\ w.row.outcome = None
      /\ w.id \subseteq DOMAIN rows /\ \A j \in w.id : rows[j].key = s.key
  BY <1>1, WriteFits
<1>3. /\ TableIsSound(table) /\ TableIsTold(table, verdicts)
      /\ DOMAIN rows \subseteq DOMAIN table
      /\ \A j \in DOMAIN rows : table[j].key = rows[j].key
  BY DEF Done
<1>4. /\ w.id # {} => i = (CHOOSE j \in w.id : TRUE) /\ i \in w.id
      /\ w.id = {} => i \notin DOMAIN table
      /\ DOMAIN b.rows = DOMAIN table \cup {i}
      /\ \A j \in DOMAIN table : j # i => b.rows[j] = table[j]
      /\ b.rows[i] = Merged(table, w, i)
  BY DEF PutAt
<1>5. i \in DOMAIN table => table[i].key = w.row.key /\ i \in DOMAIN rows /\ i \in w.id
  BY <1>2, <1>3, <1>4
<1>6. Suits(w, table, i, verdicts)
  <2>1. RowIsTold(w.row, verdicts)
    BY <1>2 DEF RowIsTold, Outcomes, None
  <2>2. \A q \in Runs : w.row.src = RunSource(q) => r = q
    BY <1>2, SourcesDiffer DEF SourceOf
  <2>3. \A k \in Sessions, t \in 0..MaxChanges : w.row.src = SessionSource(k, t) => s.key = k
    BY <1>2, SourcesDiffer DEF SourceOf
  <2> QED
    BY <1>2, <1>5, <2>1, <2>2, <2>3 DEF Suits
<1>7. TableIsSound(b.rows) /\ TableIsTold(b.rows, verdicts) /\ ok
  BY <1>3, <1>6, PutIsSound
<1>8. /\ b.rows[i].src = w.row.src /\ b.rows[i].key = w.row.key
      /\ b.rows[i].state = "active" /\ b.rows[i].run = Coalesce(r, Old(table, w, i).run)
  BY <1>2, <1>3, <1>4, <1>6, MergedIsSound
<1> DEFINE t == b.rows
<1> HIDE DEF t
<1>9. LeftBy(w, t, i)
  <2>1. IF w.id = {} THEN i \notin DOMAIN rows ELSE i \in w.id
    BY <1>3, <1>4
  <2>2. r # None => t[i].run = r
    BY <1>8 DEF Coalesce, t
  <2>3. ASSUME r = None, ~ReadInTwoWays
        PROVE  t[i].run = IF w.id = {} THEN None ELSE rows[i].run
    <3>1. t[i].run = Old(table, w, i).run
      BY <1>8, <2>3 DEF Coalesce, t
    <3>2. CASE w.id = {}
      BY <1>2, <1>4, <2>3, <3>1, <3>2 DEF Old
    <3>3. CASE w.id # {}
      <4>1. i \in w.id /\ i \in DOMAIN rows /\ i \in DOMAIN table
        BY <1>2, <1>3, <1>4, <3>3
      <4>2. Old(table, w, i) = table[i]
        BY <4>1 DEF Old
      <4>3. table[i].run = rows[i].run
        <5>1. CASE table[i] = rows[i]
          BY <5>1
        <5>2. ASSUME NEW u \in D, LeftBy(u, table, i) PROVE table[i].run = rows[i].run
          <6>20. PICK x \in ToSet(read) : \E q \in RefsOf(x) : u = WriteOf(x, q)
            BY DEF Written, WritesFor
          <6>1. PICK q \in RefsOf(x) : u = WriteOf(x, q)
            BY <6>20
          <6>2. /\ x.running /\ (q # None => q \in x.runs)
                /\ u.row.run = q /\ u.row.key = x.key
            BY <6>1, WriteFits
          <6>3. u.id # {} /\ x.key = s.key
            BY <1>2, <1>3, <4>1, <5>2, <6>2 DEF LeftBy
          <6>4. CASE q # None
            <7>1. s.runs = {} /\ q \in x.runs
              BY <1>2, <2>3, <6>2, <6>4
            <7>2. ReadInTwoWays
              BY <1>2, <6>2, <6>3, <7>1 DEF ReadInTwoWays
            <7> QED
              BY <2>3, <7>2
          <6>5. CASE q = None
            BY <2>3, <5>2, <6>2, <6>3, <6>5 DEF LeftBy
          <6> QED
            BY <6>4, <6>5
        <5> QED
          BY <4>1, <5>1, <5>2 DEF Done
      <4> QED
        BY <3>1, <3>3, <4>2, <4>3
    <3> QED
      BY <3>2, <3>3
  <2> QED
    BY <1>2, <1>8, <2>1, <2>2, <2>3 DEF LeftBy, t
<1>10. \A j \in DOMAIN table, u \in D : j # i /\ LeftBy(u, table, j) => LeftBy(u, t, j)
  BY <1>4 DEF LeftBy, t
<1>11. DOMAIN rows \subseteq DOMAIN t /\ \A j \in DOMAIN rows : t[j].key = rows[j].key
  BY <1>3, <1>4, <1>5, <1>8 DEF t
<1>12. \A j \in DOMAIN t : \/ j \in DOMAIN rows /\ t[j] = rows[j]
                           \/ \E u \in D \cup {w} : LeftBy(u, t, j)
  <2>1. SUFFICES ASSUME NEW j \in DOMAIN t, j # i
                 PROVE  \/ j \in DOMAIN rows /\ t[j] = rows[j]
                        \/ \E u \in D \cup {w} : LeftBy(u, t, j)
    BY <1>9
  <2>2. j \in DOMAIN table /\ t[j] = table[j]
    BY <1>4, <2>1 DEF t
  <2>3. \/ j \in DOMAIN rows /\ table[j] = rows[j]
        \/ \E u \in D : LeftBy(u, table, j)
    BY <2>2 DEF Done
  <2> QED
    BY <1>10, <2>1, <2>2, <2>3
<1>13. \A v \in D \cup {w} : \E j \in DOMAIN t :
          /\ \E u \in D \cup {w} : LeftBy(u, t, j)
          /\ t[j].key = v.row.key
          /\ v.id # {} => j = (CHOOSE k \in v.id : TRUE)
  <2>1. CASE TRUE
    <3>1. i \in DOMAIN t /\ t[i].key = w.row.key
      BY <1>4, <1>8 DEF t
    <3>2. \E j \in DOMAIN t :
             /\ \E u \in D \cup {w} : LeftBy(u, t, j)
             /\ t[j].key = w.row.key
             /\ w.id # {} => j = (CHOOSE k \in w.id : TRUE)
      BY <1>4, <1>9, <3>1
    <3>3. ASSUME NEW v \in D
          PROVE  \E j \in DOMAIN t :
                    /\ \E u \in D \cup {w} : LeftBy(u, t, j)
                    /\ t[j].key = v.row.key
                    /\ v.id # {} => j = (CHOOSE k \in v.id : TRUE)
      <4>1. PICK j \in DOMAIN table :
               /\ \E u \in D : LeftBy(u, table, j)
               /\ table[j].key = v.row.key
               /\ v.id # {} => j = (CHOOSE k \in v.id : TRUE)
        BY DEF Done
      <4>2. CASE j = i
        <5>1. t[i].key = v.row.key
          BY <1>5, <1>8, <4>1, <4>2 DEF t
        <5> QED
          BY <1>9, <3>1, <4>1, <4>2, <5>1
      <4>3. CASE j # i
        <5>1. j \in DOMAIN t /\ t[j] = table[j] /\ \E u \in D : LeftBy(u, t, j)
          BY <1>4, <1>10, <4>1, <4>3 DEF t
        <5> QED
          BY <4>1, <5>1
      <4> QED
        BY <4>2, <4>3
    <3> QED
      BY <3>2, <3>3
  <2> QED
    BY <2>1
<1> QED
  BY <1>7, <1>11, <1>12, <1>13 DEF Done, t

\* When the batch goes through, all of it is done.
LEMMA BatchIsDone ==
    ASSUME IInv, UpsertMany(PassWrites).ok
    PROVE  Done(Written, UpsertMany(PassWrites).rows)
<1>7. \A n \in Nat : n + 1 \in Nat
  OBVIOUS
<1> DEFINE W == PassWrites  len == Len(W)
<1>1. W \in Seq(Written) /\ ToSet(W) = Written /\ len \in Nat
  BY WritesOfThePass DEF IInv
<1>2. PICK after : /\ after[0] = [ok |-> TRUE, rows |-> rows]
                   /\ \A n \in 1..len : after[n] = Upsert(after[n - 1], W[n])
                   /\ UpsertMany(W) = after[len]
  BY <1>1, BatchIsStepwise
<1> HIDE DEF len, W
<1> DEFINE T == {n \in Nat : n <= len =>
                    /\ IsFiniteSet(DOMAIN after[n].rows)
                    /\ after[n].ok => Done({W[m] : m \in 1..n}, after[n].rows)}
<1>3. 0 \in T
  <2>1. after[0].rows = rows /\ {W[m] : m \in 1..0} = {}
    BY <1>2
  <2>2. TableIsSound(rows) /\ TableIsTold(rows, verdicts)
    BY DEF IInv
  <2>3. Done({}, rows) /\ IsFiniteSet(DOMAIN rows)
    BY <2>2 DEF Done, TableIsSound
  <2> QED
    BY <2>1, <2>3
<1>4. \A n \in Nat : n \in T => n + 1 \in T
  <2>1. SUFFICES ASSUME NEW n \in Nat, n \in T, n + 1 <= len
                 PROVE  /\ IsFiniteSet(DOMAIN after[n + 1].rows)
                        /\ after[n + 1].ok => Done({W[m] : m \in 1..(n + 1)}, after[n + 1].rows)
    BY <1>7, Zenon
  <2>2. /\ n <= len /\ n + 1 \in 1..len /\ n + 1 - 1 = n
        /\ IsFiniteSet(DOMAIN after[n].rows)
        /\ after[n].ok => Done({W[m] : m \in 1..n}, after[n].rows)
    BY <1>1, <2>1
  <2> DEFINE w == W[n + 1]  a == after[n]  b == after[n + 1]  D == {W[m] : m \in 1..n}
  <2>3. b = Upsert(a, w)
    BY <1>2, <2>2
  <2>4. w \in Written /\ D \in SUBSET Written /\ {W[m] : m \in 1..(n + 1)} = D \cup {w}
    <3>1. \A m \in 1..len : W[m] \in Written
      BY <1>1 DEF len
    <3>2. \A m \in 1..(n + 1) : m = n + 1 \/ m \in 1..n
      OBVIOUS
    <3>3. \A m \in 1..n : m \in 1..len /\ m \in 1..(n + 1)
      BY <1>1, <2>1
    <3>4. n + 1 \in 1..(n + 1)
      OBVIOUS
    <3> QED
      BY <2>2, <3>1, <3>2, <3>3, <3>4
  <2> HIDE DEF w, a, b, D
  <2>5. PICK i : PutAt(w, a.rows, i, b, a.ok)
    BY <2>2, <2>3, UpsertPuts DEF a
  <2>6. IsFiniteSet(DOMAIN b.rows)
    <3>1. DOMAIN b.rows = DOMAIN a.rows \cup {i}
      BY <2>5 DEF PutAt
    <3> QED
      BY <2>2, <3>1, FS_AddElement DEF a
  <2>7. ASSUME b.ok PROVE Done(D \cup {w}, b.rows)
    <3>1. a.ok
      BY <2>5, <2>7 DEF PutAt
    <3>2. Done(D, a.rows)
      BY <2>2, <3>1 DEF a, D
    <3> QED
      BY <2>4, <2>5, <2>7, <3>2, OneMoreIsDone
  <2> QED
    BY <2>4, <2>6, <2>7 DEF b
<1>5. len \in T
  <2> HIDE DEF T
  <2> QED
    BY <1>1, <1>3, <1>4, ByNumbers
<1>6. {W[m] : m \in 1..len} = Written
  BY <1>1 DEF ToSet, len
<1> QED
  <2>1. len <= len
    BY <1>1
  <2> QED
    BY <1>2, <1>5, <1>6, <2>1 DEF W

-----------------------------------------------------------------------------
(* The end of a pass.                                                       *)

\* A session without several open attempts has one at most.
LEMMA NotAmbiguous ==
    ASSUME IInv, NEW s \in ToSet(read), s.running, s.runs = {}, s.key \in Sessions,
           Ambiguous(s) = {}, NEW i \in Open(rows), rows[i].key = s.key
    PROVE  i \in ByKey(None, s.key) /\ Cardinality(ByKey(None, s.key)) = 1
<1> DEFINE K == ByKey(None, s.key)
<1>1. K = {j \in Open(rows) : rows[j].key = s.key}
  BY AttemptsAssumption DEF ByKey, None
<1>2. IsFiniteSet(K) /\ i \in K
  BY <1>1, OpenIsFinite DEF IInv
<1>3. ~(Cardinality(K) > 1)
  <2> HIDE DEF K
  <2>1. i \notin Ambiguous(s)
    OBVIOUS
  <2> QED
    BY <1>1, <2>1 DEF Ambiguous
<1> HIDE DEF K
<1>4. Cardinality(K) \in Nat /\ Cardinality(K) # 0
  BY <1>2, FS_CardinalityType, FS_EmptySet
<1> QED
  BY <1>2, <1>3, <1>4 DEF K

\* A pass that reads no session in two ways doubles no run.
LEMMA PassDoublesNothing ==
    ASSUME IInv, OneOpen(rows), ~ReadInTwoWays, NEW table, Done(Written, table)
    PROVE  OneOpen(table)
<1> DEFINE Left(i) == \E w \in Written : LeftBy(w, table, i)
<1>1. SUFFICES ASSUME NEW i \in Open(table), NEW j \in Open(table), i # j,
                      table[i].run # None, table[i].run = table[j].run
               PROVE  FALSE
  BY DEF OneOpen
<1>2. /\ TableIsSound(rows) /\ TableIsSound(table) /\ i \in DOMAIN table /\ j \in DOMAIN table
      /\ Open(rows) \subseteq DOMAIN rows
  BY DEF IInv, Done, Open
<1>3. ASSUME NEW w \in Written
      PROVE  \E s \in ToSet(read) : \E r \in RefsOf(s) :
                /\ w = WriteOf(s, r) /\ s.running /\ s.key \in Sessions /\ Ambiguous(s) = {}
                /\ r \in Runs \cup {None} /\ (r # None => r \in s.runs /\ SessionOf[r] = s.key)
                /\ r = None => s.runs = {}
                /\ w.row.src = SourceOf(s, r) /\ w.row.run = r /\ w.row.key = s.key
                /\ r = None \/ OneOpen(rows) => \A k, l \in w.id : k = l
                /\ ByRun(r) # {} => w.id = ByRun(r)
                /\ \A k \in w.id : \/ k \in Open(rows)
                                   \/ ByKey(r, s.key) = {} \/ Cardinality(ByKey(r, s.key)) # 1
  <2>1. PICK s \in ToSet(read) : \E r \in RefsOf(s) : w = WriteOf(s, r)
    BY DEF Written, WritesFor
  <2>2. PICK r \in RefsOf(s) : w = WriteOf(s, r)
    BY <2>1
  <2>3. /\ s.running /\ s.key \in Sessions /\ Ambiguous(s) = {}
        /\ r \in Runs \cup {None} /\ (r # None => r \in s.runs /\ SessionOf[r] = s.key)
        /\ r = None => s.runs = {}
        /\ w.row.src = SourceOf(s, r) /\ w.row.run = r /\ w.row.key = s.key
        /\ w.id = Target(rows, r, s.key, SourceOf(s, r))
    BY <2>2, WriteFits
  <2>4. \/ r # None /\ SourceOf(s, r) = RunSource(r)
        \/ r = None /\ \E t \in 0..MaxChanges : SourceOf(s, r) = SessionSource(s.key, t)
    BY <2>3 DEF IInv, ReadIsSound, SeenIsSound, SourceOf
  <2>5. LET found == Target(rows, r, s.key, SourceOf(s, r))
        IN  /\ r = None \/ OneOpen(rows) => \A k, l \in found : k = l
            /\ ByRun(r) # {} => found = ByRun(r)
            /\ \A k \in found : \/ k \in Open(rows)
                                \/ ByKey(r, s.key) = {} \/ Cardinality(ByKey(r, s.key)) # 1
    BY <1>2, <2>3, <2>4, TargetFits
  <2> QED
    BY <2>2, <2>3, <2>5
<1>4. ASSUME NEW k \in Open(table), NEW l \in Open(table), k # l,
             table[k].run # None, table[k].run = table[l].run, ~Left(k)
      PROVE  FALSE
  <2> DEFINE r == table[k].run
  <2>1. k \in DOMAIN rows /\ table[k] = rows[k] /\ k \in Open(rows) /\ rows[k].run = r
    BY <1>4 DEF Done, Open
  <2>2. CASE ~Left(l)
    <3>1. l \in DOMAIN rows /\ table[l] = rows[l] /\ l \in Open(rows)
      BY <2>2 DEF Done, Open
    <3> QED
      BY <1>4, <2>1, <3>1 DEF OneOpen
  <2>3. ASSUME NEW w \in Written, LeftBy(w, table, l) PROVE FALSE
    <3>1. PICK s \in ToSet(read) : \E q \in RefsOf(s) :
                /\ w = WriteOf(s, q) /\ s.running /\ s.key \in Sessions /\ Ambiguous(s) = {}
                /\ q = None => s.runs = {}
                /\ w.row.run = q /\ w.row.key = s.key
                /\ \A x, y \in w.id : x = y
                /\ ByRun(q) # {} => w.id = ByRun(q)
                /\ \A x \in w.id : \/ x \in Open(rows)
                                   \/ ByKey(q, s.key) = {} \/ Cardinality(ByKey(q, s.key)) # 1
      BY <1>3
    <3>2. PICK q \in RefsOf(s) :
                /\ q = None => s.runs = {}
                /\ w.row.run = q /\ w.row.key = s.key
                /\ \A x, y \in w.id : x = y
                /\ ByRun(q) # {} => w.id = ByRun(q)
                /\ \A x \in w.id : \/ x \in Open(rows)
                                   \/ ByKey(q, s.key) = {} \/ Cardinality(ByKey(q, s.key)) # 1
      BY <3>1
    <3>3. CASE q # None
      <4>1. q = r
        BY <1>4, <2>3, <3>2, <3>3 DEF LeftBy
      <4>2. k \in ByRun(q)
        BY <2>1, <3>3, <4>1 DEF ByRun
      <4>3. l \in w.id /\ k \in w.id
        BY <2>3, <3>2, <4>2 DEF LeftBy
      <4> QED
        BY <1>4, <3>2, <4>3
    <3>4. CASE q = None
      <4>1. w.id # {} /\ l \in w.id /\ rows[l].run = r /\ l \in DOMAIN rows
        <5>1. table[l].run = IF w.id = {} THEN None ELSE rows[l].run
          BY <2>3, <3>2, <3>4 DEF LeftBy
        <5>2. w.id # {} /\ l \in w.id /\ rows[l].run = r
          BY <1>4, <2>3, <5>1 DEF LeftBy
        <5>3. w.id \subseteq DOMAIN rows
          BY <3>1, WriteFits
        <5> QED
          BY <5>2, <5>3
      <4>2. l \notin Open(rows)
        BY <1>4, <2>1, <4>1 DEF OneOpen
      <4>3. rows[k].key = s.key
        <5>1. rows[k].key = SessionOf[r] /\ rows[l].key = SessionOf[r]
          BY <1>2, <1>4, <2>1, <4>1 DEF TableIsSound, RowIsOfOne
        <5>2. rows[l].key = s.key
          BY <3>1, <4>1, WriteFits
        <5> QED
          BY <5>1, <5>2
      <4>4. k \in ByKey(None, s.key) /\ Cardinality(ByKey(None, s.key)) = 1
        BY <2>1, <3>1, <3>2, <3>4, <4>3, NotAmbiguous
      <4> QED
        BY <3>2, <3>4, <4>1, <4>2, <4>4
    <3> QED
      BY <3>3, <3>4
  <2> QED
    BY <2>2, <2>3
<1>5. Left(i) /\ Left(j)
  BY <1>1, <1>4
<1>6. PICK w \in Written, u \in Written : LeftBy(w, table, i) /\ LeftBy(u, table, j)
  BY <1>5
<1>7. PICK s \in ToSet(read) : \E q \in RefsOf(s) :
          /\ w = WriteOf(s, q) /\ s.running /\ (q # None => q \in s.runs)
          /\ q = None => s.runs = {}
          /\ w.row.src = SourceOf(s, q) /\ w.row.run = q /\ w.row.key = s.key
          /\ \A x, y \in w.id : x = y
  BY <1>3
<1>8. PICK q \in RefsOf(s) :
          /\ w = WriteOf(s, q) /\ (q # None => q \in s.runs)
          /\ q = None => s.runs = {}
          /\ w.row.src = SourceOf(s, q) /\ w.row.run = q /\ w.row.key = s.key
          /\ \A x, y \in w.id : x = y
  BY <1>7
<1>9. PICK v \in ToSet(read) : \E p \in RefsOf(v) :
          /\ u = WriteOf(v, p) /\ v.running /\ (p # None => p \in v.runs)
          /\ p = None => v.runs = {}
          /\ u.row.src = SourceOf(v, p) /\ u.row.run = p /\ u.row.key = v.key
  BY <1>3
<1>10. PICK p \in RefsOf(v) :
          /\ u = WriteOf(v, p) /\ (p # None => p \in v.runs)
          /\ p = None => v.runs = {}
          /\ u.row.src = SourceOf(v, p) /\ u.row.run = p /\ u.row.key = v.key
  BY <1>9
<1>11. s.key = v.key
  <2>1. table[i].key = s.key /\ table[j].key = v.key
    BY <1>6, <1>8, <1>10 DEF LeftBy
  <2>2. table[i].key = SessionOf[table[i].run] /\ table[j].key = SessionOf[table[j].run]
    BY <1>1, <1>2 DEF TableIsSound, RowIsOfOne
  <2> QED
    BY <1>1, <2>1, <2>2
<1>12. CASE q # None /\ p # None
  <2>1. q = p /\ table[i].src = table[j].src
    BY <1>1, <1>6, <1>8, <1>10, <1>12 DEF LeftBy, SourceOf
  <2> QED
    BY <1>1, <1>2, <2>1 DEF TableIsSound, OneRowPerSource
<1>13. CASE q # None /\ p = None
  BY <1>7, <1>8, <1>9, <1>10, <1>11, <1>13 DEF ReadInTwoWays
<1>14. CASE q = None /\ p # None
  BY <1>7, <1>8, <1>9, <1>10, <1>11, <1>14 DEF ReadInTwoWays
<1>15. CASE q = None /\ p = None
  <2>1. s = v
    BY <1>7, <1>8, <1>9, <1>10, <1>11, <1>15 DEF ReadInTwoWays
  <2>2. w = u
    BY <1>8, <1>10, <1>15, <2>1
  <2>3. w.id # {} /\ i \in w.id /\ j \in w.id
    BY <1>1, <1>6, <1>8, <1>15, <2>2 DEF LeftBy
  <2> QED
    BY <1>1, <1>8, <2>3
<1> QED
  BY <1>12, <1>13, <1>14, <1>15

\* What is closed stays as sound as it was.
LEMMA ClosedIsSound ==
    ASSUME NEW table, NEW told, TableIsSound(table), TableIsTold(table, told), NEW keep
    PROVE  LET c == Closed(table, keep)
           IN  /\ TableIsSound(c) /\ TableIsTold(c, told) /\ (OneOpen(table) => OneOpen(c))
               /\ DOMAIN c = DOMAIN table
               /\ \A i \in Open(table) : table[i].src \in keep => i \in Open(c) /\ c[i] = table[i]
<1> DEFINE c == Closed(table, keep)
<1>1. /\ DOMAIN c = DOMAIN table
      /\ \A i \in DOMAIN table :
            c[i] = IF i \in Open(table) /\ table[i].key # None /\ table[i].src \notin keep
                   THEN [table[i] EXCEPT !.state = "terminal", !.outcome = "unknown"] ELSE table[i]
  BY DEF Closed
<1> HIDE DEF c
<1>2. \A i \in DOMAIN table : table[i] \in RowType /\ RowIsOfOne(table[i]) /\ RowIsTold(table[i], told)
  BY DEF TableIsSound, TableIsTold
<1>3. ASSUME NEW i \in DOMAIN table
      PROVE  /\ c[i] \in RowType /\ c[i].src = table[i].src /\ c[i].run = table[i].run
             /\ c[i].key = table[i].key
             /\ c[i] = table[i] \/ (c[i].state = "terminal" /\ c[i].outcome = "unknown")
  <2>1. CASE c[i] = table[i]
    BY <1>2, <2>1
  <2>2. CASE c[i] = [table[i] EXCEPT !.state = "terminal", !.outcome = "unknown"]
    BY <1>2, <2>2 DEF RowType
  <2> QED
    BY <1>1, <2>1, <2>2
<1>4. \A i \in DOMAIN table : RowIsOfOne(c[i]) /\ RowIsTold(c[i], told)
  BY <1>2, <1>3 DEF RowIsOfOne, RowIsTold, Outcomes, None
<1>5. TableIsSound(c) /\ TableIsTold(c, told)
  BY <1>1, <1>3, <1>4 DEF TableIsSound, TableIsTold, OneRowPerSource
<1>6. \A i \in Open(c) : i \in Open(table) /\ c[i] = table[i]
  BY <1>1, <1>3 DEF Open
<1>7. \A i \in Open(table) : table[i].src \in keep => i \in Open(c) /\ c[i] = table[i]
  BY <1>1 DEF Open
<1> QED
  BY <1>1, <1>5, <1>6, <1>7 DEF OneOpen, c

LEMMA EndOfPassIsSound ==
    ASSUME IInv, EndPass
    PROVE  /\ TableIsSound(rows') /\ TableIsTold(rows', verdicts) /\ refused' \in BOOLEAN
           /\ OneOpen(rows) /\ ~ReadInTwoWays => OneOpen(rows')
           /\ ~refused' => \A s \in ToSet(read) : s.running =>
                              \E i \in Open(rows') : rows'[i].key = s.key
<1> DEFINE W == PassWrites  batch == UpsertMany(W)  t == batch.rows  keep == Kept(W)
<1>1. /\ rows' = (IF batch.ok THEN Closed(t, keep) ELSE rows)
      /\ refused' = ~batch.ok
  BY Zenon DEF EndPass, PassWrites
<1>2. TableIsSound(rows) /\ TableIsTold(rows, verdicts) /\ ReadIsSound
  BY DEF IInv
<1>3. CASE ~batch.ok
  BY <1>1, <1>2, <1>3
<1>4. CASE batch.ok
  <2>1. Done(Written, t)
    BY <1>4, BatchIsDone
  <2>2. TableIsSound(t) /\ TableIsTold(t, verdicts)
    BY <2>1 DEF Done
  <2>3. rows' = Closed(t, keep) /\ refused' = FALSE
    BY <1>1, <1>4
  <2>4. ToSet(W) = Written
    BY <1>2, WritesOfThePass
  <2> HIDE DEF W, batch, t
  <2>5. OneOpen(rows) /\ ~ReadInTwoWays => OneOpen(t)
    BY <2>1, PassDoublesNothing
  <2>6. /\ \A w \in Written : w.row.src \in keep
        /\ \A s \in ToSet(read) : \A i \in Ambiguous(s) : rows[i].src \in keep
    BY <2>4 DEF Kept
  <2> HIDE DEF keep
  <2>7. /\ TableIsSound(rows') /\ TableIsTold(rows', verdicts) /\ (OneOpen(t) => OneOpen(rows'))
        /\ \A i \in Open(t) : t[i].src \in keep => i \in Open(rows') /\ rows'[i] = t[i]
    BY <2>2, <2>3, ClosedIsSound
  <2>8. \A w \in Written, i \in DOMAIN t : LeftBy(w, t, i) => i \in Open(t) /\ t[i].src \in keep
    BY <2>6 DEF LeftBy, Open
  <2>9. ASSUME NEW s \in ToSet(read), s.running
        PROVE  \E i \in Open(rows') : rows'[i].key = s.key
    <3>1. CASE Ambiguous(s) # {}
      <4>1. PICK i \in Ambiguous(s) : TRUE
        BY <3>1
      <4>2. i \in DOMAIN rows /\ i \in Open(rows) /\ rows[i].key = s.key /\ rows[i].src \in keep
        BY <2>6, <4>1 DEF Ambiguous, Open
      <4>3. i \in DOMAIN t /\ t[i].key = s.key
        BY <2>1, <4>2 DEF Done
      <4>4. i \in Open(t) /\ t[i].src \in keep
        <5>1. CASE t[i] = rows[i]
          BY <4>2, <4>3, <5>1 DEF Open
        <5>2. CASE \E w \in Written : LeftBy(w, t, i)
          BY <2>8, <4>3, <5>2
        <5> QED
          BY <2>1, <4>3, <5>1, <5>2 DEF Done
      <4> QED
        BY <2>7, <4>3, <4>4
    <3>2. CASE Ambiguous(s) = {}
      <4>1. PICK r : r \in RefsOf(s)
        BY <2>9, <3>2 DEF RefsOf
      <4>2. WriteOf(s, r) \in Written /\ WriteOf(s, r).row.key = s.key
        BY <4>1, WriteFits DEF Written, WritesFor
      <4>3. PICK j \in DOMAIN t : /\ \E u \in Written : LeftBy(u, t, j)
                                  /\ t[j].key = WriteOf(s, r).row.key
        BY <2>1, <4>2 DEF Done
      <4>4. j \in Open(t) /\ t[j].src \in keep
        BY <2>8, <4>3
      <4> QED
        BY <2>7, <4>2, <4>3, <4>4
    <3> QED
      BY <3>1, <3>2
  <2> QED
    BY <2>3, <2>5, <2>7, <2>9
<1> QED
  BY <1>3, <1>4

-----------------------------------------------------------------------------
(* Every step.                                                              *)

TableGoesOn == /\ TableIsSound(rows') /\ TableIsTold(rows', verdicts') /\ refused' \in BOOLEAN
               /\ OneOpen(rows) => OneOpen(rows')

LEMMA ToldStaysTold ==
    ASSUME NEW table, NEW told, NEW more, TableIsTold(table, told),
           \A r \in Runs : told[r] \subseteq more[r]
    PROVE  TableIsTold(table, more)
<1>1. \A i \in DOMAIN table : RowIsTold(table[i], told)
  BY DEF TableIsTold
<1>2. \A i \in DOMAIN table : RowIsTold(table[i], more)
  BY <1>1 DEF RowIsTold
<1> QED
  BY <1>2 DEF TableIsTold

LEMMA NotifiedIsSound ==
    ASSUME IInv, NEW r \in Runs,
           NEW state \in {"active", "terminal"}, NEW outcome \in Outcomes \cup {None, "unknown"},
           clock' \in 0..MaxChanges,
           state = "active" <=> outcome = None,
           outcome \in Outcomes => outcome \in verdicts'[r],
           \A q \in Runs : verdicts[q] \subseteq verdicts'[q],
           Notified(r, SessionOf[r], state, outcome)
    PROVE  TableGoesOn /\ faults' \in 0..MaxFaults /\ UNCHANGED pass
<1>1. r # None /\ SessionOf[r] \in Sessions
  BY AttemptsAssumption DEF None
<1>2. CASE Observed(r, SessionOf[r], state, outcome) /\ UNCHANGED faults
  <2>1. outcome \in Outcomes => \E q \in Runs : SessionOf[q] = SessionOf[r] /\ outcome \in verdicts'[q]
    OBVIOUS
  <2>2. TableGoesOn
    BY <1>1, <1>2, <2>1, ObservedIsSound DEF TableGoesOn
  <2> QED
    BY <1>2, <2>2 DEF Notified, IInv
<1>3. CASE Lost
  <2>1. rows' = rows /\ refused' = refused /\ faults' \in 0..MaxFaults
    BY <1>3, AttemptsAssumption DEF Lost, Fault, IInv
  <2>2. TableIsTold(rows, verdicts')
    BY ToldStaysTold DEF IInv
  <2> QED
    BY <2>1, <2>2 DEF IInv, TableGoesOn, Notified
<1> QED
  BY <1>2, <1>3 DEF Notified

LEMMA ToFrontIsListed ==
    ASSUME order \in Seq(Sessions), ToSet(order) = Sessions, NEW k \in Sessions, ToFront(k)
    PROVE  order' \in Seq(Sessions) /\ ToSet(order') = Sessions
<1>1. PICK i \in DOMAIN order : order[i] = k /\ order' = <<k>> \o RemoveAt(order, i)
  BY DEF ToFront
<1> DEFINE n == Len(order)  a == SubSeq(order, 1, i - 1)  b == SubSeq(order, i + 1, n)
<1>2. n \in Nat /\ i \in 1..n /\ DOMAIN order = 1..n /\ \A j \in 1..n : order[j] \in Sessions
  BY <1>1
<1>3. /\ a \in Seq(Sessions) /\ Len(a) = i - 1 /\ \A j \in 1..(i - 1) : a[j] = order[j]
      /\ b \in Seq(Sessions) /\ Len(b) = n - i /\ \A j \in 1..(n - i) : b[j] = order[j + i]
  <2>1. /\ i - 1 \in 0..n /\ 1 \in 1..(n + 1) /\ i + 1 \in 1..(n + 1) /\ n \in (i + 1 - 1)..n
        /\ i - 1 \in (1 - 1)..n
    BY <1>2
  <2>2. a \in Seq(Sessions) /\ Len(a) = i - 1 /\ \A j \in 1..(i - 1) : a[j] = order[j]
    BY <1>2, <2>1
  <2>3. b \in Seq(Sessions) /\ Len(b) = n - i /\ \A j \in 1..(n - i) : b[j] = order[j + i]
    BY <1>2, <2>1
  <2> QED
    BY <2>2, <2>3
<1>4. order' = <<k>> \o (a \o b)
  BY <1>1 DEF RemoveAt
<1> HIDE DEF a, b, n
<1>5. <<k>> \in Seq(Sessions) /\ ToSet(<<k>>) = {k}
  BY DEF ToSet
<1>6. a \o b \in Seq(Sessions) /\ ToSet(a \o b) = ToSet(a) \cup ToSet(b)
  BY <1>3, ToSetOfJoined
<1> DEFINE c == a \o b
<1> HIDE DEF c
<1>7. <<k>> \o c \in Seq(Sessions) /\ ToSet(<<k>> \o c) = {k} \cup ToSet(a) \cup ToSet(b)
  <2>1. <<k>> \o c \in Seq(Sessions) /\ ToSet(<<k>> \o c) = ToSet(<<k>>) \cup ToSet(c)
    <3> DEFINE d == <<k>>
    <3>1. c \in Seq(Sessions) /\ d \in Seq(Sessions)
      BY <1>5, <1>6 DEF c
    <3> HIDE DEF d
    <3>2. d \o c \in Seq(Sessions) /\ ToSet(d \o c) = ToSet(d) \cup ToSet(c)
      BY <3>1, ToSetOfJoined
    <3> QED
      BY <3>2 DEF d
  <2> QED
    BY <1>5, <1>6, <2>1 DEF c
<1>8. /\ DOMAIN a = 1..(i - 1) /\ DOMAIN b = 1..(n - i)
  BY <1>2, <1>3
<1>9. \A j \in 1..n : order[j] \in {k} \cup ToSet(a) \cup ToSet(b)
  <2>1. SUFFICES ASSUME NEW j \in 1..n PROVE order[j] \in {k} \cup ToSet(a) \cup ToSet(b)
    OBVIOUS
  <2>2. CASE j < i
    <3>1. j \in 1..(i - 1)
      BY <1>2, <2>2
    <3> QED
      BY <1>3, <1>8, <3>1 DEF ToSet
  <2>3. CASE j = i
    BY <1>1, <2>3
  <2>4. CASE j > i
    <3>1. j - i \in 1..(n - i) /\ (j - i) + i = j
      BY <1>2, <2>4
    <3>2. b[j - i] = order[j]
      BY <1>3, <3>1
    <3> QED
      BY <1>8, <3>1, <3>2 DEF ToSet
  <2> QED
    BY <1>2, <2>2, <2>3, <2>4
<1>10. Sessions \subseteq {k} \cup ToSet(a) \cup ToSet(b)
  BY <1>2, <1>9 DEF ToSet
<1>11. ToSet(a) \subseteq Sessions /\ ToSet(b) \subseteq Sessions
  BY <1>3 DEF ToSet
<1> QED
  BY <1>4, <1>7, <1>10, <1>11 DEF c

\* Which steps may double a run, and what the end of a pass shows.
StepIsTrue ==
    /\ IInv'
    /\ OneOpen(rows) /\ ~(pc = "writing" /\ ReadInTwoWays) => OneOpen(rows')
    /\ (pc = "writing" /\ pc' = "idle" /\ ~refused') =>
          (\A s \in ToSet(read) : s.running => \E i \in Open(rows') : rows'[i].key = s.key)

\* What a step that is not the end of a pass has to show.
LEMMA OtherStep ==
    ASSUME IInv, GatewayIsTyped', TableGoesOn, faults' \in 0..MaxFaults,
           \/ UNCHANGED pass
           \/ /\ pc \in {"idle", "paging"} /\ pc' \in {"idle", "paging", "writing"}
              /\ ReadIsSound'
    PROVE  StepIsTrue
<1>1. ReadIsSound' /\ pc' \in {"idle", "paging", "writing"} /\ ~(pc = "writing" /\ pc' = "idle")
  BY DEF IInv, pass, ReadIsSound, SeenIsSound
<1>2. IInv'
  BY <1>1 DEF IInv, TableGoesOn
<1> QED
  BY <1>1, <1>2 DEF StepIsTrue, TableGoesOn

LEMMA GatewayStep ==
    ASSUME IInv, NEW r \in Runs, RunStarts(r) \/ RunEnds(r) \/ RunEvent(r)
    PROVE  StepIsTrue
<1>1. /\ active \subseteq Runs /\ verdicts \in [Runs -> SUBSET Outcomes]
      /\ started \in [Sessions -> 0..MaxChanges] /\ clock \in 0..MaxChanges
      /\ order \in Seq(Sessions) /\ ToSet(order) = Sessions
      /\ SessionOf[r] \in Sessions /\ SessionOf[r] # None /\ r # None
  BY AttemptsAssumption DEF IInv, GatewayIsTyped, None
<1>2. ASSUME Tick PROVE clock' \in 0..MaxChanges
  BY <1>1, <1>2, AttemptsAssumption DEF Tick
<1>3. CASE RunStarts(r)
  <2>1. /\ active' = active \cup {r} /\ verdicts' = verdicts
        /\ started' = [started EXCEPT ![SessionOf[r]] = clock']
        /\ Tick /\ ToFront(SessionOf[r]) /\ Notified(r, SessionOf[r], "active", None)
    BY <1>3 DEF RunStarts
  <2>2. order' \in Seq(Sessions) /\ ToSet(order') = Sessions
    BY <1>1, <2>1, ToFrontIsListed
  <2>3. GatewayIsTyped'
    BY <1>1, <1>2, <2>1, <2>2 DEF GatewayIsTyped
  <2>4. None \notin Outcomes
    BY DEF Outcomes, None
  <2>5. TableGoesOn /\ faults' \in 0..MaxFaults /\ UNCHANGED pass
    BY <1>2, <2>1, <2>4, NotifiedIsSound
  <2> QED
    BY <2>3, <2>5, OtherStep
<1>4. CASE RunEnds(r)
  <2>1. PICK o \in Outcomes :
          /\ verdicts' = [verdicts EXCEPT ![r] = @ \cup {o}]
          /\ Notified(r, SessionOf[r], "terminal", o)
    BY <1>4 DEF RunEnds
  <2>2. active' = active \ {r} /\ started' = started /\ Tick /\ ToFront(SessionOf[r])
    BY <1>4 DEF RunEnds
  <2>3. order' \in Seq(Sessions) /\ ToSet(order') = Sessions
    BY <1>1, <2>2, ToFrontIsListed
  <2>4. /\ verdicts' \in [Runs -> SUBSET Outcomes] /\ o \in verdicts'[r]
        /\ \A q \in Runs : verdicts[q] \subseteq verdicts'[q]
    BY <1>1, <2>1
  <2>5. GatewayIsTyped'
    BY <1>1, <1>2, <2>2, <2>3, <2>4 DEF GatewayIsTyped
  <2>6. o # None
    BY DEF Outcomes, None
  <2>7. TableGoesOn /\ faults' \in 0..MaxFaults /\ UNCHANGED pass
    BY <1>2, <2>1, <2>2, <2>4, <2>6, NotifiedIsSound
  <2> QED
    BY <2>5, <2>7, OtherStep
<1>5. CASE RunEvent(r)
  <2>1. UNCHANGED <<active, verdicts, started, order, clock, pass, faults>>
    BY <1>5 DEF RunEvent
  <2>2. GatewayIsTyped' /\ faults' \in 0..MaxFaults /\ UNCHANGED pass /\ clock' \in 0..MaxChanges
        /\ verdicts' = verdicts
    BY <1>1, <2>1 DEF GatewayIsTyped, IInv
  <2>3. CASE Observed(r, SessionOf[r], "active", None)
    <3>1. None \notin Outcomes
      BY DEF Outcomes, None
    <3>2. TableGoesOn
      BY <1>1, <2>2, <2>3, <3>1, ObservedIsSound DEF TableGoesOn
    <3> QED
      BY <2>2, <3>2, OtherStep
  <2>4. ASSUME NEW o \in verdicts[r], Observed(r, SessionOf[r], "terminal", o) PROVE StepIsTrue
    <3>1. o \in Outcomes /\ o # None
      BY <1>1 DEF Outcomes, None
    <3>2. \E q \in Runs : SessionOf[q] = SessionOf[r] /\ o \in verdicts'[q]
      BY <2>2
    <3>3. TableGoesOn
      BY <1>1, <2>2, <2>4, <3>1, <3>2, ObservedIsSound DEF TableGoesOn
    <3> QED
      BY <2>2, <3>3, OtherStep
  <2> QED
    BY <1>5, <2>3, <2>4 DEF RunEvent
<1> QED
  BY <1>3, <1>4, <1>5

LEMMA ReadingStarts ==
    ASSUME StartsPass
    PROVE  pc \in {"idle", "paging"} /\ pc' \in {"idle", "paging", "writing"} /\ ReadIsSound'
<1>1. pc = "idle" /\ pc' = "paging" /\ read' = <<>>
  BY DEF StartsPass
<1>2. ToSet(read') = {}
  BY <1>1 DEF ToSet
<1>3. ReadIsSound'
  BY <1>1, <1>2 DEF ReadIsSound
<1> QED
  BY <1>1, <1>3

LEMMA SessionStep ==
    ASSUME IInv, NEW k \in Sessions, SessionEvent(k)
    PROVE  StepIsTrue
<1>1. /\ Tick /\ UNCHANGED <<active, verdicts, started, order, faults>>
      /\ StartsPass \/ UNCHANGED pass
  BY DEF SessionEvent
<1>2. /\ clock' \in 0..MaxChanges /\ faults' \in 0..MaxFaults /\ verdicts' = verdicts
      /\ GatewayIsTyped'
  BY <1>1, AttemptsAssumption DEF Tick, IInv, GatewayIsTyped
<1>3. /\ k # None /\ None \notin Runs /\ None \notin Outcomes /\ "unknown" \notin Outcomes
      /\ None # "unknown"
  BY AttemptsAssumption DEF None, Outcomes
<1>4. TableGoesOn
  <2>1. ASSUME NEW r \in Runs \cup {None}, r # None => SessionOf[r] = k,
               Observed(r, k, "active", None)
        PROVE  TableGoesOn
    BY <1>2, <1>3, <2>1, ObservedIsSound DEF TableGoesOn
  <2>2. ASSUME NEW o \in Outcomes \cup {"unknown"}, Observed(None, k, "terminal", o),
               o \in Outcomes => \E r \in Runs : SessionOf[r] = k /\ o \in verdicts[r]
        PROVE  TableGoesOn
    <3>1. o \in Outcomes \cup {None, "unknown"} /\ o # None
          /\ (o \in Outcomes => \E r \in Runs : SessionOf[r] = k /\ o \in verdicts'[r])
      BY <1>2, <1>3, <2>2
    <3> QED
      BY <1>2, <1>3, <2>2, <3>1, ObservedIsSound DEF TableGoesOn
  <2>3. ASSUME NEW refs \in Refs(k), NEW r \in (IF refs = {} THEN {None} ELSE refs),
               Observed(r, k, "active", None)
        PROVE  TableGoesOn
    <3>1. r = None \/ (r \in Runs /\ SessionOf[r] = k)
      BY DEF Refs, RunsIn, IInv, GatewayIsTyped
    <3> QED
      BY <1>3, <2>1, <2>3, <3>1
  <2>4. ASSUME NEW o \in {"unknown"} \cup UNION {verdicts[r] : r \in {q \in Runs : SessionOf[q] = k}},
               Observed(None, k, "terminal", o)
        PROVE  TableGoesOn
    <3> DEFINE Q == {q \in Runs : SessionOf[q] = k}
    <3>1. o # "unknown" => \E r \in Q : o \in verdicts[r]
      <4>1. o \in {"unknown"} \cup UNION {verdicts[r] : r \in Q}
        OBVIOUS
      <4> HIDE DEF Q
      <4> QED
        BY <4>1
    <3>2. \A r \in Runs : verdicts[r] \subseteq Outcomes
      BY DEF IInv, GatewayIsTyped
    <3>3. o \in Outcomes => \E r \in Runs : SessionOf[r] = k /\ o \in verdicts[r]
      BY <1>3, <3>1
    <3>4. o \in Outcomes \cup {"unknown"}
      BY <3>1, <3>2
    <3> QED
      BY <2>2, <2>4, <3>3, <3>4
  <2> QED
    BY <2>3, <2>4 DEF SessionEvent
<1> QED
  BY <1>1, <1>2, <1>4, ReadingStarts, OtherStep

LEMMA PageStep ==
    ASSUME IInv, PageAnswered
    PROVE  StepIsTrue
<1> DEFINE k == order[Len(read) + 1]
<1>1. PICK refs \in Refs(k), dated \in Dated :
          read' = Append(read, [key |-> k, runs |-> refs, running |-> RunsIn(k) # {},
                                at |-> IF dated THEN started[k] ELSE Undated])
  BY DEF PageAnswered
<1> HIDE DEF k
<1> DEFINE s == [key |-> k, runs |-> refs, running |-> RunsIn(k) # {},
                 at |-> IF dated THEN started[k] ELSE Undated]
<1>2. /\ s.key = k /\ s.runs = refs /\ s.running = (RunsIn(k) # {})
      /\ s.at = IF dated THEN started[k] ELSE 0
  BY DEF Undated
<1>3. read' = Append(read, s)
  BY <1>1
<1> HIDE DEF s
<1>4. /\ RunsIn(k) \subseteq Runs /\ \A r \in RunsIn(k) : SessionOf[r] = k
      /\ refs \subseteq RunsIn(k)
  BY DEF RunsIn, Refs, IInv, GatewayIsTyped
<1>5. RunsIn(k) # {} => k \in Sessions
  BY <1>4, AttemptsAssumption
<1>6. k \in Sessions => s.at \in 0..MaxChanges
  BY <1>2, AttemptsAssumption DEF IInv, GatewayIsTyped
<1>7. SeenIsSound(s)
  BY <1>2, <1>4, <1>5, <1>6 DEF SeenIsSound
<1>8. read \in Seq(ToSet(read)) /\ \A u \in ToSet(read) : SeenIsSound(u)
  BY DEF IInv, ReadIsSound
<1> DEFINE R == ToSet(read)
<1>9. Append(read, s) \in Seq(R \cup {s}) /\ ToSet(Append(read, s)) = R \cup {s}
  <2>1. read \in Seq(R)
    BY <1>8
  <2> HIDE DEF R
  <2>2. Append(read, s) \in Seq(R \cup {s}) /\ ToSet(Append(read, s)) = ToSet(read) \cup {s}
    BY <2>1, ToSetOfAppended
  <2> QED
    BY <2>2 DEF R
<1>10. read' \in Seq(ToSet(read')) /\ \A u \in ToSet(read') : SeenIsSound(u)
  BY <1>3, <1>7, <1>8, <1>9
<1>11. ReadIsSound'
  BY <1>10 DEF ReadIsSound, SeenIsSound
<1>12. /\ pc = "paging" /\ pc' \in {"idle", "paging", "writing"}
       /\ UNCHANGED <<gateway, rows, refused, faults>>
  BY DEF PageAnswered
<1>13. TableGoesOn /\ GatewayIsTyped' /\ faults' \in 0..MaxFaults
  BY <1>12 DEF TableGoesOn, GatewayIsTyped, gateway, IInv
<1> QED
  BY <1>11, <1>12, <1>13, OtherStep

LEMMA RetentionStep ==
    ASSUME IInv, Retention
    PROVE  StepIsTrue
<1>1. PICK i \in DOMAIN rows : rows' = [j \in DOMAIN rows \ {i} |-> rows[j]]
  BY DEF Retention
<1>2. DOMAIN rows' = DOMAIN rows \ {i} /\ \A j \in DOMAIN rows' : rows'[j] = rows[j]
  BY <1>1
<1>3. IsFiniteSet(DOMAIN rows')
  BY <1>2, FS_RemoveElement DEF IInv, TableIsSound
<1>4. Fault /\ UNCHANGED <<gateway, pass, refused>>
  BY DEF Retention
<1>5. TableIsSound(rows') /\ TableIsTold(rows', verdicts')
  BY <1>2, <1>3, <1>4 DEF IInv, TableIsSound, OneRowPerSource, TableIsTold, gateway
<1>6. OneOpen(rows) => OneOpen(rows')
  BY <1>2 DEF OneOpen, Open
<1>7. faults' \in 0..MaxFaults /\ GatewayIsTyped'
  BY <1>4, AttemptsAssumption DEF Fault, IInv, GatewayIsTyped, gateway
<1> QED
  BY <1>4, <1>5, <1>6, <1>7, OtherStep DEF TableGoesOn, IInv

LEMMA EndStep ==
    ASSUME IInv, EndPass
    PROVE  StepIsTrue
<1>1. /\ pc = "writing" /\ pc' = "idle" /\ read' = <<>> /\ UNCHANGED <<gateway, faults>>
  BY DEF EndPass, Writes
<1>2. ToSet(read') = {}
  BY <1>1 DEF ToSet
<1>3. ReadIsSound'
  BY <1>1, <1>2 DEF ReadIsSound
<1>4. GatewayIsTyped' /\ faults' \in 0..MaxFaults /\ verdicts' = verdicts
  BY <1>1 DEF IInv, GatewayIsTyped, gateway
<1>5. IInv'
  BY <1>1, <1>3, <1>4, EndOfPassIsSound DEF IInv
<1> QED
  BY <1>1, <1>5, EndOfPassIsSound DEF StepIsTrue

LEMMA NextIsTrue ==
    ASSUME IInv, [Next]_vars
    PROVE  StepIsTrue
<1>1. ASSUME NEW r \in Runs, RunStarts(r) \/ RunEnds(r) \/ RunEvent(r) PROVE StepIsTrue
  BY <1>1, GatewayStep
<1>2. ASSUME NEW k \in Sessions, SessionEvent(k) PROVE StepIsTrue
  BY <1>2, SessionStep
<1>3. ASSUME UNCHANGED <<gateway, rows, refused>>, faults' \in 0..MaxFaults,
             \/ UNCHANGED pass
             \/ /\ pc \in {"idle", "paging"} /\ pc' \in {"idle", "paging", "writing"}
                /\ ReadIsSound'
      PROVE  StepIsTrue
  <2>1. TableGoesOn /\ GatewayIsTyped'
    BY <1>3 DEF TableGoesOn, GatewayIsTyped, gateway, IInv
  <2> QED
    BY <1>3, <2>1, OtherStep
<1>4. CASE StartPass
  BY <1>3, <1>4, ReadingStarts DEF StartPass, IInv
<1>5. CASE PageAnswered
  BY <1>5, PageStep
<1>6. CASE EndPass
  BY <1>6, EndStep
<1>7. CASE PassFails
  <2>1. pc = "paging" /\ pc' = "idle" /\ read' = <<>> /\ faults' \in 0..MaxFaults
        /\ UNCHANGED <<gateway, rows, refused>>
    BY <1>7, AttemptsAssumption DEF PassFails, Fault, IInv
  <2>2. ToSet(read') = {}
    BY <2>1 DEF ToSet
  <2>3. ReadIsSound'
    BY <2>1, <2>2 DEF ReadIsSound
  <2> QED
    BY <1>3, <2>1, <2>3
<1>8. CASE Retention
  BY <1>8, RetentionStep
<1>9. CASE UNCHANGED vars
  BY <1>3, <1>9 DEF vars, gateway, IInv
<1> QED
  BY <1>1, <1>2, <1>4, <1>5, <1>6, <1>7, <1>8, <1>9 DEF Next

-----------------------------------------------------------------------------
(* The theorems.                                                            *)

LEMMA AttemptsStaySound == Spec => []IInv
<1>1. IInv /\ [Next]_vars => IInv'
  BY NextIsTrue DEF StepIsTrue
<1> QED
  BY InitIsSound, <1>1, PTL DEF Spec

\* The state is of its types, and no two attempts ever have one source key
\* (upsertActivity and the unique index of the activities table).
THEOREM AttemptsAreTyped == Spec => []TypeOK
BY AttemptsStaySound, IInvImplies, PTL

\* However events, passes, faults and retention follow each other, no attempt shows
\* an outcome the Gateway did not give a run of its session, and one run becomes two
\* open attempts only by a pass that read its session in two ways
\* (projectRuntimeEvent, projectSessionChanged, syncSessions, closeSessionAttempts).
THEOREM AttemptsStayTrue == Spec => AttemptsAreTrue
<1>1. IInv /\ [Next]_vars =>
         [OneOpenPerRun /\ ~(pc = "writing" /\ ReadInTwoWays) => OneOpenPerRun']_vars
  <2>1. SUFFICES ASSUME IInv, [Next]_vars, OneOpenPerRun, ~(pc = "writing" /\ ReadInTwoWays)
                 PROVE  OneOpenPerRun'
    OBVIOUS
  <2>2. OneOpen(rows) => OneOpen(rows')
    BY <2>1, NextIsTrue DEF StepIsTrue
  <2> QED
    BY <2>1, <2>2 DEF OneOpenPerRun, OneOpen
<1>2. Spec => OnlyTwoReadingsDouble
  BY AttemptsStaySound, <1>1, PTL DEF Spec, OnlyTwoReadingsDouble
<1>3. Spec => []OutcomeWasReported
  BY AttemptsStaySound, IInvImplies, PTL
<1> QED
  BY <1>2, <1>3, PTL DEF AttemptsAreTrue

\* A pass that went through left an open attempt of every session it saw at work:
\* what it closes is never what it just wrote, or left open as ambiguous
\* (syncSessions and closeSessionAttempts).
THEOREM WhatIsSeenStaysOpen == Spec => ActiveIsShown
<1>1. IInv /\ [Next]_vars =>
         [(pc = "writing" /\ pc' = "idle" /\ ~refused') =>
            (\A s \in ToSet(read) : s.running =>
                \E i \in Open(rows') : rows'[i].key = s.key)]_vars
  BY NextIsTrue DEF StepIsTrue
<1> QED
  BY AttemptsStaySound, <1>1, PTL DEF Spec, ActiveIsShown
=============================================================================
