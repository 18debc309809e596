---------------------------- MODULE RecordsProofs ----------------------------
(***************************************************************************)
(* What holds of the tables of a node for all tasks, pages, agents, probe  *)
(* passes and bounds: the task ledger (TaskLedger), the verdicts of the    *)
(* capability probe (CapabilityProbe), the agents table (AgentRoster), the *)
(* processes seen on the machine (StandaloneCli), the score of a session   *)
(* (SessionSignals), and the upgrade of the database: starts that overlap  *)
(* do not clash, and what was upgraded can be gone back on (Migrations,    *)
(* for any processes, builds and stops).  Each theorem is about the        *)
(* specification of its module; the last section carries them over to      *)
(* their composition in MCRecords, with those of UsageLedgerProofs.        *)
(***************************************************************************)
EXTENDS MCRecords, UsageLedgerProofs

-----------------------------------------------------------------------------
(* Facts about the operators.                                              *)

\* What a task's last write says is something that was written of it.
LEMMA LastIsWritten ==
    ASSUME NEW writes \in Seq(Tasks \X Statuses), NEW t \in Written(writes)
    PROVE  /\ t \in Tasks /\ LastOf(t, writes) \in Statuses
           /\ \E i \in DOMAIN writes : writes[i][1] = t /\ writes[i][2] = LastOf(t, writes)
<1> DEFINE I == {i \in 1..Len(writes) : writes[i][1] = t}
           last == CHOOSE i \in DOMAIN writes :
                      /\ writes[i][1] = t
                      /\ \A j \in DOMAIN writes : writes[j][1] = t => j <= i
<1>1. Len(writes) \in Nat /\ DOMAIN writes = 1..Len(writes)
      /\ \A i \in DOMAIN writes : writes[i] \in Tasks \X Statuses
  OBVIOUS
<1>2. I \in SUBSET (1..Len(writes)) /\ I # {}
  BY DEF Written, ToSet
<1>3. \E i \in I : \A j \in I : j <= i
  <2> HIDE DEF I
  <2> QED
    BY <1>1, <1>2, SomePlaceIsLast
<1>4. last \in DOMAIN writes /\ writes[last][1] = t
  BY <1>1, <1>3
<1> HIDE DEF last
<1>5. LastOf(t, writes) = writes[last][2]
  BY DEF LastOf, last
<1> QED
  BY <1>4, <1>5

\* What upsertMany() makes of a column of the rows.
LEMMA UpsertedFacts ==
    ASSUME NEW writes \in Seq(Tasks \X Statuses), NEW old
    PROVE  /\ Written(writes) \in SUBSET Tasks
           /\ \A t \in Written(writes) : LastOf(t, writes) \in Statuses
           /\ Upserted(old, writes) = [t \in Tasks |-> IF t \in Written(writes)
                                                      THEN LastOf(t, writes) ELSE old[t]]
  BY LastIsWritten DEF Upserted

\* One write is the last one.
LEMMA OneWrite ==
    ASSUME NEW t \in Tasks, NEW s \in Statuses
    PROVE  /\ <<<<t, s>>>> \in Seq(Tasks \X Statuses)
           /\ Written(<<<<t, s>>>>) = {t}
           /\ LastOf(t, <<<<t, s>>>>) = s
           /\ Changed(<<<<t, s>>>>) = {u \in {t} : s # print[u]}
<1> DEFINE w == <<<<t, s>>>>
<1>1. w \in Seq(Tasks \X Statuses) /\ Len(w) = 1 /\ DOMAIN w = {1} /\ w[1] = <<t, s>>
  OBVIOUS
<1> HIDE DEF w
<1>2. Written(w) = {t}
  BY <1>1 DEF Written, ToSet
<1>3. LastOf(t, w) = s
  <2>1. t \in Written(w)
    BY <1>2
  <2>2. PICK i \in DOMAIN w : w[i][1] = t /\ w[i][2] = LastOf(t, w)
    BY <1>1, <2>1, LastIsWritten
  <2> QED
    BY <1>1, <2>2
<1>4. Changed(w) = {u \in {t} : s # print[u]}
  BY <1>1, <1>2 DEF Changed
<1> QED
  BY <1>1, <1>2, <1>3, <1>4

\* A task that leaves the ledger leaves the others there, once each.
LEMMA RemovedOnce ==
    ASSUME ledger \in Seq(Tasks), IsInjective(ledger), NEW t \in Tasks
    PROVE  /\ RemoveFirst(ledger, t) \in Seq(Tasks)
           /\ IsInjective(RemoveFirst(ledger, t))
           /\ ToSet(RemoveFirst(ledger, t)) = ToSet(ledger) \ {t}
<1> DEFINE n == Len(ledger)
           I == {i \in 1..n : ledger[i] = t}
<1>1. n \in Nat /\ DOMAIN ledger = 1..n /\ \A i \in 1..n : ledger[i] \in Tasks
  OBVIOUS
<1>2. \A i, j \in 1..n : ledger[i] = ledger[j] => i = j
  BY DEF IsInjective
<1>3. CASE \A i \in 1..n : ledger[i] # t
  <2>1. RemoveFirst(ledger, t) = ledger
    BY <1>3 DEF RemoveFirst
  <2>2. t \notin ToSet(ledger)
    BY <1>3 DEF ToSet
  <2> QED
    BY <2>1, <2>2
<1>4. CASE \E i \in 1..n : ledger[i] = t
  <2>1. PICK p \in 1..n : ledger[p] = t
    BY <1>4
  <2>2. I = {p}
    BY <1>2, <2>1
  <2>3. Min({p}) = p
    BY DEF Min
  <2>4. SelectInSeq(ledger, LAMBDA v : v = t) = p
    BY <2>2, <2>3 DEF SelectInSeq
  <2> DEFINE a == SubSeq(ledger, 1, p - 1)
             b == SubSeq(ledger, p + 1, n)
             q == a \o b
  <2>5. RemoveFirst(ledger, t) = q
    BY <1>4, <2>4 DEF RemoveFirst, RemoveAt
  <2>6. a \in Seq(Tasks) /\ Len(a) = p - 1 /\ \A i \in 1..(p - 1) : a[i] = ledger[i]
    OBVIOUS
  <2>7. b \in Seq(Tasks) /\ Len(b) = n - p /\ \A i \in 1..(n - p) : b[i] = ledger[p + i]
    <3> DEFINE f == p + 1
    <3>1. f \in Nat /\ \A i \in f..n : ledger[i] \in Tasks
      OBVIOUS
    <3>2. n - f + 1 = n - p /\ \A i \in 1..(n - p) : f + i - 1 = p + i
      OBVIOUS
    <3> HIDE DEF n, f
    <3>3. /\ SubSeq(ledger, f, n) \in Seq(Tasks)
          /\ Len(SubSeq(ledger, f, n)) = (IF f <= n THEN n - f + 1 ELSE 0)
          /\ \A i \in 1..(n - f + 1) : SubSeq(ledger, f, n)[i] = ledger[f + i - 1]
      BY <1>1, <3>1
    <3>4. f <= n \/ n - p = 0
      BY <1>1 DEF f
    <3>5. b = SubSeq(ledger, f, n)
      BY DEF f
    <3> HIDE DEF b
    <3> QED
      BY <3>2, <3>3, <3>5
  <2> HIDE DEF a, b
  <2>8. /\ q \in Seq(Tasks) /\ Len(q) = n - 1
        /\ \A i \in 1..(n - 1) : q[i] = IF i < p THEN ledger[i] ELSE ledger[i + 1]
    <3>0. a \in Seq(Tasks) /\ b \in Seq(Tasks)
      BY <2>6, <2>7
    <3>1. q \in Seq(Tasks) /\ Len(q) = Len(a) + Len(b)
      BY <3>0
    <3>2. \A i \in 1..(Len(a) + Len(b)) : q[i] = IF i <= Len(a) THEN a[i] ELSE b[i - Len(a)]
      OBVIOUS
    <3> HIDE DEF q
    <3>3. Len(q) = n - 1
      BY <2>6, <2>7, <3>1
    <3>4. ASSUME NEW i \in 1..(n - 1) PROVE q[i] = IF i < p THEN ledger[i] ELSE ledger[i + 1]
      <4>0. i \in Nat /\ i \in 1..(Len(a) + Len(b)) /\ Len(a) = p - 1
        BY <2>6, <2>7
      <4>5. q[i] = IF i <= p - 1 THEN a[i] ELSE b[i - (p - 1)]
        BY <3>2, <4>0
      <4>1. i <= p - 1 => q[i] = ledger[i]
        BY <2>6, <4>5
      <4>2. i > p - 1 => i - (p - 1) \in 1..(n - p) /\ q[i] = b[i - (p - 1)]
        BY <4>5
      <4>3. i > p - 1 => q[i] = ledger[p + (i - (p - 1))]
        BY <2>7, <4>2
      <4>4. p + (i - (p - 1)) = i + 1 /\ (i <= p - 1 <=> i < p) /\ (i <= p - 1 \/ i > p - 1)
        OBVIOUS
      <4> QED
        BY <4>1, <4>3
    <3> QED
      BY <3>1, <3>3, <3>4
  <2> HIDE DEF q
  <2>9. DOMAIN q = 1..(n - 1)
    BY <2>8
  <2>10. IsInjective(q)
    BY <1>2, <2>8 DEF IsInjective
  <2>11. \A i \in 1..(n - 1) : q[i] \in ToSet(ledger) /\ q[i] # t
    BY <1>1, <1>2, <2>1, <2>8, SMTT(30) DEF ToSet
  <2>12. \A j \in 1..n : j # p => \E i \in 1..(n - 1) : q[i] = ledger[j]
    <3>1. SUFFICES ASSUME NEW j \in 1..n, j # p PROVE \E i \in 1..(n - 1) : q[i] = ledger[j]
      OBVIOUS
    <3>2. CASE j < p
      <4>1. j \in 1..(n - 1) /\ q[j] = ledger[j]
        BY <2>8, <3>2
      <4> QED
        BY <4>1
    <3>3. CASE p < j
      <4>1. j - 1 \in 1..(n - 1) /\ q[j - 1] = ledger[j]
        BY <2>8, <3>3
      <4> QED
        BY <4>1
    <3> QED
      BY <3>1, <3>2, <3>3
  <2>13. ToSet(q) = ToSet(ledger) \ {t}
    BY <1>1, <2>1, <2>9, <2>11, <2>12, ZenonT(60) DEF ToSet
  <2> QED
    BY <2>5, <2>8, <2>10, <2>13
<1> QED
  BY <1>3, <1>4

-----------------------------------------------------------------------------
(* The task ledger.                                                        *)

\* The types, with what they need: a pass asks for no page past its cap, and
\* what the Gateway lists has a status.
TaskTypes ==
    /\ TypeOK
    /\ pc = "paging" => pages < PageCap
    /\ \A t \in ToSet(ledger) : status[t] # "none"

\* What a pass has read, too, is settled only as the Gateway settled it.
ReadIsReported ==
    \A i \in DOMAIN read : read[i][2] \in Terminal => read[i][2] = status[read[i][1]]

\* The fingerprint of a row tells its state, and that of a missing row none.
PrintsAreTrue ==
    \A t \in Tasks : print[t] = IF row[t] = "missing" THEN Marked ELSE row[t]

TaskInv == TaskTypes /\ OutcomeIsReported /\ ReadIsReported /\ PrintsAreTrue

LEMMA InitTaskInv == Init => TaskInv
<1> SUFFICES ASSUME Init PROVE TaskInv
  OBVIOUS
<1>1. ledger = <<>> /\ read = <<>> /\ ledger \in Seq(Tasks) /\ IsInjective(ledger)
      /\ ToSet(ledger) = {} /\ read \in Seq(Tasks \X Statuses) /\ DOMAIN read = {}
  BY DEF Init, IsInjective, ToSet
<1>2. TypeOK
  BY <1>1, LedgerAssumption DEF Init, TypeOK
<1>3. pages < PageCap
  BY LedgerAssumption DEF Init
<1> QED
  BY <1>1, <1>2
  DEF Init, TaskInv, TaskTypes, OutcomeIsReported, ReadIsReported, PrintsAreTrue, Terminal

\* What a task event does to the rows.
LEMMA NotifiedFacts ==
    ASSUME TaskInv, NEW t \in Tasks, NEW s \in Statuses, Notified(t, s)
    PROVE  /\ read' = read /\ pc' = pc /\ pages' = pages
           /\ faults' \in 0..MaxFaults
           /\ row' \in [Tasks -> Statuses \cup {"absent", "missing"}]
           /\ print' \in [Tasks -> Statuses \cup {"absent", Marked}]
           /\ emitted' \in SUBSET Tasks
           /\ \A u \in Tasks : \/ row'[u] = row[u] /\ print'[u] = print[u]
                               \/ u = t /\ row'[u] = s /\ print'[u] = s
           /\ \A u \in Tasks : row'[u] # row[u] => u \in emitted'
<1> DEFINE w == <<<<t, s>>>>
<1>1. w \in Seq(Tasks \X Statuses) /\ Written(w) = {t} /\ LastOf(t, w) = s
      /\ Changed(w) = {u \in {t} : s # print[u]}
  BY OneWrite
<1>2. /\ row \in [Tasks -> Statuses \cup {"absent", "missing"}]
      /\ print \in [Tasks -> Statuses \cup {"absent", Marked}]
      /\ faults \in 0..MaxFaults /\ PrintsAreTrue
  BY DEF TaskInv, TaskTypes, TypeOK
<1>3. CASE /\ row' = Upserted(row, w) /\ print' = Upserted(print, w)
           /\ emitted' = Changed(w) /\ UNCHANGED <<pass, faults>>
  <2> HIDE DEF w
  <2>0. /\ row' = [u \in Tasks |-> IF u = t THEN s ELSE row[u]]
        /\ print' = [u \in Tasks |-> IF u = t THEN s ELSE print[u]]
    <3>1. /\ Upserted(row, w) =
                [u \in Tasks |-> IF u \in Written(w) THEN LastOf(u, w) ELSE row[u]]
          /\ Upserted(print, w) =
                [u \in Tasks |-> IF u \in Written(w) THEN LastOf(u, w) ELSE print[u]]
      BY <1>1, UpsertedFacts
    <3>2. \A u \in Tasks : /\ (IF u \in Written(w) THEN LastOf(u, w) ELSE row[u])
                                = (IF u = t THEN s ELSE row[u])
                           /\ (IF u \in Written(w) THEN LastOf(u, w) ELSE print[u])
                                = (IF u = t THEN s ELSE print[u])
      BY <1>1
    <3> QED
      BY <1>3, <3>1, <3>2
  <2>1. /\ row' \in [Tasks -> Statuses \cup {"absent", "missing"}]
        /\ \A u \in Tasks : row'[u] = IF u = t THEN s ELSE row[u]
    BY <1>2, <2>0
  <2>2. /\ print' \in [Tasks -> Statuses \cup {"absent", Marked}]
        /\ \A u \in Tasks : print'[u] = IF u = t THEN s ELSE print[u]
    BY <1>2, <2>0
  <2>3. \A u \in Tasks : row'[u] # row[u] => u \in emitted'
    <3>1. s # Marked
      BY DEF Statuses, Live, Terminal, Marked
    <3>2. s # row[t] => s # print[t]
      BY <1>2, <3>1 DEF PrintsAreTrue
    <3> QED
      BY <1>1, <1>3, <2>1, <3>2
  <2>4. emitted' \in SUBSET Tasks
    BY <1>1, <1>3
  <2>5. read' = read /\ pc' = pc /\ pages' = pages /\ faults' \in 0..MaxFaults
    BY <1>2, <1>3 DEF pass
  <2>6. ASSUME NEW u \in Tasks
        PROVE  \/ row'[u] = row[u] /\ print'[u] = print[u]
               \/ u = t /\ row'[u] = s /\ print'[u] = s
    BY <2>1, <2>2
  <2> QED
    BY <2>1, <2>2, <2>3, <2>4, <2>5
<1>4. CASE Fault /\ UNCHANGED <<rows, pass>> /\ emitted' = {}
  <2>1. faults' \in 0..MaxFaults
    BY <1>2, <1>4, LedgerAssumption DEF Fault
  <2>2. /\ row' = row /\ print' = print /\ emitted' = {}
        /\ read' = read /\ pc' = pc /\ pages' = pages
    BY <1>4 DEF rows, pass
  <2>3. /\ \A u \in Tasks : row'[u] = row[u] /\ print'[u] = print[u]
        /\ \A u \in Tasks : row'[u] # row[u] => u \in emitted'
    BY <2>2
  <2> QED
    BY <1>2, <2>1, <2>2
<1> QED
  BY <1>3, <1>4 DEF Notified

\* The Gateway updates a task.
LEMMA UpdateTaskInv ==
    ASSUME TaskInv, NEW t \in Tasks, NEW s \in Live \cup Terminal, UpdateTask(t, s)
    PROVE  TaskInv'
<1>1. /\ updates < MaxUpdates /\ updates' = updates + 1
      /\ <<status[t], s>> \in Steps
      /\ status' = [status EXCEPT ![t] = s]
      /\ ledger' = <<t>> \o RemoveFirst(ledger, t)
      /\ Notified(t, s)
  BY DEF UpdateTask
<1>2. s \in Statuses
  BY DEF Statuses
<1>3. /\ read' = read /\ pc' = pc /\ pages' = pages
      /\ faults' \in 0..MaxFaults
      /\ row' \in [Tasks -> Statuses \cup {"absent", "missing"}]
      /\ print' \in [Tasks -> Statuses \cup {"absent", Marked}]
      /\ emitted' \in SUBSET Tasks
      /\ \A u \in Tasks : \/ row'[u] = row[u] /\ print'[u] = print[u]
                          \/ u = t /\ row'[u] = s /\ print'[u] = s
  BY <1>1, <1>2, NotifiedFacts
<1>4. /\ ledger \in Seq(Tasks) /\ IsInjective(ledger)
      /\ status \in [Tasks -> Statuses \cup {"none"}]
      /\ updates \in 0..MaxUpdates /\ read \in Seq(Tasks \X Statuses)
      /\ \A u \in ToSet(ledger) : status[u] # "none"
  BY DEF TaskInv, TaskTypes, TypeOK
<1>5. status[t] \notin Terminal
  BY <1>1 DEF Steps, Live, Terminal
<1>6. /\ status' \in [Tasks -> Statuses \cup {"none"}] /\ status'[t] = s
      /\ \A u \in Tasks : u # t => status'[u] = status[u]
  BY <1>1, <1>2, <1>4
<1>7. /\ ledger' \in Seq(Tasks) /\ IsInjective(ledger')
      /\ ToSet(ledger') = ToSet(ledger) \cup {t}
  <2> DEFINE q == RemoveFirst(ledger, t)
  <2>1. q \in Seq(Tasks) /\ IsInjective(q) /\ ToSet(q) = ToSet(ledger) \ {t}
    BY <1>4, RemovedOnce
  <2> HIDE DEF q
  <2>2. <<t>> \in Seq(Tasks) /\ Len(<<t>>) = 1 /\ <<t>>[1] = t
    OBVIOUS
  <2> DEFINE h == <<t>>
             l == h \o q
  <2>3. h \in Seq(Tasks) /\ Len(h) = 1 /\ h[1] = t
    OBVIOUS
  <2> HIDE DEF h
  <2>4. /\ l \in Seq(Tasks) /\ Len(l) = Len(h) + Len(q)
        /\ \A i \in 1..(Len(h) + Len(q)) : l[i] = IF i <= Len(h) THEN h[i] ELSE q[i - Len(h)]
    BY <2>1, <2>3, ConcatProperties, SMTT(30)
  <2> HIDE DEF l
  <2>5. Len(q) \in Nat /\ DOMAIN q = 1..Len(q) /\ DOMAIN l = 1..(Len(q) + 1)
        /\ Len(l) = Len(q) + 1
    BY <2>3, <2>4
  <2>6. l[1] = t /\ \A i \in 1..Len(q) : l[i + 1] = q[i] /\ q[i] # t
    <3>1. ASSUME NEW i \in 1..Len(q) PROVE l[i + 1] = q[i] /\ q[i] # t
      <4>1. i + 1 \in 1..(1 + Len(q)) /\ ~(i + 1 <= 1) /\ (i + 1) - 1 = i
        OBVIOUS
      <4>2. q[i] \in ToSet(q)
        BY DEF ToSet
      <4> QED
        BY <2>1, <2>3, <2>4, <4>2
    <3>2. l[1] = t
      BY <2>3, <2>4
    <3> QED
      BY <3>1, <3>2
  <2>7. \A i \in 1..(Len(q) + 1) : i = 1 \/ (i - 1 \in 1..Len(q) /\ l[i] = q[i - 1])
    <3>1. SUFFICES ASSUME NEW i \in 1..(Len(q) + 1), i # 1
                   PROVE  i - 1 \in 1..Len(q) /\ l[i] = q[i - 1]
      OBVIOUS
    <3>2. i - 1 \in 1..Len(q) /\ (i - 1) + 1 = i
      BY <3>1
    <3> QED
      BY <2>6, <3>2
  <2>8. \A i, j \in 1..(Len(q) + 1) : l[i] = l[j] => i = j
    <3>1. SUFFICES ASSUME NEW i \in 1..(Len(q) + 1), NEW j \in 1..(Len(q) + 1), l[i] = l[j]
                   PROVE  i = j
      OBVIOUS
    <3>2. \A a, b \in 1..Len(q) : q[a] = q[b] => a = b
      BY <2>1 DEF IsInjective
    <3>3. i # 1 /\ j # 1 => i - 1 = j - 1
      BY <2>7, <3>1, <3>2
    <3>4. i = 1 <=> j = 1
      BY <2>6, <2>7, <3>1
    <3> QED
      BY <3>3, <3>4
  <2>9. IsInjective(l)
    BY <2>5, <2>8 DEF IsInjective
  <2>10. ToSet(l) = {t} \cup ToSet(q)
    <3>1. ToSet(l) \subseteq {t} \cup ToSet(q)
      BY <2>5, <2>6, <2>7 DEF ToSet
    <3>2. \A i \in 1..Len(q) : i + 1 \in 1..(Len(q) + 1)
      OBVIOUS
    <3>3. ToSet(q) \subseteq ToSet(l)
      BY <2>5, <2>6 DEF ToSet
    <3>4. t \in ToSet(l)
      BY <2>5, <2>6 DEF ToSet
    <3> QED
      BY <3>1, <3>3, <3>4
  <2>11. ledger' = l
    BY <1>1 DEF l, h, q
  <2> QED
    BY <2>1, <2>4, <2>9, <2>10, <2>11
<1>8. updates' \in 0..MaxUpdates
  BY <1>1, <1>4, LedgerAssumption
<1>9. s # "none"
  BY DEF Live, Terminal
<1>10. TaskTypes'
  <2>1. \A u \in ToSet(ledger') : status'[u] # "none"
    <3>1. ToSet(ledger) \subseteq Tasks
      BY <1>4 DEF ToSet
    <3> QED
      BY <1>4, <1>6, <1>7, <1>9, <3>1
  <2>2. TypeOK'
    BY <1>3, <1>6, <1>7, <1>8 DEF TaskInv, TaskTypes, TypeOK
  <2> QED
    BY <1>3, <2>1, <2>2 DEF TaskInv, TaskTypes
<1>11. OutcomeIsReported'
  BY <1>3, <1>5, <1>6 DEF TaskInv, OutcomeIsReported
<1>12. ReadIsReported'
  <2>1. \A i \in DOMAIN read : read[i] \in Tasks \X Statuses
    BY <1>4
  <2>2. ASSUME NEW i \in DOMAIN read, read[i][2] \in Terminal
        PROVE  read[i][2] = status'[read[i][1]]
    <3>1. read[i][2] = status[read[i][1]] /\ read[i][1] \in Tasks
      BY <2>1, <2>2 DEF TaskInv, ReadIsReported
    <3> QED
      BY <1>5, <1>6, <2>2, <3>1
  <2> QED
    BY <1>3, <2>2 DEF ReadIsReported
<1>13. PrintsAreTrue'
  <2>1. s # "missing"
    BY DEF Live, Terminal
  <2> QED
    BY <1>3, <2>1 DEF TaskInv, PrintsAreTrue
<1> QED
  BY <1>10, <1>11, <1>12, <1>13 DEF TaskInv

\* A step that leaves the Gateway, the rows and what was read alone, or forgets
\* what was read, has only types to keep.
LEMMA QuietTaskInv ==
    ASSUME TaskInv,
           ledger' \in Seq(Tasks), IsInjective(ledger'), ToSet(ledger') \subseteq ToSet(ledger),
           status' = status, row' = row, print' = print, emitted' = {},
           read' = read \/ read' = <<>>,
           pc' \in {"idle", "paging", "writing"}, pages' \in 0..PageCap,
           pc' = "paging" => pages' < PageCap,
           updates' \in 0..MaxUpdates, faults' \in 0..MaxFaults
    PROVE  TaskInv'
<1>1. <<>> \in Seq(Tasks \X Statuses) /\ DOMAIN <<>> = {}
  OBVIOUS
<1>2. read' \in Seq(Tasks \X Statuses)
  BY <1>1 DEF TaskInv, TaskTypes, TypeOK
<1>3. TaskTypes'
  BY <1>2 DEF TaskInv, TaskTypes, TypeOK
<1>4. ReadIsReported'
  <2>1. CASE read' = read
    BY DEF TaskInv, ReadIsReported
  <2>2. CASE read' = <<>>
    BY <2>2 DEF ReadIsReported
  <2> QED
    BY <2>1, <2>2
<1>5. OutcomeIsReported' /\ PrintsAreTrue'
  BY DEF TaskInv, OutcomeIsReported, PrintsAreTrue
<1> QED
  BY <1>3, <1>4, <1>5 DEF TaskInv

\* A pass starts where none runs.
LEMMA StartsPassFacts ==
    ASSUME StartsPass
    PROVE  pc' = "paging" /\ pages' = 0 /\ read' = <<>>
           /\ pages' \in 0..PageCap /\ pages' < PageCap
  BY LedgerAssumption DEF StartsPass

\* What is left of the types for a step that need not be quiet.
LEMMA PassTypes ==
    ASSUME TaskInv
    PROVE  /\ ledger \in Seq(Tasks) /\ IsInjective(ledger)
           /\ read \in Seq(Tasks \X Statuses)
           /\ pc \in {"idle", "paging", "writing"} /\ pages \in 0..PageCap
           /\ pc = "paging" => pages < PageCap
           /\ updates \in 0..MaxUpdates /\ faults \in 0..MaxFaults
           /\ Fault => faults' \in 0..MaxFaults
           /\ updates < MaxUpdates /\ updates' = updates + 1 => updates' \in 0..MaxUpdates
  BY LedgerAssumption DEF TaskInv, TaskTypes, TypeOK, Fault

\* The Gateway drops a task.
LEMMA DropTaskInv ==
    ASSUME TaskInv, NEW t \in Tasks, DropTask(t)
    PROVE  TaskInv'
<1>1. /\ updates < MaxUpdates /\ updates' = updates + 1
      /\ ledger' = RemoveFirst(ledger, t)
      /\ status' = status /\ row' = row /\ print' = print /\ emitted' = {}
  BY DEF DropTask, rows
<1>2. \/ pc' = "paging" /\ read' = <<>> /\ pages' \in 0..PageCap /\ pages' < PageCap
         /\ faults' = faults
      \/ pc' = pc /\ pages' = pages /\ read' = read /\ (faults' = faults \/ Fault)
  BY StartsPassFacts DEF DropTask, pass
<1>3. /\ ledger' \in Seq(Tasks) /\ IsInjective(ledger')
      /\ ToSet(ledger') \subseteq ToSet(ledger)
  BY <1>1, PassTypes, RemovedOnce
<1>4. updates' \in 0..MaxUpdates /\ faults' \in 0..MaxFaults
  BY <1>1, <1>2, PassTypes
<1>5. /\ read' = read \/ read' = <<>>
      /\ pc' \in {"idle", "paging", "writing"} /\ pages' \in 0..PageCap
      /\ pc' = "paging" => pages' < PageCap
  BY <1>2, PassTypes
<1> QED
  BY <1>1, <1>3, <1>4, <1>5, QuietTaskInv

\* A pass starts, by the interval, a reconnect or a gap.
LEMMA StartPassInv ==
    ASSUME TaskInv, StartPass
    PROVE  TaskInv'
<1>1. /\ ledger' = ledger /\ status' = status /\ row' = row /\ print' = print
      /\ emitted' = {} /\ updates' = updates /\ faults' = faults
  BY DEF StartPass, gateway, rows, counts
<1>2. pc' = "paging" /\ read' = <<>> /\ pages' \in 0..PageCap /\ pages' < PageCap
  BY StartsPassFacts DEF StartPass
<1> QED
  BY <1>1, <1>2, PassTypes, QuietTaskInv

\* A pass fails.
LEMMA PassFailsInv ==
    ASSUME TaskInv, PassFails
    PROVE  TaskInv'
<1>1. /\ ledger' = ledger /\ status' = status /\ row' = row /\ print' = print
      /\ emitted' = {} /\ updates' = updates /\ Fault
      /\ pc' = "idle" /\ pages' = 0 /\ read' = <<>>
  BY DEF PassFails, gateway, rows
<1>2. 0 \in 0..PageCap
  BY LedgerAssumption
<1> QED
  BY <1>1, <1>2, PassTypes, QuietTaskInv

\* The rows of one page: tasks the Gateway lists, each with its status.
LEMMA PageFacts ==
    ASSUME TaskInv, pc = "paging"
    PROVE  /\ Page \in Seq(Tasks)
           /\ \A i \in DOMAIN Page : Page[i] \in ToSet(ledger)
<1> DEFINE n == Len(ledger)
           lo == pages * PageLimit + 1
           hi == IF PageEnd < Len(ledger) THEN PageEnd ELSE Len(ledger)
<1>1. n \in Nat /\ DOMAIN ledger = 1..n /\ \A i \in 1..n : ledger[i] \in Tasks
  BY PassTypes
<1>2. lo \in Nat /\ lo >= 1
  <2>1. pages \in Nat /\ PageLimit \in Nat
    BY PassTypes, LedgerAssumption
  <2>2. pages * PageLimit \in Nat
    BY <2>1
  <2> QED
    BY <2>2
<1>3. hi \in Int /\ hi <= n
  <2>1. pages + 1 \in Nat /\ PageLimit \in Nat
    BY PassTypes, LedgerAssumption
  <2>2. PageEnd \in Nat
    BY <2>1 DEF PageEnd
  <2> QED
    BY <2>2
<1>4. Page = SubSeq(ledger, lo, hi)
  BY DEF Page
<1> HIDE DEF lo, hi, n
<1>5. \A i \in lo..hi : i \in 1..n /\ ledger[i] \in Tasks
  BY <1>1, <1>2, <1>3
<1>6. /\ Page \in Seq(Tasks)
      /\ Len(Page) = (IF lo <= hi THEN hi - lo + 1 ELSE 0)
      /\ \A i \in 1..(hi - lo + 1) : Page[i] = ledger[lo + i - 1]
  BY <1>2, <1>3, <1>4, <1>5
<1>7. ASSUME NEW i \in DOMAIN Page PROVE Page[i] \in ToSet(ledger)
  <2>1. i \in 1..(hi - lo + 1) /\ lo + i - 1 \in lo..hi
    BY <1>2, <1>3, <1>6
  <2> QED
    BY <1>1, <1>5, <1>6, <2>1 DEF ToSet
<1> QED
  BY <1>6, <1>7

\* A page is read.
LEMMA PageAnsweredInv ==
    ASSUME TaskInv, PageAnswered
    PROVE  TaskInv'
<1> DEFINE p == [i \in DOMAIN Page |-> <<Page[i], status[Page[i]]>>]
<1>1. /\ pc = "paging" /\ pages' = pages + 1 /\ read' = read \o p
      /\ pc' = IF IsLast THEN "writing" ELSE "paging"
      /\ ledger' = ledger /\ status' = status /\ row' = row /\ print' = print
      /\ emitted' = {} /\ updates' = updates /\ faults' = faults
  BY DEF PageAnswered, gateway, rows, counts
<1>2. Page \in Seq(Tasks) /\ \A i \in DOMAIN Page : Page[i] \in ToSet(ledger)
  BY <1>1, PageFacts
<1>3. /\ read \in Seq(Tasks \X Statuses) /\ ReadIsReported /\ OutcomeIsReported
      /\ PrintsAreTrue /\ status \in [Tasks -> Statuses \cup {"none"}]
      /\ \A t \in ToSet(ledger) : status[t] # "none"
  BY DEF TaskInv, TaskTypes, TypeOK
<1>4. p \in Seq(Tasks \X Statuses) /\ Len(p) = Len(Page)
      /\ \A i \in 1..Len(p) : p[i][2] = status[p[i][1]]
  <2>1. Len(Page) \in Nat /\ DOMAIN Page = 1..Len(Page)
    OBVIOUS
  <2>2. \A i \in 1..Len(Page) : Page[i] \in Tasks /\ status[Page[i]] \in Statuses
    BY <1>2, <1>3
  <2>3. p = [i \in 1..Len(Page) |-> <<Page[i], status[Page[i]]>>]
    OBVIOUS
  <2> HIDE DEF p
  <2>4. \A i \in 1..Len(Page) : p[i] = <<Page[i], status[Page[i]]>> /\ p[i] \in Tasks \X Statuses
    BY <2>2, <2>3
  <2>5. p \in Seq(Tasks \X Statuses) /\ Len(p) = Len(Page)
    BY <2>3, <2>4
  <2> QED
    BY <2>4, <2>5
<1> HIDE DEF p
<1>5. /\ read' \in Seq(Tasks \X Statuses) /\ Len(read') = Len(read) + Len(p)
      /\ \A i \in 1..(Len(read) + Len(p)) :
            read'[i] = IF i <= Len(read) THEN read[i] ELSE p[i - Len(read)]
  BY <1>1, <1>3, <1>4, ConcatProperties
<1>6. Len(read) \in Nat /\ Len(p) \in Nat /\ DOMAIN read = 1..Len(read)
      /\ DOMAIN read' = 1..(Len(read) + Len(p))
  BY <1>5
<1>7. ReadIsReported'
  <2>1. SUFFICES ASSUME NEW i \in 1..(Len(read) + Len(p)), read'[i][2] \in Terminal
                 PROVE  read'[i][2] = status[read'[i][1]]
    BY <1>1 DEF ReadIsReported
  <2>2. CASE i <= Len(read)
    <3>1. i \in DOMAIN read /\ read'[i] = read[i]
      BY <1>5, <2>2
    <3> QED
      BY <1>3, <2>1, <3>1 DEF ReadIsReported
  <2>3. CASE ~(i <= Len(read))
    <3>1. i - Len(read) \in 1..Len(p) /\ read'[i] = p[i - Len(read)]
      BY <1>5, <2>3
    <3> QED
      BY <1>4, <3>1
  <2> QED
    BY <2>2, <2>3
<1>8. /\ pages' \in 0..PageCap
      /\ pc' \in {"idle", "paging", "writing"}
      /\ pc' = "paging" => pages' < PageCap
  <2>1. pages \in Nat /\ PageCap \in Nat /\ pages < PageCap
    BY <1>1, PassTypes, LedgerAssumption
  <2>2. pc' = "paging" => pages + 1 # PageCap
    BY <1>1 DEF IsLast
  <2> QED
    BY <1>1, <2>1, <2>2
<1>9. TaskTypes'
  BY <1>1, <1>5, <1>8 DEF TaskInv, TaskTypes, TypeOK
<1>10. OutcomeIsReported' /\ PrintsAreTrue'
  BY <1>1, <1>3 DEF OutcomeIsReported, PrintsAreTrue
<1> QED
  BY <1>7, <1>9, <1>10 DEF TaskInv

\* What the end of a pass makes of a row: the last that was read of the task,
\* a missing one if it was operational and not read, or nothing.
LEMMA EndPassFacts ==
    ASSUME TaskInv, EndPass
    PROVE  /\ emitted' \in SUBSET Tasks
           /\ row' = [t \in Tasks |-> row'[t]] /\ print' = [t \in Tasks |-> print'[t]]
           /\ \A t \in Tasks :
                 \/ /\ \E i \in DOMAIN read : read[i] = <<t, row'[t]>>
                    /\ row'[t] \in Statuses /\ print'[t] = row'[t]
                    /\ row'[t] # row[t] => t \in emitted'
                 \/ /\ row'[t] = "missing" /\ print'[t] = Marked
                    /\ row[t] \in Operational /\ t \in emitted'
                 \/ row'[t] = row[t] /\ print'[t] = print[t]
<1> DEFINE W == Written(read)
           states == Upserted(row, read)
           dropped == Missing(states, W)
<1>1. /\ row' = Swept(states, dropped)
      /\ print' = SweptPrint(Upserted(print, read), dropped)
      /\ emitted' = Changed(read) \cup dropped
  BY DEF EndPass
<1>2. /\ read \in Seq(Tasks \X Statuses) /\ PrintsAreTrue
      /\ DOMAIN read = 1..Len(read) /\ \A i \in DOMAIN read : read[i] \in Tasks \X Statuses
  BY PassTypes DEF TaskInv
<1>3. /\ W \in SUBSET Tasks
      /\ states = [t \in Tasks |-> IF t \in W THEN LastOf(t, read) ELSE row[t]]
      /\ Upserted(print, read) = [t \in Tasks |-> IF t \in W THEN LastOf(t, read) ELSE print[t]]
  BY <1>2, UpsertedFacts
<1>4. \A t \in W : /\ LastOf(t, read) \in Statuses
                   /\ \E i \in DOMAIN read : read[i] = <<t, LastOf(t, read)>>
  <2>1. SUFFICES ASSUME NEW t \in W
                 PROVE  /\ LastOf(t, read) \in Statuses
                        /\ \E i \in DOMAIN read : read[i] = <<t, LastOf(t, read)>>
    OBVIOUS
  <2>2. /\ LastOf(t, read) \in Statuses
        /\ \E i \in DOMAIN read : read[i][1] = t /\ read[i][2] = LastOf(t, read)
    BY <1>2, LastIsWritten
  <2> QED
    BY <1>2, <2>2
<1>5. dropped = {t \in Tasks : states[t] \in Operational /\ t \notin W}
  BY DEF Missing
<1>6. Changed(read) = {t \in W : \E i \in DOMAIN read : read[i][1] = t /\ read[i][2] # print[t]}
  BY DEF Changed
<1> HIDE DEF W, states, dropped
<1>7. /\ row' = [t \in Tasks |-> IF t \in dropped THEN "missing" ELSE states[t]]
      /\ print' = [t \in Tasks |-> IF t \in dropped THEN Marked
                                   ELSE IF t \in W THEN LastOf(t, read) ELSE print[t]]
  BY <1>1, <1>3 DEF Swept, SweptPrint
<1>8. emitted' \in SUBSET Tasks
  BY <1>1, <1>3, <1>5, <1>6
<1>9. ASSUME NEW t \in Tasks
      PROVE  \/ /\ \E i \in DOMAIN read : read[i] = <<t, row'[t]>>
                /\ row'[t] \in Statuses /\ print'[t] = row'[t]
                /\ row'[t] # row[t] => t \in emitted'
             \/ /\ row'[t] = "missing" /\ print'[t] = Marked
                /\ row[t] \in Operational /\ t \in emitted'
             \/ row'[t] = row[t] /\ print'[t] = print[t]
  <2>1. CASE t \in W
    <3>1. t \notin dropped /\ row'[t] = LastOf(t, read) /\ print'[t] = LastOf(t, read)
      BY <1>3, <1>5, <1>7, <2>1
    <3>2. PICK i \in DOMAIN read : read[i] = <<t, row'[t]>>
      BY <1>4, <2>1, <3>1
    <3>3. row'[t] \in Statuses
      BY <1>4, <2>1, <3>1
    <3>4. row'[t] # row[t] => row'[t] # print[t]
      <4>1. row'[t] # Marked
        BY <3>3 DEF Statuses, Live, Terminal, Marked
      <4> QED
        BY <1>2, <4>1 DEF PrintsAreTrue
    <3>5. row'[t] # row[t] => t \in emitted'
      BY <1>1, <1>6, <2>1, <3>2, <3>4
    <3> QED
      BY <3>1, <3>2, <3>3, <3>5
  <2>2. CASE t \in dropped
    <3>1. t \notin W /\ states[t] \in Operational
      BY <1>5, <2>2
    <3>2. states[t] = row[t]
      BY <1>3, <3>1
    <3>3. row'[t] = "missing" /\ print'[t] = Marked
      BY <1>7, <2>2
    <3> QED
      BY <1>1, <2>2, <3>1, <3>2, <3>3
  <2>3. CASE t \notin W /\ t \notin dropped
    BY <1>3, <1>7, <2>3
  <2> QED
    BY <2>1, <2>2, <2>3
<1>10. row' = [t \in Tasks |-> row'[t]] /\ print' = [t \in Tasks |-> print'[t]]
  BY <1>7
<1> QED
  BY <1>8, <1>9, <1>10

\* A pass writes what it read and sweeps what it did not read.
LEMMA EndPassInv ==
    ASSUME TaskInv, EndPass
    PROVE  TaskInv'
<1>1. /\ pc' = "idle" /\ pages' = 0 /\ read' = <<>>
      /\ ledger' = ledger /\ status' = status /\ updates' = updates /\ faults' = faults
  BY DEF EndPass, gateway, counts
<1>2. /\ emitted' \in SUBSET Tasks
      /\ row' = [t \in Tasks |-> row'[t]] /\ print' = [t \in Tasks |-> print'[t]]
      /\ \A t \in Tasks :
            \/ /\ \E i \in DOMAIN read : read[i] = <<t, row'[t]>>
               /\ row'[t] \in Statuses /\ print'[t] = row'[t]
            \/ row'[t] = "missing" /\ print'[t] = Marked
            \/ row'[t] = row[t] /\ print'[t] = print[t]
  BY EndPassFacts
<1>3. /\ row \in [Tasks -> Statuses \cup {"absent", "missing"}]
      /\ print \in [Tasks -> Statuses \cup {"absent", Marked}]
      /\ ReadIsReported /\ OutcomeIsReported /\ PrintsAreTrue
  BY DEF TaskInv, TaskTypes, TypeOK
<1>4. \A t \in Tasks : /\ row'[t] \in Statuses \cup {"absent", "missing"}
                       /\ print'[t] \in Statuses \cup {"absent", Marked}
  BY <1>2, <1>3
<1>5. /\ row' \in [Tasks -> Statuses \cup {"absent", "missing"}]
      /\ print' \in [Tasks -> Statuses \cup {"absent", Marked}]
  BY <1>2, <1>4
<1>6. <<>> \in Seq(Tasks \X Statuses) /\ DOMAIN <<>> = {}
  OBVIOUS
<1>7. TaskTypes'
  <2>1. 0 \in 0..PageCap
    BY LedgerAssumption
  <2> QED
    BY <1>1, <1>2, <2>1 DEF TaskInv, TaskTypes, TypeOK
<1>8. ReadIsReported'
  BY <1>1 DEF ReadIsReported
<1>9. OutcomeIsReported'
  <2>1. SUFFICES ASSUME NEW t \in Tasks, row'[t] \in Terminal PROVE row'[t] = status[t]
    BY <1>1 DEF OutcomeIsReported
  <2>2. CASE \E i \in DOMAIN read : read[i] = <<t, row'[t]>>
    <3>1. PICK i \in DOMAIN read : read[i] = <<t, row'[t]>>
      BY <2>2
    <3>2. read[i][1] = t /\ read[i][2] = row'[t]
      BY <3>1
    <3> QED
      BY <1>3, <2>1, <3>2 DEF ReadIsReported
  <2>3. CASE row'[t] = "missing"
    BY <2>1, <2>3 DEF Terminal
  <2>4. CASE row'[t] = row[t]
    BY <1>3, <2>1, <2>4 DEF OutcomeIsReported
  <2> QED
    BY <1>2, <2>2, <2>3, <2>4
<1>10. PrintsAreTrue'
  <2>1. SUFFICES ASSUME NEW t \in Tasks
                 PROVE  print'[t] = IF row'[t] = "missing" THEN Marked ELSE row'[t]
    BY DEF PrintsAreTrue
  <2>2. "missing" \notin Statuses
    BY DEF Statuses, Live, Terminal
  <2> QED
    BY <1>2, <1>3, <2>2 DEF PrintsAreTrue
<1> QED
  BY <1>7, <1>8, <1>9, <1>10 DEF TaskInv

\* Retention takes terminal rows only.
LEMMA RetentionFacts ==
    ASSUME TaskInv, Retention
    PROVE  /\ emitted' \in SUBSET Tasks
           /\ row' = [t \in Tasks |-> row'[t]] /\ print' = [t \in Tasks |-> print'[t]]
           /\ \A t \in Tasks :
                 \/ row'[t] = "absent" /\ print'[t] = "absent" /\ t \in emitted'
                 \/ row'[t] = row[t] /\ print'[t] = print[t]
<1>1. PICK old \in SUBSET {t \in Tasks : row[t] \in Terminal} :
          /\ row' = [t \in Tasks |-> IF t \in old THEN "absent" ELSE row[t]]
          /\ print' = [t \in Tasks |-> IF t \in old THEN "absent" ELSE print[t]]
          /\ emitted' = old
  BY DEF Retention
<1>2. ASSUME NEW t \in Tasks
      PROVE  \/ row'[t] = "absent" /\ print'[t] = "absent" /\ t \in emitted'
             \/ row'[t] = row[t] /\ print'[t] = print[t]
  BY <1>1
<1> QED
  BY <1>1

\* Retention forgets rows.
LEMMA RetentionInv ==
    ASSUME TaskInv, Retention
    PROVE  TaskInv'
<1>1. /\ ledger' = ledger /\ status' = status /\ pc' = pc /\ pages' = pages
      /\ read' = read /\ updates' = updates /\ faults' \in 0..MaxFaults
  BY PassTypes DEF Retention, gateway, pass
<1>2. /\ emitted' \in SUBSET Tasks
      /\ row' = [t \in Tasks |-> row'[t]] /\ print' = [t \in Tasks |-> print'[t]]
      /\ \A t \in Tasks :
            \/ row'[t] = "absent" /\ print'[t] = "absent"
            \/ row'[t] = row[t] /\ print'[t] = print[t]
  BY RetentionFacts
<1>3. /\ row \in [Tasks -> Statuses \cup {"absent", "missing"}]
      /\ print \in [Tasks -> Statuses \cup {"absent", Marked}]
      /\ ReadIsReported /\ OutcomeIsReported /\ PrintsAreTrue
  BY DEF TaskInv, TaskTypes, TypeOK
<1>4. \A t \in Tasks : /\ row'[t] \in Statuses \cup {"absent", "missing"}
                       /\ print'[t] \in Statuses \cup {"absent", Marked}
  BY <1>2, <1>3
<1>5. /\ row' \in [Tasks -> Statuses \cup {"absent", "missing"}]
      /\ print' \in [Tasks -> Statuses \cup {"absent", Marked}]
  BY <1>2, <1>4
<1>6. TaskTypes'
  BY <1>1, <1>2 DEF TaskInv, TaskTypes, TypeOK
<1>7. ReadIsReported'
  BY <1>1, <1>3 DEF ReadIsReported
<1>8. OutcomeIsReported'
  BY <1>1, <1>2, <1>3 DEF OutcomeIsReported, Terminal
<1>9. PrintsAreTrue'
  BY <1>2, <1>3 DEF PrintsAreTrue
<1> QED
  BY <1>6, <1>7, <1>8, <1>9 DEF TaskInv

\* The invariant is inductive.
LEMMA NextTaskInv ==
    ASSUME TaskInv, [Next]_vars
    PROVE  TaskInv'
<1>1. CASE UNCHANGED vars
  <2>1. /\ ledger' = ledger /\ status' = status /\ row' = row /\ print' = print
        /\ emitted' = emitted /\ pc' = pc /\ pages' = pages /\ read' = read
        /\ updates' = updates /\ faults' = faults
    BY <1>1 DEF vars, gateway, rows, pass, counts
  <2> QED
    BY <2>1
    DEF TaskInv, TaskTypes, TypeOK, OutcomeIsReported, ReadIsReported, PrintsAreTrue
<1>2. CASE Next
  BY <1>2, DropTaskInv, UpdateTaskInv, StartPassInv, PageAnsweredInv, EndPassInv,
     PassFailsInv, RetentionInv
  DEF Next
<1> QED
  BY <1>1, <1>2

\* The invariant holds of every behaviour.
LEMMA TaskInvHolds == Spec => []TaskInv
  BY InitTaskInv, NextTaskInv, PTL DEF Spec

\* The types of TaskLedger hold: the ledger lists a task once, a pass asks for
\* no page past its cap, and no row has a state the code does not write.
THEOREM TasksTyped == Spec => []TypeOK
  BY TaskInvHolds, PTL DEF TaskInv, TaskTypes

\* No outcome is guessed, for all tasks, page sizes and caps: a task is shown
\* as settled only with the outcome the Gateway gave it, also after it moved or
\* vanished between two pages, after lost events and after retention
\* (upsertMany and markMissingTasks).
THEOREM OutcomeReported == Spec => []OutcomeIsReported
  BY TaskInvHolds, PTL DEF TaskInv

-----------------------------------------------------------------------------
(* What a step may do to the rows.                                         *)

\* A changed row is named, and a settled one comes back only as it was read.
LEMMA StepsAreTrue ==
    ASSUME TaskInv, [Next]_vars
    PROVE  /\ \A t \in Tasks : (row'[t] # row[t]) => (t \in emitted')
           /\ \A t \in Tasks :
                 (row[t] \in Terminal /\ row'[t] \notin Terminal)
                     => (row'[t] = "absent" \/ <<t, row'[t]>> \in ToSet(read))
<1> DEFINE Named(t)  == (row'[t] # row[t]) => (t \in emitted')
           Allowed(t) == (row[t] \in Terminal /\ row'[t] \notin Terminal)
                            => (row'[t] = "absent" \/ <<t, row'[t]>> \in ToSet(read))
<1>1. ASSUME row' = row, NEW u \in Tasks PROVE Named(u) /\ Allowed(u)
  BY <1>1
<1>2. ASSUME NEW t \in Tasks, NEW s \in Live \cup Terminal, UpdateTask(t, s), NEW u \in Tasks
      PROVE  Named(u) /\ Allowed(u)
  <2>1. s \in Statuses /\ Notified(t, s) /\ <<status[t], s>> \in Steps
    BY <1>2 DEF UpdateTask, Statuses
  <2>2. /\ row'[u] = row[u] \/ (u = t /\ row'[u] = s)
        /\ row'[u] # row[u] => u \in emitted'
    BY <2>1, NotifiedFacts
  <2>3. status[t] \notin Terminal
    BY <2>1 DEF Steps, Live, Terminal
  <2>4. row[t] \in Terminal => row[t] = status[t]
    BY DEF TaskInv, OutcomeIsReported
  <2> QED
    BY <2>2, <2>3, <2>4
<1>3. ASSUME EndPass, NEW u \in Tasks PROVE Named(u) /\ Allowed(u)
  <2>1. \/ /\ \E i \in DOMAIN read : read[i] = <<u, row'[u]>>
           /\ row'[u] # row[u] => u \in emitted'
        \/ row[u] \in Operational /\ u \in emitted'
        \/ row'[u] = row[u]
    BY <1>3, EndPassFacts
  <2>2. Named(u)
    BY <2>1
  <2>3. Operational \cap Terminal = {}
    BY DEF Operational, Live, Terminal
  <2>4. (\E i \in DOMAIN read : read[i] = <<u, row'[u]>>) => <<u, row'[u]>> \in ToSet(read)
    BY DEF ToSet
  <2>5. Allowed(u)
    BY <2>1, <2>3, <2>4
  <2> QED
    BY <2>2, <2>5
<1>4. ASSUME Retention, NEW u \in Tasks PROVE Named(u) /\ Allowed(u)
  <2>1. row'[u] = row[u] \/ (row'[u] = "absent" /\ u \in emitted')
    BY <1>4, RetentionFacts
  <2> QED
    BY <2>1
<1>5. ASSUME \/ \E t \in Tasks : DropTask(t)
             \/ StartPass \/ PageAnswered \/ PassFails \/ UNCHANGED vars
      PROVE  row' = row
  BY <1>5 DEF DropTask, StartPass, PageAnswered, PassFails, vars, rows
<1> HIDE DEF Named, Allowed
<1>6. \A u \in Tasks : Named(u) /\ Allowed(u)
  BY <1>1, <1>2, <1>3, <1>4, <1>5 DEF Next
<1> QED
  BY <1>6 DEF Named, Allowed

\* No change of a task's row is silent, and a settled task is brought back only
\* by a pass that read it before it settled (upsertMany, markMissingTasks),
\* whatever the order of the events, the pages and the faults.
THEOREM ChangesTrue == Spec => ChangesAreTrue
<1>1. TaskInv /\ [Next]_vars
      => [\A t \in Tasks : (row'[t] # row[t]) => (t \in emitted')]_vars
  BY StepsAreTrue
<1>2. TaskInv /\ [Next]_vars
      => [\A t \in Tasks :
            (row[t] \in Terminal /\ row'[t] \notin Terminal)
                => (row'[t] = "absent" \/ <<t, row'[t]>> \in ToSet(read))]_vars
  BY StepsAreTrue
<1> QED
  BY TaskInvHolds, <1>1, <1>2, PTL
  DEF Spec, ChangesAreTrue, ChangesAreEmitted, OnlyAnOldReadUnsettles

-----------------------------------------------------------------------------
(* The probes of the Gateway's methods.                                    *)

\* The three methods and their places.
LEMMA MethodPlaces ==
    /\ Methods = {"sessions.usage", "chat.history", "audit.list"}
    /\ Place("sessions.usage") = 1 /\ Place("chat.history") = 2 /\ Place("audit.list") = 3
<1>1. DOMAIN MethodAt = 1..3 /\ 1..3 = {1, 2, 3}
      /\ MethodAt[1] = "sessions.usage" /\ MethodAt[2] = "chat.history"
      /\ MethodAt[3] = "audit.list"
  BY DEF MethodAt
<1>2. Methods = {"sessions.usage", "chat.history", "audit.list"}
  BY <1>1 DEF Methods
<1> QED
  BY <1>1, <1>2 DEF Place

\* A pass goes on to a method, or is over.
LEMMA NextAskedFacts ==
    ASSUME NEW judged, NEW from, NEW key
    PROVE  NextAsked(judged, from, key) \in Methods \cup {NoProbe}
<1> DEFINE open == {m \in Methods : Place(m) >= from /\ Askable(judged, m, key)}
<1>1. open \in SUBSET Methods
  OBVIOUS
<1>2. NextAsked(judged, from, key)
        = IF open = {} THEN NoProbe
          ELSE CHOOSE m \in open : \A o \in open : Place(m) <= Place(o)
  BY DEF NextAsked
<1> HIDE DEF open
<1>3. open # {} => \E m \in open : \A o \in open : Place(m) <= Place(o)
  <2>1. \A o \in open : o \in {"sessions.usage", "chat.history", "audit.list"}
    BY <1>1, MethodPlaces
  <2>2. CASE "sessions.usage" \in open
    BY <2>1, MethodPlaces
  <2>3. CASE "sessions.usage" \notin open /\ "chat.history" \in open
    BY <2>1, MethodPlaces
  <2>4. CASE "sessions.usage" \notin open /\ "chat.history" \notin open
    BY <2>1, MethodPlaces
  <2> QED
    BY <2>2, <2>3, <2>4
<1> QED
  BY <1>1, <1>2

\* What a pass under way asks, it asks of the build that is connected.
ProbeInv ==
    /\ ProbeTypeOK
    /\ greetings <= connects
    /\ ~linked => \A p \in Passes : probing[p] = NoProbe
    /\ VerdictsAreOfThisBuild

LEMMA InitProbeInv == ProbeInit => ProbeInv
<1> SUFFICES ASSUME ProbeInit PROVE ProbeInv
  OBVIOUS
<1>1. ProbeTypeOK
  <2>1. linked \in BOOLEAN /\ serves \in Builds /\ archiveFilled \in BOOLEAN
    BY DEF ProbeInit
  <2>2. /\ greetings \in 0..MaxConnects /\ connects \in 0..MaxConnects
        /\ probeFaults \in 0..MaxProbeFaults
    BY ProbeAssumption DEF ProbeInit
  <2>3. verdicts \in [Methods -> {"unknown", "live", "unavailable", "unauthorized", "error"}]
    BY DEF ProbeInit
  <2>4. probing \in [Passes -> Methods \cup {NoProbe}] /\ keyed \subseteq Passes
    BY DEF ProbeInit
  <2> QED
    BY <2>1, <2>2, <2>3, <2>4 DEF ProbeTypeOK
<1>2. linked = FALSE /\ greetings <= connects /\ \A p \in Passes : probing[p] = NoProbe
  BY DEF ProbeInit
<1> QED
  BY <1>1, <1>2 DEF ProbeInv, VerdictsAreOfThisBuild

\* A pass that begins has a type, and changes no verdict.
LEMMA BeginPassFacts ==
    ASSUME ProbeTypeOK, NEW key, BeginPass(key)
    PROVE  probing' \in [Passes -> Methods \cup {NoProbe}] /\ keyed' \subseteq Passes
<1>1. PICK p \in Passes :
          /\ probing' = [probing EXCEPT ![p] = NextAsked(verdicts, 1, key)]
          /\ keyed' = IF key THEN keyed \cup {p} ELSE keyed \ {p}
  BY DEF BeginPass
<1>2. NextAsked(verdicts, 1, key) \in Methods \cup {NoProbe}
  BY NextAskedFacts
<1>3. keyed' \subseteq Passes
  BY <1>1 DEF ProbeTypeOK
<1>4. probing' \in [Passes -> Methods \cup {NoProbe}]
  BY <1>1, <1>2 DEF ProbeTypeOK
<1> QED
  BY <1>3, <1>4

\* The verdict on a method a pass awaits becomes what it is answered.
LEMMA ProbeAnswerInv ==
    ASSUME ProbeInv, NEW p \in Passes, probing[p] # NoProbe, NEW answer,
           answer \in {"error", Truth(probing[p])}, ProbeAnswer(p, answer),
           linked' = linked, serves' = serves, greetings' = greetings,
           archiveFilled' = archiveFilled, keyed' = keyed, connects' = connects,
           probeFaults' \in 0..MaxProbeFaults
    PROVE  ProbeInv'
<1> DEFINE m == probing[p]
           judged == [verdicts EXCEPT ![m] = answer]
           next == NextAsked(judged, Place(m) + 1, p \in keyed)
<1>1. m \in Methods
  BY DEF ProbeInv, ProbeTypeOK
<1>2. verdicts' = judged /\ probing' = [probing EXCEPT ![p] = next]
  BY DEF ProbeAnswer
<1>3. next \in Methods \cup {NoProbe}
  <2> HIDE DEF judged, m
  <2> QED
    BY NextAskedFacts
<1> HIDE DEF next
<1>4. probing' \in [Passes -> Methods \cup {NoProbe}]
  BY <1>2, <1>3 DEF ProbeInv, ProbeTypeOK
<1>5. answer \in {"unknown", "live", "unavailable", "unauthorized", "error"}
  BY ProbeAssumption DEF Truth
<1>6. /\ verdicts' \in [Methods -> {"unknown", "live", "unavailable", "unauthorized", "error"}]
      /\ verdicts'[m] = answer
      /\ \A o \in Methods : o # m => verdicts'[o] = verdicts[o]
  BY <1>2, <1>5 DEF ProbeInv, ProbeTypeOK
<1>7. linked
  BY DEF ProbeInv
<1>8. ASSUME NEW o \in Methods PROVE verdicts'[o] \in {"unknown", "error", Truth(o)'}
  <2>1. Truth(o)' = Truth(o)
    BY DEF Truth
  <2>2. verdicts[o] \in {"unknown", "error", Truth(o)}
    BY DEF ProbeInv, VerdictsAreOfThisBuild
  <2> QED
    BY <1>6, <2>1, <2>2
<1>9. ProbeTypeOK'
  BY <1>4, <1>6 DEF ProbeInv, ProbeTypeOK
<1> QED
  BY <1>8, <1>9 DEF ProbeInv, VerdictsAreOfThisBuild

\* The invariant is inductive.
LEMMA NextProbeInv ==
    ASSUME ProbeInv, [ProbeNext]_probeVars
    PROVE  ProbeInv'
<1>0. /\ ProbeTypeOK /\ greetings <= connects /\ VerdictsAreOfThisBuild
      /\ ~linked => \A p \in Passes : probing[p] = NoProbe
  BY DEF ProbeInv
<1>1. CASE Connects
  <2>1. /\ connects < MaxConnects /\ connects' = connects + 1 /\ linked' = TRUE
        /\ serves' \in Builds /\ verdicts' = [m \in Methods |-> "unknown"]
        /\ greetings' = greetings + 1 /\ archiveFilled' = archiveFilled
        /\ probing' = probing /\ keyed' = keyed /\ probeFaults' = probeFaults
    BY <1>1 DEF Connects, Forgotten
  <2>2. /\ connects' \in 0..MaxConnects /\ greetings' \in 0..MaxConnects
        /\ greetings' <= connects'
    BY <1>0, <2>1, ProbeAssumption DEF ProbeTypeOK
  <2>3. ProbeTypeOK'
    BY <1>0, <2>1, <2>2 DEF ProbeTypeOK
  <2>4. VerdictsAreOfThisBuild'
    BY <2>1 DEF VerdictsAreOfThisBuild
  <2> QED
    BY <2>1, <2>2, <2>3, <2>4 DEF ProbeInv
<1>2. CASE Disconnects
  <2>1. /\ linked' = FALSE /\ probing' = [p \in Passes |-> NoProbe]
        /\ verdicts' = [m \in Methods |-> IF CutOff(m) THEN "error" ELSE verdicts[m]]
        /\ serves' = serves /\ greetings' = greetings /\ archiveFilled' = archiveFilled
        /\ keyed' = keyed /\ connects' = connects /\ probeFaults' = probeFaults
    BY <1>2 DEF Disconnects
  <2>2. verdicts' \in [Methods -> {"unknown", "live", "unavailable", "unauthorized", "error"}]
    BY <1>0, <2>1 DEF ProbeTypeOK
  <2>3. /\ probing' \in [Passes -> Methods \cup {NoProbe}]
        /\ \A p \in Passes : probing'[p] = NoProbe
    BY <2>1
  <2>4. ProbeTypeOK'
    BY <1>0, <2>1 DEF ProbeTypeOK
  <2> QED
    BY <2>1, <2>4 DEF ProbeInv, VerdictsAreOfThisBuild
<1>3. CASE FirstProbe
  <2>1. /\ greetings > 0 /\ greetings' = greetings - 1
        /\ IF linked THEN BeginPass(archiveFilled) ELSE probing' = probing /\ keyed' = keyed
        /\ linked' = linked /\ serves' = serves /\ verdicts' = verdicts
        /\ archiveFilled' = archiveFilled /\ connects' = connects /\ probeFaults' = probeFaults
    BY <1>3 DEF FirstProbe
  <2>2. greetings' \in 0..MaxConnects /\ greetings' <= connects'
    BY <1>0, <2>1, ProbeAssumption DEF ProbeTypeOK
  <2>3. probing' \in [Passes -> Methods \cup {NoProbe}] /\ keyed' \subseteq Passes
    BY <1>0, <2>1, BeginPassFacts DEF ProbeTypeOK
  <2>4. ~linked' => \A p \in Passes : probing'[p] = NoProbe
    BY <1>0, <2>1
  <2>5. VerdictsAreOfThisBuild'
    BY <1>0, <2>1 DEF VerdictsAreOfThisBuild, Truth
  <2>6. ProbeTypeOK'
    BY <1>0, <2>1, <2>2, <2>3 DEF ProbeTypeOK
  <2> QED
    BY <2>2, <2>4, <2>5, <2>6 DEF ProbeInv
<1>4. CASE SessionsArchived
  BY <1>4 DEF SessionsArchived, ProbeInv, ProbeTypeOK, VerdictsAreOfThisBuild, Truth
<1>5. CASE SettleHistoryProbe
  <2>1. /\ linked /\ BeginPass(TRUE)
        /\ linked' = linked /\ serves' = serves /\ verdicts' = verdicts
        /\ greetings' = greetings /\ archiveFilled' = archiveFilled
        /\ connects' = connects /\ probeFaults' = probeFaults
    BY <1>5 DEF SettleHistoryProbe
  <2>2. probing' \in [Passes -> Methods \cup {NoProbe}] /\ keyed' \subseteq Passes
    BY <1>0, <2>1, BeginPassFacts
  <2> QED
    BY <2>1, <2>2 DEF ProbeInv, ProbeTypeOK, VerdictsAreOfThisBuild, Truth
<1>6. ASSUME NEW p \in Passes, ProbeAnswered(p) \/ ProbeFails(p) PROVE ProbeInv'
  <2>1. probeFaults' \in 0..MaxProbeFaults
    BY <1>0, <1>6, ProbeAssumption DEF ProbeTypeOK, ProbeAnswered, ProbeFails
  <2>2. /\ probing[p] # NoProbe
        /\ linked' = linked /\ serves' = serves /\ greetings' = greetings
        /\ archiveFilled' = archiveFilled /\ keyed' = keyed /\ connects' = connects
    BY <1>6 DEF ProbeAnswered, ProbeFails
  <2>3. PICK answer \in {"error", Truth(probing[p])} : ProbeAnswer(p, answer)
    BY <1>6 DEF ProbeAnswered, ProbeFails
  <2> QED
    BY <2>1, <2>2, <2>3, ProbeAnswerInv
<1>7. CASE UNCHANGED probeVars
  BY <1>7 DEF probeVars, ProbeInv, ProbeTypeOK, VerdictsAreOfThisBuild, Truth
<1> QED
  BY <1>1, <1>2, <1>3, <1>4, <1>5, <1>6, <1>7 DEF ProbeNext

\* The invariant holds of every behaviour.
LEMMA ProbeInvHolds == ProbeSpec => []ProbeInv
  BY InitProbeInv, NextProbeInv, PTL DEF ProbeSpec

\* The types of CapabilityProbe hold.
THEOREM ProbeTyped == ProbeSpec => []ProbeTypeOK
  BY ProbeInvHolds, PTL DEF ProbeInv

\* A verdict that stops further calls is one the connected build gave, for any
\* number of passes that overlap and of connections between them
\* (capability-probe.ts, and newGeneration of the runtime).
THEOREM VerdictsOfThisBuild == ProbeSpec => []VerdictsAreOfThisBuild
  BY ProbeInvHolds, PTL DEF ProbeInv

-----------------------------------------------------------------------------
(* The agents table.                                                       *)

StatedModels == Models \cup {NotStated}

\* A row of the table is absent, or its fingerprint is that of a write that
\* gave it its name and origin and stated its model, or none.
IsRow(r) ==
    \/ r = NoAgentRow
    \/ \E n \in Names \cup {Placeholder}, m \in StatedModels, o \in {"roster", "observed"} :
          \E k \in {NotStated, m} :
             r = [name |-> n, model |-> m, origin |-> o, print |-> <<n, k, o>>]

\* What is written is of the roster, or an inference, which states no model.
IsWrite(w) ==
    \E n \in Names \cup {Placeholder}, m \in StatedModels, o \in {"roster", "observed"} :
       w = [name |-> n, model |-> m, origin |-> o] /\ (o # "roster" => m = NotStated)

\* What a write makes of a row (agentUpsertSql): never an absent row, no other
\* name for an inference, and what readers see only with a new fingerprint.
LEMMA MergedFacts ==
    ASSUME NEW r, IsRow(r), NEW w, IsWrite(w)
    PROVE  /\ IsRow(Merged(r, w)) /\ Merged(r, w) # NoAgentRow
           /\ ~IsChange(r, w) => /\ Merged(r, w).name = r.name
                                 /\ Merged(r, w).model = r.model
                                 /\ Merged(r, w).origin = r.origin
           /\ r.origin = "roster" => Merged(r, w).origin = "roster"
           /\ r.origin = "roster" /\ Merged(r, w).name # r.name
                => w.origin = "roster" /\ Merged(r, w).name = w.name
           /\ r.model # NotStated => Merged(r, w).model # NotStated
<1>1. PICK wn \in Names \cup {Placeholder}, wm \in StatedModels, wo \in {"roster", "observed"} :
          w = [name |-> wn, model |-> wm, origin |-> wo] /\ (wo # "roster" => wm = NotStated)
  BY DEF IsWrite
<1>2. w.name = wn /\ w.model = wm /\ w.origin = wo /\ Fingerprint(w) = <<wn, wm, wo>>
  BY <1>1 DEF Fingerprint
<1>3. CASE r = NoAgentRow
  <2> DEFINE x == [name |-> wn, model |-> wm, origin |-> wo, print |-> <<wn, wm, wo>>]
  <2>1. Merged(r, w) = x
    BY <1>2, <1>3 DEF Merged
  <2>2. x.origin = wo /\ r.origin = "none" /\ r.print = <<>> /\ r.model = NotStated
    BY <1>3 DEF NoAgentRow
  <2>3. IsRow(x) /\ x # NoAgentRow
    <3>1. wm \in {NotStated, wm}
      OBVIOUS
    <3>2. IsRow(x)
      BY DEF IsRow
    <3>3. NoAgentRow.origin = "none" /\ x.origin # "none"
      BY DEF NoAgentRow
    <3> QED
      BY <3>2, <3>3
  <2>4. ~Held(r, w)
    BY <2>2 DEF Held
  <2>5. IsChange(r, w)
    <3>1. <<>> # <<wn, wm, wo>>
      OBVIOUS
    <3> QED
      BY <1>2, <2>2, <2>4 DEF IsChange
  <2> QED
    BY <2>1, <2>2, <2>3, <2>5
<1>4. CASE r # NoAgentRow
  <2>1. PICK n \in Names \cup {Placeholder}, m \in StatedModels, o \in {"roster", "observed"} :
            \E k \in {NotStated, m} :
               r = [name |-> n, model |-> m, origin |-> o, print |-> <<n, k, o>>]
    BY <1>4 DEF IsRow
  <2>2. PICK k \in {NotStated, m} :
            r = [name |-> n, model |-> m, origin |-> o, print |-> <<n, k, o>>]
    BY <2>1
  <2>3. r.name = n /\ r.model = m /\ r.origin = o /\ r.print = <<n, k, o>>
    BY <2>2
  <2>4. Held(r, w) <=> o = "roster" /\ wo = "observed"
    BY <1>2, <2>3 DEF Held
  <2>5. Merged(r, w) = [name |-> IF Held(r, w) THEN n ELSE wn,
                        model |-> Stated(wm, m),
                        origin |-> IF wo = "roster" THEN "roster" ELSE o,
                        print |-> IF Held(r, w) THEN <<n, k, o>> ELSE <<wn, wm, wo>>]
    BY <1>2, <1>4, <2>3 DEF Merged
  <2>6. IsChange(r, w) <=> ~Held(r, w) /\ <<n, k, o>> # <<wn, wm, wo>>
    BY <1>2, <2>3 DEF IsChange
  <2>7. NoAgentRow.origin = "none"
    BY DEF NoAgentRow
  <2>8. CASE o = "roster" /\ wo = "observed"
    <3>1. Merged(r, w) = r
      BY <1>1, <2>2, <2>4, <2>5, <2>8 DEF Stated
    <3> QED
      BY <1>4, <3>1
  <2>9. CASE o # "roster" \/ wo = "roster"
    <3> DEFINE x == [name |-> wn, model |-> Stated(wm, m), origin |-> wo,
                     print |-> <<wn, wm, wo>>]
    <3>1. ~Held(r, w) /\ Merged(r, w) = x
      <4>1. ~Held(r, w) /\ wo = IF wo = "roster" THEN "roster" ELSE o
        BY <2>4, <2>9
      <4> QED
        BY <2>5, <4>1
    <3>2. x.name = wn /\ x.model = Stated(wm, m) /\ x.origin = wo
      OBVIOUS
    <3>3. Stated(wm, m) \in StatedModels /\ wm \in {NotStated, Stated(wm, m)}
      BY DEF Stated
    <3> HIDE DEF x
    <3>4. IsRow(x)
      BY <3>3 DEF IsRow, x
    <3>5. <<n, k, o>> = <<wn, wm, wo>> => n = wn /\ k = wm /\ o = wo
      OBVIOUS
    <3>6. ~IsChange(r, w) => x.name = n /\ x.model = m /\ x.origin = o
      BY <2>6, <3>1, <3>2 DEF Stated
    <3>7. m # NotStated => x.model # NotStated
      BY <3>2 DEF Stated
    <3>8. x # NoAgentRow
      BY <2>7, <3>2
    <3>9. o = "roster" => wo = "roster"
      BY <2>9
    <3> QED
      BY <1>2, <2>3, <3>1, <3>2, <3>4, <3>6, <3>7, <3>8, <3>9
  <2> QED
    BY <2>8, <2>9
<1> QED
  BY <1>3, <1>4

\* What the rows and the readers' copy keep.
AgentsInv ==
    /\ agentRow = [a \in Agents |-> agentRow[a]]
    /\ \A a \in Agents : IsRow(agentRow[a])
    /\ ReadersAreTold

\* A batch of writes keeps that, and merges row by row.
LEMMA UpsertAgentsFacts ==
    ASSUME AgentsInv, NEW writes, DOMAIN writes \subseteq Agents,
           \A a \in DOMAIN writes : IsWrite(writes[a]), UpsertAgents(writes)
    PROVE  /\ AgentsInv'
           /\ \A a \in Agents : agentRow'[a] = IF a \in DOMAIN writes
                                               THEN Merged(agentRow[a], writes[a])
                                               ELSE agentRow[a]
<1> DEFINE after == [a \in Agents |-> IF a \in DOMAIN writes THEN Merged(agentRow[a], writes[a])
                                      ELSE agentRow[a]]
           change == \E a \in DOMAIN writes : IsChange(agentRow[a], writes[a])
<1>1. agentRow' = after /\ told' = IF change THEN Public(after) ELSE told
  BY DEF UpsertAgents
<1>2. \A a \in Agents : after[a] = IF a \in DOMAIN writes THEN Merged(agentRow[a], writes[a])
                                   ELSE agentRow[a]
  OBVIOUS
<1>3. agentRow' = [a \in Agents |-> agentRow'[a]]
  BY <1>1
<1>4. \A a \in Agents : IsRow(agentRow'[a])
  <2>1. SUFFICES ASSUME NEW a \in Agents PROVE IsRow(agentRow'[a])
    OBVIOUS
  <2>2. IsRow(agentRow[a])
    BY DEF AgentsInv
  <2>3. CASE a \in DOMAIN writes
    <3>1. IsWrite(writes[a])
      BY <2>3
    <3>2. IsRow(Merged(agentRow[a], writes[a]))
      BY <2>2, <3>1, MergedFacts
    <3> QED
      BY <1>1, <2>3, <3>2
  <2>4. CASE a \notin DOMAIN writes
    BY <1>1, <2>2, <2>4
  <2> QED
    BY <2>3, <2>4
<1>5. ~change => Public(after) = Public(agentRow)
  <2>1. SUFFICES ASSUME ~change PROVE Public(after) = Public(agentRow)
    OBVIOUS
  <2>2. ASSUME NEW a \in Agents
        PROVE  /\ after[a].name = agentRow[a].name /\ after[a].model = agentRow[a].model
               /\ after[a].origin = agentRow[a].origin
    <3>1. CASE a \in DOMAIN writes
      <4>1. IsRow(agentRow[a]) /\ IsWrite(writes[a]) /\ ~IsChange(agentRow[a], writes[a])
        BY <2>1, <3>1 DEF AgentsInv
      <4> QED
        BY <4>1, MergedFacts
    <3>2. CASE a \notin DOMAIN writes
      BY <3>2
    <3> QED
      BY <3>1
  <2> HIDE DEF after
  <2> QED
    BY <2>2 DEF Public
<1>6. told' = Public(after)
  BY <1>1, <1>5 DEF AgentsInv, ReadersAreTold
<1> HIDE DEF after
<1>7. Public(agentRow)' = Public(after)
  BY <1>1
<1>8. ReadersAreTold'
  BY <1>6, <1>7 DEF ReadersAreTold
<1> QED
  BY <1>1, <1>2, <1>3, <1>4, <1>8 DEF AgentsInv

Rosters == [Agents -> Roster \cup {Unlisted}]

\* The table has a row for each agent the archived sessions name.
SessionsHaveAgents == \A a \in Agents : agentRow[a] = NoAgentRow => sessionRow[a] = 0

RosterInv ==
    /\ truth \in Rosters
    /\ working \in [Agents -> Nat] /\ sessionRow \in [Agents -> Nat]
    /\ rosterRead.at = "read" => rosterRead.roster \in Rosters
    /\ AgentsInv
    /\ SessionsHaveAgents

LEMMA InitRosterInv == RosterInit => RosterInv
<1> SUFFICES ASSUME RosterInit PROVE RosterInv
  OBVIOUS
<1>1. truth \in Rosters
  BY DEF RosterInit, Rosters
<1>2. /\ agentRow = [a \in Agents |-> agentRow[a]]
      /\ \A a \in Agents : IsRow(agentRow[a])
  BY DEF RosterInit, IsRow
<1>3. rosterRead.at = "none"
  BY DEF RosterInit, NoReading
<1>4. working \in [Agents -> Nat] /\ sessionRow \in [Agents -> Nat] /\ SessionsHaveAgents
  BY DEF RosterInit, SessionsHaveAgents
<1> QED
  BY <1>1, <1>2, <1>3, <1>4 DEF RosterInit, RosterInv, AgentsInv, ReadersAreTold

\* The answer to agents.list: what it writes.
LEMMA RosterWritesFacts ==
    ASSUME NEW listed \in Rosters
    PROVE  /\ DOMAIN RosterWrites(listed) \subseteq Agents
           /\ \A a \in DOMAIN RosterWrites(listed) :
                 /\ IsWrite(RosterWrites(listed)[a])
                 /\ RosterWrites(listed)[a].name = listed[a].name
<1>1. /\ DOMAIN RosterWrites(listed) = {a \in Agents : listed[a] # Unlisted}
      /\ \A a \in DOMAIN RosterWrites(listed) :
            RosterWrites(listed)[a] = [name |-> listed[a].name, model |-> listed[a].model,
                                       origin |-> "roster"]
  BY DEF RosterWrites, Write
<1>2. ASSUME NEW a \in DOMAIN RosterWrites(listed)
      PROVE  /\ IsWrite(RosterWrites(listed)[a])
             /\ RosterWrites(listed)[a].name = listed[a].name
  <2>1. listed[a] \in Roster
    BY <1>1 DEF Rosters
  <2>2. listed[a].name \in Names /\ listed[a].model \in StatedModels
    BY <2>1 DEF Roster, StatedModels
  <2> DEFINE n == listed[a].name
             m == listed[a].model
             w == [name |-> n, model |-> m, origin |-> "roster"]
  <2>3. RosterWrites(listed)[a] = w /\ w.name = n
    BY <1>1
  <2>4. n \in Names \cup {Placeholder} /\ m \in StatedModels
    BY <2>2
  <2> HIDE DEF n, m
  <2>5. IsWrite(w)
    BY <2>4 DEF IsWrite
  <2> QED
    BY <2>3, <2>5 DEF n
<1> QED
  BY <1>1, <1>2

\* ... and what a session pass writes.
LEMMA InferredWritesFacts ==
    /\ DOMAIN InferredWrites = {a \in Agents : working[a] > 0}
    /\ \A a \in DOMAIN InferredWrites :
          IsWrite(InferredWrites[a]) /\ InferredWrites[a].origin = "observed"
<1>1. /\ DOMAIN InferredWrites = {a \in Agents : working[a] > 0}
      /\ \A a \in DOMAIN InferredWrites :
            InferredWrites[a] = [name |-> Placeholder, model |-> NotStated, origin |-> "observed"]
  BY DEF InferredWrites, Write
<1>2. NotStated \in StatedModels
  BY DEF StatedModels
<1> QED
  BY <1>1, <1>2 DEF IsWrite

\* One step merges the rows of a listing or of the sessions, or no row.
LEMMA RosterStepFacts ==
    ASSUME RosterInv, [RosterNext]_rosterVars
    PROVE  /\ RosterInv'
           /\ \A a \in Agents :
                \/ agentRow'[a] = agentRow[a]
                \/ \E w : /\ IsWrite(w) /\ agentRow'[a] = Merged(agentRow[a], w)
                          /\ w.origin = "roster" =>
                               rosterRead.at = "read" /\ w.name = rosterRead.roster[a].name
<1>0. /\ truth \in Rosters /\ working \in [Agents -> Nat] /\ sessionRow \in [Agents -> Nat]
      /\ rosterRead.at = "read" => rosterRead.roster \in Rosters
      /\ AgentsInv /\ SessionsHaveAgents
  BY DEF RosterInv
<1>1. ASSUME agentRow' = agentRow, told' = told, sessionRow' = sessionRow,
             truth' \in Rosters, working' \in [Agents -> Nat],
             rosterRead'.at = "read" => rosterRead'.roster \in Rosters
      PROVE  RosterInv'
  <2>1. AgentsInv'
    BY <1>0, <1>1 DEF AgentsInv, ReadersAreTold
  <2>2. SessionsHaveAgents'
    BY <1>0, <1>1 DEF SessionsHaveAgents
  <2> QED
    BY <1>1, <2>1, <2>2 DEF RosterInv
<1>2. CASE AsksRoster
  <2>1. rosterRead'.at = "asked"
    BY <1>2 DEF AsksRoster
  <2> QED
    BY <1>0, <1>1, <1>2 DEF AsksRoster
<1>3. CASE GatewayListsAgents
  <2>1. rosterRead'.roster = truth
    BY <1>3 DEF GatewayListsAgents
  <2> QED
    BY <1>0, <1>1, <1>3 DEF GatewayListsAgents
<1>4. CASE RosterFails
  <2>1. rosterRead'.at = "none"
    BY <1>4 DEF RosterFails, NoReading
  <2> QED
    BY <1>0, <1>1, <1>4, <2>1 DEF RosterFails
<1>5. ASSUME NEW a \in Agents, Works(a) PROVE RosterInv' /\ agentRow' = agentRow
  <2>1. working' \in [Agents -> Nat]
    BY <1>0, <1>5 DEF Works
  <2> QED
    BY <1>0, <1>1, <1>5 DEF Works
<1>6. ASSUME NEW a \in Agents, NEW entry \in Roster, Redefine(a, entry)
      PROVE  RosterInv' /\ agentRow' = agentRow
  <2>1. truth' \in Rosters
    BY <1>0, <1>6 DEF Redefine, Rosters
  <2> QED
    BY <1>0, <1>1, <1>6, <2>1 DEF Redefine
<1>7. CASE UNCHANGED rosterVars
  BY <1>0, <1>1, <1>7 DEF rosterVars
<1>8. CASE RosterAnswered
  <2> DEFINE l == rosterRead.roster
             ws == RosterWrites(l)
  <2>1. /\ rosterRead.at = "read" /\ rosterRead' = NoReading /\ UpsertAgents(ws)
        /\ truth' = truth /\ working' = working /\ sessionRow' = sessionRow
    BY <1>8 DEF RosterAnswered
  <2>2. l \in Rosters
    BY <1>0, <2>1
  <2>3. /\ DOMAIN ws \subseteq Agents
        /\ \A a \in DOMAIN ws : IsWrite(ws[a]) /\ ws[a].name = l[a].name
    BY <2>2, RosterWritesFacts
  <2> HIDE DEF ws, l
  <2>4. /\ AgentsInv'
        /\ \A a \in Agents : agentRow'[a] = IF a \in DOMAIN ws THEN Merged(agentRow[a], ws[a])
                                            ELSE agentRow[a]
    BY <1>0, <2>1, <2>3, UpsertAgentsFacts
  <2>5. SessionsHaveAgents'
    <3>1. SUFFICES ASSUME NEW a \in Agents, agentRow'[a] = NoAgentRow PROVE sessionRow[a] = 0
      BY <2>1 DEF SessionsHaveAgents
    <3>2. a \notin DOMAIN ws
      <4>1. SUFFICES ASSUME a \in DOMAIN ws PROVE FALSE
        OBVIOUS
      <4>2. IsRow(agentRow[a]) /\ IsWrite(ws[a])
        BY <1>0, <2>3, <4>1 DEF AgentsInv
      <4>3. Merged(agentRow[a], ws[a]) # NoAgentRow
        BY <4>2, MergedFacts
      <4> QED
        BY <2>4, <3>1, <4>1, <4>3
    <3> QED
      BY <1>0, <2>4, <3>1, <3>2 DEF SessionsHaveAgents
  <2>6. rosterRead'.at = "none"
    BY <2>1 DEF NoReading
  <2>7. RosterInv'
    BY <2>1, <2>4, <2>5, <2>6 DEF RosterInv
  <2>8. ASSUME NEW a \in Agents
        PROVE  \/ agentRow'[a] = agentRow[a]
               \/ \E w : /\ IsWrite(w) /\ agentRow'[a] = Merged(agentRow[a], w)
                         /\ w.origin = "roster" =>
                              rosterRead.at = "read" /\ w.name = rosterRead.roster[a].name
    BY <2>1, <2>3, <2>4 DEF l
  <2> QED
    BY <2>7, <2>8
<1>9. CASE ArchiveSessions
  <2> DEFINE ws == InferredWrites
  <2>1. /\ sessionRow' = working /\ UpsertAgents(ws)
        /\ truth' = truth /\ working' = working /\ rosterRead' = rosterRead
    BY <1>9 DEF ArchiveSessions
  <2>2. /\ DOMAIN ws = {a \in Agents : working[a] > 0} /\ DOMAIN ws \subseteq Agents
        /\ \A a \in DOMAIN ws : IsWrite(ws[a]) /\ ws[a].origin = "observed"
    BY InferredWritesFacts
  <2> HIDE DEF ws
  <2>3. /\ AgentsInv'
        /\ \A a \in Agents : agentRow'[a] = IF a \in DOMAIN ws THEN Merged(agentRow[a], ws[a])
                                            ELSE agentRow[a]
    BY <1>0, <2>1, <2>2, UpsertAgentsFacts
  <2>4. SessionsHaveAgents'
    <3>1. SUFFICES ASSUME NEW a \in Agents, agentRow'[a] = NoAgentRow PROVE working[a] = 0
      BY <2>1 DEF SessionsHaveAgents
    <3>2. a \notin DOMAIN ws
      <4>1. SUFFICES ASSUME a \in DOMAIN ws PROVE FALSE
        OBVIOUS
      <4>2. IsRow(agentRow[a]) /\ IsWrite(ws[a])
        BY <1>0, <2>2, <4>1 DEF AgentsInv
      <4>3. Merged(agentRow[a], ws[a]) # NoAgentRow
        BY <4>2, MergedFacts
      <4> QED
        BY <2>3, <3>1, <4>1, <4>3
    <3> QED
      BY <1>0, <2>2, <3>2
  <2>5. RosterInv'
    BY <2>1, <2>3, <2>4 DEF RosterInv
  <2>6. ASSUME NEW a \in Agents
        PROVE  \/ agentRow'[a] = agentRow[a]
               \/ \E w : /\ IsWrite(w) /\ agentRow'[a] = Merged(agentRow[a], w)
                         /\ w.origin = "roster" =>
                              rosterRead.at = "read" /\ w.name = rosterRead.roster[a].name
    BY <2>2, <2>3
  <2> QED
    BY <2>5, <2>6
<1>10. CASE UNCHANGED rosterVars \/ AsksRoster \/ GatewayListsAgents \/ RosterFails
  <2>1. agentRow' = agentRow
    BY <1>10 DEF rosterVars, AsksRoster, GatewayListsAgents, RosterFails
  <2>2. RosterInv'
    BY <1>2, <1>3, <1>4, <1>7, <1>10
  <2> QED
    BY <2>1, <2>2
<1>11. CASE \E a \in Agents : Works(a) \/ \E entry \in Roster : Redefine(a, entry)
  BY <1>5, <1>6, <1>11
<1> QED
  BY <1>8, <1>9, <1>10, <1>11 DEF RosterNext

\* The invariant holds of every behaviour.
LEMMA RosterInvHolds == RosterSpec => []RosterInv
  BY InitRosterInv, RosterStepFacts, PTL DEF RosterSpec

\* The types of AgentRoster hold.
THEOREM RosterTyped == RosterSpec => []RosterTypeOK
<1>1. RosterInv => RosterTypeOK
  <2>1. ASSUME RosterInv, NEW a \in Agents
        PROVE  /\ agentRow[a].name \in Names \cup {Placeholder, "absent"}
               /\ agentRow[a].model \in Models \cup {NotStated}
               /\ agentRow[a].origin \in {"roster", "observed", "none"}
    <3>1. IsRow(agentRow[a])
      BY <2>1 DEF RosterInv, AgentsInv
    <3>2. CASE agentRow[a] = NoAgentRow
      BY <3>2 DEF NoAgentRow
    <3>3. CASE agentRow[a] # NoAgentRow
      <4>1. PICK n \in Names \cup {Placeholder}, m \in StatedModels,
                 o \in {"roster", "observed"} :
              \E k \in {NotStated, m} :
                 agentRow[a] = [name |-> n, model |-> m, origin |-> o, print |-> <<n, k, o>>]
        BY <3>1, <3>3 DEF IsRow
      <4>2. agentRow[a].name = n /\ agentRow[a].model = m /\ agentRow[a].origin = o
        BY <4>1
      <4> QED
        BY <4>2 DEF StatedModels
    <3> QED
      BY <3>2, <3>3
  <2> QED
    BY <2>1 DEF RosterInv, RosterTypeOK
<1> QED
  BY RosterInvHolds, <1>1, PTL

\* Whoever follows the topic "agents" has what the table holds, although a
\* fingerprint leaves out what the merge kept (upsertAgents).
THEOREM ReadersTold == RosterSpec => []ReadersAreTold
  BY RosterInvHolds, PTL DEF RosterInv, AgentsInv

\* No session is archived without a row for its agent, which is why the counts
\* of the overview leave none out (archiveSessions).
THEOREM AgentsOfSessions == RosterSpec => []SessionsHaveAgents
  BY RosterInvHolds, PTL DEF RosterInv

\* A roster entry stays one and takes a name only from a listing, and a model
\* that was stated is never unsaid, however sessions and listings alternate
\* (agentUpsertSql).
THEOREM RosterKept == RosterSpec => RosterIsKept
<1> DEFINE Kept(a) ==
      /\ agentRow[a].origin = "roster" => agentRow'[a].origin = "roster"
      /\ agentRow[a].origin = "roster" /\ agentRow'[a].name # agentRow[a].name
           => rosterRead.at = "read" /\ agentRow'[a].name = rosterRead.roster[a].name
      /\ agentRow[a].model # NotStated => agentRow'[a].model # NotStated
<1>1. ASSUME RosterInv, [RosterNext]_rosterVars, NEW a \in Agents PROVE Kept(a)
  <2>1. CASE agentRow'[a] = agentRow[a]
    BY <2>1
  <2>2. ASSUME NEW w, IsWrite(w), agentRow'[a] = Merged(agentRow[a], w),
               w.origin = "roster" => rosterRead.at = "read"
                                      /\ w.name = rosterRead.roster[a].name
        PROVE  Kept(a)
    <3>1. IsRow(agentRow[a])
      BY <1>1 DEF RosterInv, AgentsInv
    <3>2. /\ agentRow[a].origin = "roster" => Merged(agentRow[a], w).origin = "roster"
          /\ agentRow[a].origin = "roster" /\ Merged(agentRow[a], w).name # agentRow[a].name
               => w.origin = "roster" /\ Merged(agentRow[a], w).name = w.name
          /\ agentRow[a].model # NotStated => Merged(agentRow[a], w).model # NotStated
      BY <2>2, <3>1, MergedFacts
    <3> QED
      BY <2>2, <3>2
  <2> HIDE DEF Kept
  <2> QED
    BY <1>1, <2>1, <2>2, RosterStepFacts
<1>2. RosterInv /\ [RosterNext]_rosterVars => [\A a \in Agents : Kept(a)]_rosterVars
  <2> HIDE DEF Kept
  <2> QED
    BY <1>1
<1> QED
  BY RosterInvHolds, <1>2, PTL DEF RosterSpec, RosterIsKept

\* The overview counts every archived session: the two sums are sums of equal
\* terms, since a session's agent has a row (listAgentOverviews joins the tables).
THEOREM SessionsCounted == RosterSpec => []SessionsAreCounted
<1> DEFINE Joined(f) ==
             [s \in SUBSET Agents |->
                IF s = {} THEN 0
                ELSE LET x == CHOOSE x \in s : TRUE IN SessionCount(x) + f[s \ {x}]]
           All(f) ==
             [s \in SUBSET Agents |->
                IF s = {} THEN 0
                ELSE LET x == CHOOSE x \in s : TRUE IN sessionRow[x] + f[s \ {x}]]
<1>1. RosterInv => SessionsAreCounted
  <2>1. SUFFICES ASSUME RosterInv PROVE SessionsAreCounted
    OBVIOUS
  <2>2. \A a \in Agents : SessionCount(a) = sessionRow[a]
    BY <2>1 DEF RosterInv, SessionsHaveAgents, SessionCount
  <2>3. \A f : Joined(f) = All(f)
    BY <2>2
  <2>4. MapThenSumSet(SessionCount, Agents) = (CHOOSE f : f = Joined(f))[Agents]
    BY DEF MapThenSumSet, MapThenFoldSet
  <2>5. MapThenSumSet(LAMBDA a : sessionRow[a], Agents) = (CHOOSE f : f = All(f))[Agents]
    BY DEF MapThenSumSet, MapThenFoldSet
  <2>6. (CHOOSE f : f = Joined(f)) = (CHOOSE f : f = All(f))
    <3> HIDE DEF Joined, All
    <3> QED
      BY <2>3, Zenon
  <2> QED
    BY <2>4, <2>5, <2>6 DEF SessionsAreCounted
<1> QED
  BY RosterInvHolds, <1>1, PTL

-----------------------------------------------------------------------------
(* Standalone processes.                                                    *)

\* Neither a row nor a listing names a process that was not started yet.
SeenWasThere ==
    \A p \in Pids : cliRow[p].of <= launches[p] /\ \A a \in Ages : polls[a].saw[p] <= launches[p]

\* The row of a running process is active, and was seen so recently that no poll
\* whose listing is from before its start may end it.
ShownIsSeen ==
    \A p \in alive : cliRow[p].of = launches[p] =>
        /\ cliRow[p].state = "active"
        /\ \A a \in Ages : polls[a].stage = "listed" /\ polls[a].saw[p] = 0 =>
               known[p] = Stranger \/ known[p] <= a + 1

CliInv == CliTypeOK /\ SeenWasThere /\ (PsTicks <= 1 => ShownIsSeen)

LEMMA InitCliInv == CliInit => CliInv
<1> SUFFICES ASSUME CliInit PROVE CliInv
  OBVIOUS
<1>1. Nobody \in Listings /\ Stranger \in 0..Stranger /\ 0 \in 0..MaxCliFaults /\ 0 \in 0..MaxCliRestarts
      /\ 0 \in 0..MaxIncarnations
  BY CliAssumption DEF Nobody, Listings, Stranger, Oldest, Grace
<1>2. CliTypeOK
  BY <1>1 DEF CliInit, CliTypeOK, NoPoll, Awaiting, Row
<1>3. SeenWasThere
  BY DEF CliInit, SeenWasThere, NoPoll, Awaiting, Row, Nobody
<1> QED
  BY <1>2, <1>3 DEF CliInit, CliInv, ShownIsSeen

\* What a poll writes and leaves known is typed.
LEMMA WrittenTyped ==
    ASSUME CliTypeOK, NEW a \in Ages
    PROVE  /\ [p \in Pids |-> WrittenRow(polls[a].saw, a, p)]
                 \in [Pids -> [state : {"none", "active", "terminal"}, of : 0..MaxIncarnations]]
           /\ Remembered(polls[a].saw, a) \in [Pids -> 0..Stranger]
<1>1. polls[a].saw \in Listings
  BY DEF CliTypeOK
<1>2. a \in 0..Stranger /\ Stranger \in 0..Stranger
  BY CliAssumption DEF Ages, Stranger, Oldest, Grace
<1>3. \A p \in Pids : WrittenRow(polls[a].saw, a, p) \in [state : {"none", "active", "terminal"}, of : 0..MaxIncarnations]
  BY <1>1 DEF WrittenRow, Row, CliTypeOK, Listings
<1>4. \A p \in Pids : Remembered(polls[a].saw, a)[p] \in 0..Stranger
  BY <1>2 DEF Remembered, CliTypeOK
<1> QED
  BY <1>3, <1>4 DEF Remembered

LEMMA CliTypes == ASSUME CliInv, [CliNext]_cliVars PROVE CliTypeOK'
<1>1. /\ CliTypeOK /\ Nobody \in Listings
      /\ Awaiting \in [stage : {"none", "listing", "listed"}, saw : Listings]
      /\ NoPoll \in [stage : {"none", "listing", "listed"}, saw : Listings]
  BY CliAssumption DEF CliInv, Nobody, Listings, Awaiting, NoPoll
<1>2. ASSUME NEW p \in Pids, Launch(p) PROVE CliTypeOK'
  <2>1. launches[p] + 1 \in 0..MaxIncarnations /\ launches[p] + 1 # 0
    BY <1>1, <1>2, CliAssumption DEF Launch, CliTypeOK, Listings
  <2> QED
    BY <1>1, <1>2, <2>1 DEF Launch, CliTypeOK, Listings
<1>3. ASSUME NEW p \in Pids, Exit(p) PROVE CliTypeOK'
  BY <1>1, <1>3 DEF Exit, CliTypeOK
<1>4. CASE Poll
  <2>1. polls' \in [Ages -> [stage : {"none", "listing", "listed"}, saw : Listings]]
    <3>1. \A a \in Ages : a # 0 => a - 1 \in Ages
      BY CliAssumption DEF Ages
    <3> QED
      BY <1>1, <1>4, <3>1 DEF Poll, CliTypeOK
  <2>2. known' \in [Pids -> 0..Stranger]
    <3>1. \A k \in 0..Stranger : k < Oldest => k + 1 \in 0..Stranger
      BY CliAssumption DEF Stranger, Oldest, Grace
    <3> QED
      BY <1>1, <1>4, <3>1 DEF Poll, CliTypeOK
  <2> QED
    BY <1>1, <1>4, <2>1, <2>2 DEF Poll, CliTypeOK
<1>5. ASSUME NEW a \in Ages, List(a) PROVE CliTypeOK'
  <2>1. Listing \in Listings
    BY <1>1, CliAssumption DEF Listing, Listings, CliTypeOK
  <2> QED
    BY <1>1, <1>5, <2>1 DEF List, CliTypeOK
<1>6. ASSUME NEW a \in Ages, RecordPoll(a) PROVE CliTypeOK'
  <2> DEFINE written == [p \in Pids |-> WrittenRow(polls[a].saw, a, p)]
             keeps == Remembered(polls[a].saw, a)
  <2>1. /\ written \in [Pids -> [state : {"none", "active", "terminal"}, of : 0..MaxIncarnations]]
        /\ keeps \in [Pids -> 0..Stranger]
    BY <1>1, WrittenTyped
  <2>2. /\ known' = keeps /\ polls' = [polls EXCEPT ![a] = NoPoll]
        /\ UNCHANGED <<launches, alive, cliRestarts>>
        /\ \/ /\ cliRow' = written /\ UNCHANGED cliFaults
              /\ lost' = lost \ {p \in Pids : polls[a].saw[p] # 0 \/ written[p].state # "active"}
           \/ /\ cliFaults < MaxCliFaults /\ cliFaults' = cliFaults + 1
              /\ lost' = lost \cup Orphans(keeps, cliRow) /\ UNCHANGED cliRow
    BY <1>6 DEF RecordPoll
  <2> HIDE DEF written, keeps
  <2>3. cliFaults' \in 0..MaxCliFaults /\ lost' \subseteq {p \in Pids : cliRow'[p].state = "active"}
    BY <1>1, <2>2, CliAssumption DEF CliTypeOK, Orphans
  <2> QED
    BY <1>1, <2>1, <2>2, <2>3 DEF CliTypeOK
<1>7. ASSUME NEW a \in Ages, ListFails(a) PROVE CliTypeOK'
  BY <1>1, <1>7, CliAssumption DEF ListFails, CliTypeOK
<1>8. CASE CliRestart
  <2>1. Stranger \in 0..Stranger
    BY CliAssumption DEF Stranger, Oldest, Grace
  <2> QED
    BY <1>1, <1>8, <2>1, CliAssumption DEF CliRestart, CliTypeOK, Orphans
<1>9. CASE UNCHANGED cliVars
  BY <1>1, <1>9 DEF cliVars, CliTypeOK
<1> QED
  BY <1>2, <1>3, <1>4, <1>5, <1>6, <1>7, <1>8, <1>9 DEF CliNext

LEMMA CliSeen == ASSUME CliInv, [CliNext]_cliVars PROVE SeenWasThere'
<1>1. /\ CliTypeOK /\ SeenWasThere
      /\ \A p \in Pids : launches[p] \in Nat /\ NoPoll.saw[p] = 0 /\ Awaiting.saw[p] = 0
  BY CliAssumption DEF CliInv, CliTypeOK, Listings, NoPoll, Awaiting, Nobody
<1>2. ASSUME NEW p \in Pids, Launch(p) PROVE SeenWasThere'
  <2>1. /\ cliRow' = cliRow /\ polls' = polls
        /\ \A q \in Pids : launches'[q] \in Nat /\ launches[q] <= launches'[q]
    BY <1>1, <1>2 DEF Launch, CliTypeOK, Listings
  <2>2. \A q \in Pids : cliRow[q].of \in Nat /\ \A a \in Ages : polls[a].saw[q] \in Nat
    BY <1>1, CliAssumption DEF CliTypeOK, Listings
  <2> QED
    BY <1>1, <2>1, <2>2 DEF SeenWasThere
<1>3. ASSUME NEW p \in Pids, Exit(p) PROVE SeenWasThere'
  BY <1>1, <1>3 DEF Exit, SeenWasThere
<1>4. CASE Poll
  <2>1. \A a \in Ages : a # 0 => a - 1 \in Ages
    BY CliAssumption DEF Ages
  <2> QED
    BY <1>1, <1>4, <2>1 DEF Poll, SeenWasThere
<1>5. ASSUME NEW a \in Ages, List(a) PROVE SeenWasThere'
  <2>1. \A p \in Pids : Listing[p] <= launches[p]
    BY <1>1 DEF Listing
  <2> QED
    BY <1>1, <1>5, <2>1 DEF List, SeenWasThere, CliTypeOK
<1>6. ASSUME NEW a \in Ages, RecordPoll(a) PROVE SeenWasThere'
  <2>1. \A p \in Pids : WrittenRow(polls[a].saw, a, p).of \in {polls[a].saw[p], cliRow[p].of}
    BY <1>1 DEF WrittenRow, Row, CliTypeOK
  <2>2. \A p \in Pids : cliRow'[p].of \in {polls[a].saw[p], cliRow[p].of}
    BY <1>6, <2>1 DEF RecordPoll
  <2>3. launches' = launches /\ polls' = [polls EXCEPT ![a] = NoPoll]
    BY <1>6 DEF RecordPoll
  <2> QED
    BY <1>1, <2>2, <2>3 DEF SeenWasThere, CliTypeOK
<1>7. ASSUME NEW a \in Ages, ListFails(a) PROVE SeenWasThere'
  BY <1>1, <1>7 DEF ListFails, SeenWasThere, CliTypeOK
<1>8. CASE CliRestart
  BY <1>1, <1>8 DEF CliRestart, SeenWasThere
<1>9. CASE UNCHANGED cliVars
  BY <1>1, <1>9 DEF cliVars, SeenWasThere
<1> QED
  BY <1>2, <1>3, <1>4, <1>5, <1>6, <1>7, <1>8, <1>9 DEF CliNext

LEMMA CliShown == ASSUME CliInv, [CliNext]_cliVars, PsTicks <= 1 PROVE ShownIsSeen'
<1>1. CliTypeOK /\ SeenWasThere /\ ShownIsSeen
  BY DEF CliInv
<1>2. ASSUME NEW p \in Pids, Launch(p) PROVE ShownIsSeen'
  <2>1. launches[p] \in Nat /\ cliRow[p].of \in Nat /\ cliRow[p].of <= launches[p]
    BY <1>1, CliAssumption DEF CliTypeOK, Listings, SeenWasThere
  <2>2. cliRow[p].of # launches'[p]
    BY <1>1, <1>2, <2>1 DEF Launch, CliTypeOK, Listings
  <2> QED
    BY <1>1, <1>2, <2>2 DEF Launch, ShownIsSeen, CliTypeOK, Listings
<1>3. ASSUME NEW p \in Pids, Exit(p) PROVE ShownIsSeen'
  BY <1>1, <1>3 DEF Exit, ShownIsSeen
<1>4. CASE Poll
  <2>1. SUFFICES ASSUME NEW p \in alive, cliRow[p].of = launches[p],
                        NEW a \in Ages, polls'[a].stage = "listed", polls'[a].saw[p] = 0
                 PROVE  known'[p] = Stranger \/ known'[p] <= a + 1
    BY <1>1, <1>4 DEF Poll, ShownIsSeen
  <2>2. a # 0 /\ a - 1 \in Ages /\ polls'[a] = polls[a - 1] /\ a \in Nat
    BY <1>4, <2>1, CliAssumption DEF Poll, Ages, Awaiting
  <2>3. known[p] = Stranger \/ known[p] <= (a - 1) + 1
    BY <1>1, <2>1, <2>2 DEF ShownIsSeen
  <2>4. p \in Pids /\ known[p] \in Nat /\ known'[p] = IF known[p] < Oldest THEN known[p] + 1 ELSE known[p]
    BY <1>1, <1>4, <2>1, CliAssumption DEF Poll, CliTypeOK, Stranger, Oldest, Grace
  <2> QED
    BY <2>2, <2>3, <2>4, CliAssumption DEF Stranger, Oldest, Grace
<1>5. ASSUME NEW a \in Ages, List(a) PROVE ShownIsSeen'
  <2>1. \A p \in alive : Listing[p] # 0
    BY <1>1 DEF Listing, CliTypeOK
  <2> QED
    BY <1>1, <1>5, <2>1 DEF List, ShownIsSeen, CliTypeOK
<1>6. ASSUME NEW a \in Ages, RecordPoll(a) PROVE ShownIsSeen'
  <2>1. SUFFICES ASSUME NEW p \in alive, cliRow'[p].of = launches[p]
                 PROVE  /\ cliRow'[p].state = "active"
                        /\ \A b \in Ages : polls'[b].stage = "listed" /\ polls'[b].saw[p] = 0 =>
                               known'[p] = Stranger \/ known'[p] <= b + 1
    BY <1>6 DEF RecordPoll, ShownIsSeen
  <2>2. /\ p \in Pids /\ known'[p] = Remembered(polls[a].saw, a)[p]
        /\ cliRow'[p] = WrittenRow(polls[a].saw, a, p) \/ cliRow'[p] = cliRow[p]
        /\ \A b \in Ages : polls'[b] = polls[b] \/ polls'[b].stage = "none"
        /\ polls[a].stage = "listed"
    BY <1>1, <1>6 DEF RecordPoll, CliTypeOK, NoPoll
  <2>3. CASE polls[a].saw[p] # 0
    <3>1. known'[p] = a /\ (cliRow'[p].state = "active" \/ cliRow'[p] = cliRow[p])
      BY <2>2, <2>3 DEF Remembered, WrittenRow, Row
    <3>2. \A b \in Ages : a <= b + 1
      BY CliAssumption DEF Ages
    <3> QED
      BY <1>1, <2>1, <3>1, <3>2 DEF ShownIsSeen
  <2>4. CASE polls[a].saw[p] = 0
    <3>1. cliRow'[p].of = cliRow[p].of
      BY <1>1, <2>2, <2>4 DEF WrittenRow, CliTypeOK
    <3>2. known[p] = Stranger \/ known[p] <= a + 1
      BY <1>1, <2>1, <2>2, <2>4, <3>1 DEF ShownIsSeen
    <3>3. p \notin Ended(polls[a].saw, a)
      BY <1>1, <2>2, <3>2, CliAssumption DEF Ended, Missed, Grace, Ages, CliTypeOK, Stranger, Oldest
    <3>4. known'[p] = known[p] /\ cliRow'[p] = cliRow[p]
      BY <2>2, <2>4, <3>3 DEF Remembered, WrittenRow
    <3> QED
      BY <1>1, <2>1, <2>2, <3>4 DEF ShownIsSeen
  <2> QED
    BY <2>3, <2>4
<1>7. ASSUME NEW a \in Ages, ListFails(a) PROVE ShownIsSeen'
  BY <1>1, <1>7 DEF ListFails, ShownIsSeen, CliTypeOK, NoPoll
<1>8. CASE CliRestart
  BY <1>1, <1>8 DEF CliRestart, ShownIsSeen, CliTypeOK
<1>9. CASE UNCHANGED cliVars
  BY <1>1, <1>9 DEF cliVars, ShownIsSeen
<1> QED
  BY <1>2, <1>3, <1>4, <1>5, <1>6, <1>7, <1>8, <1>9 DEF CliNext

\* The invariant holds of every behaviour.
LEMMA CliInvHolds == CliSpec => []CliInv
<1>1. CliInv /\ [CliNext]_cliVars => CliInv'
  BY CliTypes, CliSeen, CliShown DEF CliInv
<1> QED
  BY InitCliInv, <1>1, PTL DEF CliSpec

\* The types of StandaloneCli hold, and no row is given up that is not active.
THEOREM CliTyped == CliSpec => []CliTypeOK
  BY CliInvHolds, PTL DEF CliInv

\* As long as ps answers within one interval, no running process is shown as ended:
\* neither polls that overlap, nor a pid used again, nor failed writes and restarts
\* bring it about (StandaloneCliSynchronizer.sync).
THEOREM RunningNotEnded == ASSUME PsTicks <= 1 PROVE CliSpec => []RunningIsNotEnded
<1>1. CliInv => RunningIsNotEnded
  BY DEF CliInv, ShownIsSeen, RunningIsNotEnded
<1> QED
  BY CliInvHolds, <1>1, PTL

-----------------------------------------------------------------------------
(* Upgrades: the invariant.                                                 *)

OpenerRecord ==
    [at : {"closed", "pending", "copies", "copying", "ready", "upgrading", "committed", "open",
           "refused", "broken", "clashed"},
     build : {0} \cup Targets, seen : {0} \cup Targets, from : {0} \cup Targets,
     keep : {0} \cup Targets, copied : {-1, 0} \cup Targets]

CopyRecord == [version : {-1, 0} \cup Targets, whole : BOOLEAN]

\* MigrationsTypeOK, with what the domains and the fields are.
UpgradeTypes ==
    /\ db \in [version : {0} \cup Targets, tables : SUBSET Nat]
    /\ inFile \in {0} \cup Targets
    /\ backup \in [Targets -> CopyRecord]
    /\ \A t \in Targets : Exists(t) => backup[t].version >= 0
    /\ opener \in [Openers -> OpenerRecord]
    /\ \A p \in Openers : /\ opener[p].keep \in {0, opener[p].build}
                          /\ ~At(p, "closed") => opener[p].build \in Targets
    /\ writer \in Openers \cup {NoOpener} /\ spoilt \subseteq Targets

\* Versions and tables: the version says which tables exist, and nothing that was
\* copied is newer than the database.
TablesMatch ==
    /\ db.version = 0 => db.tables \subseteq {1}
    /\ db.version > 0 => db.tables = 1..db.version
    /\ inFile <= db.version /\ \A t \in Targets : backup[t].version <= db.version

\* Who upgrades holds the lock and knows the version.
LockHeldFor(p) ==
    /\ At(p, "upgrading") => writer = p /\ opener[p].from = db.version
                                        /\ opener[p].from <= opener[p].build
    /\ ~At(p, "clashed")

LockHeld == \A p \in Openers : LockHeldFor(p)

Copies(p, target) == At(p, "copying") /\ opener[p].build = target

\* A process that copies has its copy there, alone, unless it is spoilt; one that
\* will copy saw none.
CopiesAreKnownFor(p) ==
    /\ At(p, "copies") => opener[p].copied = -1
    /\ At(p, "copies") \/ At(p, "copying") => opener[p].keep = opener[p].build
    /\ At(p, "copying") /\ opener[p].build \notin spoilt =>
          /\ Exists(opener[p].build)
          /\ \A q \in Openers : Copies(q, opener[p].build) => q = p

CopiesAreKnown == \A p \in Openers : CopiesAreKnownFor(p)

\* A copy that is not spoilt is whole, or being made.
CopiesAreWhole ==
    \A t \in Targets \ spoilt :
        Exists(t) => backup[t].whole \/ \E q \in Openers : Copies(q, t)

\* A process that went past the copy still has it, whole and no newer than the
\* version it upgrades from, unless it is spoilt.
CopyIsKeptFor(p) ==
    /\ opener[p].at \in {"ready", "upgrading", "committed"}
    /\ opener[p].keep \notin spoilt \cup {0}
    => /\ Exists(opener[p].keep) /\ \A q \in Openers : ~Copies(q, opener[p].keep)
       /\ ~At(p, "ready") => backup[opener[p].keep].version <= opener[p].from

CopyIsKept == \A p \in Openers : CopyIsKeptFor(p)

UpgradeInv == UpgradeTypes /\ TablesMatch /\ LockHeld /\ CopiesAreKnown /\ CopiesAreWhole /\ CopyIsKept

-----------------------------------------------------------------------------
(* The steps.                                                               *)

\* The versions are numbers.
Numeric ==
    /\ \A t \in Targets : t \in Nat /\ t > 0 /\ backup[t].version \in Int
    /\ db.version \in Nat /\ inFile \in Nat
    /\ \A q \in Openers : /\ opener[q].build \in Nat /\ opener[q].from \in Nat
                          /\ opener[q].keep \in Nat

\* The type says which fields are numbers.
LEMMA Numbers ==
  ASSUME UpgradeTypes
  PROVE  Numeric
<1>1. \A t \in Targets : t \in Nat /\ t > 0
  BY UpgradeAssumption
<1>2. db.version \in Nat /\ inFile \in Nat
  BY <1>1 DEF UpgradeTypes
<1>3. \A t \in Targets : backup[t].version \in Int
  BY <1>1 DEF UpgradeTypes, CopyRecord
<1>4. \A q \in Openers : opener[q] \in OpenerRecord
  BY DEF UpgradeTypes
<1> QED
  BY <1>1, <1>2, <1>3, <1>4 DEF OpenerRecord, Numeric

USE DEF At, Numeric

\* A process that starts holds no copy yet.
LEMMA OpenStep ==
  ASSUME UpgradeInv, NEW p \in Openers, Open(p)
  PROVE  UpgradeInv'
<1>2. UNCHANGED <<db, inFile, backup, writer, spoilt>>
  BY DEF Open
<1>3. /\ opener' \in [Openers -> OpenerRecord]
      /\ \A q \in Openers : q # p => opener'[q] = opener[q]
      /\ At(p, "closed")
      /\ opener'[p].at \in {"refused", "open", "pending"}
      /\ opener'[p].build \in Targets /\ opener'[p].keep = 0
  <2>1. PICK build \in Targets, step \in {"refused", "open", "pending"} :
          opener' = [opener EXCEPT ![p] = [Closed EXCEPT !.at = step, !.build = build,
                                                         !.seen = db.version]]
    BY DEF Open
  <2>2. [Closed EXCEPT !.at = step, !.build = build, !.seen = db.version] \in OpenerRecord
    BY DEF Closed, OpenerRecord, UpgradeInv, UpgradeTypes
  <2> QED
    BY <2>1, <2>2 DEF Open, Closed, UpgradeInv, UpgradeTypes
<1>4. UpgradeTypes'
  BY <1>2, <1>3 DEF UpgradeInv, UpgradeTypes, Exists
<1>5. TablesMatch'
  BY <1>2 DEF UpgradeInv, TablesMatch
<1>6. LockHeld'
  BY <1>2, <1>3 DEF UpgradeInv, LockHeld, LockHeldFor
<1>7. CopiesAreKnown'
  BY <1>2, <1>3 DEF UpgradeInv, CopiesAreKnown, Exists, Copies, CopiesAreKnownFor
<1>8. CopiesAreWhole'
  BY <1>2, <1>3 DEF UpgradeInv, CopiesAreWhole, Exists, Copies
<1>9. CopyIsKept'
  BY <1>2, <1>3 DEF UpgradeInv, CopyIsKept, Exists, Copies, CopyIsKeptFor
<1> QED
  BY <1>4, <1>5, <1>6, <1>7, <1>8, <1>9 DEF UpgradeInv

\* A process that will copy saw no copy; one that keeps the copy it found keeps a whole
\* one.
LEMMA LooksForBackupStep ==
  ASSUME UpgradeInv, NEW p \in Openers, LooksForBackup(p)
  PROVE  UpgradeInv'
<1>2. /\ spoilt' = spoilt \cup {t \in {opener[p].build} : Copying(t) # {}}
      /\ UNCHANGED <<db, inFile, backup, writer>>
  BY DEF LooksForBackup
<1>3. /\ opener' \in [Openers -> OpenerRecord]
      /\ \A q \in Openers : q # p => opener'[q] = opener[q]
      /\ At(p, "pending")
      /\ opener'[p].build = opener[p].build
      /\ \/ opener'[p].at = "ready" /\ opener'[p].keep = 0
         \/ /\ opener'[p].at = "ready"
            /\ opener'[p].keep = opener[p].build /\ Exists(opener[p].build)
         \/ /\ opener'[p].at = "copies"
            /\ opener'[p].keep = opener[p].build /\ opener'[p].copied = -1
  <2> DEFINE target == opener[p].build
             step   == IF HasContent /\ ~Keeps(target) THEN "copies" ELSE "ready"
             keep   == IF HasContent THEN target ELSE 0
             copied == backup[target].version
  <2>1. opener' = [opener EXCEPT ![p].at = step, ![p].keep = keep, ![p].copied = copied]
    BY DEF LooksForBackup
  <2>2. /\ At(p, "pending") /\ target \in Targets
        /\ step \in {"copies", "ready"} /\ keep \in {0, target}
        /\ copied \in {-1, 0} \cup Targets
        /\ step = "copies" => keep = target /\ copied = -1
        /\ step = "ready" /\ keep # 0 => Exists(target)
    BY DEF LooksForBackup, UpgradeInv, UpgradeTypes, Keeps, Exists, NoCopy, CopyRecord
  <2> HIDE DEF step, keep, copied
  <2>3. opener[p] \in OpenerRecord /\ opener \in [Openers -> OpenerRecord]
    BY DEF UpgradeInv, UpgradeTypes
  <2>4. opener' \in [Openers -> OpenerRecord]
    BY <2>1, <2>2, <2>3 DEF OpenerRecord
  <2>5. /\ opener'[p].at = step /\ opener'[p].keep = keep /\ opener'[p].copied = copied
        /\ opener'[p].build = target /\ \A q \in Openers : q # p => opener'[q] = opener[q]
    BY <2>1, <2>3
  <2> QED
    BY <2>2, <2>4, <2>5
<1>4. UpgradeTypes'
  BY <1>2, <1>3 DEF UpgradeInv, UpgradeTypes, Exists
<1>5. TablesMatch'
  BY <1>2 DEF UpgradeInv, TablesMatch
<1>6. LockHeld'
  BY <1>2, <1>3 DEF UpgradeInv, LockHeld, LockHeldFor
<1>7. CopiesAreKnown'
  BY <1>2, <1>3 DEF UpgradeInv, CopiesAreKnown, Exists, Copies, CopiesAreKnownFor
<1>8. CopiesAreWhole'
  BY <1>2, <1>3 DEF UpgradeInv, CopiesAreWhole, Exists, Copies
<1>9. CopyIsKept'
  <2> SUFFICES ASSUME NEW q \in Openers PROVE CopyIsKeptFor(q)'
    BY DEF CopyIsKept
  <2>1. CASE q = p
    BY <1>2, <1>3, <2>1 DEF CopyIsKeptFor, Copies, Exists, Copying
  <2>2. CASE q # p
    BY <1>2, <1>3, <2>2 DEF UpgradeInv, CopyIsKept, CopyIsKeptFor, Copies, Exists
  <2> QED
    BY <2>1, <2>2
<1> QED
  BY <1>4, <1>5, <1>6, <1>7, <1>8, <1>9 DEF UpgradeInv

\* A copy is begun over nothing, or over one that came since the look, which spoils it.
LEMMA BeginsCopyStep ==
  ASSUME UpgradeInv, NEW p \in Openers, BeginsCopy(p)
  PROVE  UpgradeInv'
<1>1. Numeric
  BY Numbers DEF UpgradeInv
<1>2. /\ inFile' \in {inFile, db.version} /\ inFile' <= db.version
      /\ spoilt' = spoilt \cup {t \in {opener[p].build} : backup[t].version # opener[p].copied}
      /\ backup'[opener[p].build].version = inFile' /\ ~backup'[opener[p].build].whole
      /\ \A t \in Targets : t # opener[p].build => backup'[t] = backup[t]
      /\ inFile' \in {0} \cup Targets
      /\ backup' \in [Targets -> CopyRecord]
      /\ UNCHANGED <<db, writer>>
  BY <1>1 DEF UpgradeInv, UpgradeTypes, CopyRecord, BeginsCopy, TablesMatch
<1>3. /\ opener' \in [Openers -> OpenerRecord]
      /\ \A q \in Openers : q # p => opener'[q] = opener[q]
      /\ At(p, "copies")
      /\ opener'[p].at = "copying" /\ opener'[p].copied = inFile'
      /\ opener'[p].build = opener[p].build
      /\ opener'[p].keep = opener[p].keep
  <2>1. opener' = [opener EXCEPT ![p].at = "copying", ![p].copied = inFile']
    BY DEF BeginsCopy
  <2>2. opener[p] \in OpenerRecord /\ opener \in [Openers -> OpenerRecord] /\ At(p, "copies")
    BY DEF UpgradeInv, UpgradeTypes, BeginsCopy
  <2> QED
    BY <1>2, <2>1, <2>2 DEF OpenerRecord
<1>4. UpgradeTypes'
  BY <1>1, <1>2, <1>3 DEF UpgradeInv, UpgradeTypes, Exists
<1>5. TablesMatch'
  <2>1. \A t \in Targets : backup'[t].version <= db.version
    BY <1>2 DEF UpgradeInv, TablesMatch
  <2> QED
    BY <1>2 DEF UpgradeInv, TablesMatch
<1>6. LockHeld'
  BY <1>2, <1>3 DEF UpgradeInv, LockHeld, LockHeldFor
<1>7. CopiesAreKnown'
  <2>1. /\ backup'[opener[p].build] # NoCopy
        /\ opener[p].build \notin spoilt' => ~Exists(opener[p].build)
    BY <1>1, <1>2, <1>3 DEF NoCopy, UpgradeInv, UpgradeTypes, CopiesAreKnown, CopiesAreKnownFor
  <2>2. \A q \in Openers : Copies(q, opener[p].build) => opener[p].build \in spoilt'
    BY <1>2, <2>1 DEF UpgradeInv, CopiesAreKnown, CopiesAreKnownFor, Copies
  <2> SUFFICES ASSUME NEW q \in Openers PROVE CopiesAreKnownFor(q)'
    BY DEF CopiesAreKnown
  <2>3. CASE q = p
    BY <1>3, <2>1, <2>2, <2>3 DEF UpgradeInv, CopiesAreKnown, CopiesAreKnownFor, Exists, Copies
  <2>4. CASE q # p
    BY <1>2, <1>3, <2>4 DEF UpgradeInv, UpgradeTypes, CopiesAreKnown, CopiesAreKnownFor, Exists, Copies
  <2> QED
    BY <2>3, <2>4
<1>8. CopiesAreWhole'
  BY <1>2, <1>3 DEF UpgradeInv, CopiesAreWhole, Exists, Copies
<1>9. CopyIsKept'
  <2>1. opener[p].build \notin spoilt' => ~Exists(opener[p].build)
    BY <1>2, <1>3 DEF UpgradeInv, UpgradeTypes, CopiesAreKnown, CopiesAreKnownFor
  <2> SUFFICES ASSUME NEW q \in Openers PROVE CopyIsKeptFor(q)'
    BY DEF CopyIsKept
  <2>2. CASE q = p
    BY <1>3, <2>2 DEF CopyIsKeptFor
  <2>3. CASE q # p
    <3> SUFFICES ASSUME opener[q].at \in {"ready", "upgrading", "committed"},
                        opener[q].keep \notin spoilt' \cup {0}
                 PROVE  CopyIsKeptFor(q)'
      BY <1>3 DEF CopyIsKeptFor
    <3>1. /\ CopyIsKeptFor(q) /\ opener[q].keep \notin spoilt \cup {0}
          /\ opener[q].keep # opener[p].build /\ opener[q].keep \in Targets
      BY <1>2, <2>1 DEF UpgradeInv, CopyIsKept, CopyIsKeptFor, UpgradeTypes
    <3> QED
      BY <1>2, <1>3, <3>1 DEF CopyIsKeptFor, Exists, Copies
  <2> QED
    BY <2>2, <2>3
<1> QED
  BY <1>4, <1>5, <1>6, <1>7, <1>8, <1>9 DEF UpgradeInv

\* A copy that was made alone and untorn is whole.
LEMMA EndsCopyStep ==
  ASSUME UpgradeInv, NEW p \in Openers, EndsCopy(p)
  PROVE  UpgradeInv'
<1>2. /\ \A t \in Targets : t # opener[p].build => backup'[t] = backup[t]
      /\ ~Exists(opener[p].build) => backup' = backup
      /\ backup'[opener[p].build].version = backup[opener[p].build].version
      /\ \/ spoilt' = spoilt \cup {opener[p].build}
         \/ /\ spoilt' = spoilt
            /\ Copying(opener[p].build) = {p} /\ Exists(opener[p].build) => backup'[opener[p].build].whole
      /\ backup' \in [Targets -> CopyRecord]
      /\ UNCHANGED <<db, inFile, writer>>
  <2> DEFINE target == opener[p].build
             torn   == inFile # opener[p].copied
             whole  == ~torn /\ Copying(target) = {p}
  <2>1. /\ backup' = IF ~Exists(target) THEN backup ELSE [backup EXCEPT ![target].whole = whole]
        /\ spoilt' = IF torn THEN spoilt \cup {target} ELSE spoilt
        /\ UNCHANGED <<db, inFile, writer>> /\ At(p, "copying")
    BY DEF EndsCopy
  <2>2. target \in Targets /\ backup \in [Targets -> CopyRecord]
    BY <2>1 DEF UpgradeInv, UpgradeTypes
  <2>3. whole \in BOOLEAN /\ (~torn /\ Copying(target) = {p} => whole)
    OBVIOUS
  <2> HIDE DEF whole
  <2>4. /\ backup' \in [Targets -> CopyRecord]
        /\ \A t \in Targets : t # target => backup'[t] = backup[t]
        /\ backup'[target].version = backup[target].version
        /\ Exists(target) => backup'[target].whole = whole
    BY <2>1, <2>2, <2>3 DEF CopyRecord
  <2> QED
    BY <2>1, <2>3, <2>4
<1>3. /\ opener' \in [Openers -> OpenerRecord]
      /\ \A q \in Openers : q # p => opener'[q] = opener[q]
      /\ At(p, "copying")
      /\ opener'[p].at = "ready"
      /\ opener'[p].build = opener[p].build
      /\ opener'[p].keep = opener[p].keep
  BY DEF UpgradeInv, UpgradeTypes, EndsCopy, Goes, OpenerRecord
<1>4. UpgradeTypes'
  BY <1>2, <1>3 DEF UpgradeInv, UpgradeTypes, Exists
<1>5. TablesMatch'
  BY <1>2 DEF UpgradeInv, TablesMatch
<1>6. LockHeld'
  BY <1>2, <1>3 DEF UpgradeInv, LockHeld, LockHeldFor
<1>7. CopiesAreKnown'
  BY <1>2, <1>3, SMTT(30)
  DEF UpgradeInv, UpgradeTypes, CopiesAreKnown, Exists, NoCopy, Copies, OpenerRecord, CopiesAreKnownFor
<1>8. CopiesAreWhole'
  BY <1>2, <1>3 DEF UpgradeInv, CopiesAreWhole, Exists, NoCopy, Copies, Copying
<1>9. CopyIsKept'
  <2>1. /\ opener'[p].keep = opener[p].build /\ opener[p].build \in Targets
        /\ opener[p].build \notin spoilt' =>
             /\ Exists(opener[p].build)
             /\ \A r \in Openers : Copies(r, opener[p].build) => r = p
    BY <1>2, <1>3 DEF UpgradeInv, UpgradeTypes, CopiesAreKnown, CopiesAreKnownFor
  <2>2. Exists(opener[p].build) => backup'[opener[p].build] # NoCopy
    BY <1>2, <2>1 DEF UpgradeInv, UpgradeTypes, NoCopy
  <2> SUFFICES ASSUME NEW q \in Openers PROVE CopyIsKeptFor(q)'
    BY DEF CopyIsKept
  <2>3. CASE q = p
    BY <1>3, <2>1, <2>2, <2>3 DEF CopyIsKeptFor, Exists, Copies
  <2>4. CASE q # p
    BY <1>2, <1>3, <2>4 DEF UpgradeInv, CopyIsKept, CopyIsKeptFor, OpenerRecord, Copies, Exists
  <2> QED
    BY <2>3, <2>4
<1> QED
  BY <1>4, <1>5, <1>6, <1>7, <1>8, <1>9 DEF UpgradeInv

\* Who gets the lock knows the version, and is no older than it.
LEMMA LocksStep ==
  ASSUME UpgradeInv, NEW p \in Openers, Locks(p)
  PROVE  UpgradeInv'
<1>1. Numeric
  BY Numbers DEF UpgradeInv
<1>2. /\ writer = NoOpener
      /\ UNCHANGED <<db, inFile, backup, spoilt>>
  BY DEF Locks
<1>3. /\ opener' \in [Openers -> OpenerRecord]
      /\ \A q \in Openers : q # p => opener'[q] = opener[q]
      /\ At(p, "ready")
      /\ opener'[p].build = opener[p].build
      /\ opener'[p].keep = opener[p].keep
      /\ \/ opener'[p].at = "refused" /\ writer' = writer
         \/ /\ opener'[p].at = "upgrading" /\ writer' = p
            /\ opener'[p].from = db.version /\ ~(db.version > opener[p].build)
  BY DEF UpgradeInv, UpgradeTypes, Locks, From, IsNewer, Goes, OpenerRecord
<1>4. UpgradeTypes'
  BY <1>2, <1>3 DEF UpgradeInv, UpgradeTypes, Exists
<1>5. TablesMatch'
  BY <1>2 DEF UpgradeInv, TablesMatch
<1>6. LockHeld'
  <2> SUFFICES ASSUME NEW q \in Openers PROVE LockHeldFor(q)'
    BY DEF LockHeld
  <2>1. CASE q = p
    BY <1>1, <1>2, <1>3, <2>1 DEF LockHeldFor
  <2>2. CASE q # p
    BY <1>2, <1>3, <2>2, UpgradeAssumption DEF UpgradeInv, LockHeld, LockHeldFor
  <2> QED
    BY <2>1, <2>2
<1>7. CopiesAreKnown'
  <2> SUFFICES ASSUME NEW q \in Openers PROVE CopiesAreKnownFor(q)'
    BY DEF CopiesAreKnown
  <2>1. CASE q = p
    BY <1>3, <2>1 DEF CopiesAreKnownFor
  <2>2. CASE q # p
    BY <1>2, <1>3 DEF UpgradeInv, CopiesAreKnown, CopiesAreKnownFor, Copies, Exists
  <2> QED
    BY <2>1, <2>2
<1>8. CopiesAreWhole'
  BY <1>2, <1>3 DEF UpgradeInv, CopiesAreWhole, Exists, Copies
<1>9. CopyIsKept'
  <2> SUFFICES ASSUME NEW q \in Openers PROVE CopyIsKeptFor(q)'
    BY DEF CopyIsKept
  <2>1. CASE q = p
    BY <1>2, <1>3, <2>1 DEF UpgradeInv, UpgradeTypes, TablesMatch, CopyIsKept, CopyIsKeptFor, Copies, Exists
  <2>2. CASE q # p
    BY <1>2, <1>3, <2>2 DEF UpgradeInv, UpgradeTypes, CopyIsKept, CopyIsKeptFor, Copies, Exists
  <2> QED
    BY <2>1, <2>2
<1> QED
  BY <1>4, <1>5, <1>6, <1>7, <1>8, <1>9 DEF UpgradeInv

\* Under the lock nothing clashes, and the version only grows.
LEMMA UpgradesStep ==
  ASSUME UpgradeInv, NEW p \in Openers, Upgrades(p)
  PROVE  UpgradeInv'
<1>1. Numeric
  BY Numbers DEF UpgradeInv
<1>2. /\ writer' = NoOpener
      /\ opener' = [opener EXCEPT ![p].at = "committed"]
      /\ db'.version = opener[p].build
      /\ db'.tables = db.tables \cup PendingFrom(opener[p].from, opener[p].build)
      /\ db' \in [version : {0} \cup Targets, tables : SUBSET Nat]
      /\ inFile' \in {inFile, db'.version}
      /\ UNCHANGED <<backup, spoilt>>
  <2> DEFINE ms == PendingFrom(opener[p].from, opener[p].build)
  <2>1. /\ At(p, "upgrading") /\ opener[p].from = db.version /\ opener[p].build \in Targets
        /\ opener[p].from <= opener[p].build
    BY DEF Upgrades, UpgradeInv, LockHeld, LockHeldFor, UpgradeTypes
  <2>2. ms \subseteq Nat /\ ~Clashes(ms)
    BY <1>1, <2>1 DEF PendingFrom, Clashes, UpgradeInv, TablesMatch
  <2>3. /\ writer' = NoOpener /\ opener' = [opener EXCEPT ![p].at = "committed"]
        /\ db' = [version |-> opener[p].build, tables |-> db.tables \cup ms]
        /\ inFile' \in {inFile, db'.version} /\ UNCHANGED <<backup, spoilt>>
    BY <2>2 DEF Upgrades, Goes
  <2> QED
    BY <2>1, <2>2, <2>3 DEF UpgradeInv, UpgradeTypes
<1>3. /\ opener' \in [Openers -> OpenerRecord]
      /\ \A q \in Openers : q # p => opener'[q] = opener[q]
      /\ At(p, "upgrading")
      /\ opener'[p].build = opener[p].build
      /\ opener'[p].keep = opener[p].keep
      /\ opener'[p].from = opener[p].from
      /\ opener'[p].at = "committed"
  <2>1. opener' = [opener EXCEPT ![p].at = "committed"] /\ At(p, "upgrading")
    BY <1>2 DEF Upgrades
  <2>2. opener[p] \in OpenerRecord /\ opener \in [Openers -> OpenerRecord]
    BY DEF UpgradeInv, UpgradeTypes
  <2> QED
    BY <2>1, <2>2 DEF OpenerRecord
<1>4. UpgradeTypes'
  BY <1>2, <1>3 DEF UpgradeInv, UpgradeTypes, Exists
<1>5. TablesMatch'
  <2>1. /\ opener[p].from = db.version /\ opener[p].build \in Nat /\ opener[p].build > 0
        /\ opener[p].from <= opener[p].build /\ db.version \in Nat
    BY <1>1, <1>3 DEF UpgradeInv, LockHeld, LockHeldFor, UpgradeTypes
  <2>2. db'.tables = 1..db'.version /\ db'.version > 0 /\ db.version <= db'.version
    BY <1>2, <2>1 DEF PendingFrom, UpgradeInv, TablesMatch
  <2>3. inFile' <= db'.version /\ \A t \in Targets : backup'[t].version <= db'.version
    BY <1>1, <1>2, <2>2 DEF UpgradeInv, TablesMatch
  <2> QED
    BY <2>2, <2>3 DEF TablesMatch
<1>6. LockHeld'
  BY <1>3 DEF UpgradeInv, LockHeld, LockHeldFor
<1>7. CopiesAreKnown'
  BY <1>2 DEF UpgradeInv, CopiesAreKnown, Exists, Copies, CopiesAreKnownFor
<1>8. CopiesAreWhole'
  BY <1>2, <1>3 DEF UpgradeInv, CopiesAreWhole, Exists, Copies
<1>9. CopyIsKept'
  BY <1>2, <1>3 DEF UpgradeInv, CopyIsKept, Exists, Copies, CopyIsKeptFor
<1> QED
  BY <1>4, <1>5, <1>6, <1>7, <1>8, <1>9 DEF UpgradeInv

\* The copies that are removed are spoilt for the others, the own one stays.
LEMMA PrunesBackupsStep ==
  ASSUME UpgradeInv, NEW p \in Openers, PrunesBackups(p)
  PROVE  UpgradeInv'
<1>1. Numeric
  BY Numbers DEF UpgradeInv
<1>2. /\ backup' \in [Targets -> CopyRecord]
      /\ \A t \in Targets : backup'[t] = IF t = opener[p].keep THEN backup[t] ELSE NoCopy
      /\ spoilt \subseteq spoilt' /\ spoilt' \subseteq Targets
      /\ \A q \in Openers :
            q # p /\ opener[q].keep \notin {0, opener[p].keep} => opener[q].keep \in spoilt'
      /\ UNCHANGED <<db, inFile, writer>>
  <2>1. NoCopy \in CopyRecord /\ \A t \in Targets : backup[t] \in CopyRecord
    BY DEF NoCopy, CopyRecord, UpgradeInv, UpgradeTypes
  <2>2. /\ backup' = [t \in Targets |-> IF t = opener[p].keep THEN backup[t] ELSE NoCopy]
        /\ spoilt' = spoilt \cup ({opener[q].keep : q \in Openers \ {p}} \ {0, opener[p].keep})
        /\ UNCHANGED <<db, inFile, writer>>
    BY DEF PrunesBackups
  <2>3. \A q \in Openers : opener[q].keep \in {0} \cup Targets
    BY DEF UpgradeInv, UpgradeTypes, OpenerRecord
  <2> QED
    BY <2>1, <2>2, <2>3 DEF UpgradeInv, UpgradeTypes
<1>3. /\ opener' \in [Openers -> OpenerRecord]
      /\ \A q \in Openers : q # p => opener'[q] = opener[q]
      /\ At(p, "committed")
      /\ opener'[p].at = "open"
      /\ opener'[p].build = opener[p].build
      /\ opener'[p].keep = opener[p].keep
  <2>1. opener' = [opener EXCEPT ![p].at = "open"] /\ At(p, "committed")
    BY DEF PrunesBackups, Goes
  <2>2. opener[p] \in OpenerRecord /\ opener \in [Openers -> OpenerRecord]
    BY DEF UpgradeInv, UpgradeTypes
  <2> QED
    BY <2>1, <2>2 DEF OpenerRecord
<1>4. UpgradeTypes'
  BY <1>2, <1>3 DEF UpgradeInv, UpgradeTypes, Exists
<1>5. TablesMatch'
  <2>1. \A t \in Targets : backup'[t].version <= db.version
    BY <1>1, <1>2 DEF UpgradeInv, TablesMatch, NoCopy
  <2> QED
    BY <2>1, <1>2 DEF UpgradeInv, TablesMatch
<1>6. LockHeld'
  BY <1>2, <1>3 DEF UpgradeInv, LockHeld, LockHeldFor
<1>7. CopiesAreKnown'
  <2> SUFFICES ASSUME NEW q \in Openers PROVE CopiesAreKnownFor(q)'
    BY DEF CopiesAreKnown
  <2>1. CASE q = p
    BY <1>3, <2>1 DEF CopiesAreKnownFor
  <2>2. CASE q # p
    BY <1>1, <1>2, <1>3 DEF UpgradeInv, UpgradeTypes, CopiesAreKnown, CopiesAreKnownFor, Copies, Exists
  <2> QED
    BY <2>1, <2>2
<1>8. CopiesAreWhole'
  BY <1>2, <1>3 DEF UpgradeInv, UpgradeTypes, CopiesAreWhole, Exists, Copies
<1>9. CopyIsKept'
  BY <1>2, <1>3, SMTT(30)
  DEF UpgradeInv, UpgradeTypes, CopyIsKept, Exists, NoCopy, Copies, OpenerRecord, CopyRecord,
      CopyIsKeptFor
<1> QED
  BY <1>4, <1>5, <1>6, <1>7, <1>8, <1>9 DEF UpgradeInv

\* A stop lets go of the lock, and spoils the copy it cuts.
LEMMA CloseDatabaseStep ==
  ASSUME UpgradeInv, NEW p \in Openers, CloseDatabase(p)
  PROVE  UpgradeInv'
<1>2. /\ writer' = IF writer = p THEN NoOpener ELSE writer
      /\ spoilt' = spoilt \cup {t \in {opener[p].build} : At(p, "copying")}
      /\ UNCHANGED <<db, inFile, backup>>
  BY DEF CloseDatabase
<1>3. /\ opener' \in [Openers -> OpenerRecord]
      /\ \A q \in Openers : q # p => opener'[q] = opener[q]
      /\ ~At(p, "closed")
      /\ opener'[p].at = "closed" /\ opener'[p].build = 0 /\ opener'[p].keep = 0
  BY DEF UpgradeInv, UpgradeTypes, CloseDatabase, Closed, OpenerRecord
<1>4. UpgradeTypes'
  BY <1>2, <1>3 DEF UpgradeInv, UpgradeTypes, Exists
<1>5. TablesMatch'
  BY <1>2 DEF UpgradeInv, TablesMatch
<1>6. LockHeld'
  BY <1>2, <1>3 DEF UpgradeInv, LockHeld, LockHeldFor
<1>7. CopiesAreKnown'
  BY <1>2, <1>3, SMTT(30)
  DEF UpgradeInv, UpgradeTypes, CopiesAreKnown, Exists, NoCopy, Copies, OpenerRecord, CopiesAreKnownFor
<1>8. CopiesAreWhole'
  BY <1>2, <1>3 DEF UpgradeInv, CopiesAreWhole, Exists, Copies
<1>9. CopyIsKept'
  BY <1>2, <1>3 DEF UpgradeInv, CopyIsKept, Exists, Copies, CopyIsKeptFor
<1> QED
  BY <1>4, <1>5, <1>6, <1>7, <1>8, <1>9 DEF UpgradeInv

\* A failure lets go of the lock.
LEMMA UpgradeFailsStep ==
  ASSUME UpgradeInv, NEW p \in Openers, UpgradeFails(p)
  PROVE  UpgradeInv'
<1>2. /\ writer' = IF writer = p THEN NoOpener ELSE writer
      /\ UNCHANGED <<db, inFile, backup, spoilt>>
  BY DEF UpgradeFails
<1>3. /\ opener' \in [Openers -> OpenerRecord]
      /\ \A q \in Openers : q # p => opener'[q] = opener[q]
      /\ At(p, "upgrading") \/ (At(p, "ready") /\ writer # NoOpener)
      /\ opener'[p].at = "broken"
      /\ opener'[p].build = opener[p].build
      /\ opener'[p].keep = opener[p].keep
  BY DEF UpgradeInv, UpgradeTypes, UpgradeFails, Goes, OpenerRecord
<1>4. UpgradeTypes'
  BY <1>2, <1>3 DEF UpgradeInv, UpgradeTypes, Exists
<1>5. TablesMatch'
  BY <1>2 DEF UpgradeInv, TablesMatch
<1>6. LockHeld'
  BY <1>2, <1>3 DEF UpgradeInv, LockHeld, LockHeldFor
<1>7. CopiesAreKnown'
  <2> SUFFICES ASSUME NEW q \in Openers PROVE CopiesAreKnownFor(q)'
    BY DEF CopiesAreKnown
  <2>1. CASE q = p
    BY <1>3, <2>1 DEF CopiesAreKnownFor
  <2>2. CASE q # p
    BY <1>2, <1>3 DEF UpgradeInv, CopiesAreKnown, CopiesAreKnownFor, Copies, Exists
  <2> QED
    BY <2>1, <2>2
<1>8. CopiesAreWhole'
  BY <1>2, <1>3 DEF UpgradeInv, CopiesAreWhole, Exists, Copies
<1>9. CopyIsKept'
  BY <1>2, <1>3 DEF UpgradeInv, CopyIsKept, Exists, Copies, CopyIsKeptFor
<1> QED
  BY <1>4, <1>5, <1>6, <1>7, <1>8, <1>9 DEF UpgradeInv

-----------------------------------------------------------------------------
(* The theorems.                                                            *)

\* The invariant holds when nobody has opened the database.
LEMMA InitUpgradeInv ==
  ASSUME MigrationsInit
  PROVE  UpgradeInv
<1>1. \A t \in Targets : t \in Nat /\ t > 0
  BY UpgradeAssumption
<1>2. /\ db \in [version : {0} \cup Targets, tables : SUBSET Nat]
      /\ db.version = 0 => db.tables \subseteq {1}
      /\ db.version > 0 => db.tables = 1..db.version
  BY <1>1 DEF MigrationsInit
<1>3. Closed \in OpenerRecord /\ NoCopy \in CopyRecord
  BY DEF Closed, OpenerRecord, NoCopy, CopyRecord
<1>4. UpgradeTypes
  BY <1>2, <1>3 DEF MigrationsInit, UpgradeTypes, Exists, Closed
<1>5. TablesMatch
  BY <1>1 DEF MigrationsInit, TablesMatch, NoCopy
<1>6. LockHeld /\ CopiesAreKnown /\ CopyIsKept
  BY DEF MigrationsInit, LockHeld, LockHeldFor, CopiesAreKnown, CopiesAreKnownFor,
         CopyIsKept, CopyIsKeptFor, Closed
<1>7. CopiesAreWhole
  BY DEF MigrationsInit, CopiesAreWhole, Exists
<1> QED
  BY <1>4, <1>5, <1>6, <1>7 DEF UpgradeInv

\* It says nothing but of the variables.
LEMMA StutterStep ==
  ASSUME UpgradeInv, UNCHANGED upgradeVars
  PROVE  UpgradeInv'
BY DEF UpgradeInv, UpgradeTypes, TablesMatch, LockHeld, LockHeldFor, CopiesAreKnown, CopiesAreKnownFor,
       CopiesAreWhole, CopyIsKept, CopyIsKeptFor, Exists, Copies, upgradeVars

\* It holds in every state.
LEMMA UpgradeInvHolds == MigrationsSpec => []UpgradeInv
<1>1. UpgradeInv /\ [MigrationsNext]_upgradeVars => UpgradeInv'
  <2> SUFFICES ASSUME UpgradeInv, [MigrationsNext]_upgradeVars
               PROVE  UpgradeInv'
    OBVIOUS
  <2>1. CASE UNCHANGED upgradeVars
    BY <2>1, StutterStep
  <2>2. CASE MigrationsNext
    <3> PICK p \in Openers :
          \/ Open(p) \/ LooksForBackup(p) \/ BeginsCopy(p) \/ EndsCopy(p) \/ Locks(p)
          \/ Upgrades(p) \/ PrunesBackups(p) \/ CloseDatabase(p) \/ UpgradeFails(p)
      BY <2>2 DEF MigrationsNext
    <3> QED
      BY OpenStep, LooksForBackupStep, BeginsCopyStep, EndsCopyStep, LocksStep,
         UpgradesStep, PrunesBackupsStep, CloseDatabaseStep, UpgradeFailsStep
  <2> QED
    BY <2>1, <2>2
<1> QED
  BY <1>1, InitUpgradeInv, PTL DEF MigrationsSpec

\* Every state of the upgrade has its type: a version is one of a build there is, a
\* copy is kept for a build, and one process at most holds the write lock
\* (applyMigrations).
THEOREM UpgradeTyped == MigrationsSpec => []MigrationsTypeOK
<1>1. UpgradeInv => MigrationsTypeOK
  <2> SUFFICES ASSUME UpgradeInv PROVE MigrationsTypeOK
    OBVIOUS
  <2>1. \A t \in Targets : \/ backup[t] = NoCopy
                           \/ backup[t].version \in {0} \cup Targets /\ backup[t].whole \in BOOLEAN
    <3> TAKE t \in Targets
    <3>1. backup[t] \in CopyRecord /\ (backup[t] # NoCopy => backup[t].version >= 0)
      BY DEF UpgradeInv, UpgradeTypes, Exists
    <3> QED
      BY <3>1 DEF CopyRecord
  <2>2. \A p \in Openers : opener[p] \in OpenerRecord /\ opener[p].keep \in {0, opener[p].build}
    BY DEF UpgradeInv, UpgradeTypes
  <2> QED
    BY <2>1 DEF MigrationsTypeOK, UpgradeInv, UpgradeTypes, OpenerRecord
<1> QED
  BY <1>1, UpgradeInvHolds, PTL

\* However many processes of whatever builds open the database, stop or fail: none
\* applies a migration whose tables another created, the version says which tables
\* exist, and what an upgrade leaves can be gone back on unless two copies raced, one
\* was cut, or another build removed it (applyMigrations, backupBeforeMigration).
THEOREM UpgradesSafe == MigrationsSpec => []UpgradesAreSafe
<1>1. UpgradeInv => StartsDoNotClash
  BY DEF UpgradeInv, TablesMatch, LockHeld, LockHeldFor, StartsDoNotClash
<1>2. UpgradeInv => UpgradeIsReversible
  <2> SUFFICES ASSUME UpgradeInv, NEW p \in Openers, At(p, "committed"),
                      opener[p].from < opener[p].build, opener[p].keep \notin spoilt \cup {0}
               PROVE  /\ backup[opener[p].keep].whole
                      /\ backup[opener[p].keep].version < opener[p].keep
    BY DEF UpgradeIsReversible
  <2>1. /\ opener[p].keep = opener[p].build /\ opener[p].keep \in Targets
        /\ opener[p].from \in Nat /\ opener[p].build \in Nat
        /\ backup[opener[p].keep].version \in Int
    BY Numbers DEF UpgradeInv, UpgradeTypes
  <2>2. /\ Exists(opener[p].keep) /\ \A q \in Openers : ~Copies(q, opener[p].keep)
        /\ backup[opener[p].keep].version <= opener[p].from
    BY DEF UpgradeInv, CopyIsKept, CopyIsKeptFor
  <2>3. backup[opener[p].keep].whole
    BY <2>1, <2>2 DEF UpgradeInv, CopiesAreWhole
  <2> QED
    BY <2>1, <2>2, <2>3
<1> QED
  BY <1>1, <1>2, UpgradeInvHolds, PTL DEF UpgradesAreSafe

-----------------------------------------------------------------------------
(* The health signals of a session.                                         *)

Tallies == [settled : Nat, failures : Nat, retries : Nat, streak : Nat, longest : Nat,
            failed : SUBSET Tools]
Events == [tool : Tools, verdict : {"open", "failed", "ok"}]

\* One event leaves a tally a tally; a failure is counted, and no count falls.
LEMMA CountKeeps ==
    ASSUME NEW t \in Tallies, NEW e \in Events
    PROVE  LET c == Count(t, e) IN
           /\ c \in Tallies
           /\ c.failures = t.failures + (IF e.verdict = "failed" THEN 1 ELSE 0)
           /\ t.retries <= c.retries /\ t.longest <= c.longest
<1> DEFINE again == IF e.tool \in t.failed THEN 1 ELSE 0
           c == Count(t, e)
<1>1. /\ t = [settled |-> t.settled, failures |-> t.failures, retries |-> t.retries,
              streak |-> t.streak, longest |-> t.longest, failed |-> t.failed]
      /\ t.settled \in Nat /\ t.failures \in Nat /\ t.retries \in Nat /\ t.streak \in Nat
      /\ t.longest \in Nat /\ t.failed \in SUBSET Tools
      /\ e.tool \in Tools /\ e.verdict \in {"open", "failed", "ok"}
  BY DEF Tallies, Events
<1>2. again \in Nat
  OBVIOUS
<1>3. CASE e.verdict = "open"
  <2>1. c = t
    BY <1>3 DEF Count
  <2> QED
    BY <1>1, <1>3, <2>1
<1>4. CASE e.verdict = "failed"
  <2>1. c = [settled |-> t.settled + 1, failures |-> t.failures + 1, retries |-> t.retries + again,
             streak |-> t.streak + 1, longest |-> Longest(t), failed |-> t.failed \cup {e.tool}]
    BY <1>4 DEF Count
  <2>2. Longest(t) \in Nat /\ t.longest <= Longest(t)
    BY <1>1 DEF Longest
  <2> HIDE DEF again, c
  <2>3. c \in Tallies
    BY <1>1, <1>2, <2>1, <2>2 DEF Tallies
  <2> QED
    BY <1>1, <1>2, <1>4, <2>1, <2>2, <2>3 DEF c
<1>5. CASE e.verdict = "ok"
  <2>1. c = [settled |-> t.settled + 1, failures |-> t.failures, retries |-> t.retries + again,
             streak |-> 0, longest |-> t.longest, failed |-> t.failed \ {e.tool}]
    <3>1. c = [t EXCEPT !.settled = @ + 1, !.retries = @ + again, !.streak = 0,
                          !.failed = @ \ {e.tool}]
      BY <1>5 DEF Count
    <3> QED
      BY <1>1, <3>1
  <2> HIDE DEF again, c
  <2>3. c \in Tallies
    BY <1>1, <1>2, <2>1 DEF Tallies
  <2> QED
    BY <1>1, <1>2, <1>5, <2>1, <2>3 DEF c
<1> QED
  BY <1>1, <1>3, <1>4, <1>5

\* The tallies of the places of a sequence: of each set of places, what its last
\* place adds to the others'.
TalliesOf(es, n, h) ==
    h = [s \in SUBSET (1..n) |->
            IF s = {} THEN NoTally ELSE Count(h[s \ {Max(s)}], es[Max(s)])]

LEMMA LastPlace ==
    ASSUME NEW n \in Nat, NEW s \in SUBSET (1..n), s # {}
    PROVE  Max(s) \in s /\ \A x \in s : x <= Max(s)
<1>1. \E m \in s : \A x \in s : x <= m
  BY SomePlaceIsLast
<1> QED
  BY <1>1 DEF Max

LEMMA TalliesExist ==
    ASSUME NEW es, NEW n \in Nat
    PROVE  \E h : TalliesOf(es, n, h)
<1> DEFINE T == {m \in Nat : \E h : TalliesOf(es, m, h)}
<1>1. 0 \in T
  <2> DEFINE h == [s \in SUBSET (1..0) |-> NoTally]
  <2>1. \A s \in SUBSET (1..0) : s = {}
    OBVIOUS
  <2>2. TalliesOf(es, 0, h)
    BY <2>1 DEF TalliesOf
  <2> QED
    BY <2>2
<1>2. ASSUME NEW m \in Nat, m \in T PROVE m + 1 \in T
  <2>1. PICK h : TalliesOf(es, m, h)
    BY <1>2
  <2> DEFINE g == [s \in SUBSET (1..(m + 1)) |->
                      IF m + 1 \in s THEN Count(h[s \ {m + 1}], es[m + 1]) ELSE h[s]]
  <2>2. ASSUME NEW s \in SUBSET (1..(m + 1))
        PROVE  g[s] = IF s = {} THEN NoTally ELSE Count(g[s \ {Max(s)}], es[Max(s)])
    <3>1. CASE m + 1 \in s
      <4>1. Max(s) = m + 1
        <5>1. m + 1 \in Nat /\ s # {}
          BY <3>1
        <5>2. Max(s) \in s /\ \A x \in s : x <= Max(s)
          BY <5>1, LastPlace
        <5> DEFINE k == Max(s)
        <5>3. k \in 1..(m + 1) /\ m + 1 <= k
          BY <3>1, <5>2
        <5> HIDE DEF k
        <5>4. k = m + 1
          BY <5>3
        <5> QED
          BY <5>4 DEF k
      <4>2. s \ {m + 1} \in SUBSET (1..(m + 1)) /\ m + 1 \notin s \ {m + 1}
        OBVIOUS
      <4>3. g[s] = Count(h[s \ {m + 1}], es[m + 1]) /\ g[s \ {m + 1}] = h[s \ {m + 1}]
        BY <3>1, <4>2
      <4> HIDE DEF g
      <4> QED
        BY <3>1, <4>1, <4>3
    <3>2. CASE m + 1 \notin s /\ s # {}
      <4>1. s \in SUBSET (1..m)
        BY <3>2
      <4>2. h[s] = Count(h[s \ {Max(s)}], es[Max(s)])
        BY <2>1, <3>2, <4>1 DEF TalliesOf
      <4> DEFINE r == s \ {Max(s)}
      <4>3. r \in SUBSET (1..(m + 1)) /\ m + 1 \notin r
        BY <3>2
      <4>4. g[s] = h[s] /\ g[r] = h[r]
        BY <3>2, <4>3
      <4> HIDE DEF g
      <4> QED
        BY <3>2, <4>2, <4>4
    <3>3. CASE s = {}
      <4>1. g[{}] = h[{}] /\ h[{}] = NoTally
        BY <2>1 DEF TalliesOf
      <4> QED
        BY <3>3, <4>1
    <3> QED
      BY <3>1, <3>2, <3>3
  <2>3. g = [s \in SUBSET (1..(m + 1)) |->
                IF s = {} THEN NoTally ELSE Count(g[s \ {Max(s)}], es[Max(s)])]
    <3>1. g = [s \in SUBSET (1..(m + 1)) |-> g[s]]
      OBVIOUS
    <3> HIDE DEF g
    <3> QED
      BY <2>2, <3>1, Zenon
  <2> HIDE DEF g
  <2>4. TalliesOf(es, m + 1, g)
    BY <2>3, Zenon DEF TalliesOf
  <2>5. m + 1 \in Nat
    OBVIOUS
  <2> QED
    BY <2>4, <2>5
<1> HIDE DEF T
<1>3. n \in T
  BY <1>1, <1>2, ByNumbers
<1> QED
  BY <1>3 DEF T

\* The tally of a sequence is that of all its places.
LEMMA TallyIs ==
    ASSUME NEW es \in Seq(Events)
    PROVE  \E h : TalliesOf(es, Len(es), h) /\ Tally(es) = h[1..Len(es)]
<1> DEFINE h == CHOOSE g : TalliesOf(es, Len(es), g)
<1>1. Len(es) \in Nat /\ DOMAIN es = 1..Len(es)
  OBVIOUS
<1>2. TalliesOf(es, Len(es), h)
  BY <1>1, TalliesExist
<1>3. Tally(es) = h[1..Len(es)]
  BY <1>1 DEF Tally, FoldLeft, MapThenFoldSet, TalliesOf
<1> QED
  BY <1>2, <1>3

\* Tallies of sequences that begin alike begin alike.
LEMMA TalliesAgree ==
    ASSUME NEW n \in Nat, NEW m \in Nat, NEW j \in 0..n, j <= m, NEW es, NEW fs, NEW h, NEW k,
           TalliesOf(es, n, h), TalliesOf(fs, m, k), \A i \in 1..j : es[i] = fs[i]
    PROVE  h[1..j] = k[1..j]
<1> DEFINE T == {i \in Nat : i <= j => h[1..i] = k[1..i]}
<1>1. 0 \in T
  <2>1. 1..0 = {} /\ {} \in SUBSET (1..n) /\ {} \in SUBSET (1..m)
    OBVIOUS
  <2>2. h[{}] = NoTally /\ k[{}] = NoTally
    BY <2>1 DEF TalliesOf
  <2> QED
    BY <2>1, <2>2
<1>2. ASSUME NEW i \in Nat, i \in T PROVE i + 1 \in T
  <2>1. SUFFICES ASSUME i + 1 <= j PROVE h[1..(i + 1)] = k[1..(i + 1)]
    OBVIOUS
  <2> DEFINE s == 1..(i + 1)
  <2>2. s \in SUBSET (1..n) /\ s \in SUBSET (1..m) /\ s # {} /\ i + 1 \in s /\ i + 1 \in 1..j
    <3>1. i \in Nat /\ i + 1 <= n /\ i + 1 <= m /\ i + 1 \in s /\ i + 1 \in 1..j
      BY <1>2, <2>1
    <3>2. \A x \in s : x \in 1..n /\ x \in 1..m
      BY <3>1
    <3> HIDE DEF s
    <3> QED
      BY <3>1, <3>2
  <2>3. Max(s) = i + 1 /\ s \ {i + 1} = 1..i
    <3>1. Max(s) \in s /\ \A x \in s : x <= Max(s)
      <4> HIDE DEF s
      <4> QED
        BY <2>2, LastPlace
    <3> DEFINE y == Max(s)
    <3>2. y \in 1..(i + 1) /\ i + 1 <= y
      BY <2>2, <3>1
    <3> HIDE DEF y
    <3>3. y = i + 1
      BY <3>2
    <3> QED
      BY <3>3 DEF y
  <2> HIDE DEF s
  <2>4. h[s] = Count(h[s \ {Max(s)}], es[Max(s)]) /\ k[s] = Count(k[s \ {Max(s)}], fs[Max(s)])
    BY <2>2, Zenon DEF TalliesOf
  <2>5. h[1..i] = k[1..i] /\ es[i + 1] = fs[i + 1]
    BY <1>2, <2>1, <2>2
  <2> QED
    BY <2>3, <2>4, <2>5 DEF s
<1> HIDE DEF T
<1>3. j \in T
  BY <1>1, <1>2, ByNumbers
<1> QED
  BY <1>3 DEF T

LEMMA TallyOfAppended ==
    ASSUME NEW es \in Seq(Events), NEW e \in Events
    PROVE  Tally(Append(es, e)) = Count(Tally(es), e)
<1> DEFINE n == Len(es)  fs == Append(es, e)  s == 1..(n + 1)
<1>1. /\ n \in Nat /\ n + 1 \in Nat /\ n \in 0..n /\ n <= n + 1
      /\ fs \in Seq(Events) /\ Len(fs) = n + 1 /\ fs[n + 1] = e
      /\ \A i \in 1..n : es[i] = fs[i]
  OBVIOUS
<1> HIDE DEF n, fs
<1>2. PICK h : TalliesOf(es, n, h) /\ Tally(es) = h[1..n]
  BY TallyIs DEF n
<1>3. PICK k : TalliesOf(fs, n + 1, k) /\ Tally(fs) = k[s]
  BY <1>1, TallyIs
<1>4. h[1..n] = k[1..n]
  BY <1>1, <1>2, <1>3, TalliesAgree
<1>5. s \in SUBSET (1..(n + 1)) /\ n + 1 \in s
  BY <1>1
<1>6. Max(s) = n + 1 /\ s \ {n + 1} = 1..n
  <2>1. Max(s) \in s /\ \A x \in s : x <= Max(s)
    <3> HIDE DEF s
    <3> QED
      BY <1>1, <1>5, LastPlace
  <2> DEFINE y == Max(s)
  <2>2. y \in 1..(n + 1) /\ n + 1 <= y
    BY <1>5, <2>1
  <2> HIDE DEF y
  <2>3. y = n + 1
    BY <1>1, <2>2
  <2> QED
    BY <1>1, <2>3 DEF y
<1> HIDE DEF s
<1>7. k[s] = Count(k[s \ {Max(s)}], fs[Max(s)])
  <2>1. s # {}
    BY <1>5
  <2> QED
    BY <1>3, <1>5, <2>1, Zenon DEF TalliesOf
<1> QED
  BY <1>1, <1>2, <1>3, <1>4, <1>6, <1>7 DEF fs

LEMMA TallyOfNone == Tally(<<>>) = NoTally /\ NoTally \in Tallies /\ NoTally.failures = 0
<1>1. <<>> \in Seq(Events) /\ Len(<<>>) = 0 /\ 1..0 = {}
  OBVIOUS
<1>2. PICK h : TalliesOf(<<>>, 0, h) /\ Tally(<<>>) = h[{}]
  BY <1>1, TallyIs
<1>3. h[{}] = NoTally
  BY <1>1, <1>2 DEF TalliesOf
<1> QED
  BY <1>2, <1>3 DEF NoTally, Tallies

\* The tally of a sequence is one.
LEMMA TallyTyped ==
    ASSUME NEW es \in Seq(Events)
    PROVE  Tally(es) \in Tallies
<1> DEFINE T == {n \in Nat : \A fs \in Seq(Events) : Len(fs) = n => Tally(fs) \in Tallies}
<1>1. 0 \in T
  <2>1. \A fs \in Seq(Events) : Len(fs) = 0 => fs = <<>>
    OBVIOUS
  <2> QED
    BY <2>1, TallyOfNone
<1>2. ASSUME NEW n \in Nat, n \in T PROVE n + 1 \in T
  <2>1. SUFFICES ASSUME NEW fs \in Seq(Events), Len(fs) = n + 1 PROVE Tally(fs) \in Tallies
    OBVIOUS
  <2> DEFINE gs == SubSeq(fs, 1, n)  e == fs[n + 1]
  <2>2. gs \in Seq(Events) /\ Len(gs) = n /\ e \in Events /\ fs = Append(gs, e)
    BY <2>1
  <2>3. Tally(gs) \in Tallies
    BY <1>2, <2>2
  <2> HIDE DEF gs, e
  <2>4. Tally(fs) = Count(Tally(gs), e)
    BY <2>2, TallyOfAppended
  <2> QED
    BY <2>2, <2>3, <2>4, CountKeeps
<1> HIDE DEF T
<1>3. Len(es) \in Nat /\ Len(es) \in T
  BY <1>1, <1>2, ByNumbers
<1> QED
  BY <1>3 DEF T

\* What a source may tell of a call: nothing, that it began, how it ended, or both.
Tells(call) == {<<>>, <<Event(call)>>, <<Opening(call), Event(call)>>, <<Opening(call)>>}

Failed(n) == {i \in 1..n : calls[i].failed}

LEMMA ToldOnce ==
    ASSUME NEW es \in Seq(Events), NEW call \in Calls, NEW said \in Tells(call)
    PROVE  /\ es \o said \in Seq(Events)
           /\ Tally(es \o said).failures \in Nat
           /\ Tally(es \o said).failures
                 <= Tally(es).failures + (IF call.failed THEN 1 ELSE 0)
<1> DEFINE o == Opening(call)  v == Event(call)  x == IF call.failed THEN 1 ELSE 0
<1>1. /\ o \in Events /\ v \in Events /\ o.verdict # "failed"
      /\ (v.verdict = "failed") <=> call.failed
  BY DEF Calls, Events, Opening, Event
<1>2. said \in {<<>>, <<v>>, <<o, v>>, <<o>>}
  BY DEF Tells
<1>3. Tally(es) \in Tallies /\ Tally(es).failures \in Nat
  BY TallyTyped DEF Tallies
<1> HIDE DEF o, v
<1>4. ASSUME NEW fs \in Seq(Events), NEW e \in Events
      PROVE  /\ Append(fs, e) \in Seq(Events) /\ fs \o <<e>> = Append(fs, e)
             /\ Tally(fs).failures \in Nat
             /\ Tally(Append(fs, e)).failures \in Nat
             /\ Tally(Append(fs, e)).failures
                   = Tally(fs).failures + (IF e.verdict = "failed" THEN 1 ELSE 0)
  <2>1. Append(fs, e) \in Seq(Events) /\ fs \o <<e>> = Append(fs, e)
    OBVIOUS
  <2>2. Tally(fs) \in Tallies /\ Tally(Append(fs, e)) \in Tallies
    BY <2>1, TallyTyped
  <2>3. Tally(fs).failures \in Nat /\ Tally(Append(fs, e)).failures \in Nat
    BY <2>2 DEF Tallies
  <2>4. Tally(Append(fs, e)).failures
           = Tally(fs).failures + (IF e.verdict = "failed" THEN 1 ELSE 0)
    BY <2>2, TallyOfAppended, CountKeeps
  <2> QED
    BY <2>1, <2>3, <2>4
<1>5. CASE said = <<>>
  <2>1. es \o said = es
    BY <1>5
  <2> QED
    BY <1>3, <2>1
<1>6. CASE said = <<v>>
  <2>1. es \o said = Append(es, v)
    BY <1>1, <1>4, <1>6
  <2>2. es \o said \in Seq(Events) /\ Tally(es \o said).failures \in Nat
        /\ Tally(es \o said).failures = Tally(es).failures + (IF v.verdict = "failed" THEN 1 ELSE 0)
    BY <1>1, <1>4, <2>1
  <2> QED
    BY <1>1, <1>3, <2>2
<1>7. CASE said = <<o>>
  <2>1. es \o said = Append(es, o)
    BY <1>1, <1>4, <1>7
  <2>2. es \o said \in Seq(Events) /\ Tally(es \o said).failures \in Nat
        /\ Tally(es \o said).failures = Tally(es).failures + (IF o.verdict = "failed" THEN 1 ELSE 0)
    BY <1>1, <1>4, <2>1
  <2> QED
    BY <1>1, <1>3, <2>2
<1>8. CASE said = <<o, v>>
  <2> DEFINE fs == Append(es, o)
  <2>1. es \o said = Append(fs, v)
    BY <1>1, <1>8
  <2>2. fs \in Seq(Events) /\ Tally(fs).failures = Tally(es).failures
    BY <1>1, <1>3, <1>4
  <2> HIDE DEF fs
  <2> QED
    BY <1>1, <1>3, <1>4, <2>1, <2>2
<1> QED
  BY <1>2, <1>5, <1>6, <1>7, <1>8

\* A source that tells of each call at most once counts no failure twice.
LEMMA NoneTwice ==
    ASSUME calls \in Seq(Calls), NEW seqs, DOMAIN seqs = 1..Len(calls), seqs \in Seq(Seq(Events)),
           \A i \in 1..Len(calls) : seqs[i] \in Tells(calls[i])
    PROVE  /\ FlattenSeq(seqs) \in Seq(Events)
           /\ Tally(FlattenSeq(seqs)).failures <= Cardinality(Failed(Len(calls)))
<1> DEFINE n == Len(calls)
<1>1. n \in Nat /\ Len(seqs) = n /\ \A i \in 1..n : calls[i] \in Calls
  OBVIOUS
<1>2. FlattenSeq(seqs) \in Seq(Events)
  BY Flattened
<1>3. \A m \in Nat : IsFiniteSet(Failed(m)) /\ Cardinality(Failed(m)) \in Nat
  <2>1. SUFFICES ASSUME NEW m \in Nat PROVE IsFiniteSet(Failed(m)) /\ Cardinality(Failed(m)) \in Nat
    OBVIOUS
  <2>2. IsFiniteSet(1..m) /\ Failed(m) \in SUBSET (1..m)
    BY FS_Interval DEF Failed
  <2> QED
    BY <2>2, FS_Subset, FS_CardinalityType
<1>4. \A m \in Nat : m + 1 \in 1..n =>
         Cardinality(Failed(m + 1)) = Cardinality(Failed(m)) + (IF calls[m + 1].failed THEN 1 ELSE 0)
  <2>1. SUFFICES ASSUME NEW m \in Nat, m + 1 \in 1..n
                 PROVE  Cardinality(Failed(m + 1))
                          = Cardinality(Failed(m)) + (IF calls[m + 1].failed THEN 1 ELSE 0)
    OBVIOUS
  <2>2. CASE calls[m + 1].failed
    <3>1. Failed(m + 1) = Failed(m) \cup {m + 1} /\ m + 1 \notin Failed(m)
      BY <2>2, SMTT(30) DEF Failed
    <3>2. Cardinality(Failed(m) \cup {m + 1}) = Cardinality(Failed(m)) + 1
      BY <1>3, <3>1, FS_AddElement
    <3> QED
      BY <2>2, <3>1, <3>2
  <2>3. CASE ~calls[m + 1].failed
    <3>1. Failed(m + 1) = Failed(m)
      BY <2>3 DEF Failed
    <3> QED
      BY <1>3, <2>3, <3>1
  <2> QED
    BY <2>2, <2>3
<1>5. CASE n = 0
  <2>1. seqs = <<>> /\ FlattenSeq(seqs) = <<>>
    BY <1>1, <1>5 DEF FlattenSeq
  <2> QED
    BY <1>1, <1>2, <1>3, <1>5, <2>1, TallyOfNone
<1>6. CASE n # 0
  <2>1. PICK f : /\ FlattenSeq(seqs) = f[Len(seqs)]
                 /\ \A i \in 1..Len(seqs) : f[i] = IF i = 1 THEN seqs[i] ELSE f[i - 1] \o seqs[i]
    <3>1. Len(seqs) # 0
      BY <1>1, <1>6
    <3> QED
      BY <3>1, FlattenedInSteps, Zenon
  <2> DEFINE Good(m) == /\ f[m] \in Seq(Events)
                        /\ Tally(f[m]).failures <= Cardinality(Failed(m))
             T == {m \in Nat : m + 1 \in 1..n => Good(m + 1)}
  <2> HIDE DEF n
  <2>2. 0 \in T
    <3>1. 1 \in 1..n
      BY <1>1, <1>6
    <3>2. f[1] = seqs[1] /\ seqs[1] \in Tells(calls[1]) /\ seqs[1] \in Seq(Events)
      BY <1>1, <2>1, <3>1 DEF n
    <3>3. f[1] = <<>> \o seqs[1] /\ <<>> \in Seq(Events)
      BY <3>2
    <3> DEFINE x == IF calls[1].failed THEN 1 ELSE 0
    <3>4. Tally(f[1]).failures \in Nat /\ Tally(f[1]).failures <= 0 + x
      <4>1. calls[1] \in Calls
        BY <1>1, <3>1
      <4>2. /\ Tally(<<>> \o seqs[1]).failures \in Nat
            /\ Tally(<<>> \o seqs[1]).failures <= Tally(<<>>).failures + x
        BY <3>2, <3>3, <4>1, ToldOnce
      <4> QED
        BY <3>3, <4>2, TallyOfNone
    <3>5. Cardinality(Failed(0 + 1)) = Cardinality(Failed(0)) + x /\ Cardinality(Failed(0)) \in Nat
      <4>1. 0 \in Nat /\ 0 + 1 = 1 /\ 0 + 1 \in 1..n
        BY <3>1
      <4> HIDE DEF x
      <4>2. Cardinality(Failed(0 + 1))
              = Cardinality(Failed(0)) + (IF calls[0 + 1].failed THEN 1 ELSE 0)
        BY <1>4, <4>1, Zenon
      <4> QED
        BY <1>3, <4>1, <4>2 DEF x
    <3>6. x \in Nat /\ 0 + 1 = 1
      OBVIOUS
    <3> HIDE DEF x
    <3> QED
      BY <3>2, <3>4, <3>5, <3>6
  <2>3. ASSUME NEW m \in Nat, m \in T PROVE m + 1 \in T
    <3>1. SUFFICES ASSUME m + 1 + 1 \in 1..n PROVE Good(m + 1 + 1)
      OBVIOUS
    <3> DEFINE k == m + 1  c == calls[k + 1]  x == IF c.failed THEN 1 ELSE 0
    <3>2. k \in Nat /\ k \in 1..n /\ k + 1 \in 1..n /\ k + 1 # 1 /\ k + 1 - 1 = k
      BY <1>1, <3>1
    <3>3. Good(k)
      BY <2>3, <3>2
    <3>4. c \in Calls /\ seqs[k + 1] \in Tells(c)
      BY <1>1, <3>2 DEF n
    <3>5. f[k + 1] = f[k] \o seqs[k + 1]
      <4>1. f[k + 1] = IF k + 1 = 1 THEN seqs[k + 1] ELSE f[k + 1 - 1] \o seqs[k + 1]
        <5> DEFINE i == k + 1
        <5>1. i \in 1..Len(seqs)
          BY <1>1, <3>2
        <5> HIDE DEF i
        <5>2. f[i] = IF i = 1 THEN seqs[i] ELSE f[i - 1] \o seqs[i]
          BY <2>1, <5>1, Zenon
        <5> QED
          BY <5>2 DEF i
      <4> QED
        BY <3>2, <4>1, Zenon
    <3>6. Cardinality(Failed(k + 1)) = Cardinality(Failed(k)) + x
      BY <1>4, <3>2
    <3>7. x \in Nat /\ Cardinality(Failed(k)) \in Nat /\ Cardinality(Failed(k + 1)) \in Nat
      BY <1>3, <3>2
    <3> HIDE DEF k, c
    <3>8. /\ f[k] \o seqs[k + 1] \in Seq(Events)
          /\ Tally(f[k] \o seqs[k + 1]).failures \in Nat
          /\ Tally(f[k] \o seqs[k + 1]).failures <= Tally(f[k]).failures + x
      BY <3>3, <3>4, ToldOnce
    <3>9. Tally(f[k]).failures \in Nat
      BY <3>3, TallyTyped DEF Tallies
    <3> HIDE DEF x
    <3>10. Good(k + 1)
      BY <3>3, <3>5, <3>6, <3>7, <3>8, <3>9
    <3> QED
      BY <3>10 DEF k
  <2>4. n - 1 \in T
    <3> HIDE DEF T
    <3>1. n - 1 \in Nat
      BY <1>1, <1>6
    <3> QED
      BY <2>2, <2>3, <3>1, ByNumbers
  <2>5. (n - 1) + 1 = n /\ n \in 1..n
    BY <1>1, <1>6
  <2>6. Good(n)
    BY <2>4, <2>5
  <2> QED
    BY <1>1, <1>2, <2>1, <2>6 DEF n
<1> QED
  BY <1>5, <1>6

\* The sources hold events, the one that speaks gives a tally, and it does not
\* count a failure twice.
LEMMA EvidenceIsSound ==
    ASSUME SignalsTypeOK, NEW trail, NEW archive
    PROVE  /\ Evidence(trail, archive) \in Tallies
           /\ Evidence(trail, archive).failures <= Cardinality(Failed(Len(calls)))
<1>1. calls \in Seq(Calls) /\ heard \in [1..Len(calls) -> {"unheard", "started", "settled"}]
      /\ Len(calls) \in Nat /\ \A i \in 1..Len(calls) : calls[i] \in Calls
  BY DEF SignalsTypeOK
<1>2. \A c \in Calls : \A said \in Tells(c) : said \in Seq(Events)
  <2>1. SUFFICES ASSUME NEW c \in Calls PROVE \A said \in Tells(c) : said \in Seq(Events)
    OBVIOUS
  <2>2. Opening(c) \in Events /\ Event(c) \in Events
    BY DEF Calls, Events, Opening, Event
  <2> DEFINE o == Opening(c)  v == Event(c)
  <2> HIDE DEF o, v
  <2>3. o \in Events /\ v \in Events
    BY <2>2 DEF o, v
  <2>4. /\ <<>> \in Seq(Events) /\ <<v>> \in Seq(Events) /\ <<o>> \in Seq(Events)
        /\ <<o, v>> \in Seq(Events)
    BY <2>3
  <2> QED
    BY <2>4 DEF Tells, o, v
<1>3. ASSUME NEW seqs, seqs = [i \in 1..Len(calls) |-> seqs[i]],
             \A i \in 1..Len(calls) : seqs[i] \in Tells(calls[i])
      PROVE  /\ FlattenSeq(seqs) \in Seq(Events)
             /\ Tally(FlattenSeq(seqs)) \in Tallies
             /\ Tally(FlattenSeq(seqs)).failures <= Cardinality(Failed(Len(calls)))
  <2>1. DOMAIN seqs = 1..Len(calls) /\ \A i \in 1..Len(calls) : seqs[i] \in Seq(Events)
    BY <1>1, <1>2, <1>3
  <2>2. seqs \in Seq(Seq(Events))
    BY <1>1, <1>3, <2>1
  <2>3. /\ FlattenSeq(seqs) \in Seq(Events)
        /\ Tally(FlattenSeq(seqs)).failures <= Cardinality(Failed(Len(calls)))
    BY <1>1, <1>3, <2>1, <2>2, NoneTwice
  <2> QED
    BY <2>3, TallyTyped
<1>4. ASSUME NEW seen
      PROVE  /\ Tally(Brought(seen)) \in Tallies
             /\ Tally(Brought(seen)).failures <= Cardinality(Failed(Len(calls)))
  <2> DEFINE seqs == [i \in 1..Len(calls) |-> IF i \in seen THEN <<Event(calls[i])>> ELSE <<>>]
  <2>1. seqs = [i \in 1..Len(calls) |-> seqs[i]]
        /\ \A i \in 1..Len(calls) : seqs[i] \in Tells(calls[i])
    BY DEF Tells
  <2>2. Brought(seen) = FlattenSeq(seqs)
    BY DEF Brought
  <2> HIDE DEF seqs
  <2> QED
    BY <1>3, <2>1, <2>2
<1>5. /\ Tally(Observed) \in Tallies
      /\ Tally(Observed).failures <= Cardinality(Failed(Len(calls)))
  <2> DEFINE Said(i) == CASE heard[i] = "unheard" -> <<>>
                         [] heard[i] = "started" -> <<Opening(calls[i])>>
                         [] heard[i] = "settled" -> <<Opening(calls[i]), Event(calls[i])>>
             seqs == [i \in 1..Len(calls) |-> Said(i)]
  <2>1. ASSUME NEW i \in 1..Len(calls) PROVE Said(i) \in Tells(calls[i])
    <3>1. heard[i] \in {"unheard", "started", "settled"}
      BY <1>1
    <3>2. CASE heard[i] = "unheard"
      BY <3>2 DEF Tells
    <3>3. CASE heard[i] = "started"
      BY <3>3 DEF Tells
    <3>4. CASE heard[i] = "settled"
      BY <3>4 DEF Tells
    <3> QED
      BY <3>1, <3>2, <3>3, <3>4
  <2>2. Observed = FlattenSeq(seqs)
    BY DEF Observed
  <2> HIDE DEF Said
  <2>3. seqs = [i \in 1..Len(calls) |-> seqs[i]]
        /\ \A i \in 1..Len(calls) : seqs[i] \in Tells(calls[i])
    BY <2>1
  <2> HIDE DEF seqs
  <2> QED
    BY <1>3, <2>2, <2>3
<1>6. Evidence(trail, archive) \in {Tally(Brought(trail)), Tally(Brought(archive)), Tally(Observed)}
  BY DEF Evidence, Richest
<1> QED
  BY <1>4, <1>5, <1>6

\* A tally with higher counts draws a penalty that is not lower.
LEMMA PenaltyGrows ==
    ASSUME NEW s \in Tallies, NEW t \in Tallies,
           s.failures <= t.failures, s.longest <= t.longest, s.retries <= t.retries
    PROVE  /\ ToolPenalty(s) \in Nat /\ ToolPenalty(t) \in Nat
           /\ ToolPenalty(s) <= ToolPenalty(t)
<1>1. /\ s.failures \in Nat /\ s.longest \in Nat /\ s.retries \in Nat
      /\ t.failures \in Nat /\ t.longest \in Nat /\ t.retries \in Nat
  BY DEF Tallies
<1>2. /\ Beyond1(s.longest) \in Nat /\ Beyond1(t.longest) \in Nat
      /\ Beyond1(s.longest) <= Beyond1(t.longest)
  BY <1>1 DEF Beyond1
<1>3. /\ Beyond1(s.retries) \in Nat /\ Beyond1(t.retries) \in Nat
      /\ Beyond1(s.retries) <= Beyond1(t.retries)
  BY <1>1 DEF Beyond1
<1>4. /\ Charge(s.failures, 6, 30) \in Nat /\ Charge(t.failures, 6, 30) \in Nat
      /\ Charge(s.failures, 6, 30) <= Charge(t.failures, 6, 30)
  BY <1>1 DEF Charge
<1>5. /\ Charge(Beyond1(s.longest), 12, 24) \in Nat /\ Charge(Beyond1(t.longest), 12, 24) \in Nat
      /\ Charge(Beyond1(s.longest), 12, 24) <= Charge(Beyond1(t.longest), 12, 24)
  BY <1>2 DEF Charge
<1>6. /\ Charge(Beyond1(s.retries), 8, 24) \in Nat /\ Charge(Beyond1(t.retries), 8, 24) \in Nat
      /\ Charge(Beyond1(s.retries), 8, 24) <= Charge(Beyond1(t.retries), 8, 24)
  BY <1>3 DEF Charge
<1> QED
  BY <1>4, <1>5, <1>6 DEF ToolPenalty

\* A score is a percentage, and its words are among those it may have.
LEMMA ScoreIsTyped ==
    ASSUME SignalsTypeOK, NEW tally \in Tallies, NEW stated \in Classified \cup {None}
    PROVE  LET s == Score(tally, stated) IN
           /\ s.at = instant /\ s.failures = tally.failures
           /\ s.outcome \in {None, "completed", "errored", "abandoned", "unknown"}
           /\ s.score \in [graded : BOOLEAN, points : 0..100]
<1> DEFINE outcome == DecidingOutcome(stated)
           given == outcome = None /\ ~session.active /\ LongQuiet
           deducted == OutcomePenalty(outcome, given) + ToolPenalty(tally)
           points == IF deducted > 100 THEN 0 ELSE 100 - deducted
           s == Score(tally, stated)
<1>1. ASSUME NEW endings \in SUBSET (Classified \cup {"unknown"})
      PROVE  NewestOf(endings) \in endings \cup {None}
  <2> DEFINE places == {i \in DOMAIN runRows : runRows[i] \in endings}
  <2>1. Len(runRows) \in Nat /\ DOMAIN runRows = 1..Len(runRows)
    BY DEF SignalsTypeOK
  <2>2. CASE places = {}
    BY <2>2 DEF NewestOf
  <2>3. CASE places # {}
    <3>1. places \in SUBSET (1..Len(runRows))
      BY <2>1
    <3>2. Max(places) \in places
      <4> HIDE DEF places
      <4> QED
        BY <2>1, <2>3, <3>1, LastPlace
    <3> QED
      BY <2>3, <3>2 DEF NewestOf
  <2> QED
    BY <2>2, <2>3
<1>2. Deciding \in Classified \cup {"unknown", None}
  BY <1>1 DEF Deciding
<1>3. outcome \in Classified \cup {"unknown", None}
  BY <1>2 DEF DecidingOutcome
<1>4. ToolPenalty(tally) \in Nat
  <2>1. tally.failures \in Nat /\ tally.longest \in Nat /\ tally.retries \in Nat
    BY DEF Tallies
  <2> QED
    BY <2>1, PenaltyGrows
<1>5. OutcomePenalty(outcome, given) \in Nat
  <2> HIDE DEF outcome, given
  <2>1. \/ OutcomePenalty(outcome, given) = 45 \/ OutcomePenalty(outcome, given) = 35
        \/ OutcomePenalty(outcome, given) = 15 \/ OutcomePenalty(outcome, given) = 25
        \/ OutcomePenalty(outcome, given) = 0
    BY DEF OutcomePenalty
  <2> QED
    BY <2>1
<1>6. deducted \in Nat
  <2> HIDE DEF outcome, given
  <2> QED
    BY <1>4, <1>5
<1>7. points \in 0..100
  <2> HIDE DEF deducted
  <2> QED
    BY <1>6
<1>8. OutcomeClass(outcome) \in {"completed", "errored", "abandoned", "unknown"}
  <2> HIDE DEF outcome
  <2> QED
    BY DEF OutcomeClass
<1>9. s = [at |-> instant, of |-> session.lastActivity,
           outcome |-> IF given THEN "abandoned" ELSE OutcomeClass(outcome),
           failures |-> tally.failures, retries |-> tally.retries, longest |-> tally.longest,
           score |-> IF outcome \notin Classified /\ tally.settled = 0
                     THEN [graded |-> FALSE, points |-> 0]
                     ELSE [graded |-> TRUE, points |-> points]]
  BY DEF Score
<1> HIDE DEF outcome, given, deducted, points, s
<1>10. s.at = instant /\ s.failures = tally.failures
  BY <1>9
<1>11. s.outcome \in {None, "completed", "errored", "abandoned", "unknown"}
  BY <1>8, <1>9
<1>12. s.score \in [graded : BOOLEAN, points : 0..100]
  BY <1>7, <1>9
<1> QED
  BY <1>10, <1>11, <1>12 DEF s

SignalsInv == SignalsTypeOK /\ NoCallCountsTwice /\ signals.failures \in Nat

LEMMA InitIsScored == SignalsInit => SignalsInv
<1> SUFFICES ASSUME SignalsInit PROVE SignalsInv
  OBVIOUS
<1>1. calls = <<>> /\ DOMAIN calls = {} /\ Len(calls) = 0
  BY DEF SignalsInit
<1>2. heard \in [DOMAIN calls -> {"unheard", "started", "settled"}]
  BY <1>1 DEF SignalsInit
<1>3. /\ signals.at = 0 /\ signals.outcome = None /\ signals.failures = 0
      /\ signals.score = [graded |-> FALSE, points |-> 0]
  BY DEF SignalsInit, NoSignals
<1>4. signals.score \in [graded : BOOLEAN, points : 0..100]
  BY <1>3
<1>5. calls \in Seq(Calls) /\ runRows \in Seq(Classified \cup {"open", "unknown"})
  BY DEF SignalsInit
<1>6. session \in [listed : BOOLEAN, active : BOOLEAN, lastActivity : 0..MaxInstants]
  BY SignalsAssumption DEF SignalsInit
<1>7. instant \in 1..MaxInstants /\ lastMove \in 0..instant /\ signals.at \in 0..instant
      /\ Len(calls) <= MaxCalls /\ signalFaults \in 0..MaxSignalFaults
  BY <1>1, <1>3, SignalsAssumption DEF SignalsInit
<1>8. SignalsTypeOK
  BY <1>1, <1>2, <1>3, <1>4, <1>5, <1>6, <1>7 DEF SignalsInit, SignalsTypeOK
<1>9. NoCallCountsTwice
  <2>1. {i \in DOMAIN calls : calls[i].failed} = {}
    BY <1>1
  <2>2. Cardinality({}) = 0
    BY FS_EmptySet
  <2> QED
    BY <1>3, <2>1, <2>2, SMTT(30) DEF NoCallCountsTwice
<1> QED
  BY <1>3, <1>8, <1>9 DEF SignalsInv

\* A score made of the present evidence keeps what holds of the stored one.
LEMMA ScoreIsSound ==
    ASSUME SignalsTypeOK, NEW trail, NEW archive, NEW stated \in Classified \cup {None}
    PROVE  LET s == Score(Evidence(trail, archive), stated) IN
           /\ s.at \in 0..instant
           /\ s.outcome \in {None, "completed", "errored", "abandoned", "unknown"}
           /\ s.score \in [graded : BOOLEAN, points : 0..100]
           /\ s.failures \in Nat
           /\ s.failures <= Cardinality({i \in DOMAIN calls : calls[i].failed})
<1>1. Evidence(trail, archive) \in Tallies
      /\ Evidence(trail, archive).failures <= Cardinality(Failed(Len(calls)))
  BY EvidenceIsSound
<1>2. Failed(Len(calls)) = {i \in DOMAIN calls : calls[i].failed}
  BY DEF Failed, SignalsTypeOK
<1>3. instant \in 0..instant /\ Evidence(trail, archive).failures \in Nat
  BY <1>1 DEF SignalsTypeOK, Tallies
<1> QED
  BY <1>1, <1>2, <1>3, ScoreIsTyped

\* What a step that leaves the calls and the clock alone keeps.
Scored(s) ==
    /\ s.at \in 0..instant
    /\ s.outcome \in {None, "completed", "errored", "abandoned", "unknown"}
    /\ s.score \in [graded : BOOLEAN, points : 0..100]
    /\ s.failures \in Nat
    /\ s.failures <= Cardinality({i \in DOMAIN calls : calls[i].failed})

LEMMA RescoreKeeps ==
    ASSUME SignalsInv, NEW trail, NEW archive, NEW stated \in Classified \cup {None},
           Rescore(trail, archive, stated)
    PROVE  Scored(signals') /\ unscored' \in BOOLEAN /\ signalFaults' \in 0..MaxSignalFaults
<1>1. Scored(signals)
  BY DEF SignalsInv, SignalsTypeOK, NoCallCountsTwice, Scored
<1>2. Scored(Score(Evidence(trail, archive), stated))
  BY ScoreIsSound DEF SignalsInv, Scored
<1>3. signals' \in {signals, Score(Evidence(trail, archive), stated)}
  BY DEF Rescore
<1>4. unscored' \in BOOLEAN /\ signalFaults' \in 0..MaxSignalFaults
  <2>1. /\ unscored' = FALSE \/ unscored' = TRUE
        /\ \/ signalFaults' = signalFaults
           \/ signalFaults < MaxSignalFaults /\ signalFaults' = signalFaults + 1
    BY DEF Rescore
  <2>2. signalFaults \in 0..MaxSignalFaults /\ MaxSignalFaults \in Nat
    BY SignalsAssumption DEF SignalsInv, SignalsTypeOK
  <2>3. signalFaults' \in 0..MaxSignalFaults
    BY <2>1, <2>2
  <2>4. unscored' \in BOOLEAN
    BY <2>1, Zenon
  <2> QED
    BY <2>3, <2>4
<1> QED
  BY <1>1, <1>2, <1>3, <1>4

\* Where the calls and the clock stay, a scored state is one in the next.
LEMMA ScoredStays ==
    ASSUME SignalsTypeOK, UNCHANGED world, Scored(signals'),
           heard' \in [DOMAIN calls -> {"unheard", "started", "settled"}],
           audited' \subseteq DOMAIN calls, archived' \subseteq DOMAIN calls,
           verdict' \in Classified \cup {None},
           runRows' \in Seq(Classified \cup {"open", "unknown"}),
           session' \in [listed : BOOLEAN, active : BOOLEAN, lastActivity : 0..MaxInstants],
           unscored' \in BOOLEAN, signalFaults' \in 0..MaxSignalFaults
    PROVE  SignalsInv'
<1>1. instant' = instant /\ inRun' = inRun /\ lastMove' = lastMove /\ calls' = calls /\ ended' = ended
  BY DEF world
<1>2. NoCallCountsTwice'
  BY <1>1 DEF NoCallCountsTwice, Scored
<1>3. SignalsTypeOK' /\ signals'.failures \in Nat
  BY <1>1 DEF SignalsTypeOK, Scored
<1> QED
  BY <1>2, <1>3 DEF SignalsInv

LEMMA RowsClosed ==
    ASSUME NEW S, NEW rs \in Seq(S), NEW o \in S
    PROVE  [rs EXCEPT ![Len(rs)] = o] \in Seq(S)
<1> DEFINE n == Len(rs)  g == [rs EXCEPT ![n] = o]
<1>1. n \in Nat /\ rs \in [1..n -> S]
  OBVIOUS
<1> HIDE DEF n
<1>2. g \in [1..n -> S]
  BY <1>1
<1> HIDE DEF g
<1>3. g \in Seq(S)
  BY <1>1, <1>2
<1> QED
  BY <1>3 DEF g, n

LEMMA SignalsStepKeeps == SignalsInv /\ [SignalsNext]_signalVars => SignalsInv'
<1> SUFFICES ASSUME SignalsInv, [SignalsNext]_signalVars PROVE SignalsInv'
  OBVIOUS
<1>1. /\ SignalsTypeOK /\ NoCallCountsTwice /\ Scored(signals) /\ signals.failures \in Nat
      /\ instant \in 1..MaxInstants /\ lastMove \in 0..instant /\ MaxInstants \in Nat
      /\ calls \in Seq(Calls) /\ Len(calls) \in Nat /\ DOMAIN calls = 1..Len(calls)
      /\ runRows \in Seq(Classified \cup {"open", "unknown"})
  BY SignalsAssumption DEF SignalsInv, SignalsTypeOK, NoCallCountsTwice, Scored
<1>2. ASSUME UNCHANGED signalVars PROVE SignalsInv'
  <2>1. UNCHANGED world
    BY <1>2 DEF signalVars
  <2> QED
    BY <1>1, <1>2, <2>1, ScoredStays DEF signalVars, evidence, SignalsTypeOK
<1>3. ASSUME TimePasses PROVE SignalsInv'
  BY <1>1, <1>3 DEF TimePasses, SignalsInv, SignalsTypeOK, NoCallCountsTwice, evidence
<1>4. ASSUME NEW said \in BOOLEAN, RunBegins(said) PROVE SignalsInv'
  <2>1. runRows' \in Seq(Classified \cup {"open", "unknown"})
    BY <1>1, <1>4 DEF RunBegins
  <2> QED
    BY <1>1, <1>4, <2>1 DEF RunBegins, SignalsInv, SignalsTypeOK, NoCallCountsTwice
<1>5. ASSUME NEW call \in Calls, NEW h \in {"unheard", "started", "settled"}, CallSettles(call, h)
      PROVE  SignalsInv'
  <2> DEFINE n == Len(calls)
  <2>1. /\ calls' = Append(calls, call) /\ heard' = Append(heard, h) /\ n < MaxCalls
        /\ signals' = signals /\ lastMove' = instant
        /\ UNCHANGED <<instant, inRun, ended, audited, archived, verdict, runRows>>
        /\ UNCHANGED <<session, unscored, signalFaults>>
    BY <1>5 DEF CallSettles
  <2>2. /\ calls' \in Seq(Calls) /\ Len(calls') = n + 1 /\ DOMAIN calls' = 1..(n + 1)
        /\ \A i \in 1..n : calls'[i] = calls[i]
    BY <1>1, <2>1
  <2>3. heard' \in [1..(n + 1) -> {"unheard", "started", "settled"}]
    <3>1. heard \in [1..n -> {"unheard", "started", "settled"}]
      BY <1>1 DEF SignalsTypeOK
    <3>2. heard \in Seq({"unheard", "started", "settled"}) /\ Len(heard) = n
      BY <1>1, <3>1
    <3> DEFINE g == Append(heard, h)
    <3>3. g \in Seq({"unheard", "started", "settled"}) /\ Len(g) = n + 1
      BY <1>1, <3>2
    <3> HIDE DEF g
    <3>4. g \in [1..(n + 1) -> {"unheard", "started", "settled"}]
      BY <1>1, <3>3
    <3> QED
      BY <2>1, <3>4 DEF g
  <2>4. NoCallCountsTwice'
    <3> DEFINE A == {i \in 1..n : calls[i].failed}  B == {i \in 1..(n + 1) : calls'[i].failed}
    <3>1. A \subseteq B /\ IsFiniteSet(B)
      <4>1. IsFiniteSet(1..(n + 1)) /\ B \in SUBSET (1..(n + 1))
        BY <1>1, FS_Interval
      <4>2. A \subseteq B
        BY <1>1, <2>2
      <4> HIDE DEF B
      <4> QED
        BY <4>1, <4>2, FS_Subset
    <3>2. A = {i \in DOMAIN calls : calls[i].failed} /\ B = {i \in DOMAIN calls' : calls'[i].failed}
      BY <1>1, <2>2
    <3> HIDE DEF A, B
    <3>3. Cardinality(A) <= Cardinality(B) /\ Cardinality(A) \in Nat /\ Cardinality(B) \in Nat
      BY <3>1, FS_Subset, FS_CardinalityType
    <3>4. signals.failures <= Cardinality(A)
      BY <1>1, <3>2, Zenon DEF NoCallCountsTwice
    <3>5. signals'.failures <= Cardinality(B)
      BY <1>1, <2>1, <3>3, <3>4
    <3> QED
      BY <3>2, <3>5, Zenon DEF NoCallCountsTwice
  <2>5. audited' \subseteq DOMAIN calls' /\ archived' \subseteq DOMAIN calls'
    BY <1>1, <2>1, <2>2 DEF SignalsTypeOK
  <2>6. Len(calls') <= MaxCalls
    BY <1>1, <2>1, <2>2, SignalsAssumption
  <2>7. SignalsTypeOK'
    BY <1>1, <2>1, <2>2, <2>3, <2>5, <2>6 DEF SignalsTypeOK
  <2> QED
    BY <1>1, <2>1, <2>4, <2>7 DEF SignalsInv
<1>6. ASSUME NEW o \in RunOutcomes, NEW said \in BOOLEAN, RunFinishes(o, said) PROVE SignalsInv'
  <2>1. o \in Classified
    BY SignalsAssumption
  <2>2. runRows' \in Seq(Classified \cup {"open", "unknown"})
    <3>1. [runRows EXCEPT ![Len(runRows)] = o] \in Seq(Classified \cup {"open", "unknown"})
      BY <1>1, <2>1, RowsClosed
    <3> QED
      BY <1>1, <1>6, <3>1 DEF RunFinishes
  <2>3. /\ lastMove' = instant /\ ended' = o /\ inRun' = FALSE /\ signals' = signals
        /\ UNCHANGED <<instant, calls, heard, audited, archived, verdict>>
        /\ UNCHANGED <<session, unscored, signalFaults>>
    BY <1>6 DEF RunFinishes
  <2>4. NoCallCountsTwice' /\ signals'.failures \in Nat
    BY <1>1, <2>3 DEF NoCallCountsTwice
  <2>5. lastMove' \in 0..instant' /\ {ended', verdict'} \subseteq Classified \cup {None}
    BY <1>1, <2>1, <2>3 DEF SignalsTypeOK
  <2>6. SignalsTypeOK'
    BY <1>1, <2>2, <2>3, <2>5 DEF SignalsTypeOK
  <2> QED
    BY <2>4, <2>6 DEF SignalsInv
<1>7. ASSUME SessionListed PROVE SignalsInv'
  <2>1. runRows' \in Seq(Classified \cup {"open", "unknown"})
    <3> DEFINE S == Classified \cup {"open", "unknown"}
    <3>1. "unknown" \in S /\ "open" \in S
      OBVIOUS
    <3>2. runRows \in Seq(S)
      BY <1>1
    <3> HIDE DEF S
    <3>3. [runRows EXCEPT ![Len(runRows)] = "unknown"] \in Seq(S)
      BY <3>1, <3>2, RowsClosed
    <3>4. Append(runRows, "open") \in Seq(S)
      BY <3>1, <3>2
    <3>5. runRows' \in {[runRows EXCEPT ![Len(runRows)] = "unknown"], Append(runRows, "open"), runRows}
      BY <1>7 DEF SessionListed
    <3> QED
      BY <3>2, <3>3, <3>4, <3>5 DEF S
  <2>2. session' \in [listed : BOOLEAN, active : BOOLEAN, lastActivity : 0..MaxInstants]
    BY <1>1, <1>7 DEF SessionListed, SignalsTypeOK
  <2> QED
    BY <1>1, <1>7, <2>1, <2>2, ScoredStays DEF SessionListed, SignalsTypeOK
<1>8. ASSUME NEW i \in 1..MaxCalls, AuditBrings(i) PROVE SignalsInv'
  <2>1. i \in DOMAIN calls
    BY <1>1, <1>8 DEF AuditBrings, NextPages
  <2>2. Scored(signals') /\ unscored' \in BOOLEAN /\ signalFaults' \in 0..MaxSignalFaults
    BY <1>8, RescoreKeeps DEF AuditBrings, SignalsInv, SignalsTypeOK
  <2> QED
    BY <1>1, <1>8, <2>1, <2>2, ScoredStays DEF AuditBrings, SignalsTypeOK
<1>9. ASSUME AuditBringsVerdict PROVE SignalsInv'
  <2>1. Scored(signals') /\ unscored' \in BOOLEAN /\ signalFaults' \in 0..MaxSignalFaults
    BY <1>9, RescoreKeeps DEF AuditBringsVerdict, SignalsInv, SignalsTypeOK
  <2> QED
    BY <1>1, <1>9, <2>1, ScoredStays DEF AuditBringsVerdict, SignalsTypeOK
<1>10. ASSUME NEW i \in 1..MaxCalls, TranscriptBrings(i) PROVE SignalsInv'
  <2>1. i \in DOMAIN calls
    BY <1>1, <1>10 DEF TranscriptBrings, NextPages
  <2>2. Scored(signals') /\ unscored' \in BOOLEAN /\ signalFaults' \in 0..MaxSignalFaults
    BY <1>10, RescoreKeeps DEF TranscriptBrings, SignalsInv, SignalsTypeOK
  <2> QED
    BY <1>1, <1>10, <2>1, <2>2, ScoredStays DEF TranscriptBrings, SignalsTypeOK
<1>11. ASSUME RecomputeStale PROVE SignalsInv'
  <2>1. signals' = Score(Evidence(audited, archived), verdict)
    BY <1>11 DEF RecomputeStale
  <2>2. Scored(signals')
    BY <1>1, <2>1, ScoreIsSound DEF Scored, SignalsTypeOK
  <2> QED
    BY <1>1, <1>11, <2>2, ScoredStays DEF RecomputeStale, evidence, SignalsTypeOK
<1>12. ASSUME PruneRows PROVE SignalsInv'
  <2>1. heard' \in [DOMAIN calls -> {"unheard", "started", "settled"}]
    BY <1>1, <1>12 DEF PruneRows, SignalsTypeOK
  <2> QED
    BY <1>1, <1>12, <2>1, ScoredStays DEF PruneRows, SignalsTypeOK
<1> QED
  BY <1>2, <1>3, <1>4, <1>5, <1>6, <1>7, <1>8, <1>9, <1>10, <1>11, <1>12 DEF SignalsNext

LEMMA SignalsInvHolds == SignalsSpec => []SignalsInv
  BY InitIsScored, SignalsStepKeeps, PTL DEF SignalsSpec

\* The types of SessionSignals hold: a score is a percentage, whatever was
\* deducted, and it was made by the present instant (computeSessionSignals).
THEOREM SignalsTyped == SignalsSpec => []SignalsTypeOK
  BY SignalsInvHolds, PTL DEF SignalsInv

\* However the pages of the trail and of the transcript and the events came in,
\* and whatever a rescore that was lost left behind, no failed call is charged
\* twice (evidenceFor, tallyToolEvents).
THEOREM NoFailureTwice == SignalsSpec => []NoCallCountsTwice
  BY SignalsInvHolds, PTL DEF SignalsInv

\* One more settled call never lowers what all of them cost (computeSessionSignals).
THEOREM CallsCost == SignalsSpec => []CallsOnlyCost
<1>1. SignalsInv => CallsOnlyCost
  <2> SUFFICES ASSUME SignalsInv, NEW call \in Calls
               PROVE  LET settled == [i \in DOMAIN calls |-> Event(calls[i])] IN
                      ToolPenalty(Tally(Append(settled, Event(call)))) >= ToolPenalty(Tally(settled))
    BY DEF CallsOnlyCost
  <2> DEFINE settled == [i \in DOMAIN calls |-> Event(calls[i])]  e == Event(call)
  <2>1. calls \in Seq(Calls) /\ \A c \in Calls : Event(c) \in Events
    BY DEF SignalsInv, SignalsTypeOK, Calls, Events, Event
  <2>2. settled \in Seq(Events) /\ e \in Events
    BY <2>1
  <2> HIDE DEF settled, e
  <2>3. Tally(settled) \in Tallies /\ Tally(Append(settled, e)) = Count(Tally(settled), e)
    BY <2>2, TallyTyped, TallyOfAppended
  <2>4. /\ Count(Tally(settled), e) \in Tallies
        /\ Tally(settled).failures <= Count(Tally(settled), e).failures
        /\ Tally(settled).retries <= Count(Tally(settled), e).retries
        /\ Tally(settled).longest <= Count(Tally(settled), e).longest
    <3>1. Tally(settled).failures \in Nat
      BY <2>3 DEF Tallies
    <3> QED
      BY <2>2, <2>3, <3>1, CountKeeps, SMTT(30)
  <2>5. /\ ToolPenalty(Tally(settled)) \in Nat /\ ToolPenalty(Count(Tally(settled), e)) \in Nat
        /\ ToolPenalty(Tally(settled)) <= ToolPenalty(Count(Tally(settled), e))
    BY <2>3, <2>4, PenaltyGrows
  <2>6. ToolPenalty(Tally(Append(settled, e))) >= ToolPenalty(Tally(settled))
    BY <2>3, <2>5
  <2> QED
    BY <2>6 DEF settled, e
<1> QED
  BY <1>1, SignalsInvHolds, PTL

-----------------------------------------------------------------------------
(* The composition: a behaviour of it is one of every part.                 *)

LEMMA PartsAreKept ==
    RecordsSpec => /\ Spec /\ UsageSpec /\ SignalsSpec /\ ProbeSpec /\ CliSpec /\ RosterSpec
                   /\ MigrationsSpec /\ [](part \in Parts)
<1>1. RecordsInit => /\ part \in Parts /\ Init /\ UsageInit /\ SignalsInit /\ ProbeInit
                     /\ CliInit /\ RosterInit /\ MigrationsInit
  BY DEF RecordsInit
<1>2. [RecordsNext]_recordsVars => [Next]_vars
  BY Zenon DEF RecordsNext, recordsVars
<1>3. [RecordsNext]_recordsVars => [UsageNext]_usageVars
  BY Zenon DEF RecordsNext, recordsVars
<1>4. [RecordsNext]_recordsVars => [SignalsNext]_signalVars
  BY Zenon DEF RecordsNext, recordsVars
<1>5. [RecordsNext]_recordsVars => [ProbeNext]_probeVars
  BY Zenon DEF RecordsNext, recordsVars
<1>6. [RecordsNext]_recordsVars => [CliNext]_cliVars
  BY Zenon DEF RecordsNext, recordsVars
<1>7. [RecordsNext]_recordsVars => [RosterNext]_rosterVars
  BY Zenon DEF RecordsNext, recordsVars
<1>8. [RecordsNext]_recordsVars => [MigrationsNext]_upgradeVars
  BY Zenon DEF RecordsNext, recordsVars
<1>9. part \in Parts /\ [RecordsNext]_recordsVars => (part \in Parts)'
  BY DEF RecordsNext, recordsVars
<1> QED
  BY <1>1, <1>2, <1>3, <1>4, <1>5, <1>6, <1>7, <1>8, <1>9, PTL
     DEF RecordsSpec, Spec, UsageSpec, SignalsSpec, ProbeSpec, CliSpec, RosterSpec, MigrationsSpec

\* The types of all seven tables hold in their composition.
THEOREM RecordsTyped == RecordsSpec => []RecordsTypeOK
<1>1. RecordsSpec => []TypeOK
  BY PartsAreKept, TasksTyped, PTL
<1>2. RecordsSpec => []UsageTypeOK
  BY PartsAreKept, UsageTyped, PTL
<1>3. RecordsSpec => []SignalsTypeOK
  BY PartsAreKept, SignalsTyped, PTL
<1>4. RecordsSpec => []ProbeTypeOK
  BY PartsAreKept, ProbeTyped, PTL
<1>5. RecordsSpec => []CliTypeOK
  BY PartsAreKept, CliTyped, PTL
<1>6. RecordsSpec => []RosterTypeOK
  BY PartsAreKept, RosterTyped, PTL
<1>7. RecordsSpec => []MigrationsTypeOK
  BY PartsAreKept, UpgradeTyped, PTL
<1>8. RecordsSpec => [](part \in Parts)
  BY PartsAreKept
<1>9. (part \in Parts /\ TypeOK /\ UsageTypeOK /\ SignalsTypeOK /\ ProbeTypeOK /\ CliTypeOK
         /\ RosterTypeOK /\ MigrationsTypeOK) => RecordsTypeOK
  BY Zenon DEF RecordsTypeOK
<1> QED
  BY <1>1, <1>2, <1>3, <1>4, <1>5, <1>6, <1>7, <1>8, <1>9, PTL

\* Usage is counted once in the composition too: the total and the windows add up
\* whatever was folded (UsageStore.record, rollupOlderThan, summary, agentWindows).
THEOREM UsageCounted == RecordsSpec => []UsageIsCounted
<1>1. TotalIsHighWater /\ WindowCountsOnce => UsageIsCounted
  BY DEF UsageIsCounted
<1> QED
  BY <1>1, PartsAreKept, TotalCounted, WindowCounted, PTL

\* And so do the properties of the other tables: an outcome was reported, a change is
\* told, a failure is charged once and a call only costs, a verdict is of the build
\* that is connected, agents are counted and kept, and an upgrade can be gone back on.
THEOREM RecordsSound ==
    RecordsSpec => /\ []OutcomeIsReported /\ ChangesAreTrue /\ []UpgradesAreSafe
                   /\ []NoCallCountsTwice /\ []CallsOnlyCost /\ []VerdictsAreOfThisBuild
                   /\ []SessionsAreCounted /\ []ReadersAreTold /\ RosterIsKept
  BY PartsAreKept, OutcomeReported, ChangesTrue, UpgradesSafe, NoFailureTwice, CallsCost,
     VerdictsOfThisBuild, SessionsCounted, ReadersTold, RosterKept, PTL
=============================================================================
