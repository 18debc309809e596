----------------------------- MODULE TaskLedger -----------------------------
(***************************************************************************)
(* The copy of the Gateway's task ledger (src/collector/runtime.ts,        *)
(* syncTasks and the task events; src/storage/repository.ts, upsertMany,   *)
(* markMissingTasks and prune).                                            *)
(*                                                                         *)
(* tasks.list pages by an offset into the ledger, newest update first, so  *)
(* a task that is updated between two pages moves from one to the other.   *)
(* Events and answers share one socket and arrive in the order the Gateway *)
(* sent them: a change of the ledger and the handling of its event are one *)
(* step here, and so are the reading of a page and its arrival.  What a    *)
(* pass read is written when its last page is in.                          *)
(*                                                                         *)
(* Abstracted: the fields of a task but its status, titles and times, the  *)
(* evidence and the observations of a row, and rows that are no tasks.     *)
(***************************************************************************)
EXTENDS Naturals, Sequences, FiniteSets, SequencesExt

CONSTANTS
    Tasks,       \* task ids
    PageLimit,   \* limit of tasks.list (500 in the code)
    PageCap,     \* pages of one pass (20 in the code)
    MaxUpdates,  \* bound: changes of the ledger
    MaxFaults    \* bound: lost events, failed requests and retention runs

ASSUME LedgerAssumption ==
    /\ PageLimit \in Nat \ {0} /\ PageCap \in Nat \ {0}
    /\ MaxUpdates \in Nat /\ MaxFaults \in Nat
    /\ IsFiniteSet(Tasks)

VARIABLES
    ledger,    \* Gateway: the tasks it lists, the last updated first
    status,    \* Gateway: status of each task, the last one of those it dropped
    row,       \* activities: state of each task's row
    print,     \* activities: fingerprint of each task's row
    emitted,   \* the tasks named by the last change that was emitted
    pc,        \* the pass: idle, reading pages, or about to write
    pages,     \* pages requested and answered in this pass
    read,      \* the rows of those pages, as <<task, status>>
    updates, faults   \* how many happened, for the bounds

gateway == <<ledger, status>>
rows    == <<row, print>>
pass    == <<pc, pages, read>>
counts  == <<updates, faults>>
vars    == <<gateway, rows, emitted, pass, counts>>

Live     == {"queued", "running"}
Terminal == {"succeeded", "failed"}

\* A row is absent, one of the statuses, or missing: unresolved, and still in
\* the operational catalog.
Operational == Live \cup {"missing"}

\* The fingerprint of a missing row ends in a time: it equals that of no write.
Marked == "marked"

Fault == faults < MaxFaults /\ faults' = faults + 1

-----------------------------------------------------------------------------
\* upsertMany(): the writes of a sequence of <<task, status>>, the last wins,
\* and the tasks whose fingerprint it changes at some point.
Written(writes)  == {w[1] : w \in ToSet(writes)}
LastOf(t, writes) == writes[CHOOSE i \in DOMAIN writes :
                        /\ writes[i][1] = t
                        /\ \A j \in DOMAIN writes : writes[j][1] = t => j <= i][2]
Upserted(old, writes) ==
    [t \in Tasks |-> IF t \in Written(writes) THEN LastOf(t, writes) ELSE old[t]]
Changed(writes) == {t \in Written(writes) : \E i \in DOMAIN writes :
                        writes[i][1] = t /\ writes[i][2] # print[t]}

\* The plausible slips: history is swept too, or nothing is.
MissingMutant(states, seen)   == {t \in Tasks : states[t] # "absent" /\ t \notin seen}
NoMissingMutant(states, seen) == {}

\* markMissingTasks(): the operational rows the snapshot does not name.
Missing(states, seen) == {t \in Tasks : states[t] \in Operational /\ t \notin seen}

\* The plausible slips: the sweep takes an unseen task for a finished one, or
\* leaves the fingerprint of the row as it was.
SweptMutant(states, gone)     == [t \in Tasks |-> IF t \in gone THEN "succeeded" ELSE states[t]]
SweptPrintMutant(prints, gone) == prints

Swept(states, gone)      == [t \in Tasks |-> IF t \in gone THEN "missing" ELSE states[t]]
SweptPrint(prints, gone) == [t \in Tasks |-> IF t \in gone THEN Marked ELSE prints[t]]

\* One page, and whether the cursor names another.
PageEnd       == (pages + 1) * PageLimit
IsLastMutant  == PageEnd >= Len(ledger)   \* the plausible slip: no end to the pages
IsLast        == PageEnd >= Len(ledger) \/ pages + 1 = PageCap
Page          == SubSeq(ledger, pages * PageLimit + 1,
                        IF PageEnd < Len(ledger) THEN PageEnd ELSE Len(ledger))

-----------------------------------------------------------------------------
Init ==
    /\ ledger = <<>> /\ status = [t \in Tasks |-> "none"]
    /\ row = [t \in Tasks |-> "absent"] /\ print = [t \in Tasks |-> "absent"]
    /\ emitted = {}
    /\ pc = "idle" /\ pages = 0 /\ read = <<>>
    /\ updates = 0 /\ faults = 0

Steps == {<<"none", "queued">>, <<"none", "running">>, <<"queued", "running">>}
         \cup {<<s, u>> : s \in Live, u \in Terminal}

\* A task event that carries the task, or the event is lost.
Notified(t, s) ==
    \/ /\ row' = Upserted(row, <<<<t, s>>>>) /\ print' = Upserted(print, <<<<t, s>>>>)
       /\ emitted' = Changed(<<<<t, s>>>>)
       /\ UNCHANGED <<pass, faults>>
    \/ Fault /\ UNCHANGED <<rows, pass>> /\ emitted' = {}

\* The Gateway updates a task, which becomes the first it lists.
UpdateTask(t, s) ==
    /\ updates < MaxUpdates /\ updates' = updates + 1
    /\ <<status[t], s>> \in Steps
    /\ t \in ToSet(ledger) \/ status[t] = "none"
    /\ status' = [status EXCEPT ![t] = s]
    /\ ledger' = <<t>> \o RemoveFirst(ledger, t)
    /\ Notified(t, s)

StartsPass ==
    /\ pc = "idle" /\ pc' = "paging" /\ pages' = 0 /\ read' = <<>>

\* ... or drops one.  The event of that names no task: it starts a pass.
DropTask(t) ==
    /\ updates < MaxUpdates /\ updates' = updates + 1
    /\ t \in ToSet(ledger)
    /\ ledger' = RemoveFirst(ledger, t)
    /\ \/ StartsPass /\ UNCHANGED faults
       \/ pc # "idle" /\ UNCHANGED <<pass, faults>>
       \/ Fault /\ UNCHANGED pass
    /\ emitted' = {}
    /\ UNCHANGED <<status, rows>>

\* syncTasks() from its interval, a reconnect or a gap.
StartPass == StartsPass /\ emitted' = {} /\ UNCHANGED <<gateway, rows, counts>>

PageAnswered ==
    /\ pc = "paging"
    /\ read' = read \o [i \in DOMAIN Page |-> <<Page[i], status[Page[i]]>>]
    /\ pages' = pages + 1
    /\ pc' = IF IsLast THEN "writing" ELSE "paging"
    /\ emitted' = {}
    /\ UNCHANGED <<gateway, rows, counts>>

\* The pass goes on after its last page: it writes what it read, then sweeps.
\* Frames of the last answer's chunk may have been handled in between.
EndPass ==
    /\ pc = "writing" /\ pc' = "idle" /\ pages' = 0 /\ read' = <<>>
    /\ LET states == Upserted(row, read)
           gone   == Missing(states, Written(read))
       IN  /\ row' = Swept(states, gone)
           /\ print' = SweptPrint(Upserted(print, read), gone)
           /\ emitted' = Changed(read) \cup gone
    /\ UNCHANGED <<gateway, counts>>

\* A request fails, or the connection is lost: what was read is forgotten.
PassFails ==
    /\ Fault
    /\ pc = "paging" /\ pc' = "idle" /\ pages' = 0 /\ read' = <<>>
    /\ emitted' = {}
    /\ UNCHANGED <<gateway, rows, updates>>

\* prune(): terminal rows that are old enough, also those still listed.
Retention ==
    /\ Fault
    /\ \E old \in SUBSET {t \in Tasks : row[t] \in Terminal} :
          /\ old # {}
          /\ row' = [t \in Tasks |-> IF t \in old THEN "absent" ELSE row[t]]
          /\ print' = [t \in Tasks |-> IF t \in old THEN "absent" ELSE print[t]]
          /\ emitted' = old
    /\ UNCHANGED <<gateway, pass, updates>>

Next ==
    \/ \E t \in Tasks : DropTask(t) \/ \E s \in Live \cup Terminal : UpdateTask(t, s)
    \/ StartPass \/ PageAnswered \/ EndPass \/ PassFails \/ Retention

Spec == Init /\ [][Next]_vars

\* The interval keeps starting passes, and a request is settled in the end.
Fairness == WF_vars(StartPass) /\ WF_vars(PageAnswered) /\ WF_vars(EndPass)

FairSpec == Spec /\ Fairness

-----------------------------------------------------------------------------
Statuses == Live \cup Terminal

\* Types, and a pass reads no more pages than it may.
TypeOK ==
    /\ ledger \in Seq(Tasks) /\ IsInjective(ledger)
    /\ status \in [Tasks -> Statuses \cup {"none"}]
    /\ row \in [Tasks -> Statuses \cup {"absent", "missing"}]
    /\ print \in [Tasks -> Statuses \cup {"absent", Marked}]
    /\ emitted \subseteq Tasks
    /\ pc \in {"idle", "paging", "writing"} /\ pages \in 0..PageCap
    /\ read \in Seq(Tasks \X Statuses)
    /\ updates \in 0..MaxUpdates /\ faults \in 0..MaxFaults

\* No outcome is guessed: a task is shown as settled only with the outcome the
\* Gateway gave it, also when the task vanished between two pages or for good.
OutcomeIsReported == \A t \in Tasks : row[t] \in Terminal => row[t] = status[t]

\* Whoever shows the rows learns of every change, so that a page nobody reloads
\* is right: a row does not change without being named in a change.
ChangesAreEmitted ==
    [][\A t \in Tasks : (row'[t] # row[t]) => (t \in emitted')]_vars

\* A settled task is brought back to life only by a pass that read it before it
\* settled, never by events or by a pass begun later; retention may forget it.
OnlyAnOldReadUnsettles ==
    [][\A t \in Tasks :
          (row[t] \in Terminal /\ row'[t] \notin Terminal)
              => (row'[t] = "absent" \/ <<t, row'[t]>> \in ToSet(read))]_vars

\* No change of a task's row is silent, and only a pass that read it before it
\* settled brings a task back (upsertMany, markMissingTasks).
ChangesAreTrue == ChangesAreEmitted /\ OnlyAnOldReadUnsettles

\* A quiet Gateway is copied in the end, whatever was lost, failed, or moved
\* between the pages before, if its ledger fits in the pages of a pass: listed
\* tasks have their status, and no other is shown as queued or running.
Agrees(t) ==
    IF t \in ToSet(ledger) THEN row[t] = status[t] ELSE row[t] \notin Live

Converges ==
    \A t \in Tasks : <>[](Len(ledger) <= PageLimit * PageCap => Agrees(t))

\* What the blueprint says of a scan during which a task event arrived: it does
\* not sweep, so a task the Gateway lists is not shown as missing.
ListedIsNotMissing == \A t \in Tasks : row[t] = "missing" => t \notin ToSet(ledger)
=============================================================================
