-------------------------- MODULE SessionAttempts --------------------------
(***************************************************************************)
(* The attempts the collector observes (src/collector/runtime.ts,          *)
(* syncSessions and the event handlers; src/storage/repository.ts,         *)
(* findOpenAttempt, upsertMany, closeSessionAttempts and prune): rows of   *)
(* the activities table, each one observed execution of work in a session. *)
(*                                                                         *)
(* A session runs; its snapshot row says that it does, and may or may not  *)
(* name the runs.  Events name the run, or only the session.  What was     *)
(* seen is matched with an open attempt: by its run, else with the only    *)
(* open one of the session, else by the unique source key.                 *)
(*                                                                         *)
(* As in TaskLedger, a change at the Gateway and the handling of its event *)
(* are one step, and so are the reading of a page and its arrival.         *)
(* Abstracted: phases, attention, titles and times of a row (sources and   *)
(* run starts carry a clock that counts the Gateway's changes), approval   *)
(* events, observations, and the session archive beside the attempts.      *)
(***************************************************************************)
EXTENDS Naturals, Sequences, FiniteSets, SequencesExt

CONSTANTS
    Sessions, Runs,   \* session keys and run references
    SessionOf,        \* the session a run belongs to
    Named,            \* whether session rows and events name the runs: {TRUE}, {FALSE}, either
    Dated,            \* whether session rows say when the last run started: likewise
    MaxChanges,       \* bound: changes at the Gateway
    MaxFaults         \* bound: lost events, failed requests, retention runs

ASSUME AttemptsAssumption ==
    /\ SessionOf \in [Runs -> Sessions]
    /\ IsFiniteSet(Runs) /\ IsFiniteSet(Sessions)
    /\ Named \subseteq BOOLEAN /\ Named # {}
    /\ Dated \subseteq BOOLEAN /\ Dated # {}
    /\ MaxChanges \in Nat /\ MaxFaults \in Nat
    /\ "none" \notin Runs \cup Sessions     \* the value of what is not named

VARIABLES
    active,    \* Gateway: the runs it runs
    verdicts,  \* Gateway: the outcomes it gave each run so far
    started,   \* Gateway: when the last run of each session started
    order,     \* Gateway: the sessions as it lists them
    clock,     \* counts the Gateway's changes
    rows,      \* activities: the attempts, by id
    pc, read,  \* the pass: where it stands, the rows it read
    refused,   \* the last pass, or event, failed on the unique source key
    faults

gateway == <<active, verdicts, started, order, clock>>
pass    == <<pc, read>>
vars    == <<gateway, rows, pass, refused, faults>>

None     == "none"
Outcomes == {"succeeded", "failed"}

RunSource(r)        == <<"run", r>>
SessionSource(k, t) == <<"session", k, t>>
Undated == 0        \* the key of a snapshot row without a time ends in a fixed word

Fault == faults < MaxFaults /\ faults' = faults + 1

RunsIn(k) == {r \in active : SessionOf[r] = k}

\* What the Gateway may tell of a session's runs: all of them, or none by name.
Refs(k) == {IF named THEN RunsIn(k) ELSE {} : named \in Named}

-----------------------------------------------------------------------------
(* The repository.                                                          *)

Open(table) == {i \in DOMAIN table : table[i].state = "active"}
BySource(table, src) == {i \in DOMAIN table : table[i].src = src}

\* The plausible slip: the attempt of a run is looked up by its source key only.
OpenAttemptMutant(table, run, key) ==
    LET byKey == {i \in Open(table) : /\ key # None /\ table[i].key = key
                                      /\ run # None => table[i].run = None}
    IN  IF Cardinality(byKey) = 1 THEN byKey ELSE {}

\* findOpenAttempt(): the open one of the run, else the only open one of the
\* session; when a run is asked for, only one that has no run yet.
OpenAttempt(table, run, key) ==
    LET byRun == {i \in Open(table) : run # None /\ table[i].run = run}
        byKey == {i \in Open(table) : /\ key # None /\ table[i].key = key
                                      /\ run # None => table[i].run = None}
    IN  IF byRun # {} THEN byRun ELSE IF Cardinality(byKey) = 1 THEN byKey ELSE {}

\* Which row a write goes to: an open attempt, else the one of its source key,
\* or none, and then it is a new one.
Target(table, run, key, src) ==
    IF OpenAttempt(table, run, key) # {} THEN OpenAttempt(table, run, key)
    ELSE BySource(table, src)

NewId(table) == CHOOSE i \in 1..(Cardinality(DOMAIN table) + 1) : i \notin DOMAIN table

Put(table, i, row) == [j \in DOMAIN table \cup {i} |-> IF j = i THEN row ELSE table[j]]

\* upsertMany(), one row: a run and a session once known stay, and no two rows
\* may have one source key, else nothing of the batch is written.
Coalesce(new, old) == IF new = None THEN old ELSE new
\* The plausible slip: a write that meets the unique index is made all the same.
UpsertMutant(batch, w) ==
    LET t == batch.rows
        i == IF w.id = {} THEN NewId(t) ELSE CHOOSE j \in w.id : TRUE
    IN  [ok |-> TRUE, rows |-> Put(t, i, w.row)]

Upsert(batch, w) ==
    LET t == batch.rows
        i == IF w.id = {} THEN NewId(t) ELSE CHOOSE j \in w.id : TRUE
        old == IF i \in DOMAIN t THEN t[i] ELSE w.row
        new == [w.row EXCEPT !.run = Coalesce(w.row.run, old.run),
                             !.key = Coalesce(w.row.key, old.key)]
    IN  [ok |-> batch.ok /\ BySource(t, w.row.src) \subseteq {i},
         rows |-> Put(t, i, new)]

UpsertMany(writes) ==
    LET after[n \in 0..Len(writes)] ==
            IF n = 0 THEN [ok |-> TRUE, rows |-> rows] ELSE Upsert(after[n - 1], writes[n])
    IN  after[Len(writes)]

Row(src, run, key, state, outcome) ==
    [src |-> src, run |-> run, key |-> key, state |-> state, outcome |-> outcome]

\* The plausible slip: an attempt that is not seen any more must have succeeded.
ClosedMutant(table, keep) ==
    [i \in DOMAIN table |->
        IF i \in Open(table) /\ table[i].key # None /\ table[i].src \notin keep
        THEN [table[i] EXCEPT !.state = "terminal", !.outcome = "succeeded"] ELSE table[i]]

\* The plausible slip: what is not seen any more is left as it was.
NotClosedMutant(table, keep) == table

\* closeSessionAttempts(): the open attempts of sessions whose source key no
\* active row of the snapshot has.
Closed(table, keep) ==
    [i \in DOMAIN table |->
        IF i \in Open(table) /\ table[i].key # None /\ table[i].src \notin keep
        THEN [table[i] EXCEPT !.state = "terminal", !.outcome = "unknown"] ELSE table[i]]

-----------------------------------------------------------------------------
(* Events.                                                                  *)

\* An event about a run, or only about a session (run = None): its attempt goes
\* on or ends, and a new one begins with the source key the event gives it.
Observed(run, key, state, outcome) ==
    LET given  == IF run # None THEN RunSource(run) ELSE SessionSource(key, clock')
        known  == OpenAttempt(rows, run, key)
        target == IF known # {} \/ run = None THEN known ELSE BySource(rows, given)
        src    == IF target = {} THEN given ELSE rows[CHOOSE i \in target : TRUE].src
        batch  == UpsertMany(<<[id |-> target, row |-> Row(src, run, key, state, outcome)]>>)
    IN  /\ rows' = IF batch.ok THEN batch.rows ELSE rows
        /\ refused' = ~batch.ok

Lost == Fault /\ UNCHANGED <<rows, refused>>

Notified(run, key, state, outcome) ==
    /\ \/ Observed(run, key, state, outcome) /\ UNCHANGED faults
       \/ Lost
    /\ UNCHANGED pass

Tick == clock < MaxChanges /\ clock' = clock + 1

ToFront(k) == \E i \in DOMAIN order : order[i] = k /\ order' = <<k>> \o RemoveAt(order, i)

\* A run starts, maybe one that ended before under the same reference.
RunStarts(r) ==
    /\ Tick
    /\ r \notin active
    /\ active' = active \cup {r}
    /\ started' = [started EXCEPT ![SessionOf[r]] = clock']
    /\ ToFront(SessionOf[r])
    /\ UNCHANGED verdicts
    /\ Notified(r, SessionOf[r], "active", None)

RunEnds(r) ==
    /\ Tick
    /\ r \in active /\ active' = active \ {r}
    /\ ToFront(SessionOf[r])
    /\ \E o \in Outcomes :
          /\ verdicts' = [verdicts EXCEPT ![r] = @ \cup {o}]
          /\ Notified(r, SessionOf[r], "terminal", o)
    /\ UNCHANGED started

\* A later event of a run: progress while it runs, or the second report of an
\* end (lifecycle and session events both tell).
RunEvent(r) ==
    /\ \/ r \in active /\ Observed(r, SessionOf[r], "active", None)
       \/ /\ r \notin active
          /\ \E o \in verdicts[r] : Observed(r, SessionOf[r], "terminal", o)
    /\ UNCHANGED <<active, verdicts, started, order, clock, pass, faults>>

\* A session changed: its event says whether it runs, and it may name a run.  The
\* status may carry the outcome of one that ended.  The event starts a pass.
StartsPass == pc = "idle" /\ pc' = "paging" /\ read' = <<>>

SessionEvent(k) ==
    /\ Tick
    /\ \/ /\ RunsIn(k) # {}
          /\ \E refs \in Refs(k) : \E r \in IF refs = {} THEN {None} ELSE refs :
                Observed(r, k, "active", None)
       \/ /\ RunsIn(k) = {}
          /\ \E o \in {"unknown"} \cup UNION {verdicts[r] : r \in {q \in Runs : SessionOf[q] = k}} :
                Observed(None, k, "terminal", o)
    /\ StartsPass \/ (pc # "idle" /\ UNCHANGED pass)
    /\ UNCHANGED <<active, verdicts, started, order, faults>>

-----------------------------------------------------------------------------
(* The pass: syncSessions().                                                *)

StartPass == StartsPass /\ UNCHANGED <<gateway, rows, refused, faults>>

\* The pages are read one session at a time: one that moves to the front while
\* they are read may be read twice, or not at all.
PageAnswered ==
    /\ pc = "paging"
    /\ LET k == order[Len(read) + 1]
       IN  \E refs \in Refs(k), dated \in Dated :
              read' = Append(read, [key |-> k, runs |-> refs, running |-> RunsIn(k) # {},
                                    at |-> IF dated THEN started[k] ELSE Undated])
    /\ pc' = IF Len(read) + 1 = Len(order) THEN "writing" ELSE "paging"
    /\ UNCHANGED <<gateway, rows, refused, faults>>

\* A session of several open attempts that names no run keeps them as they are.
Ambiguous(s) ==
    {i \in Open(rows) : /\ s.running /\ s.runs = {} /\ rows[i].key = s.key
                        /\ Cardinality({j \in Open(rows) : rows[j].key = s.key}) > 1}

\* The writes of one row of the snapshot: one for each run it names, or one.
WritesOf(s) ==
    LET write(r) ==
            LET src == IF r = None THEN SessionSource(s.key, s.at) ELSE RunSource(r)
            IN  [id |-> Target(rows, r, s.key, src), row |-> Row(src, r, s.key, "active", None)]
        refs == IF ~s.running \/ Ambiguous(s) # {} THEN {}
                ELSE IF s.runs = {} THEN {None} ELSE s.runs
    IN  [i \in 1..Cardinality(refs) |-> write(SetToSeq(refs)[i])]

\* The plausible slip: the source keys of the rows as they were are kept.
KeptMutant(writes) ==
    {rows[i].src : i \in UNION {w.id : w \in ToSet(writes)}}
    \cup {rows[i].src : i \in UNION {Ambiguous(s) : s \in ToSet(read)}}

Kept(writes) ==
    {w.row.src : w \in ToSet(writes)}
    \cup {rows[i].src : i \in UNION {Ambiguous(s) : s \in ToSet(read)}}

Writes == pc = "writing" /\ pc' = "idle"

\* The pass goes on after its last page: it looks up and writes what it saw
\* active, then closes what it did not see.
EndPass ==
    /\ Writes /\ read' = <<>>
    /\ LET writes == FlattenSeq([i \in DOMAIN read |-> WritesOf(read[i])])
           batch  == UpsertMany(writes)
       IN  /\ rows' = IF batch.ok THEN Closed(batch.rows, Kept(writes)) ELSE rows
           /\ refused' = ~batch.ok
    /\ UNCHANGED <<gateway, faults>>

\* A request fails, or the connection is lost.
PassFails ==
    /\ Fault
    /\ pc = "paging" /\ pc' = "idle" /\ read' = <<>>
    /\ UNCHANGED <<gateway, rows, refused>>

\* prune(): attempts that ended long ago.
Retention ==
    /\ Fault
    /\ \E i \in DOMAIN rows :
          /\ rows[i].state = "terminal"
          /\ rows' = [j \in DOMAIN rows \ {i} |-> rows[j]]
    /\ UNCHANGED <<gateway, pass, refused>>

-----------------------------------------------------------------------------
Init ==
    /\ active = {} /\ verdicts = [r \in Runs |-> {}]
    /\ started = [k \in Sessions |-> Undated] /\ order = SetToSeq(Sessions) /\ clock = 0
    /\ rows = <<>> /\ pc = "idle" /\ read = <<>>
    /\ refused = FALSE /\ faults = 0

Next ==
    \/ \E r \in Runs : RunStarts(r) \/ RunEnds(r) \/ RunEvent(r)
    \/ \E k \in Sessions : SessionEvent(k)
    \/ StartPass \/ PageAnswered \/ EndPass \/ PassFails \/ Retention

Spec == Init /\ [][Next]_vars

\* The interval keeps starting passes, a request is settled in the end, and what
\* follows the last answer has nothing to wait for (Writes is EndPass, as only
\* that ends a pass from there).
Fairness == WF_vars(StartPass) /\ WF_vars(PageAnswered) /\ WF_pc(Writes)

FairSpec == Spec /\ Fairness

-----------------------------------------------------------------------------
Sources == {RunSource(r) : r \in Runs}
           \cup {SessionSource(k, t) : k \in Sessions, t \in 0..MaxChanges}

\* Types, and the unique index of the table.
TypeOK ==
    /\ active \subseteq Runs /\ verdicts \in [Runs -> SUBSET Outcomes]
    /\ started \in [Sessions -> 0..MaxChanges] /\ clock \in 0..MaxChanges
    /\ ToSet(order) = Sessions
    /\ \A i \in DOMAIN rows :
          /\ rows[i].src \in Sources /\ BySource(rows, rows[i].src) = {i}
          /\ rows[i].run \in Runs \cup {None} /\ rows[i].key \in Sessions
          /\ rows[i].state \in {"active", "terminal"}
          /\ rows[i].outcome \in Outcomes \cup {None, "unknown"}
    /\ pc \in {"idle", "paging", "writing"}
    /\ refused \in BOOLEAN /\ faults \in 0..MaxFaults

\* What the blueprint says of observed attempts: each one that public evidence
\* tells apart is one activity, so that no run is shown as two executions that
\* go on at once.
OneOpenPerRun ==
    \A i, j \in Open(rows) : rows[i].run # None /\ rows[i].run = rows[j].run => i = j

\* No outcome is guessed: an attempt that shows one shows what the Gateway said
\* of some run of its session, and one that goes on or was only not seen any
\* more shows none.
OutcomeWasReported ==
    \A i \in DOMAIN rows :
        /\ rows[i].outcome \in Outcomes =>
              \E r \in Runs : SessionOf[r] = rows[i].key /\ rows[i].outcome \in verdicts[r]
        /\ rows[i].state = "active" <=> rows[i].outcome = None

\* A session that moved while the pages were read, and was read twice at work: as
\* one that names no run, and as something else.
ReadInTwoWays ==
    \E s, u \in ToSet(read) : s.key = u.key /\ s.running /\ u.running /\ s.runs = {} /\ s # u

\* However its events and snapshots are matched, a run comes to be shown as two
\* executions that go on at once by a pass only that read its session in two
\* ways (findOpenAttempt, findBySourceKey).
OnlyTwoReadingsDouble ==
    [][OneOpenPerRun /\ ~(pc = "writing" /\ ReadInTwoWays) => OneOpenPerRun']_vars

\* An attempt is one run, with the outcome the Gateway gave it: the two facts
\* above.
AttemptsAreTrue == []OutcomeWasReported /\ OnlyTwoReadingsDouble

\* Every session the snapshot showed at work has an open attempt when the pass
\* has written: it does not close, among the keys it renames, what it just saw.
ActiveIsShown ==
    [][(pc = "writing" /\ pc' = "idle" /\ ~refused') =>
          (\A s \in ToSet(read) : s.running =>
              \E i \in Open(rows') : rows'[i].key = s.key)]_vars

\* A quiet Gateway is shown as it is in the end: open attempts are those of
\* sessions at work, and each of these has one.  That needs a listing that from
\* some time on dates the sessions at work and names their runs: what names no
\* run, or is not dated, may go on in a row that is closed already.
IsVague(s) == s.running /\ (s.at = Undated \/ s.runs = {})

Converges ==
    \/ []<>(\E s \in ToSet(read) : IsVague(s))
    \/ \A k \in Sessions :
          <>[](RunsIn(k) # {} <=> \E i \in Open(rows) : rows[i].key = k)
=============================================================================
