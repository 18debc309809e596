---------------------------- MODULE StandaloneCli ----------------------------
(***************************************************************************)
(* The observer of claude and codex processes started outside the Gateway  *)
(* (src/collector/standalone-cli.ts): a poll every five seconds runs `ps`, *)
(* awaits its listing, and writes one activity per process it lists and an *)
(* ended one per process it has missed for two polls.                      *)
(*                                                                         *)
(* Polls are fired and forgotten, so two may be under way and the older    *)
(* may finish last, with the time it was STARTED at.  What a poll compares *)
(* is only ever a difference of such times, so the model keeps ages, in    *)
(* polls, instead of a clock: a process may run for ever in a finite       *)
(* model.  `known` lives in memory and the rows in the database: a write   *)
(* may fail after `known` moved, and a restart begins with no `known`.     *)
(***************************************************************************)
EXTENDS Naturals, FiniteSets

CONSTANTS
    Pids,            \* process ids (with their kind, the key of a row)
    PsTicks,         \* a listing answers before this many further polls start
    MaxIncarnations, \* bound: processes that ever run under one pid
    MaxCliFaults,    \* bound: listings or writes that fail
    MaxCliRestarts   \* bound: restarts of the collector

ASSUME CliAssumption ==
    PsTicks \in Nat /\ {MaxIncarnations, MaxCliFaults, MaxCliRestarts} \subseteq Nat

VARIABLES
    launches,    \* [Pids -> Nat]: processes started so far under the pid
    alive,       \* the pids whose last process is running
    polls,       \* the polls under way, by age: [0..PsTicks -> poll or NoPoll]
    known,       \* [Pids -> age of lastSeen, or Stranger when not known]
    cliRow,         \* [Pids -> the activity in the database]
    lost,        \* pids whose `known` was given up while the row stayed active
    cliFaults,
    cliRestarts

cliVars == <<launches, alive, polls, known, cliRow, lost, cliFaults, cliRestarts>>

Grace == 2
Oldest == PsTicks + Grace
Stranger == Oldest + 1
Ages == 0..PsTicks

Listings == [Pids -> 0..MaxIncarnations]
Nobody == [p \in Pids |-> 0]
NoPoll == [stage |-> "none", saw |-> Nobody]
Awaiting == [stage |-> "listing", saw |-> Nobody]
Row(state, of) == [state |-> state, of |-> of]

-----------------------------------------------------------------------------
(* One poll *)

\* The grace a missing process gets: two polls since it was last seen.
MissedMutant(seenAge, pollAge) == seenAge >= pollAge
Missed(seenAge, pollAge) == seenAge >= pollAge + Grace

Ended(listing, age) ==
    {p \in Pids : /\ listing[p] = 0
                  /\ known[p] # Stranger
                  /\ Missed(known[p], age)}

\* The row this poll writes, an upsert by pid: the next process with the pid
\* opens the same row again.
WrittenRowMutant(listing, age, p) ==
    IF listing[p] # 0 /\ known[p] = Stranger THEN Row("active", listing[p])
    ELSE IF p \in Ended(listing, age) THEN [cliRow[p] EXCEPT !.state = "terminal"]
    ELSE cliRow[p]
WrittenRow(listing, age, p) ==
    IF listing[p] # 0 THEN Row("active", listing[p])
    ELSE IF p \in Ended(listing, age) THEN [cliRow[p] EXCEPT !.state = "terminal"]
    ELSE cliRow[p]

\* What the poll leaves known: a listed process was seen when this poll began,
\* even if a poll that began later saw it too; an ended one is forgotten.
RememberedMutant(listing, age) ==
    [p \in Pids |-> IF listing[p] = 0 THEN Stranger ELSE age]
Remembered(listing, age) ==
    [p \in Pids |-> IF listing[p] # 0 THEN age
                    ELSE IF p \in Ended(listing, age) THEN Stranger
                    ELSE known[p]]

\* What the listing of a running ps shows.
Listing == [p \in Pids |-> IF p \in alive THEN launches[p] ELSE 0]

\* Ids whose exit nobody will notice: not known, and the row still active.
Orphans(keeps, rows) == {p \in Pids : keeps[p] = Stranger /\ rows[p].state = "active"}

-----------------------------------------------------------------------------
CliInit ==
    /\ launches = Nobody
    /\ alive = {}
    /\ polls = [a \in Ages |-> IF a = 0 THEN Awaiting ELSE NoPoll]
    /\ known = [p \in Pids |-> Stranger]
    /\ cliRow = [p \in Pids |-> Row("none", 0)]
    /\ lost = {}
    /\ cliFaults = 0
    /\ cliRestarts = 0

\* An operator starts and ends processes; a pid is used again.
Launch(p) ==
    /\ p \notin alive
    /\ launches[p] < MaxIncarnations
    /\ launches' = [launches EXCEPT ![p] = @ + 1]
    /\ alive' = alive \cup {p}
    /\ UNCHANGED <<polls, known, cliRow, lost, cliFaults, cliRestarts>>

Exit(p) ==
    /\ p \in alive
    /\ alive' = alive \ {p}
    /\ UNCHANGED <<launches, polls, known, cliRow, lost, cliFaults, cliRestarts>>

\* The interval fires: everything is one poll older, and a new poll begins.
Poll ==
    /\ polls[PsTicks] = NoPoll
    /\ polls' = [a \in Ages |-> IF a = 0 THEN Awaiting ELSE polls[a - 1]]
    /\ known' = [p \in Pids |-> IF known[p] < Oldest THEN known[p] + 1 ELSE known[p]]
    /\ UNCHANGED <<launches, alive, cliRow, lost, cliFaults, cliRestarts>>

\* ps reads the process table.
List(a) ==
    /\ polls[a] = Awaiting
    /\ polls' = [polls EXCEPT ![a] = [stage |-> "listed", saw |-> Listing]]
    /\ UNCHANGED <<launches, alive, known, cliRow, lost, cliFaults, cliRestarts>>

\* The poll goes on with its listing, `known` first and then one transaction.
RecordPoll(a) ==
    /\ polls[a].stage = "listed"
    /\ LET listing == polls[a].saw
           keeps == Remembered(listing, a)
           rows == [p \in Pids |-> WrittenRow(listing, a, p)]
       IN /\ known' = keeps
          /\ \/ /\ cliRow' = rows
                /\ lost' = lost \ {p \in Pids : listing[p] # 0 \/ rows[p].state # "active"}
                /\ UNCHANGED cliFaults
             \/ /\ cliFaults < MaxCliFaults
                /\ cliFaults' = cliFaults + 1
                /\ lost' = lost \cup Orphans(keeps, cliRow)
                /\ UNCHANGED cliRow
    /\ polls' = [polls EXCEPT ![a] = NoPoll]
    /\ UNCHANGED <<launches, alive, cliRestarts>>

\* ps fails: the poll is over.
ListFails(a) ==
    /\ polls[a] = Awaiting
    /\ cliFaults < MaxCliFaults
    /\ cliFaults' = cliFaults + 1
    /\ polls' = [polls EXCEPT ![a] = NoPoll]
    /\ UNCHANGED <<launches, alive, known, cliRow, lost, cliRestarts>>

\* The collector stops and starts again: polls under way write nothing, and
\* the next process knows no pid.
CliRestart ==
    /\ cliRestarts < MaxCliRestarts
    /\ cliRestarts' = cliRestarts + 1
    /\ polls' = [a \in Ages |-> IF a = 0 THEN Awaiting ELSE NoPoll]
    /\ known' = [p \in Pids |-> Stranger]
    /\ lost' = Orphans([p \in Pids |-> Stranger], cliRow)
    /\ UNCHANGED <<launches, alive, cliRow, cliFaults>>

CliNext ==
    \/ \E p \in Pids : Launch(p) \/ Exit(p)
    \/ Poll
    \/ \E a \in Ages : List(a) \/ RecordPoll(a) \/ ListFails(a)
    \/ CliRestart

CliSpec == CliInit /\ [][CliNext]_cliVars

\* The interval and the polls go on; nobody has to start, end or fail anything.
CliFairness ==
    /\ WF_cliVars(Poll)
    /\ \A a \in Ages : WF_cliVars(List(a)) /\ WF_cliVars(RecordPoll(a))
FairCliSpec == CliSpec /\ CliFairness

-----------------------------------------------------------------------------
(* Properties *)

\* Types, and what `known` and the polls may hold.
CliTypeOK ==
    /\ launches \in Listings
    /\ alive \subseteq {p \in Pids : launches[p] # 0}
    /\ polls \in [Ages -> [stage : {"none", "listing", "listed"}, saw : Listings]]
    /\ known \in [Pids -> 0..Stranger]
    /\ cliRow \in [Pids -> [state : {"none", "active", "terminal"}, of : 0..MaxIncarnations]]
    /\ lost \subseteq {p \in Pids : cliRow[p].state = "active"}
    /\ cliFaults \in 0..MaxCliFaults
    /\ cliRestarts \in 0..MaxCliRestarts

\* Two polls that overlap, the older one's listing from before the process
\* began, do not end the row of a process that is still running: that is what
\* the grace of two polls is for, as long as ps answers within one interval.
RunningIsNotEnded ==
    \A p \in alive : cliRow[p].of = launches[p] => cliRow[p].state = "active"

\* Whoever has exited has its row ended, except a row whose pid was forgotten
\* (a restart, or an ending whose write failed): those stay active.
ExitsAreNoticed ==
    \A p \in Pids : []<>(cliRow[p].state = "active" => p \in alive \cup lost)

\* A process that goes on running is shown.
RunningIsShown ==
    \A p \in Pids : []<>(p \in alive => cliRow[p] = Row("active", launches[p]))
=============================================================================
