---------------------------- MODULE SessionSignals ----------------------------
(***************************************************************************)
(* The health signals of one session: the evidence three sources store     *)
(* about its tool calls and runs, the score computed from it               *)
(* (src/activity/session-signals.ts), and the steps that recompute it      *)
(* (src/storage/signal-store.ts, recomputeSignals and rescoreEvidence of   *)
(* src/collector/runtime.ts).                                              *)
(*                                                                         *)
(* The audit trail and the transcript archive are read backwards, a page   *)
(* at a time; observations are what an event told at the time, possibly a  *)
(* start without its end.  All three are about the same calls.             *)
(*                                                                         *)
(* Time is a count of instants, equal when two times are; AbandonAfter of  *)
(* them are six hours.  The weights are the code's; labels, models and     *)
(* confidence are left out, the batch of a recompute pass is one session,  *)
(* and the algorithm's version does not change.                            *)
(***************************************************************************)
EXTENDS Naturals, FiniteSets, Sequences, SequencesExt

CONSTANTS
    Tools,
    RunOutcomes,    \* how runs end, a subset of Classified
    AbandonAfter,   \* ABANDON_AFTER_MS
    MaxInstants,       \* bound: the clock
    MaxCalls,       \* bound: tool calls
    MaxRuns,        \* bound: runs
    MaxSignalFaults \* bound: rescores that fail or that a stop cuts off

VARIABLES
    instant,      \* the clock of the Gateway and of the collector
    inRun,   \* the session has a run at the Gateway
    lastMove,     \* when the session last did anything there
    calls,     \* the settled tool calls, oldest first
    ended,     \* how the newest run ended, there
    heard,     \* per call, what the observations hold of it
    audited,   \* the calls the audit trail's pages have brought
    archived,  \* the calls the transcript pages have brought
    verdict,   \* how the newest run ended, according to the stored trail
    runRows,   \* the session's activity rows, oldest first: an outcome or "open"
    session,   \* the session's row in the archive
    signals,   \* the stored score
    unscored,  \* a rescore failed and no other has been made since
    signalFaults

world == <<instant, inRun, lastMove, calls, ended>>
evidence == <<heard, audited, archived, verdict, runRows>>
signalVars == <<world, evidence, session, signals, unscored, signalFaults>>

Classified == {"succeeded", "failed", "timed_out", "cancelled", "blocked"}

ASSUME SignalsAssumption ==
    /\ RunOutcomes \subseteq Classified
    /\ MaxInstants \in Nat \ {0}
    /\ {AbandonAfter, MaxCalls, MaxRuns, MaxSignalFaults} \subseteq Nat

Calls == [tool : Tools, failed : BOOLEAN]
None == "none"

-----------------------------------------------------------------------------
(* Tool calls *)

Event(call) == [tool |-> call.tool, verdict |-> IF call.failed THEN "failed" ELSE "ok"]
Opening(call) == [tool |-> call.tool, verdict |-> "open"]

\* The calls a source has, in order; each is settled by construction.
Brought(seen) ==
    FlattenSeq([i \in 1..Len(calls) |-> IF i \in seen THEN <<Event(calls[i])>> ELSE <<>>])

\* The observations: a start for every call heard of, an end for some.
Observed ==
    FlattenSeq([i \in 1..Len(calls) |->
        CASE heard[i] = "unheard" -> <<>>
          [] heard[i] = "started" -> <<Opening(calls[i])>>
          [] heard[i] = "settled" -> <<Opening(calls[i]), Event(calls[i])>>])

NoTally == [settled |-> 0, failures |-> 0, retries |-> 0, streak |-> 0, longest |-> 0, failed |-> {}]

\* The longest streak so far, when one more call fails.
Longest(tally) == IF tally.streak + 1 > tally.longest THEN tally.streak + 1 ELSE tally.longest

\* One event of the tally: a failure of a tool that has failed, or its first
\* success after that, is a retry; an event that settled nothing is skipped.
Count(tally, e) ==
    LET again == IF e.tool \in tally.failed THEN 1 ELSE 0 IN
    CASE e.verdict = "open" -> tally
      [] e.verdict = "failed" ->
            [settled |-> tally.settled + 1,
             failures |-> tally.failures + 1,
             retries |-> tally.retries + again,
             streak |-> tally.streak + 1,
             longest |-> Longest(tally),
             failed |-> tally.failed \cup {e.tool}]
      [] e.verdict = "ok" ->
            [tally EXCEPT !.settled = @ + 1, !.retries = @ + again, !.streak = 0,
                          !.failed = @ \ {e.tool}]

Tally(events) == FoldLeft(Count, NoTally, events)

\* The source that settled most calls speaks for the session; ties go to the
\* trail, then to the transcript.
RichestMutant(trail, archive, observed) ==
    IF Len(observed) > Len(trail) /\ Len(observed) > Len(archive) THEN Tally(observed)
    ELSE IF Len(archive) > Len(trail) THEN Tally(archive) ELSE Tally(trail)
Richest(trail, archive, observed) ==
    LET heardOf == Tally(observed) IN
    IF heardOf.settled > Len(trail) /\ heardOf.settled > Len(archive) THEN heardOf
    ELSE IF Len(archive) > Len(trail) THEN Tally(archive) ELSE Tally(trail)

\* evidenceFor: the tally of the session's calls, given what the trail and the
\* transcript hold.
EvidenceMutant(trail, archive) == Tally(Brought(trail) \o Brought(archive) \o Observed)
Evidence(trail, archive) == Richest(Brought(trail), Brought(archive), Observed)

-----------------------------------------------------------------------------
(* The score *)

\* The newest run row that ended one of these ways.
NewestOf(endings) ==
    LET places == {i \in DOMAIN runRows : runRows[i] \in endings}
    IN IF places = {} THEN None ELSE runRows[Max(places)]

\* The newest classified ending of a run row, else the newest ending.
Deciding ==
    IF NewestOf(Classified) # None THEN NewestOf(Classified) ELSE NewestOf({"unknown"})

\* The trail speaks only where the rows say nothing, and not during a run.
DecidingOutcome(stated) ==
    IF Deciding \notin Classified /\ ~session.active /\ stated # None THEN stated ELSE Deciding

OutcomeClass(outcome) ==
    CASE outcome = "succeeded" -> "completed"
      [] outcome \in {"failed", "timed_out"} -> "errored"
      [] outcome \in {"cancelled", "blocked"} -> "abandoned"
      [] OTHER -> "unknown"

Charge(units, points, cap) == IF units * points > cap THEN cap ELSE units * points
Beyond1(n) == IF n > 1 THEN n - 1 ELSE 0

ToolPenaltyMutant(tally) ==
    Charge(tally.failures, 6, 30) + Charge(Beyond1(tally.streak), 12, 24)
        + Charge(Beyond1(tally.retries), 8, 24)
ToolPenalty(tally) ==
    Charge(tally.failures, 6, 30) + Charge(Beyond1(tally.longest), 12, 24)
        + Charge(Beyond1(tally.retries), 8, 24)

OutcomePenalty(outcome, abandoned) ==
    CASE outcome = "failed" -> 45
      [] outcome = "timed_out" -> 35
      [] outcome \in {"cancelled", "blocked"} -> 15
      [] outcome = None /\ abandoned -> 25
      [] OTHER -> 0

LongQuiet == instant - session.lastActivity >= AbandonAfter

\* computeSessionSignals: the score, given the tally of the calls and the run
\* verdict the trail states; not graded when
\* there is neither a verdict nor a settled call to grade on.  "of", the move of
\* the session the score was made on, is not stored by the code.
Score(tally, stated) ==
    LET outcome == DecidingOutcome(stated)
        abandoned == outcome = None /\ ~session.active /\ LongQuiet
        deducted == OutcomePenalty(outcome, abandoned) + ToolPenalty(tally)
    IN [at |-> instant,
        of |-> session.lastActivity,
        outcome |-> IF abandoned THEN "abandoned" ELSE OutcomeClass(outcome),
        failures |-> tally.failures,
        retries |-> tally.retries,
        longest |-> tally.longest,
        score |-> IF outcome \notin Classified /\ tally.settled = 0 THEN [graded |-> FALSE, points |-> 0]
                  ELSE [graded |-> TRUE, points |-> IF deducted > 100 THEN 0 ELSE 100 - deducted]]

NoSignals == [at |-> 0, of |-> 0, outcome |-> None, failures |-> 0, retries |-> 0, longest |-> 0,
              score |-> [graded |-> FALSE, points |-> 0]]

\* Never scored, or it has done something since, by the time the Gateway gave.
StaleScore ==
    /\ session.listed
    /\ \/ signals = NoSignals
       \/ signals.at < session.lastActivity

-----------------------------------------------------------------------------
SignalsInit ==
    /\ instant = 1
    /\ inRun = FALSE
    /\ lastMove = 0
    /\ calls = <<>>
    /\ ended = None
    /\ heard = <<>>
    /\ audited = {}
    /\ archived = {}
    /\ verdict = None
    /\ runRows = <<>>
    /\ session = [listed |-> FALSE, active |-> FALSE, lastActivity |-> 0]
    /\ signals = NoSignals
    /\ unscored = FALSE
    /\ signalFaults = 0

RowIsOpen == runRows # <<>> /\ Last(runRows) = "open"

TimePasses ==
    /\ instant < MaxInstants
    /\ instant' = instant + 1
    /\ UNCHANGED <<inRun, lastMove, calls, ended, evidence, session, signals, unscored, signalFaults>>

\* A run begins; an event that says so opens its activity row.
RunBegins(told) ==
    /\ ~inRun
    /\ Len(runRows) < MaxRuns
    /\ inRun' = TRUE
    /\ lastMove' = instant
    /\ runRows' = IF told /\ ~RowIsOpen THEN Append(runRows, "open") ELSE runRows
    /\ UNCHANGED <<instant, calls, ended, heard, audited, archived, verdict>>
    /\ UNCHANGED <<session, signals, unscored, signalFaults>>

\* A tool call settles; the collector hears of it, of its start only, or not.
CallSettles(call, heardOf) ==
    /\ inRun
    /\ Len(calls) < MaxCalls
    /\ calls' = Append(calls, call)
    /\ heard' = Append(heard, heardOf)
    /\ lastMove' = instant
    /\ UNCHANGED <<instant, inRun, ended, audited, archived, verdict, runRows>>
    /\ UNCHANGED <<session, signals, unscored, signalFaults>>

\* A run ends; an event that says how closes its row, unless it was missed.
RunFinishes(outcome, told) ==
    /\ inRun
    /\ inRun' = FALSE
    /\ lastMove' = instant
    /\ ended' = outcome
    /\ runRows' = IF told /\ RowIsOpen THEN [runRows EXCEPT ![Len(runRows)] = outcome] ELSE runRows
    /\ UNCHANGED <<instant, calls, heard, audited, archived, verdict>>
    /\ UNCHANGED <<session, signals, unscored, signalFaults>>

\* A session pass: the row takes what sessions.list says, a run nobody heard
\* of gets its activity row, and one that is over is closed as unknown.
SessionListed ==
    /\ lastMove # 0
    /\ session' = [listed |-> TRUE, active |-> inRun, lastActivity |-> lastMove]
    /\ runRows' = CASE RowIsOpen /\ ~inRun -> [runRows EXCEPT ![Len(runRows)] = "unknown"]
                    [] ~RowIsOpen /\ inRun /\ Len(runRows) < MaxRuns -> Append(runRows, "open")
                    [] OTHER -> runRows
    /\ UNCHANGED <<world, heard, audited, archived, verdict, signals, unscored, signalFaults>>

\* The next call a source that reads backwards from the newest may bring.
NextPages(seen) ==
    {i \in (1..Len(calls)) \ seen : IF seen = {} THEN i = Len(calls) ELSE {i - 1, i + 1} \cap seen # {}}

\* rescoreEvidence, at the end of the round that stored the page; it may fail,
\* or find no session to score, or the collector may have been stopped.
RescoreMutant(trail, archive, stated) ==
    /\ signals' = IF StaleScore THEN Score(Evidence(trail, archive), stated) ELSE signals
    /\ UNCHANGED <<unscored, signalFaults>>
Rescore(trail, archive, stated) ==
    \/ /\ \E tally \in {Evidence(trail, archive)} :
             signals' = IF session.listed THEN Score(tally, stated) ELSE signals
       /\ unscored' = FALSE
       /\ UNCHANGED signalFaults
    \/ /\ signalFaults < MaxSignalFaults
       /\ signalFaults' = signalFaults + 1
       /\ unscored' = TRUE
       /\ UNCHANGED signals

AuditBrings(i) ==
    /\ i \in NextPages(audited)
    /\ audited' = audited \cup {i}
    /\ Rescore(audited', archived, verdict)
    /\ UNCHANGED <<world, heard, archived, verdict, runRows, session>>

AuditBringsVerdict ==
    /\ verdict # ended
    /\ verdict' = ended
    /\ Rescore(audited, archived, ended)
    /\ UNCHANGED <<world, heard, audited, archived, runRows, session>>

TranscriptBrings(i) ==
    /\ i \in NextPages(archived)
    /\ archived' = archived \cup {i}
    /\ Rescore(audited, archived', verdict)
    /\ UNCHANGED <<world, heard, audited, verdict, runRows, session>>

\* The recompute timer and the session's page: both score a stale session.
RecomputeStale ==
    /\ StaleScore
    /\ \E tally \in {Evidence(audited, archived)} : signals' = Score(tally, verdict)
    /\ unscored' = FALSE
    /\ UNCHANGED <<world, evidence, session, signalFaults>>

\* Terminal retention: ended rows go, and their observations with them.
PruneRows ==
    /\ runRows # <<>>
    /\ ~RowIsOpen
    /\ runRows' = <<>>
    /\ heard' = [i \in DOMAIN heard |-> "unheard"]
    /\ UNCHANGED <<world, audited, archived, verdict, session, signals, unscored, signalFaults>>

SignalsNext ==
    \/ TimePasses \/ SessionListed \/ AuditBringsVerdict \/ RecomputeStale \/ PruneRows
    \/ \E call \in Calls, h \in {"unheard", "started", "settled"} : CallSettles(call, h)
    \/ \E told \in BOOLEAN : RunBegins(told)
    \/ \E o \in RunOutcomes, told \in BOOLEAN : RunFinishes(o, told)
    \/ \E i \in 1..MaxCalls : AuditBrings(i) \/ TranscriptBrings(i)

SignalsSpec == SignalsInit /\ [][SignalsNext]_signalVars

\* The timers run: sessions are listed, and stale scores recomputed.
FairSignalsSpec ==
    /\ SignalsSpec
    /\ WF_signalVars(SessionListed)
    /\ WF_signalVars(RecomputeStale)

-----------------------------------------------------------------------------
(* Properties *)

\* Types; a score is a percentage, whatever was deducted.
SignalsTypeOK ==
    /\ instant \in 1..MaxInstants
    /\ inRun \in BOOLEAN
    /\ lastMove \in 0..instant
    /\ calls \in Seq(Calls)
    /\ Len(calls) <= MaxCalls
    /\ {ended, verdict} \subseteq Classified \cup {None}
    /\ heard \in [DOMAIN calls -> {"unheard", "started", "settled"}]
    /\ audited \subseteq DOMAIN calls
    /\ archived \subseteq DOMAIN calls
    /\ runRows \in Seq(Classified \cup {"open", "unknown"})
    /\ session \in [listed : BOOLEAN, active : BOOLEAN, lastActivity : 0..MaxInstants]
    /\ signals.at \in 0..instant
    /\ signals.outcome \in {None, "completed", "errored", "abandoned", "unknown"}
    /\ signals.score \in [graded : BOOLEAN, points : 0..100]
    /\ unscored \in BOOLEAN
    /\ signalFaults \in 0..MaxSignalFaults

\* The three sources tell of the same calls, so they are alternatives: no
\* failed call is charged twice, however the pages and events came in.
NoCallCountsTwice ==
    signals.failures <= Cardinality({i \in DOMAIN calls : calls[i].failed})

\* A session's settled calls only ever cost it: one more call, failed or not,
\* never improves the penalty that all of them together draw.
CallsOnlyCost ==
    LET settled == [i \in DOMAIN calls |-> Event(calls[i])] IN
    \A call \in Calls :
        ToolPenalty(Tally(Append(settled, Event(call)))) >= ToolPenalty(Tally(settled))

\* What the counts mean, said of the true calls: a retry is a call of a tool
\* whose previous call failed, a streak a stretch of failures only.
TrueFailures == Cardinality({i \in DOMAIN calls : calls[i].failed})
TrueRetries ==
    Cardinality({i \in DOMAIN calls : \E j \in 1..(i - 1) :
        /\ calls[j].tool = calls[i].tool
        /\ calls[j].failed
        /\ \A k \in (j + 1)..(i - 1) : calls[k].tool # calls[i].tool})
TrueStreak ==
    LET stretches == {p \in (DOMAIN calls) \X (DOMAIN calls) :
                         p[1] <= p[2] /\ \A k \in p[1]..p[2] : calls[k].failed}
    IN IF stretches = {} THEN 0
       ELSE CHOOSE n \in {p[2] - p[1] + 1 : p \in stretches} :
                \A p \in stretches : n >= p[2] - p[1] + 1

\* Once the trail, or the transcript, holds every call of the session, its
\* score comes to count exactly those, although reading backwards does not
\* move the session: unless the rescore after a page was lost.
WholeTrailIsScored ==
    []<>(session.listed /\ DOMAIN calls \in {audited, archived} =>
            \/ unscored
            \/ /\ signals.failures = TrueFailures
               /\ signals.retries = TrueRetries
               /\ signals.longest = TrueStreak)

\* (code comment) ABANDON_AFTER_MS: a session with no terminal activity that
\* stays quiet for that long counts as abandoned.
QuietIsAbandoned ==
    LET silent == session.listed /\ ~session.active /\ runRows = <<>> /\ verdict = None /\ LongQuiet IN
    silent ~> (~silent \/ signals.outcome = "abandoned")

\* (code comment) staleSessions: a session that has moved since it was scored
\* is scored again (a move at the very instant of the score aside).
MovedIsRescored ==
    LET behind == session.listed /\ session.lastActivity \notin {signals.of, signals.at} IN
    behind ~> (signals.of = session.lastActivity)
=============================================================================
