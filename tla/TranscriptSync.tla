--------------------------- MODULE TranscriptSync ---------------------------
(***************************************************************************)
(* The archive of session transcripts (src/collector/transcript-sync.ts,   *)
(* src/storage/transcript-archive.ts), the retention that shares its       *)
(* tables (src/collector/runtime.ts, prune; src/storage/repository.ts,     *)
(* pruneSessions), and the verdicts scored from it (src/storage/           *)
(* signal-store.ts).                                                       *)
(*                                                                         *)
(* chat.history pages by an offset counted back from the newest message.   *)
(* A round reads the newest page of every active session (tail) and then   *)
(* one older page of a few unfinished ones (backfill).  Its candidates are *)
(* rows read before the requests, and what a request brings is written     *)
(* with what they said: retention and session passes run in between.       *)
(*                                                                         *)
(* Message m of a session is the m-th the Gateway recorded.  Abstracted:   *)
(* text and roles, the bytes of a message (one each), transcript           *)
(* generations, Gateways that report an offset of their own, and the       *)
(* gates of a round: a round that is skipped is a round that starts later. *)
(***************************************************************************)
EXTENDS Naturals, Sequences, FiniteSets, SequencesExt

CONSTANTS
    Sessions,       \* session keys
    Numberings,     \* whether the Gateway numbers its messages
    Textless,       \* messages without text: on a page, never stored
    PageLimit,      \* messages of one page (200 in the code)
    RoundBudget,    \* requests of one round (20 in the code)
    BackfillBudget, \* backfill pages of one round (5 in the code)
    MaxRows,        \* transcriptMaxBytes, in messages
    MaxMessages,    \* bound: messages of all sessions
    MaxFaults       \* bound: failures, crashes and retention runs

ASSUME TranscriptAssumption ==
    /\ IsFiniteSet(Sessions)
    /\ Numberings \in (SUBSET BOOLEAN) \ {{}}
    /\ {PageLimit, RoundBudget, BackfillBudget, MaxRows} \subseteq Nat \ {0}
    /\ {MaxMessages, MaxFaults} \subseteq Nat

VARIABLES
    numbered,   \* Gateway: its messages carry a number beside their id
    top,        \* Gateway: messages of each session
    busy,       \* Gateway: sessions that run, or ran within the active window
    recency,    \* how many sessions were active after each
    listed,     \* sessions table: the sessions with a row
    active,     \* sessions table: those it holds for active
    rows,       \* session_messages: <<seq, message>> of each session
    sync,       \* session_transcript_sync: cursor, last_seq and complete
    phase,      \* the round: idle, tail or backfill
    todo,       \* candidates of this phase, as read when it began
    requests,   \* requests of this round
    capacity,   \* ok or paused, of this round
    estimate,   \* rows the synchronizer thinks the archive holds
    measured,   \* whether that rests on a measure
    grew,       \* sessions that gained rows in this round
    stale,      \* sessions whose listed activity is newer than their verdict
    newer,      \* history: sessions active since their verdict
    unscored,   \* history: sessions that gained rows since their verdict
    newest,     \* history: top of a session when its newest page was last read
    aged,       \* history: messages up to this one are old enough to drop
    torn,       \* history: something fell between a request and its record
    cut,        \* history: sessions that grew in a round that died
    faults      \* how many happened, for the bound

gateway  == <<numbered, top, busy, recency>>
sessions == <<listed, active>>
archive  == <<rows, sync>>
round    == <<phase, todo, requests, capacity, grew>>
size     == <<estimate, measured>>
verdicts == <<stale, newer, unscored>>
history  == <<newest, aged, torn, cut>>
vars     == <<gateway, sessions, archive, round, size, verdicts, history, faults>>

Fault == faults < MaxFaults /\ faults' = faults + 1

\* A session without a row in session_transcript_sync reads like one with this.
Fresh == [cursor |-> 0, lastSeq |-> 0, complete |-> FALSE]

Numbers(r)   == {e[1] : e \in r}
Held(r)      == {e[2] : e \in r}
Size(r)      == MapThenSumSet(LAMBDA s : Cardinality(r[s]), Sessions)
InFlight     == {todo[i].key : i \in DOMAIN todo}
Rankings     == {f \in [Sessions -> 0..(Cardinality(Sessions) - 1)] : IsInjective(f)}
First(q, n)  == SubSeq(q, 1, Min({n, Len(q)}))
Emptied(r, S) == [s \in Sessions |-> IF s \in S THEN {} ELSE r[s]]
Reset(y, S)   == [s \in Sessions |-> IF s \in S THEN Fresh ELSE y[s]]

Init ==
    /\ numbered \in Numberings
    /\ top = [s \in Sessions |-> 0] /\ busy = {} /\ recency = CHOOSE f \in Rankings : TRUE
    /\ listed = {} /\ active = {}
    /\ rows = [s \in Sessions |-> {}] /\ sync = [s \in Sessions |-> Fresh]
    /\ phase = "idle" /\ todo = <<>> /\ requests = 0 /\ capacity = "ok" /\ grew = {}
    /\ estimate = 0 /\ measured = FALSE
    /\ stale = {} /\ newer = {} /\ unscored = {}
    /\ newest = [s \in Sessions |-> 0] /\ aged = [s \in Sessions |-> 0]
    /\ torn = {} /\ cut = {} /\ faults = 0

-----------------------------------------------------------------------------
(* The Gateway, and the session passes that copy what it lists.            *)

\* No more than a page arrives between two reads of the newest page, once it
\* was read: what a longer burst (200 messages in 30 seconds) skips is not
\* looked for.
NewMessage(s) ==
    /\ MapThenSumSet(LAMBDA x : top[x], Sessions) < MaxMessages
    /\ newest[s] > 0 => top[s] - newest[s] < PageLimit
    /\ top' = [top EXCEPT ![s] = @ + 1]
    /\ busy' = busy \cup {s}
    /\ recency' = [x \in Sessions |-> IF x = s THEN 0
                                      ELSE IF recency[x] < recency[s] THEN recency[x] + 1
                                      ELSE recency[x]]
    /\ newer' = newer \cup {s}
    /\ UNCHANGED <<numbered, sessions, archive, round, size, stale, unscored, history, faults>>

\* The active window (15 minutes) is longer than a round takes to come: the
\* last message of a session is read before it closes.
Calm(s) ==
    /\ s \in busy \cap active /\ newest[s] = top[s]
    /\ busy' = busy \ {s}
    /\ UNCHANGED <<numbered, top, recency, sessions, archive, round, size, verdicts,
                   history, faults>>

Known == {s \in Sessions : top[s] > 0}

\* Sessions without a verdict, or active since it, as far as they are listed.
MovedIn(now) == (now \ listed) \cup (newer \cap now)

ListPass ==
    /\ listed' = Known
    /\ active' = busy
    /\ stale' = stale \cup MovedIn(Known)
    /\ UNCHANGED <<gateway, archive, round, size, newer, unscored, history, faults>>

-----------------------------------------------------------------------------
(* Capacity.                                                               *)

\* Some sessions, the most recently active first.
ByRecency[S \in SUBSET Sessions] ==
    [i \in 1..Cardinality(S) |->
        CHOOSE s \in S : Cardinality({x \in S : recency[x] < recency[s]}) = i - 1]

\* Whole sessions go, least recently active first, until the rest fits; the
\* active ones are shielded.
Doomed(r) ==
    LET q    == Reverse(ByRecency[{s \in Sessions \ active : r[s] # {}}])
        Before(i) == MapThenSumSet(LAMBDA j : Cardinality(r[q[j]]), 1..(i - 1))
    IN  {q[i] : i \in {k \in DOMAIN q : Before(k) + MaxRows < Size(r)}}

-----------------------------------------------------------------------------
(* A round.                                                                *)

Candidates(q, y) == [i \in DOMAIN q |-> [key |-> q[i], was |-> y[q[i]]]]

ActiveCandidates(y) ==
    Candidates(First(ByRecency[active], RoundBudget), y)

\* Sessions that are read by their tail are excluded from the walk.
BackfillCandidatesMutant(y) ==
    Candidates(First(ByRecency[{s \in listed \ active : ~y[s].complete}], BackfillBudget), y)

BackfillCandidates(y) ==
    Candidates(First(ByRecency[{s \in listed : ~y[s].complete}], BackfillBudget), y)

\* The round is not over when its list is.
OnwardMutant(mode, q, n, y, room) == [phase |-> mode, todo |-> q]

\* Where a round is after n requests, with q left of its mode.
Onward(mode, q, n, y, room) ==
    IF q # <<>> /\ n < RoundBudget THEN [phase |-> mode, todo |-> q]
    ELSE IF mode = "tail" /\ room = "ok" /\ n < RoundBudget /\ BackfillCandidates(y) # <<>>
    THEN [phase |-> "backfill", todo |-> BackfillCandidates(y)]
    ELSE [phase |-> "idle", todo |-> <<>>]

Goes(to) == phase' = to.phase /\ todo' = to.todo

\* Only the last of the sessions that grew is named.
EndsOrGoesMutant(to, g) ==
    /\ Goes(to)
    /\ grew' = IF phase' = "idle" THEN {} ELSE g
    /\ LET scored == IF phase' = "idle" THEN g \cap listed ELSE {}
       IN  /\ stale' = stale \ scored
           /\ newer' = newer \ scored
           /\ unscored' = (unscored \cup g) \ scored

\* The listener is told at the end of a round which sessions grew, and scores
\* those that have a row; what gained in this step is g.
EndsOrGoes(to, g) ==
    /\ Goes(to)
    /\ grew' = IF phase' = "idle" THEN {} ELSE grew \cup g
    /\ LET scored == IF phase' = "idle" THEN (grew \cup g) \cap listed ELSE {}
       IN  /\ stale' = stale \ scored
           /\ newer' = newer \ scored
           /\ unscored' = (unscored \cup g) \ scored

\* The outcome of the eviction is not looked at.
IsFullMutant(over, left) == FALSE
\* What eviction leaves is still too much: the round archives nothing.
IsFull(over, left)       == over /\ left > MaxRows

StartRound ==
    /\ phase = "idle"
    /\ LET held  == IF measured THEN estimate ELSE Size(rows)
           over  == held >= MaxRows
           gone  == IF over THEN Doomed(rows) ELSE {}
           left  == Size(Emptied(rows, gone))
           room  == IF over THEN "paused" ELSE "ok"
           y     == Reset(sync, gone)
       IN  /\ rows' = Emptied(rows, gone) /\ sync' = y
           /\ torn' = torn \ gone
           /\ measured' = TRUE
           /\ estimate' = IF gone = {} THEN held ELSE left
           /\ capacity' = room /\ requests' = 0
           /\ IF IsFull(over, left)
              THEN Goes([phase |-> "idle", todo |-> <<>>])
              ELSE Goes(Onward("tail", ActiveCandidates(y), 0, y, room))
    /\ UNCHANGED <<gateway, sessions, grew, verdicts, newest, aged, cut, faults>>

\* An exception leaves the round, and nobody hears of what it had stored.
RoundDies(g) ==
    /\ Goes([phase |-> "idle", todo |-> <<>>])
    /\ grew' = {} /\ cut' = cut \cup grew \cup g
    /\ unscored' = unscored \cup g

\* The request in flight, and the messages it is answered with.
Asked  == Head(todo)
Offset == IF phase = "backfill" THEN Asked.was.cursor ELSE 0
Page   == {m \in 1..top[Asked.key] : /\ m + Offset <= top[Asked.key]
                                     /\ m + Offset + PageLimit > top[Asked.key]}
\* Counts what the page has to store instead of its rows.
FullMutant == Cardinality(Page \ Textless) >= PageLimit
Full   == Cardinality(Page) >= PageLimit

\* Messages that carry no number get the next ones after the candidate's
\* last_seq, in the order of the page; known ids are left out afterwards.
Projected ==
    LET text == Page \ Textless
        Rank(m) == Cardinality({k \in text : k <= m})
    IN  {<<IF numbered THEN m ELSE Asked.was.lastSeq + Rank(m), m>> : m \in text}

\* Known messages are left to the idempotency key.
OfferedMutant == Projected
Offered  == {e \in Projected : e[2] \notin Held(rows[Asked.key])}
Inserted == {e \in Offered : e[1] \notin Numbers(rows[Asked.key])}
Appended == [rows EXCEPT ![Asked.key] = @ \cup Inserted]
Gained   == IF Inserted = {} THEN {} ELSE {Asked.key}

\* The watermark follows the last page.
WatermarkMutant ==
    Max(IF Offered = {} THEN {Asked.was.lastSeq} ELSE Numbers(Offered))
\* last_seq only rises: numbers below it may be taken.
Watermark ==
    Max({sync[Asked.key].lastSeq, Asked.was.lastSeq} \cup Numbers(Offered))

Recorded ==
    LET was  == Asked.was
        now  == sync[Asked.key]
        next == IF Full THEN Offset + Cardinality(Page) ELSE 0
    IN  [cursor   |-> IF phase = "backfill" THEN next
                      ELSE IF was.cursor = 0 /\ ~was.complete /\ Full THEN next
                      ELSE now.cursor,
         lastSeq  |-> Watermark,
         complete |-> (phase = "tail" /\ was.complete) \/ ~Full]

HistoryAnswered ==
    /\ phase # "idle"
    /\ rows' = Appended
    /\ estimate' = estimate + Cardinality(Inserted)
    /\ newest' = IF Offset = 0 THEN [newest EXCEPT ![Asked.key] = top[Asked.key]] ELSE newest
    /\ requests' = requests + 1
    /\ IF Asked.key \in listed
       THEN LET y == [sync EXCEPT ![Asked.key] = Recorded]
            IN  /\ sync' = y
                /\ EndsOrGoes(Onward(phase, Tail(todo), requests + 1, y, capacity), Gained)
                /\ UNCHANGED cut
       ELSE \* the sync row refers to a session that is gone
            /\ RoundDies(Gained)
            /\ UNCHANGED <<sync, stale, newer>>
    /\ UNCHANGED <<gateway, sessions, capacity, measured, aged, torn, faults>>

HistoryFails ==
    /\ phase # "idle"
    /\ Fault
    /\ requests' = requests + 1
    /\ IF Asked.key \in listed
       THEN LET y == [sync EXCEPT ![Asked.key].complete = Asked.was.complete]
            IN  /\ sync' = y
                /\ EndsOrGoes(Onward(phase, Tail(todo), requests + 1, y, capacity), {})
                /\ UNCHANGED cut
       ELSE /\ RoundDies({})
            /\ UNCHANGED <<sync, stale, newer>>
    /\ UNCHANGED <<gateway, sessions, rows, capacity, size, newest, aged, torn>>

\* The process stops while it waits, or between the two transactions that
\* append a page and record it.
Crash ==
    /\ phase # "idle"
    /\ Fault
    /\ \/ rows' = rows /\ torn' = torn /\ RoundDies({})
       \/ rows' = Appended /\ torn' = torn \cup {Asked.key} /\ RoundDies(Gained)
    /\ estimate' = 0 /\ measured' = FALSE
    /\ UNCHANGED <<gateway, sessions, sync, requests, capacity, stale, newer, newest, aged>>

-----------------------------------------------------------------------------
(* Retention, and the pass that scores what moved.                         *)

\* Archived sessions may be old: they go with their text.
Archived == listed \ (active \cup busy)

Younger(r, s, age) == [r EXCEPT ![s] = {e \in @ : e[2] > age}]

\* Old sessions go, then old messages, then what does not fit.
Prune ==
    /\ Fault
    /\ \E dropped \in SUBSET Archived, s \in Sessions :
          \E age \in {aged[s], Min({aged[s] + 1, top[s]})} :
             LET young == Younger(Emptied(rows, dropped), s, age)
                 gone  == dropped \cup Doomed(young)
             IN  /\ rows' = Emptied(young, gone)
                 /\ sync' = Reset(sync, gone)
                 /\ torn' = (torn \ gone) \cup (gone \cap InFlight)
                 /\ aged' = [aged EXCEPT ![s] = age]
                 /\ listed' = listed \ dropped
                 /\ stale' = stale \ dropped /\ unscored' = unscored \ dropped
    /\ estimate' = 0 /\ measured' = FALSE
    /\ UNCHANGED <<gateway, active, round, newer, newest, cut>>

Recompute ==
    /\ stale # {}
    /\ stale' = {} /\ newer' = newer \ stale /\ unscored' = unscored \ stale
    /\ UNCHANGED <<gateway, sessions, archive, round, size, history, faults>>

Next ==
    \/ \E s \in Sessions : NewMessage(s) \/ Calm(s)
    \/ ListPass
    \/ StartRound \/ HistoryAnswered \/ HistoryFails
    \/ Crash
    \/ Prune
    \/ Recompute

Spec == Init /\ [][Next]_vars

FairSpec ==
    /\ Spec
    /\ WF_vars(ListPass) /\ WF_vars(StartRound) /\ WF_vars(HistoryAnswered)
    /\ WF_vars(Recompute)

-----------------------------------------------------------------------------
(* Properties.                                                             *)

SyncRow == [cursor : Nat, lastSeq : Nat, complete : BOOLEAN]

TypeOK ==
    /\ numbered \in BOOLEAN /\ measured \in BOOLEAN
    /\ top \in [Sessions -> Nat]
    /\ newest \in [Sessions -> Nat] /\ aged \in [Sessions -> Nat]
    /\ recency \in Rankings
    /\ active \subseteq listed /\ listed \subseteq Sessions
    /\ rows \in [Sessions -> SUBSET (Nat \X Nat)]
    /\ sync \in [Sessions -> SyncRow]
    /\ \A s \in Sessions : /\ Held(rows[s]) \subseteq 1..top[s]
                          /\ newest[s] <= top[s] /\ aged[s] <= top[s]
    /\ phase \in {"idle", "tail", "backfill"} /\ (phase = "idle" <=> todo = <<>>)
    /\ capacity \in {"ok", "paused"}
    /\ requests <= RoundBudget /\ faults <= MaxFaults
    /\ busy \cup grew \cup stale \cup newer \cup unscored \cup torn \cup cut
          \subseteq Sessions

\* What a session's complete flag says holds: everything up to the newest
\* message it has read is archived, unless it was old enough to be dropped
\* (TranscriptSynchronizer.syncSession).  An eviction or a stop between a
\* request and its record is not survived by the flag.
CompleteIsWhole ==
    \A s \in Sessions \ torn :
        sync[s].complete => ((aged[s] + 1)..newest[s]) \ Textless \subseteq Held(rows[s])

\* Re-reading a page stores nothing twice, also when the Gateway leaves the
\* numbering to the collector (withoutKnown and the idempotency key).
KeptOnce == \A s \in Sessions : \A e, f \in rows[s] : e[2] = f[2] => e = f

\* Numbers made up for a page never meet one that is in use: last_seq is as
\* high as every number stored (recordSync keeps the higher one).
WatermarkCovers ==
    \A s \in Sessions \ torn : \A n \in Numbers(rows[s]) : n <= sync[s].lastSeq

\* What is archived is whole, single and numbered: the three facts above.
ArchiveIsSound == CompleteIsWhole /\ KeptOnce /\ WatermarkCovers

\* Evidence is never forgotten: a session that gained rows since its verdict
\* is about to be scored by its round, or has activity its listing will show,
\* unless the round that brought them died (runOnce, SignalStore.staleSessions).
EvidenceIsRemembered ==
    unscored \subseteq grew \cup newer \cup stale \cup cut

\* A round that archives begins with an archive that fits: when the shielded
\* sessions alone are too much, nothing is fetched (capacity "full").
RoundsBeginWithRoom ==
    [][phase = "idle" /\ phase' # "idle" => Size(rows') <= MaxRows]_vars

\* Every message is archived in the end, from the newest page while its session
\* is active or by the walk back, if there is room for it.
EveryMessageIsKept ==
    \A s \in Sessions : \A m \in (1..MaxMessages) \ Textless :
        []<>(\/ m > top[s]
             \/ m \in Held(rows[s]) \/ m <= aged[s]
             \/ s \in torn
             \/ measured /\ estimate >= MaxRows)

\* Rounds fetch when there is room, and then all there is to fetch.
RoundsFillTheArchive == RoundsBeginWithRoom /\ EveryMessageIsKept
=============================================================================
