-------------------------- MODULE TranscriptPanel --------------------------
(***************************************************************************)
(* One session's page (web/src/views/SessionDetail.tsx) over the routes    *)
(* that serve it (src/http/server.ts, src/storage/transcript-archive.ts):  *)
(* its facts, reread when their topics change; its transcript, a first     *)
(* page that the reader and the sync rounds extend; and the search box.    *)
(* The archive grows meanwhile, the reader follows links to other          *)
(* sessions, and answers overtake each other.                              *)
(*                                                                         *)
(* Abstracted: a message is its session and its number; the archive grows  *)
(* at its end only; a search finds what was archived when it was read;     *)
(* what is set is rendered, and effects run, before the next event.        *)
(***************************************************************************)
EXTENDS Integers, Sequences, FiniteSets, SequencesExt

CONSTANTS
    PanelSessions,   \* sessions, model values
    Terms,           \* what may be typed into the search box
    PanelPage,       \* TRANSCRIPT_PAGE_SIZE
    MaxArchived,     \* bound: messages of a session
    MaxReads,        \* bound: requests under way at a time
    MaxPanelActs,    \* bound: links followed, terms typed, topics announced
    MaxPanelFaults   \* bound: failed requests

NoSession == "none"
Empty     == ""

ASSUME PanelAssumption ==
    /\ NoSession \notin PanelSessions /\ Empty \notin Terms /\ PanelPage \in Nat \ {0}
    /\ {MaxArchived, MaxReads} \subseteq Nat \ {0} /\ {MaxPanelActs, MaxPanelFaults} \subseteq Nat

VARIABLES
    archived,     \* messages of each session in the archive
    factsAt,      \* version of the facts of the sessions
    unheard,      \* "messages" was announced and not yet handled
    openKey,      \* sessionKey of the page
    detail,       \* detail and activities: their session and version
    detailGen,    \* generation.current
    pageError,    \* error of the page
    panel,        \* state of the mounted TranscriptPanel, or Unmounted
    mounts,       \* panels mounted so far
    box,          \* query, searchResult, searchError, searching and the timer
    reads,        \* requests under way
    panelActs, panelFaults  \* how many happened, for the bounds

panelVars == <<archived, factsAt, unheard, openKey, detail, detailGen, pageError, panel, mounts,
               box, reads, panelActs, panelFaults>>

NoDetail  == [key |-> NoSession, at |-> 0]
Unmounted == [on |-> FALSE, loaded |-> FALSE, messages |-> <<>>, synced |-> 0,
              error |-> FALSE, loadingMore |-> FALSE]
NoResult  == [of |-> Empty, key |-> NoSession, upto |-> 0]
EmptyBox  == [query |-> Empty, effect |-> 0, timer |-> FALSE, searching |-> FALSE,
              result |-> NoResult, failed |-> Empty]

Sending(what, key) ==
    [what |-> what, key |-> key, tag |-> 0, after |-> 0, term |-> Empty, read |-> FALSE,
     got |-> <<>>, at |-> 0]

\* A reading of the facts, with its generation.
Facts(gen) == [Sending("facts", openKey) EXCEPT !.tag = gen]

Room(n) == Len(reads) + n <= MaxReads

Act == panelActs < MaxPanelActs /\ panelActs' = panelActs + 1

PanelFault == panelFaults < MaxPanelFaults /\ panelFaults' = panelFaults + 1

-----------------------------------------------------------------------------
PanelInit ==
    /\ archived \in [PanelSessions -> 0..1] /\ factsAt = 0 /\ unheard = FALSE
    /\ openKey \in PanelSessions /\ detail = NoDetail /\ detailGen = 1 /\ pageError = FALSE
    /\ panel = Unmounted /\ mounts = 0 /\ box = EmptyBox
    /\ reads = <<Facts(1)>> /\ panelActs = 0 /\ panelFaults = 0

\* A round of transcript sync adds a message and announces it.
Archives(s) ==
    /\ archived[s] < MaxArchived /\ archived' = [archived EXCEPT ![s] = @ + 1] /\ unheard' = TRUE
    /\ UNCHANGED <<factsAt, openKey, detail, detailGen, pageError, panel, mounts, box, reads,
                   panelActs, panelFaults>>

\* extend: from the last message on the screen, if there is one.
CanExtend == panel.on /\ panel.loaded /\ panel.messages # <<>>

Extend ==
    [Sending("extend", openKey) EXCEPT !.tag = mounts, !.after = Last(panel.messages).n]

\* The topic "messages": transcriptRevision rises, and the panel extends.
HandlesMessages ==
    /\ unheard /\ unheard' = FALSE
    /\ \/ ~CanExtend /\ UNCHANGED <<panel, reads>>
       \/ /\ CanExtend /\ Room(1)
          /\ reads' = Append(reads, Extend) /\ panel' = [panel EXCEPT !.loadingMore = TRUE]
    /\ UNCHANGED <<archived, factsAt, openKey, detail, detailGen, pageError, mounts, box,
                   panelActs, panelFaults>>

Remaining == IF panel.loaded THEN panel.synced - Len(panel.messages) ELSE 0

\* The button.
LoadsMore ==
    /\ CanExtend /\ Remaining > 0 /\ ~panel.loadingMore /\ box.query = Empty /\ Room(1)
    /\ reads' = Append(reads, Extend) /\ panel' = [panel EXCEPT !.loadingMore = TRUE]
    /\ UNCHANGED <<archived, factsAt, unheard, openKey, detail, detailGen, pageError, mounts, box,
                   panelActs, panelFaults>>

\* The topics of the facts: reload, which aborts the reading before it.
FactsChange ==
    /\ Act /\ Room(1) /\ factsAt' = factsAt + 1 /\ detailGen' = detailGen + 1
    /\ reads' = Append(reads, Facts(detailGen + 1))
    /\ UNCHANGED <<archived, unheard, openKey, detail, pageError, panel, mounts, box, panelFaults>>

\* A link: everything of the session that was left is cleared, the panel goes with it.
Follow(s) ==
    /\ s # openKey /\ Act /\ Room(1) /\ openKey' = s
    /\ detail' = NoDetail /\ pageError' = FALSE /\ detailGen' = detailGen + 1
    /\ panel' = Unmounted /\ box' = EmptyBox
    /\ reads' = Append(reads, [Facts(detailGen + 1) EXCEPT !.key = s])
    /\ UNCHANGED <<archived, factsAt, unheard, mounts, panelFaults>>

\* listMessages, search and the session's row, as the server holds them when it is asked.
PageAfter(s, n) ==
    [k \in 1..(IF archived[s] - n < PanelPage THEN archived[s] - n ELSE PanelPage) |->
        [key |-> s, n |-> n + k]]

Reading(r) ==
    [r EXCEPT !.read = TRUE,
              !.got = IF r.what \in {"load", "extend"} THEN PageAfter(r.key, r.after) ELSE <<>>,
              !.at = IF r.what = "facts" THEN factsAt ELSE archived[r.key]]

PanelServes(k) ==
    /\ ~reads[k].read /\ reads' = [reads EXCEPT ![k] = Reading(@)]
    /\ UNCHANGED <<archived, factsAt, unheard, openKey, detail, detailGen, pageError, panel, mounts,
                   box, panelActs, panelFaults>>

Arrived(k) == reads' = RemoveAt(reads, k)

\* The slip: an answer is taken whichever reading it is of.
NewestFactsMutant(r) == r.key = openKey

NewestFacts(r) == r.tag = detailGen

FactsArrive(k, r) ==
    /\ r.what = "facts" /\ r.read
    /\ \/ /\ ~NewestFacts(r) /\ Arrived(k)
          /\ UNCHANGED <<detail, pageError, panel, mounts, box>>
       \/ /\ NewestFacts(r) /\ detail' = [key |-> r.key, at |-> r.at] /\ pageError' = FALSE
          /\ \/ panel.on /\ Arrived(k) /\ UNCHANGED <<panel, mounts, box>>
             \/ /\ ~panel.on /\ mounts' = mounts + 1 /\ box' = EmptyBox
                /\ panel' = [Unmounted EXCEPT !.on = TRUE]
                /\ reads' = [reads EXCEPT ![k] = [Sending("load", r.key) EXCEPT !.tag = mounts + 1]]
    /\ UNCHANGED <<archived, factsAt, unheard, openKey, detailGen, panelActs, panelFaults>>

\* The page shows the error in the place of all else, the panel too.
FactsFail(k, r) ==
    /\ r.what = "facts" /\ PanelFault /\ Arrived(k)
    /\ \/ ~NewestFacts(r) /\ UNCHANGED <<pageError, panel, box>>
       \/ NewestFacts(r) /\ pageError' = TRUE /\ panel' = Unmounted /\ box' = EmptyBox
    /\ UNCHANGED <<archived, factsAt, unheard, openKey, detail, detailGen, mounts, panelActs>>

\* `active`, and for an extension: the panel it was sent from is the one on the screen.
OfThisPanel(r) == panel.on /\ r.tag = mounts

PageLands(k, r) ==
    /\ r.what \in {"load", "extend"} /\ r.read /\ Arrived(k)
    /\ panel' =
         IF ~OfThisPanel(r) THEN panel
         ELSE IF r.what = "load"
         THEN [panel EXCEPT !.loaded = TRUE, !.messages = r.got, !.synced = r.at]
         ELSE [panel EXCEPT !.messages = @ \o r.got, !.synced = r.at, !.loadingMore = FALSE]
    /\ UNCHANGED <<archived, factsAt, unheard, openKey, detail, detailGen, pageError, mounts, box,
                   panelActs, panelFaults>>

PageIsLost(k, r) ==
    /\ r.what \in {"load", "extend"} /\ PanelFault /\ Arrived(k)
    /\ panel' = IF ~OfThisPanel(r) THEN panel
                ELSE [panel EXCEPT !.error = TRUE,
                                   !.loadingMore = IF r.what = "extend" THEN FALSE ELSE @]
    /\ UNCHANGED <<archived, factsAt, unheard, openKey, detail, detailGen, pageError, mounts, box,
                   panelActs>>

\* The box is there once there are messages; typing aborts the search before.
Types(term) ==
    /\ CanExtend /\ term # box.query /\ Act
    /\ box' = [query |-> term, effect |-> box.effect + 1, timer |-> term # Empty,
               searching |-> term # Empty, result |-> NoResult, failed |-> Empty]
    /\ UNCHANGED <<archived, factsAt, unheard, openKey, detail, detailGen, pageError, panel, mounts,
                   reads, panelFaults>>

\* The typing has settled.
Searches ==
    /\ box.timer /\ Room(1) /\ box' = [box EXCEPT !.timer = FALSE]
    /\ reads' = Append(reads, [Sending("search", openKey) EXCEPT
                                 !.tag = mounts, !.after = box.effect, !.term = box.query])
    /\ UNCHANGED <<archived, factsAt, unheard, openKey, detail, detailGen, pageError, panel, mounts,
                   panelActs, panelFaults>>

\* The slip: an answer that came before the abort is taken.
AbortedMutant(r) == ~OfThisPanel(r)

Aborted(r) == ~OfThisPanel(r) \/ r.after # box.effect

SearchLands(k, r) ==
    /\ r.what = "search" /\ r.read /\ Arrived(k)
    /\ box' = IF Aborted(r) THEN box
              ELSE [box EXCEPT !.result = [of |-> r.term, key |-> r.key, upto |-> r.at],
                               !.failed = Empty, !.searching = FALSE]
    /\ UNCHANGED <<archived, factsAt, unheard, openKey, detail, detailGen, pageError, panel, mounts,
                   panelActs, panelFaults>>

SearchFails(k, r) ==
    /\ r.what = "search" /\ PanelFault /\ Arrived(k)
    /\ box' = IF Aborted(r) THEN box ELSE [box EXCEPT !.failed = r.term, !.searching = FALSE]
    /\ UNCHANGED <<archived, factsAt, unheard, openKey, detail, detailGen, pageError, panel, mounts,
                   panelActs>>

PanelNext ==
    \/ HandlesMessages
    \/ LoadsMore
    \/ FactsChange
    \/ Searches
    \/ \E s \in PanelSessions : Archives(s)
    \/ \E s \in PanelSessions : Follow(s)
    \/ \E term \in Terms \cup {Empty} : Types(term)
    \/ \E k \in DOMAIN reads :
          \/ PanelServes(k)
          \/ FactsArrive(k, reads[k])
          \/ FactsFail(k, reads[k])
          \/ PageLands(k, reads[k])
          \/ PageIsLost(k, reads[k])
          \/ SearchLands(k, reads[k])
          \/ SearchFails(k, reads[k])

PanelSpec == PanelInit /\ [][PanelNext]_panelVars

-----------------------------------------------------------------------------
PanelTypeOK ==
    /\ archived \in [PanelSessions -> 0..MaxArchived] /\ openKey \in PanelSessions
    /\ detail.key \in PanelSessions \cup {NoSession} /\ unheard \in BOOLEAN
    /\ Len(reads) <= MaxReads

(* Whatever answers overtake each other, the facts and the text on the page   *)
(* are those of the session in its address, and the text has no hole: a       *)
(* message is never shown before all that are older (reload, TranscriptPanel).*)
PanelIsOwn ==
    /\ detail.key \in {openKey, NoSession}
    /\ panel.on => detail.key = openKey
    /\ \A k \in DOMAIN panel.messages : panel.messages[k].key = openKey
    /\ LET numbers == {panel.messages[k].n : k \in DOMAIN panel.messages}
       IN \A n \in numbers : 1..n \subseteq numbers

(* The matches and the count under the box answer the term in the box; while  *)
(* it says "Searching" a search for that term is being made, and when it does *)
(* not, its answer or its failure is there (currentSearchResult, the effect). *)
SearchIsOfTheBox ==
    /\ box.result # NoResult => box.result.of = box.query /\ box.result.key = openKey
    /\ box.searching => \/ box.timer
                        \/ \E k \in DOMAIN reads : reads[k].what = "search" /\ ~Aborted(reads[k])
    /\ panel.on /\ box.query # Empty => box.searching \/ box.query \in {box.result.of, box.failed}

(* What the page says of a session is never replaced by something older.      *)
FactsNeverGoBack ==
    [][detail.key # NoSession /\ detail'.key = detail.key => detail'.at >= detail.at]_panelVars

(* The comment above the effect on the revision (SessionDetail.tsx:201): a    *)
(* transcript that is open does not stay as it was when the page loaded while *)
(* the sync loop archives the conversation.                                   *)
OpenTranscriptFollows ==
    panel.on /\ panel.loaded /\ reads = <<>> /\ ~unheard /\ panelFaults = 0
        => (panel.messages = <<>> => archived[openKey] = 0)
=============================================================================
