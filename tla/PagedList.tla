----------------------------- MODULE PagedList -----------------------------
(***************************************************************************)
(* The session list (web/src/state/use-paged-query.ts and the buttons of   *)
(* web/src/views/Sessions.tsx) over the keyset pages of the server         *)
(* (src/storage/repository.ts listSessionsPage, keyset-cursor.ts, the      *)
(* sessions route of src/http/server.ts).  Rows change while the reader    *)
(* turns pages, chooses another query or reloads; answers may overtake     *)
(* each other.                                                             *)
(*                                                                         *)
(* Abstracted: the filters are one (any session, or the ones that run) and *)
(* the sorts two, by a value that only rises (last activity) and by one    *)
(* that may fall (grade); a cursor is its sort, value and key; what is set *)
(* is rendered before the reader acts again.                               *)
(***************************************************************************)
EXTENDS Integers, Sequences, FiniteSets, FiniteSetsExt, SequencesExt

CONSTANTS
    Rows,         \* sessions, numbers: the order of their keys
    Sorts,        \* "lastActivity" and "grade", or one of them
    Filters,      \* "any" and "active", or one of them
    ListLimit,    \* rows of a page
    MaxTouches,   \* bound: changes of rows
    MaxActs,      \* bound: queries chosen and reloads
    MaxListFaults \* bound: failed requests

ASSUME ListAssumption ==
    /\ Rows \subseteq Nat /\ IsFiniteSet(Rows) /\ ListLimit \in Nat \ {0}
    /\ Sorts \subseteq {"lastActivity", "grade"} /\ Filters \subseteq {"any", "active"}
    /\ {MaxTouches, MaxActs, MaxListFaults} \subseteq Nat

VARIABLES
    listRow,         \* sessions table: last activity, grade and whether it runs
    query,       \* the query the view shows
    generation,  \* generation.current
    inFlight,    \* inFlight.current
    listed,      \* items
    cursor,      \* cursor, or NoCursor
    flags,       \* loading, loadingMore, hasNewData, error
    fetches,     \* requests under way
    moved,       \* history: rows changed since the list's first page was read
    touches, listFaults \* how many happened, for the bounds

listVars == <<listRow, query, generation, inFlight, listed, cursor, flags, fetches, moved,
              touches, listFaults>>

Queries  == [sort : Sorts, filter : Filters]
NoCursor == [sort |-> "none", value |-> 0, key |-> 0]
UnreadPage   == [rows |-> <<>>, next |-> NoCursor, read |-> FALSE]

Matches(q, r)  == q.filter = "active" => listRow[r].runs
Value(sort, r) == IF sort = "grade" THEN listRow[r].grade ELSE listRow[r].last

-----------------------------------------------------------------------------
(* The server's page.                                                      *)

Before(sort, r, s) ==
    \/ Value(sort, r) > Value(sort, s)
    \/ Value(sort, r) = Value(sort, s) /\ r < s

\* The slip: the boundary row is not left out of the next page.
BeyondMutant(from, r) ==
    \/ from = NoCursor
    \/ Value(from.sort, r) <= from.value

\* Strictly after the position a cursor names.
Beyond(from, r) ==
    \/ from = NoCursor
    \/ Value(from.sort, r) < from.value
    \/ Value(from.sort, r) = from.value /\ r > from.key

\* The slip: the cursor is taken from the row fetched to see whether there are more.
BoundaryRowMutant(scan) == scan[ListLimit + 1]

BoundaryRow(scan) == scan[ListLimit]

\* ORDER BY: the sessions of S, one behind the other.
InOrder(sort, S) ==
    [i \in 1..Cardinality(S) |->
        CHOOSE r \in S : Cardinality({s \in S : Before(sort, s, r)}) = i - 1]

PageOf(q, from) ==
    LET scan == InOrder(q.sort, {r \in Rows : Matches(q, r) /\ Beyond(from, r)})
    IN  IF Len(scan) <= ListLimit THEN [rows |-> scan, next |-> NoCursor, read |-> TRUE]
        ELSE [rows |-> SubSeq(scan, 1, ListLimit), read |-> TRUE,
              next |-> [sort |-> q.sort, value |-> Value(q.sort, BoundaryRow(scan)), key |-> BoundaryRow(scan)]]

-----------------------------------------------------------------------------
\* load up to its await.
Fetch(mode, from, q, gen) ==
    [mode |-> mode, from |-> from, query |-> q, gen |-> gen, page |-> UnreadPage, moved |-> {}]

ListInit ==
    /\ listRow = [r \in Rows |-> [last |-> r, grade |-> 1, runs |-> TRUE]]
    /\ query \in Queries /\ generation = 1 /\ inFlight = TRUE
    /\ listed = <<>> /\ cursor = NoCursor
    /\ flags = [loading |-> TRUE, more |-> FALSE, changed |-> FALSE, error |-> FALSE]
    /\ fetches = {Fetch("replace", NoCursor, query, 1)}
    /\ moved = {} /\ touches = 0 /\ listFaults = 0

\* A session changes, and the page hears of it (subscribeTopics).
Touch(r) ==
    /\ touches < MaxTouches /\ touches' = touches + 1
    /\ \/ listRow' = [listRow EXCEPT ![r].last = Max({listRow[s].last : s \in Rows}) + 1]
       \/ listRow' = [listRow EXCEPT ![r].grade = 1 - @]
       \/ listRow' = [listRow EXCEPT ![r].runs = ~@]
    /\ moved' = moved \cup {r}
    /\ fetches' = {[f EXCEPT !.moved = IF f.page.read THEN @ \cup {r} ELSE @] : f \in fetches}
    /\ flags' = [flags EXCEPT !.changed = TRUE]
    /\ UNCHANGED <<query, generation, inFlight, listed, cursor, listFaults>>

\* Every new query, and every reload, makes the requests before it obsolete.
NextGeneration(q) ==
    /\ generation <= MaxActs /\ generation' = generation + 1
    /\ fetches' = fetches \cup {Fetch("replace", NoCursor, q, generation + 1)}
    /\ inFlight' = TRUE

\* The slip: what was there for the last query stays until the new page comes.
ClearedMutant == UNCHANGED <<listed, cursor, moved>>

Cleared == listed' = <<>> /\ cursor' = NoCursor /\ moved' = {}

ChooseQuery(q) ==
    /\ q # query /\ query' = q /\ NextGeneration(q) /\ Cleared
    /\ flags' = [flags EXCEPT !.loading = TRUE, !.changed = FALSE]
    /\ UNCHANGED <<listRow, touches, listFaults>>

\* Refresh, once changes were reported, or Retry, once a request failed.
Reload ==
    /\ flags.changed \/ flags.error
    /\ NextGeneration(query)
    /\ UNCHANGED <<listRow, query, listed, cursor, flags, moved, touches, listFaults>>

\* Only appends are serialised.
LoadMore ==
    /\ cursor # NoCursor /\ ~flags.more /\ ~inFlight
    /\ inFlight' = TRUE /\ flags' = [flags EXCEPT !.more = TRUE]
    /\ fetches' = fetches \cup {Fetch("append", cursor, query, generation)}
    /\ UNCHANGED <<listRow, query, generation, listed, cursor, moved, touches, listFaults>>

ServerAnswers(f) ==
    /\ ~f.page.read
    /\ fetches' = (fetches \ {f}) \cup {[f EXCEPT !.page = PageOf(f.query, f.from)]}
    /\ UNCHANGED <<listRow, query, generation, inFlight, listed, cursor, flags, moved, touches, listFaults>>

\* The slip: every request that settles is taken for the newest.
NewestMutant(f) == TRUE

Newest(f) == f.gen = generation

\* finally: only the newest request reports that loading finished.
Finished(f, set) ==
    /\ fetches' = fetches \ {f}
    /\ IF Newest(f)
       THEN inFlight' = FALSE /\ flags' = [set EXCEPT !.loading = FALSE, !.more = FALSE]
       ELSE UNCHANGED <<inFlight, flags>>

PageArrives(f) ==
    /\ f.page.read
    /\ Finished(f, [flags EXCEPT !.error = FALSE, !.changed = IF f.mode = "replace" THEN FALSE ELSE @])
    /\ IF ~Newest(f) THEN UNCHANGED <<listed, cursor, moved>>
       ELSE /\ listed' = IF f.mode = "append" THEN listed \o f.page.rows ELSE f.page.rows
            /\ cursor' = f.page.next
            /\ moved' = IF f.mode = "append" THEN moved ELSE f.moved
    /\ UNCHANGED <<listRow, query, generation, touches, listFaults>>

FetchFails(f) ==
    /\ listFaults < MaxListFaults /\ listFaults' = listFaults + 1
    /\ Finished(f, [flags EXCEPT !.error = TRUE])
    /\ UNCHANGED <<listRow, query, generation, listed, cursor, moved, touches>>

ListNext ==
    \/ \E r \in Rows : Touch(r)
    \/ \E q \in Queries : ChooseQuery(q)
    \/ Reload
    \/ LoadMore
    \/ \E f \in fetches :
          \/ ServerAnswers(f)
          \/ PageArrives(f)
          \/ FetchFails(f)

ListSpec == ListInit /\ [][ListNext]_listVars

-----------------------------------------------------------------------------
ListTypeOK ==
    /\ \A r \in Rows : listRow[r].grade \in 0..1 /\ listRow[r].runs \in BOOLEAN
    /\ query \in Queries /\ generation \in 1..(MaxActs + 1)
    /\ ToSet(listed) \subseteq Rows /\ cursor.sort \in {"none", query.sort}
    /\ \A f \in fetches : f.gen \in 1..generation
    /\ \A name \in DOMAIN flags : flags[name] \in BOOLEAN

(* Sorted by last activity, which only rises, no session is shown twice,      *)
(* however the rows move between two pages ("Strict inequality on the         *)
(* tiebreaker prevents re-emitting the boundary row", listSessionsPage).      *)
NoRowTwice == query.sort = "lastActivity" => IsInjective(listed)

(* The list shown is the whole of its query down to its cursor: a session     *)
(* that has not changed since the first page was read is listed if and only   *)
(* if it matches the query and is not beyond the cursor.  No page of another  *)
(* query, of an older list or past a gap is ever appended (usePagedQuery).    *)
ListIsWhole ==
    listed # <<>> =>
        \A r \in Rows \ moved :
            r \in ToSet(listed) <=> Matches(query, r) /\ (cursor = NoCursor \/ ~Beyond(cursor, r))

(* The list says that it is loading, or refuses to load more, only while a    *)
(* request of its own generation is under way, and while one is it never      *)
(* shows an empty list as the answer (the finally of load).                   *)
SpinnerIsReal ==
    LET underWay == \E f \in fetches : Newest(f)
    IN  /\ inFlight = underWay /\ (flags.loading \/ flags.more => underWay)
        /\ listed = <<>> /\ ~flags.loading /\ ~flags.error /\ moved = {} =>
              \A r \in Rows : ~Matches(query, r)

(* A list that is read page by page while its rows move shows no row twice    *)
(* and, once it ends, none too few; its spinner tells the truth               *)
(* (usePagedQuery, keyset-cursor.ts).                                         *)
ListIsSound == NoRowTwice /\ ListIsWhole /\ SpinnerIsReal
=============================================================================
