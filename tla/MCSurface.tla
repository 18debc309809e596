----------------------------- MODULE MCSurface -----------------------------
(***************************************************************************)
(* What stands between the collectors and the reader: the hub that copies  *)
(* its nodes, the settings that pair them, the page that follows the hub   *)
(* and its views.  Each part's surroundings are in its own module, as what *)
(* they may send it; so the parts share no variable, and a behaviour of    *)
(* this module is one of one part, named in its first state, with the      *)
(* others at rest.                                                         *)
(***************************************************************************)
EXTENDS HubFanIn, Pairing, BoardPage, PagedList, FlowBoard, RelationForest, TranscriptPanel, TLC

VARIABLE part    \* the part that moves

\* Two tasks of one series, the second a child of the first, and a session
\* whose run is that of the first.
MCShape ==
    <<[agent |-> "main", kind |-> "task", title |-> "nightly", parent |-> NoLink, run |-> 7],
      [agent |-> "main", kind |-> "task", title |-> "nightly", parent |-> 1, run |-> NoLink],
      [agent |-> "main", kind |-> "attempt", title |-> "chat", parent |-> NoLink, run |-> 7]>>

MCSpan == "24h" :> 0 @@ "7d" :> 1

\* Four items of one host, another with the id of the last on a second host, and
\* snapshots with the one, the other or both.
MCItems    == [host : {1}, id : 1..4] \cup {[host |-> 2, id |-> 4]}
MCPictures == {MCItems, [host : {1}, id : 1..4], [host : {1}, id : 1..3] \cup {[host |-> 2, id |-> 4]}}

\* Any parent, some that are only inferred, and runs that are shared.
MCLinks ==
    [type : {"parent_task"}, from : 1..4, to : 1..4, certainty : {"exact"}] \cup
    [type : {"parent_task"}, from : {1, 2}, to : {3}, certainty : {"correlation_only"}] \cup
    [type : {"run_correlation"}, from : {1, 2}, to : {3, 4}, certainty : {"correlation_only"}]

Parts == {"hub", "pairing", "page", "list", "board", "forest", "panel"}

surfaceVars ==
    <<part, hubVars, pairingVars, pageVars, listVars, boardVars, forestVars, panelVars>>

\* A part that rests has one first state.
AtRest(p) ==
    CASE p = "hub"     -> settledFor = "24h" /\ \A n \in Nodes : up[n]
      [] p = "page"    -> range = "24h"
      [] p = "list"    -> query = CHOOSE q \in Queries : TRUE
      [] p = "board"   -> boardRange = "24h"
      [] p = "forest"  -> items = MCItems
      [] p = "panel"   -> /\ openKey = CHOOSE s \in PanelSessions : TRUE
                          /\ \A s \in PanelSessions : archived[s] = 0
      [] p = "pairing" -> TRUE

SurfaceInit ==
    /\ part \in Parts
    /\ HubInit /\ PairingInit /\ PageInit /\ ListInit /\ BoardInit /\ ForestInit /\ PanelInit
    /\ \A p \in Parts \ {part} : AtRest(p)

SurfaceNext ==
    \/ /\ part = "hub" /\ HubNext
       /\ UNCHANGED <<part, pairingVars, pageVars, listVars, boardVars, forestVars, panelVars>>
    \/ /\ part = "pairing" /\ PairingNext
       /\ UNCHANGED <<part, hubVars, pageVars, listVars, boardVars, forestVars, panelVars>>
    \/ /\ part = "page" /\ PageNext
       /\ UNCHANGED <<part, hubVars, pairingVars, listVars, boardVars, forestVars, panelVars>>
    \/ /\ part = "list" /\ ListNext
       /\ UNCHANGED <<part, hubVars, pairingVars, pageVars, boardVars, forestVars, panelVars>>
    \/ /\ part = "board" /\ BoardNext
       /\ UNCHANGED <<part, hubVars, pairingVars, pageVars, listVars, forestVars, panelVars>>
    \/ /\ part = "forest" /\ ForestNext
       /\ UNCHANGED <<part, hubVars, pairingVars, pageVars, listVars, boardVars, panelVars>>
    \/ /\ part = "panel" /\ PanelNext
       /\ UNCHANGED <<part, hubVars, pairingVars, pageVars, listVars, boardVars, forestVars>>

\* The fairness of HubFanIn and of BoardPage.
SurfaceFairness ==
    /\ \A n \in Nodes :
          /\ WF_hubVars(part = "hub" /\ HubStart)
          /\ WF_hubVars(part = "hub" /\ (StreamOpens(n) \/ StreamFails(n)))
          /\ WF_hubVars(part = "hub" /\ HandlesStatus(n))
          /\ WF_hubVars(part = "hub" /\ Reattach(n))
          /\ SF_hubVars(part = "hub" /\ \E i \in Slots : HandlesInvalidate(n, i))
          /\ SF_hubVars(part = "hub" /\ \E i \in Slots : IntervalRefresh(n, i))
          /\ \A i \in Slots :
                WF_hubVars(part = "hub" /\ (Reads(n, i) \/ Answers(n, i) \/ RequestFails(n, i)))
    /\ WF_pageVars(part = "page" /\ StreamConnects)
    /\ WF_pageVars(part = "page" /\ HandlesEvent)
    /\ WF_pageVars(part = "page" /\ Flush)
    /\ WF_pageVars(part = "page" /\ \E i \in DOMAIN asked : ServerReads(i) \/ Arrives(i))

SurfaceSpec     == SurfaceInit /\ [][SurfaceNext]_surfaceVars
FairSurfaceSpec == SurfaceSpec /\ SurfaceFairness

-----------------------------------------------------------------------------
(* The properties of the parts.  Where a part rests in its first state, its   *)
(* liveness properties hold of it.                                            *)

SurfaceTypeOK ==
    /\ part \in Parts
    /\ HubTypeOK /\ PairingTypeOK /\ PageTypeOK /\ ListTypeOK
    /\ BoardTypeOK /\ ForestTypeOK /\ PanelTypeOK

(* The page gathers topics behind a timer and ends up with what the server    *)
(* has (CollectorProvider).                                                   *)
PageIsServed == []GatheredIsScheduled /\ PageFollows

(* What the nodes hold is on the board, each thing once (FlowBoard).          *)
BoardIsTrue == part = "board" => BoardIsExact

(* What the links say is drawn or listed (RelationForest).                    *)
LinksAreDrawn == part = "forest" => ForestIsExact

(* A session's page shows its own facts and text, answers the box that is on  *)
(* the screen, and never goes back (SessionDetail.tsx).                       *)
PanelIsSound == []PanelIsOwn /\ []SearchIsOfTheBox /\ FactsNeverGoBack
=============================================================================
