---------------------------- MODULE SurfaceProofs ----------------------------
(***************************************************************************)
(* What is proved of the parts between the collectors and the reader:      *)
(* - of the hub, for any number of nodes, requests under way and failures: *)
(*   its types, that a node's stream is kept (StreamIsKept), and that      *)
(*   whatever the order of answers, failures and questions each step of it *)
(*   is one its abstract specification allows (Mirror);                    *)
(* - of the settings and the pairing, for any changes, codes, stops and    *)
(*   lost writes: a code that can be redeemed is honoured, and the         *)
(*   settings shown are those a restart would use, and start;              *)
(* - of the session list, for any rows, page size, queries and reloads,    *)
(*   however the rows move between the pages and answers overtake each     *)
(*   other (ListIsSound);                                                  *)
(* - of a session's page, for any pages, versions, searches and tabs, and  *)
(*   requests that are answered in any order, late or after it was left:   *)
(*   it shows its own facts and text, and never goes back (PanelIsSound);  *)
(* - of the page that follows the hub: what it gathers has a timer;        *)
(* - of the board, for any rows: each thing has one place, and each figure *)
(*   counts what it says (BoardIsExact);                                   *)
(* - of the relations, for any items and links: what is connected, the     *)
(*   order of the lines and what is drawn in front of them (ForestIsExact);*)
(* - and that all this holds in the composition of the parts.              *)
(***************************************************************************)
EXTENDS MCSurface, Inductions

-----------------------------------------------------------------------------
(* The hub: the invariant.                                                  *)

\* What may be held of a node: one of the versions it has had, or nothing.
HadBy(n) == {NoSnapshot} \cup 0..version[n]

\* A bundle of a node, and a request to it: both hold what the node has had, the
\* bundle a reader's question began with as well.
BundlesOf(n) == {b \in Bundles : b.snapshot \in HadBy(n)}
HubRequests(n)  == [kind : {"refresh", "settled"}, range : Ranges, read : HadBy(n),
                 prior : BundlesOf(n)]

NothingIsInvented ==
    \A n \in Nodes :
        /\ bundle[n] \in BundlesOf(n)
        /\ \A i \in Slots : job[n][i] \in HubRequests(n) \cup {Idle}

\* Before start() nothing is attached.
Unattached == hubLife = "new" => \A n \in Nodes : ~retry[n] /\ stream[n] = "none"

\* The types of what is no bundle, and the life of a stream: one step per action.
Attachments ==
    /\ version \in [Nodes -> 0..MaxVersion] /\ up \in [Nodes -> BOOLEAN]
    /\ stream \in [Nodes -> {"none", "opening", "open"}]
    /\ \A n \in Nodes : frames[n] # <<>> => stream[n] = "open"
    /\ retry \in [Nodes -> BOOLEAN] /\ settledFor \in Ranges
    /\ frames \in [Nodes -> Seq({"status", "invalidate"})]
    /\ hubLife \in {"new", "running", "stopped"}
    /\ StreamIsKept /\ Unattached

\* What the hub holds and what is under way: bundles and requests.
Holdings ==
    /\ job = [n \in Nodes |-> [i \in Slots |-> job[n][i]]]
    /\ bundle = [n \in Nodes |-> bundle[n]]
    /\ NothingIsInvented

HubInv == Attachments /\ Holdings

-----------------------------------------------------------------------------
LEMMA HubInitInv == HubInit => HubInv
<1> SUFFICES ASSUME HubInit PROVE HubInv
  OBVIOUS
<1> USE HubAssumption DEF HubInit
<1>1. Unreachable \in Bundles /\ Unreachable.snapshot = NoSnapshot
  BY DEF Unreachable, Bundles, NoSnapshot
<1>2. Attachments
  BY DEF Attachments, StreamIsKept, Unattached
<1>3. Holdings
  BY <1>1 DEF Holdings, NothingIsInvented, BundlesOf, HadBy
<1> QED
  BY <1>2, <1>3 DEF HubInv

\* A request that was sent now has read nothing yet.
LEMMA RequestTyped ==
    ASSUME HubInv, NEW n \in Nodes, NEW kind \in {"refresh", "settled"}, NEW r \in Ranges
    PROVE  Request(kind, n, r) \in HubRequests(n)
  BY DEF HubInv, Holdings, NothingIsInvented, Request, HubRequests, BundlesOf, HadBy,
         Unreachable, Bundles, NoSnapshot

\* Only its range of settled work is replaced.
LEMMA ResettledTyped ==
    ASSUME NEW n \in Nodes, NEW b \in BundlesOf(n), NEW r \in Ranges \cup {NoRange}
    PROVE  [b EXCEPT !.settled = r] \in BundlesOf(n)
<1>1. b \in Bundles /\ b.snapshot \in HadBy(n)
  BY DEF BundlesOf
<1>2. [b EXCEPT !.settled = r] \in Bundles
  BY <1>1 DEF Bundles
<1>3. [b EXCEPT !.settled = r].snapshot = b.snapshot
  BY <1>1 DEF Bundles
<1> QED
  BY <1>1, <1>2, <1>3 DEF BundlesOf

\* What an answer makes of a bundle, and what a failure does: the node has had it.
LEMMA AnsweredTyped ==
    ASSUME HubInv, NEW n \in Nodes, NEW j \in HubRequests(n)
    PROVE  Answered(n, j) \in BundlesOf(n)
<1>1. /\ j.kind \in {"refresh", "settled"} /\ j.range \in Ranges
      /\ j.read \in HadBy(n) /\ j.prior \in BundlesOf(n)
  BY DEF HubRequests
<1>2. HadBy(n) \subseteq Int
  BY DEF HadBy, NoSnapshot, HubInv, Attachments
<1>3. CASE j.kind = "refresh"
  BY <1>1, <1>2, <1>3 DEF Answered, BundlesOf, Bundles
<1>4. CASE j.kind = "settled"
  BY <1>1, <1>4, ResettledTyped DEF Answered
<1> QED
  BY <1>1, <1>3, <1>4

LEMMA UnreachableTyped == ASSUME NEW n \in Nodes PROVE Unreachable \in BundlesOf(n)
  BY DEF Unreachable, BundlesOf, Bundles, HadBy, NoSnapshot

LEMMA FailedTyped ==
    ASSUME HubInv, NEW n \in Nodes, NEW j \in HubRequests(n)
    PROVE  Failed(n, j) \in BundlesOf(n)
<1>1. j.prior \in BundlesOf(n) /\ bundle[n] \in BundlesOf(n)
  BY DEF HubRequests, HubInv, Holdings, NothingIsInvented
<1> QED
  BY <1>1, UnreachableTyped, ResettledTyped DEF Failed

LEMMA ReportedTyped ==
    ASSUME HubInv, NEW n \in Nodes
    PROVE  Reported(n) \in BundlesOf(n) /\ Reported(n).snapshot = bundle[n].snapshot
<1>1. bundle[n] \in Bundles /\ bundle[n].snapshot \in HadBy(n)
  BY DEF HubInv, Holdings, NothingIsInvented, BundlesOf
<1> QED
  BY <1>1 DEF Reported, BundlesOf, Bundles

\* What was had stays so: a node's versions only grow.
LEMMA HadGrows ==
    ASSUME HubInv, NEW n \in Nodes, version' \in [Nodes -> Nat], version[n] <= version'[n]
    PROVE  BundlesOf(n) \subseteq BundlesOf(n)' /\ HubRequests(n) \subseteq HubRequests(n)'
<1>1. HadBy(n) \subseteq HadBy(n)'
  BY DEF HubInv, Attachments, HadBy
<1>2. BundlesOf(n) \subseteq BundlesOf(n)'
  BY <1>1 DEF BundlesOf
<1> QED
  BY <1>1, <1>2 DEF HubRequests

-----------------------------------------------------------------------------
(* The steps.  Most leave the versions alone; what they put into bundles and  *)
(* requests is then judged by the lemmas above.                               *)

\* A step that leaves the versions keeps NothingIsInvented if what it writes is so.
LEMMA KeptIsTyped ==
    ASSUME HubInv, UNCHANGED version,
           \A n \in Nodes : bundle'[n] \in BundlesOf(n),
           \A n \in Nodes, i \in Slots : job'[n][i] \in HubRequests(n) \cup {Idle}
    PROVE  NothingIsInvented'
<1>1. \A n \in Nodes : BundlesOf(n)' = BundlesOf(n) /\ HubRequests(n)' = HubRequests(n)
  BY DEF BundlesOf, HubRequests, HadBy
<1> QED
  BY <1>1 DEF NothingIsInvented

LEMMA AttachmentsStep == ASSUME Attachments, HubNext PROVE Attachments'
<1> USE HubAssumption DEF Attachments, StreamIsKept, Unattached, nodeVars, HubFault
<1>1. CASE HubStart
  BY <1>1 DEF HubStart
<1>2. CASE HubStop
  BY <1>2 DEF HubStop
<1>3. ASSUME NEW r \in Ranges, AskSettled(r) PROVE Attachments'
  BY <1>3 DEF AskSettled
<1>4. ASSUME NEW n \in Nodes, Changes(n) PROVE Attachments'
  BY <1>4 DEF Changes
<1>5. ASSUME NEW n \in Nodes, Fails(n) PROVE Attachments'
  BY <1>5 DEF Fails
<1>6. ASSUME NEW n \in Nodes, Returns(n) PROVE Attachments'
  BY <1>6 DEF Returns
<1>7. ASSUME NEW n \in Nodes, StreamOpens(n) PROVE Attachments'
  BY <1>7 DEF StreamOpens
<1>8. ASSUME NEW n \in Nodes, HandlesStatus(n) PROVE Attachments'
  BY <1>8 DEF HandlesStatus
<1>9. ASSUME NEW n \in Nodes, StreamFails(n) PROVE Attachments'
  <2>1. /\ stream[n] # "none" /\ UNCHANGED <<version, up, settledFor, hubLife>>
        /\ stream' = [stream EXCEPT ![n] = "none"] /\ frames' = [frames EXCEPT ![n] = <<>>]
        /\ retry' = [retry EXCEPT ![n] = TRUE]
    BY <1>9 DEF StreamFails, Armed
  <2>2. StreamIsKept' /\ Unattached'
    BY <2>1
  <2>3. frames' \in [Nodes -> Seq({"status", "invalidate"})] /\ retry' \in [Nodes -> BOOLEAN]
    BY <2>1
  <2>4. \A m \in Nodes : frames'[m] # <<>> => stream'[m] = "open"
    BY <2>1
  <2> HIDE DEF StreamIsKept, Unattached
  <2> QED
    BY <2>1, <2>2, <2>3, <2>4
<1>10. ASSUME NEW n \in Nodes, Reattach(n) PROVE Attachments'
  BY <1>10 DEF Reattach
<1>11. ASSUME NEW n \in Nodes, NEW i \in Slots, IntervalRefresh(n, i) PROVE Attachments'
  BY <1>11 DEF IntervalRefresh
<1>12. ASSUME NEW n \in Nodes, NEW i \in Slots, Reads(n, i) PROVE Attachments'
  BY <1>12 DEF Reads
<1>13. ASSUME NEW n \in Nodes, NEW i \in Slots, Answers(n, i) PROVE Attachments'
  BY <1>13 DEF Answers
<1>14. ASSUME NEW n \in Nodes, NEW i \in Slots, RequestFails(n, i) PROVE Attachments'
  BY <1>14 DEF RequestFails
<1>15. ASSUME NEW n \in Nodes, NEW i \in Slots, HandlesInvalidate(n, i) PROVE Attachments'
  BY <1>15 DEF HandlesInvalidate
<1> QED
  BY <1>1, <1>2, <1>3, <1>4, <1>5, <1>6, <1>7, <1>8, <1>9, <1>10, <1>11, <1>12, <1>13, <1>14,
     <1>15
  DEF HubNext

LEMMA HoldingsStep == ASSUME HubInv, HubNext PROVE Holdings'
<1> USE DEF Holdings, nodeVars
<1>0. /\ Holdings /\ settledFor \in Ranges
      /\ \A n \in Nodes : bundle[n] \in BundlesOf(n)
      /\ \A n \in Nodes, i \in Slots : job[n][i] \in HubRequests(n) \cup {Idle}
  BY DEF HubInv, Attachments, NothingIsInvented
<1>1. CASE HubStart
  <2>1. PICK i \in Slots :
           job' = [n \in Nodes |-> [job[n] EXCEPT ![i] = Request("refresh", n, settledFor)]]
    BY <1>1 DEF HubStart
  <2>2. \A n \in Nodes, k \in Slots : job'[n][k] \in HubRequests(n) \cup {Idle}
    BY <1>0, <2>1, RequestTyped
  <2>3. job' = [n \in Nodes |-> [k \in Slots |-> job'[n][k]]]
    BY <1>0, <2>1
  <2> QED
    BY <1>0, <1>1, <2>2, <2>3, KeptIsTyped DEF HubStart
<1>2. CASE HubStop
  BY <1>0, <1>2, KeptIsTyped DEF HubStop
<1>3. ASSUME NEW r \in Ranges, AskSettled(r) PROVE Holdings'
  <2>1. CASE UNCHANGED job
    BY <1>0, <1>3, <2>1, KeptIsTyped DEF AskSettled
  <2>2. ASSUME NEW slot \in [Nodes -> Slots],
               job' = [n \in Nodes |-> [job[n] EXCEPT ![slot[n]] = Request("settled", n, r)]]
        PROVE  Holdings'
    BY <1>0, <1>3, <2>2, KeptIsTyped, RequestTyped DEF AskSettled
  <2> QED
    BY <1>3, <2>1, <2>2 DEF AskSettled
<1>4. ASSUME NEW n \in Nodes, Changes(n) PROVE Holdings'
  <2>1. /\ version' \in [Nodes -> Nat] /\ UNCHANGED <<job, bundle>>
        /\ \A m \in Nodes : version[m] <= version'[m]
    BY <1>4, HubAssumption DEF Changes, HubInv, Attachments
  <2>2. \A m \in Nodes : /\ BundlesOf(m) \subseteq BundlesOf(m)'
                         /\ HubRequests(m) \subseteq HubRequests(m)'
    BY <2>1, HadGrows
  <2> QED
    BY <1>0, <2>1, <2>2 DEF NothingIsInvented
<1>5. ASSUME NEW n \in Nodes, Fails(n) \/ Returns(n) \/ StreamOpens(n) \/ Reattach(n)
      PROVE  Holdings'
  BY <1>0, <1>5, KeptIsTyped DEF Fails, Returns, StreamOpens, Reattach
<1>6. ASSUME NEW n \in Nodes, HandlesStatus(n) PROVE Holdings'
  BY <1>0, <1>6, KeptIsTyped, ReportedTyped DEF HandlesStatus
<1>7. ASSUME NEW n \in Nodes, StreamFails(n) PROVE Holdings'
  BY <1>0, <1>7, KeptIsTyped, UnreachableTyped DEF StreamFails
<1>8. ASSUME NEW n \in Nodes, NEW i \in Slots, IntervalRefresh(n, i) PROVE Holdings'
  BY <1>0, <1>8, KeptIsTyped, RequestTyped DEF IntervalRefresh
<1>9. ASSUME NEW n \in Nodes, NEW i \in Slots, HandlesInvalidate(n, i) PROVE Holdings'
  BY <1>0, <1>9, KeptIsTyped, RequestTyped DEF HandlesInvalidate
<1>10. ASSUME NEW n \in Nodes, NEW i \in Slots, Reads(n, i) PROVE Holdings'
  <2>1. job[n][i] \in HubRequests(n) /\ version[n] \in HadBy(n)
    BY <1>0, <1>10, HubAssumption DEF Reads, Free, HadBy, HubInv, Attachments
  <2>2. [job[n][i] EXCEPT !.read = version[n]] \in HubRequests(n)
    BY <2>1 DEF HubRequests
  <2> QED
    BY <1>0, <1>10, <2>2, KeptIsTyped DEF Reads
<1>11. ASSUME NEW n \in Nodes, NEW i \in Slots, Answers(n, i) PROVE Holdings'
  BY <1>0, <1>11, KeptIsTyped, AnsweredTyped, ZenonT(60) DEF Answers, Free
<1>12. ASSUME NEW n \in Nodes, NEW i \in Slots, RequestFails(n, i) PROVE Holdings'
  BY <1>0, <1>12, KeptIsTyped, FailedTyped, ZenonT(60) DEF RequestFails, Free
<1> QED
  BY <1>1, <1>2, <1>3, <1>4, <1>5, <1>6, <1>7, <1>8, <1>9, <1>10, <1>11, <1>12 DEF HubNext

LEMMA Inductive == HubSpec => []HubInv
<1>1. ASSUME HubInv, [HubNext]_hubVars PROVE HubInv'
  <2>1. CASE HubNext
    BY <1>1, <2>1, AttachmentsStep, HoldingsStep DEF HubInv
  <2>2. CASE UNCHANGED hubVars
    BY <1>1, <2>2
    DEF hubVars, nodeVars, HubInv, Attachments, StreamIsKept, Unattached, Holdings,
        NothingIsInvented, BundlesOf, HubRequests, HadBy
  <2> QED
    BY <1>1, <2>1, <2>2
<1> QED
  BY <1>1, HubInitInv, PTL DEF HubSpec

\* Every reachable state of the hub is typed.
THEOREM HubTyped == HubSpec => []HubTypeOK
<1>1. HubInv => HubTypeOK
  BY DEF HubInv, Attachments, Holdings, NothingIsInvented, BundlesOf, HubTypeOK
<1> QED
  BY <1>1, Inductive, PTL

\* No node of a running hub is without a stream, an attempt at one or a timer for
\* one, none has two, and a stopped hub has none (attachEvents, onError,
\* scheduleSseReconnect, stop).
THEOREM StreamKept == HubSpec => []StreamIsKept
<1>1. HubInv => StreamIsKept
  BY DEF HubInv, Attachments
<1> QED
  BY <1>1, Inductive, PTL

-----------------------------------------------------------------------------
(* The hub implements the safety of Mirror.                                 *)

\* What the hub's own steps do to the copies: they leave them, or take over or
\* give up that of one node.
LEMMA BundlesMapToCopies ==
    ASSUME HubInv, NEW n \in Nodes, NEW b \in BundlesOf(n),
           bundle' = [bundle EXCEPT ![n] = b], UNCHANGED <<version, up, hubLife>>
    PROVE  Board!MirrorNext
<1> DEFINE v == IF b.reachable THEN b.snapshot ELSE NoSnapshot
<1>1. v \in (0..version[n]) \cup {NoSnapshot}
  BY DEF BundlesOf, HadBy
<1>2. [m \in Nodes |-> Shown(m)]' = [[m \in Nodes |-> Shown(m)] EXCEPT ![n] = v]
  BY DEF HubInv, Holdings, Shown
<1>3. Board!Copies(n)
  BY <1>1, <1>2 DEF Board!Copies
<1> QED
  BY <1>3 DEF Board!MirrorNext

\* The surroundings move the versions and say which nodes answer.
LEMMA NodesMapToMoves ==
    ASSUME HubInv, UNCHANGED bundle,
           \A n \in Nodes : version'[n] \in {version[n], version[n] + 1}
    PROVE  Board!MirrorNext
<1>1. [m \in Nodes |-> Shown(m)]' = [m \in Nodes |-> Shown(m)]
  BY DEF Shown
<1>2. Board!Moves
  BY <1>1 DEF Board!Moves
<1> QED
  BY <1>2 DEF Board!MirrorNext

LEMMA StepMaps == ASSUME HubInv, HubNext PROVE Board!MirrorNext
<1>0. /\ \A n \in Nodes : bundle[n] \in BundlesOf(n)
      /\ \A n \in Nodes, i \in Slots : job[n][i] \in HubRequests(n) \cup {Idle}
  BY DEF HubInv, Holdings, NothingIsInvented
<1>1. CASE UNCHANGED <<version, bundle>>
  BY <1>1, NodesMapToMoves
<1>2. ASSUME NEW n \in Nodes, Changes(n) PROVE Board!MirrorNext
  BY <1>2, NodesMapToMoves DEF Changes, HubInv, Attachments
<1>3. ASSUME NEW n \in Nodes, HandlesStatus(n) PROVE Board!MirrorNext
  BY <1>3, ReportedTyped, BundlesMapToCopies DEF HandlesStatus, nodeVars
<1>4. ASSUME NEW n \in Nodes, StreamFails(n) PROVE Board!MirrorNext
  BY <1>4, UnreachableTyped, BundlesMapToCopies DEF StreamFails, nodeVars
<1>5. ASSUME NEW n \in Nodes, NEW i \in Slots, Answers(n, i) PROVE Board!MirrorNext
  BY <1>0, <1>5, AnsweredTyped, BundlesMapToCopies DEF Answers, Free, nodeVars
<1>6. ASSUME NEW n \in Nodes, NEW i \in Slots, RequestFails(n, i) PROVE Board!MirrorNext
  BY <1>0, <1>6, FailedTyped, BundlesMapToCopies DEF RequestFails, Free, nodeVars
<1> QED
  BY <1>1, <1>2, <1>3, <1>4, <1>5, <1>6
  DEF HubNext, HubStart, HubStop, AskSettled, Fails, Returns, StreamOpens, Reattach,
      IntervalRefresh, Reads, HandlesInvalidate, nodeVars

\* Whatever overlaps, fails or comes late, the hub shows of a node a version it has
\* had or nothing, and a step of the hub changes what it shows of one node only:
\* HubSpec implements the safety of Mirror.
THEOREM HubIsAMirror == HubSpec => Board!MirrorSafety
<1>1. HubInit => Board!MirrorInit
  BY HubAssumption DEF HubInit, Board!MirrorInit, Shown, Unreachable
<1>2. ASSUME HubInv, [HubNext]_hubVars PROVE [Board!MirrorNext]_(Board!mirrorVars)
  <2>1. CASE HubNext
    BY <1>2, <2>1, StepMaps
  <2>2. CASE UNCHANGED hubVars
    BY <2>2 DEF hubVars, nodeVars, Board!mirrorVars, Shown
  <2> QED
    BY <1>2, <2>1, <2>2
<1> QED
  BY <1>1, <1>2, Inductive, PTL DEF HubSpec, Board!MirrorSafety

-----------------------------------------------------------------------------
(* The settings and the pairing: the invariant.                             *)

\* PairingTypeOK, with the fields of offers and claims.
Typed ==
    /\ disk \in [Machines -> Configuration] /\ saved \in [Machines -> Configuration]
    /\ started \in [Machines -> Configuration]
    /\ restart \in [Machines -> BOOLEAN] /\ running \subseteq Machines
    /\ offer \in [Machines -> [code : Nat, token : Nat]]
    /\ claims \subseteq [by : Machines, code : Nat, token : Nat]
    /\ minted \in Nat /\ codes \in Nat

\* No token is used before it is generated, no code before it is handed out.
MintedFirst ==
    /\ \A m \in Machines : /\ disk[m].token <= minted /\ saved[m].token <= minted
                           /\ offer[m].token <= minted /\ offer[m].code <= codes
    /\ \A d \in claims : d.token <= minted

\* What a process knows of its files, also where a save failed between them: the
\* secrets, and that they leave the machine reachable if it thinks so.
Knows ==
    \A m \in running :
        /\ ~restart[m] => started[m] = saved[m]
        /\ disk[m].token = saved[m].token
        /\ saved[m].lan => disk[m].lan

PairingInv == Typed /\ MintedFirst /\ Knows /\ OfferIsHonoured /\ SettingsAreTrue /\ SavedStarts

-----------------------------------------------------------------------------
(* The operators.                                                           *)

\* A change of the settings changes the fields it names.
LEMMA PatchedFields ==
  ASSUME NEW c \in Configuration, NEW patch, NEW token \in Nat
  PROVE  /\ Patched(c, patch, token) \in Configuration
         /\ Patched(c, patch, token).lan =
               IF patch \in {"lan", "loopback"} THEN patch = "lan" ELSE c.lan
         /\ Patched(c, patch, token).role = IF patch \in {"hub", "node"} THEN patch ELSE c.role
         /\ Patched(c, patch, token).listed = (patch # "unlist" /\ c.listed)
         /\ Patched(c, patch, token).token = IF token # NoToken THEN token ELSE c.token
         /\ Patched(c, patch, token).key = c.key
<1>1. \A b \in BOOLEAN : (IF patch \in {"lan", "loopback"} THEN patch = "lan" ELSE b) \in BOOLEAN
  OBVIOUS
<1>2. (patch # "unlist" /\ c.listed) \in BOOLEAN
  OBVIOUS
<1> QED
  BY DEF Patched, Configuration

\* A node that is joined is listed, with its key.
LEMMA JoinedFields ==
  ASSUME NEW c \in Configuration, NEW key \in Nat
  PROVE  /\ Joined(c, key) \in Configuration
         /\ Joined(c, key).lan = c.lan /\ Joined(c, key).role = c.role
         /\ Joined(c, key).listed /\ Joined(c, key).token = c.token /\ Joined(c, key).key = key
BY DEF Joined, Configuration

-----------------------------------------------------------------------------
(* The steps.                                                               *)

\* A save keeps the invariant, whole or torn: the process and its files change alike.
LEMMA SaveStep ==
  ASSUME PairingInv, NEW m \in Machines, NEW patch \in Patches, Save(m, patch)
  PROVE  PairingInv'
<1> DEFINE token == IF NeedsToken(m, patch) THEN minted + 1 ELSE NoToken
           next  == Patched(disk[m], patch, token)
           screen == Patched(saved[m], patch, token)
<1>1. /\ m \in running /\ token \in Nat /\ disk[m] \in Configuration
      /\ saved[m] \in Configuration /\ minted \in Nat
  BY DEF Save, PairingInv, Typed, NoToken
<1>2. /\ minted' \in Nat /\ minted <= minted' /\ token <= minted' 
      /\ UNCHANGED <<claims, codes>>
  BY <1>1 DEF Save, NoToken
<1>3. next \in Configuration /\ screen \in Configuration
  BY <1>1, PatchedFields
<1>4. CASE WriteConfig(m, next) /\ Applied(m, screen)
  <2>1. /\ disk' = [disk EXCEPT ![m] = next] /\ saved' = [saved EXCEPT ![m] = screen]
        /\ restart' = [restart EXCEPT ![m] = TRUE] /\ offer' = [offer EXCEPT ![m] = NoOffer]
        /\ UNCHANGED <<torn, started, running>>
    BY <1>4 DEF WriteConfig, Applied, Withdrawn
  <2>2. /\ next.token = screen.token /\ (screen.lan => next.lan)
        /\ next.token <= minted'
    BY <1>1, <1>2, PatchedFields DEF PairingInv, Knows, MintedFirst, Configuration
  <2>3. m \notin torn => next = screen /\ Loads(next)
    <3> SUFFICES ASSUME m \notin torn PROVE next = screen /\ Loads(next)
      OBVIOUS
    <3>1. saved[m] = disk[m] /\ Loads(disk[m])
      BY <1>1 DEF PairingInv, SettingsAreTrue, SavedStarts
    <3>2. patch = "lan" => next.token # NoToken
      BY <1>1, <3>1, PatchedFields DEF NeedsToken, NoToken
    <3>3. next.token # NoToken \/ next.token = disk[m].token
      BY <1>1, PatchedFields
    <3>4. /\ next.lan = IF patch \in {"lan", "loopback"} THEN patch = "lan" ELSE disk[m].lan
          /\ next.role = IF patch \in {"hub", "node"} THEN patch ELSE disk[m].role
          /\ next.listed = (patch # "unlist" /\ disk[m].listed) /\ next.key = disk[m].key
      BY <1>1, PatchedFields
    <3>5. /\ next.lan => patch = "lan" \/ disk[m].lan
          /\ next.role = "hub" => patch = "hub" \/ (patch # "node" /\ disk[m].role = "hub")
          /\ next.listed = (patch # "unlist" /\ disk[m].listed) /\ next.key = disk[m].key
      <4> HIDE DEF next
      <4> QED
        BY <3>4
    <3>6. /\ patch = "hub" => disk[m].listed
          /\ patch = "unlist" => disk[m].role # "hub"
      BY <3>1 DEF Save
    <3>7. next = screen
      BY <3>1
    <3> HIDE DEF next, token
    <3>8. Loads(next)
      BY <3>1, <3>2, <3>3, <3>5, <3>6 DEF Loads
    <3> QED
      BY <3>7, <3>8
  <2> HIDE DEF token, next, screen
  <2>4. Typed'
    BY <1>2, <1>3, <2>1 DEF PairingInv, Typed, NoOffer, NoToken
  <2>5. MintedFirst'
    BY <1>2, <2>1, <2>2 DEF PairingInv, Typed, MintedFirst, NoOffer, NoToken, Configuration
  <2>6. Knows'
    BY <2>1, <2>2 DEF PairingInv, Typed, Knows
  <2>7. OfferIsHonoured'
    BY <2>1 DEF PairingInv, Typed, OfferIsHonoured
  <2>8. SettingsAreTrue' /\ SavedStarts'
    BY <2>1, <2>3 DEF PairingInv, Typed, SettingsAreTrue, SavedStarts
  <2> QED
    BY <2>4, <2>5, <2>6, <2>7, <2>8 DEF PairingInv
<1>5. CASE token # NoToken /\ Torn(m, next)
  <2> DEFINE half == [next EXCEPT !.token = disk[m].token, !.key = disk[m].key]
  <2>1. /\ disk' = [disk EXCEPT ![m] = half] /\ torn' = torn \cup {m}
        /\ UNCHANGED <<saved, started, restart, running, offer>>
    BY <1>5 DEF Torn, processVars
  <2>2. half \in Configuration /\ half.token = disk[m].token /\ half.lan = next.lan
    <3> HIDE DEF next
    <3>1. half = [next EXCEPT !.token = disk[m].token, !.key = disk[m].key]
      OBVIOUS
    <3> HIDE DEF half
    <3> QED
      BY <1>1, <1>3, <3>1 DEF Configuration
  <2>3. disk[m].lan => half.lan
    BY <1>1, <1>5, <2>2, PatchedFields DEF NeedsToken
  <2> HIDE DEF half, token, next
  <2>4. Typed'
    BY <1>2, <2>1, <2>2 DEF PairingInv, Typed
  <2>5. MintedFirst'
    BY <1>2, <2>1, <2>2 DEF PairingInv, Typed, MintedFirst, Configuration
  <2>6. Knows'
    BY <2>1, <2>2, <2>3 DEF PairingInv, Knows
  <2>7. OfferIsHonoured'
    BY <2>1, <2>2, <2>3 DEF PairingInv, OfferIsHonoured
  <2>8. SettingsAreTrue' /\ SavedStarts'
    BY <2>1 DEF PairingInv, SettingsAreTrue, SavedStarts
  <2> QED
    BY <2>4, <2>5, <2>6, <2>7, <2>8 DEF PairingInv
<1> QED
  BY <1>4, <1>5 DEF Save

\* A code is made only of settings that were started with.
LEMMA OfferStep ==
  ASSUME PairingInv, NEW m \in Machines, Offer(m)
  PROVE  PairingInv'
<1>1. /\ m \in running /\ ~restart[m] /\ started[m].lan
      /\ codes' = codes + 1
      /\ offer' = [offer EXCEPT ![m] = [code |-> codes', token |-> saved[m].token]]
      /\ UNCHANGED <<disk, saved, started, restart, running, claims, minted, torn>>
  BY DEF Offer, MayOffer
<1>2. Typed'
  BY <1>1 DEF PairingInv, Typed, Configuration
<1>3. MintedFirst'
  BY <1>1 DEF PairingInv, Typed, MintedFirst
<1>4. OfferIsHonoured'
  BY <1>1 DEF PairingInv, Knows, OfferIsHonoured
<1>5. Knows' /\ SettingsAreTrue' /\ SavedStarts'
  BY <1>1 DEF PairingInv, Knows, SettingsAreTrue, SavedStarts
<1> QED
  BY <1>2, <1>3, <1>4, <1>5 DEF PairingInv

\* A code that expires is gone.
LEMMA OfferExpiresStep ==
  ASSUME PairingInv, NEW m \in Machines, OfferExpires(m)
  PROVE  PairingInv'
<1>1. /\ offer' = [offer EXCEPT ![m] = NoOffer]
      /\ UNCHANGED <<disk, saved, started, restart, running, claims, minted, codes, torn>>
  BY DEF OfferExpires
<1> QED
  BY <1>1
  DEF PairingInv, Typed, MintedFirst, Knows, OfferIsHonoured, SettingsAreTrue, SavedStarts,
      NoOffer, NoToken

\* A claim on its way changes nothing here.
LEMMA ClaimStep ==
  ASSUME PairingInv, NEW m \in Machines, Claim(m)
  PROVE  PairingInv'
<1>1. PICK c \in 1..codes : claims' = claims \cup {[by |-> m, code |-> c, token |-> NoToken]}
  BY DEF Claim
<1>2. UNCHANGED <<disk, saved, started, restart, running, offer, minted, codes, torn>>
  BY DEF Claim, processVars
<1> QED
  BY <1>1, <1>2
  DEF PairingInv, Typed, MintedFirst, Knows, OfferIsHonoured, SettingsAreTrue, SavedStarts,
      NoToken

\* A code is redeemed once.
LEMMA RedeemStep ==
  ASSUME PairingInv, NEW d \in claims, Redeem(d)
  PROVE  PairingInv'
<1> DEFINE p == Peer(d.by)
<1>1. /\ p \in Machines /\ d \in [by : Machines, code : Nat, token : Nat]
      /\ UNCHANGED <<disk, saved, started, restart, running, minted, codes, torn>>
  BY DEF Redeem, PairingInv, Typed
<1>2. \/ /\ offer' = [offer EXCEPT ![p] = NoOffer]
         /\ claims' = (claims \ {d}) \cup {[d EXCEPT !.token = offer[p].token]}
      \/ claims' = claims \ {d} /\ offer' = offer
  BY DEF Redeem
<1> HIDE DEF p
<1>3. Typed'
  BY <1>1, <1>2 DEF PairingInv, Typed, NoOffer, NoToken
<1>4. MintedFirst'
  BY <1>1, <1>2 DEF PairingInv, Typed, MintedFirst, NoOffer, NoToken
<1>5. OfferIsHonoured'
  BY <1>1, <1>2 DEF PairingInv, Typed, OfferIsHonoured
<1>6. Knows' /\ SettingsAreTrue' /\ SavedStarts'
  BY <1>1 DEF PairingInv, Knows, SettingsAreTrue, SavedStarts
<1> QED
  BY <1>3, <1>4, <1>5, <1>6 DEF PairingInv

\* A lost request takes what it bought with it.
LEMMA ClaimFailsStep ==
  ASSUME PairingInv, NEW d \in claims, ClaimFails(d)
  PROVE  PairingInv'
<1>1. /\ claims' = claims \ {d}
      /\ UNCHANGED <<disk, saved, started, restart, running, offer, minted, codes, torn>>
  BY DEF ClaimFails, processVars
<1> QED
  BY <1>1
  DEF PairingInv, Typed, MintedFirst, Knows, OfferIsHonoured, SettingsAreTrue, SavedStarts

\* A node is added to the files as they are, with the key that was bought.
LEMMA AddHubNodeStep ==
  ASSUME PairingInv, NEW d \in claims, AddHubNode(d)
  PROVE  PairingInv'
<1> DEFINE m     == d.by
           next  == Joined(disk[m], d.token)
           screen == Joined(saved[m], d.token)
<1>1. /\ d.token # NoToken /\ d.token \in Nat /\ m \in Machines
      /\ disk[m] \in Configuration /\ saved[m] \in Configuration
      /\ claims' = claims \ {d} /\ UNCHANGED <<minted, codes>>
  BY DEF AddHubNode, PairingInv, Typed
<1>2. /\ next \in Configuration /\ next.lan = disk[m].lan /\ next.role = disk[m].role
      /\ next.listed /\ next.token = disk[m].token /\ next.key = d.token
  BY <1>1, JoinedFields
<1>3. /\ screen \in Configuration /\ screen.lan = saved[m].lan /\ screen.token = saved[m].token
      /\ (saved[m] = disk[m] => screen = next)
  BY <1>1, JoinedFields
<1>4. CASE WriteConfig(m, next) /\ Applied(m, screen)
  <2>1. /\ disk' = [disk EXCEPT ![m] = next] /\ saved' = [saved EXCEPT ![m] = screen]
        /\ restart' = [restart EXCEPT ![m] = TRUE] /\ offer' = [offer EXCEPT ![m] = NoOffer]
        /\ UNCHANGED <<torn, started, running>>
    BY <1>4 DEF WriteConfig, Applied, Withdrawn
  <2> HIDE DEF m, next, screen
  <2>2. m \notin torn => Loads(next)
    BY <1>1, <1>2 DEF PairingInv, SavedStarts, Loads
  <2>3. Typed'
    BY <1>1, <1>2, <1>3, <2>1 DEF PairingInv, Typed, NoOffer, NoToken
  <2>4. MintedFirst'
    BY <1>1, <1>2, <1>3, <2>1 DEF PairingInv, Typed, MintedFirst, NoOffer, NoToken
  <2>5. Knows'
    BY <1>2, <1>3, <2>1 DEF PairingInv, Typed, Knows
  <2>6. OfferIsHonoured'
    BY <2>1 DEF PairingInv, Typed, OfferIsHonoured
  <2>7. SettingsAreTrue' /\ SavedStarts'
    BY <1>3, <2>1, <2>2 DEF PairingInv, Typed, SettingsAreTrue, SavedStarts
  <2> QED
    BY <2>3, <2>4, <2>5, <2>6, <2>7 DEF PairingInv
<1>5. CASE Torn(m, next)
  <2> DEFINE half == [next EXCEPT !.token = disk[m].token, !.key = disk[m].key]
  <2>1. /\ disk' = [disk EXCEPT ![m] = half] /\ torn' = torn \cup {m}
        /\ UNCHANGED <<saved, started, restart, running, offer>>
    BY <1>5 DEF Torn, processVars
  <2>2. half \in Configuration /\ half.token = disk[m].token /\ half.lan = disk[m].lan
    BY <1>1, <1>2 DEF Configuration
  <2> HIDE DEF m, next, half
  <2>3. Typed'
    BY <1>1, <2>1, <2>2 DEF PairingInv, Typed
  <2>4. MintedFirst'
    BY <1>1, <2>1, <2>2 DEF PairingInv, MintedFirst
  <2>5. Knows'
    BY <2>1, <2>2 DEF PairingInv, Knows
  <2>6. OfferIsHonoured'
    BY <2>1, <2>2 DEF PairingInv, OfferIsHonoured
  <2>7. SettingsAreTrue' /\ SavedStarts'
    BY <2>1 DEF PairingInv, SettingsAreTrue, SavedStarts
  <2> QED
    BY <2>3, <2>4, <2>5, <2>6, <2>7 DEF PairingInv
<1> QED
  BY <1>4, <1>5 DEF AddHubNode, Root

\* A stop takes the codes and the claims of the process.
LEMMA EndsStep ==
  ASSUME PairingInv, NEW m \in Machines, Ends(m)
  PROVE  PairingInv'
<1>1. /\ running' = running \ {m} /\ offer' = [offer EXCEPT ![m] = NoOffer]
      /\ claims' = {d \in claims : d.by # m}
      /\ UNCHANGED <<disk, saved, started, restart, minted, codes, torn>>
  BY DEF Ends
<1>2. Typed' /\ MintedFirst'
  BY <1>1 DEF PairingInv, Typed, MintedFirst, NoOffer, NoToken
<1>3. Knows' /\ OfferIsHonoured' /\ SettingsAreTrue' /\ SavedStarts'
  BY <1>1 DEF PairingInv, Typed, Knows, OfferIsHonoured, SettingsAreTrue, SavedStarts
<1> QED
  BY <1>2, <1>3 DEF PairingInv

\* A start reads the files, which no code is for.
LEMMA StartsStep ==
  ASSUME PairingInv, NEW m \in Machines, Starts(m)
  PROVE  PairingInv'
<1>1. /\ m \notin running /\ running' = running \cup {m}
      /\ saved' = [saved EXCEPT ![m] = disk[m]] /\ started' = [started EXCEPT ![m] = disk[m]]
      /\ restart' = [restart EXCEPT ![m] = FALSE]
      /\ UNCHANGED <<disk, offer, claims, minted, codes, torn>>
  BY DEF Starts
<1>2. Typed'
  BY <1>1 DEF PairingInv, Typed
<1>3. MintedFirst'
  BY <1>1 DEF PairingInv, MintedFirst
<1>4. Knows'
  BY <1>1 DEF PairingInv, Typed, Knows
<1>5. OfferIsHonoured'
  BY <1>1 DEF PairingInv, OfferIsHonoured
<1>6. SettingsAreTrue' /\ SavedStarts'
  BY <1>1 DEF PairingInv, Typed, SettingsAreTrue, SavedStarts
<1> QED
  BY <1>2, <1>3, <1>4, <1>5, <1>6 DEF PairingInv

-----------------------------------------------------------------------------
(* The theorems.                                                            *)

\* The invariant holds of two new machines.
LEMMA PairingInitInv ==
  ASSUME PairingInit
  PROVE  PairingInv
<1>1. NewConfig \in Configuration /\ NewConfig.token = 0 /\ Loads(NewConfig)
  BY DEF NewConfig, Configuration, NoToken, Loads
<1>2. Typed /\ MintedFirst
  BY <1>1 DEF PairingInit, Typed, MintedFirst, NoOffer, NoToken
<1>3. Knows /\ OfferIsHonoured /\ SettingsAreTrue /\ SavedStarts
  BY <1>1 DEF PairingInit, Knows, OfferIsHonoured, SettingsAreTrue, SavedStarts
<1> QED
  BY <1>2, <1>3 DEF PairingInv

\* It holds in every state.
LEMMA Invariance == PairingSpec => []PairingInv
<1>1. PairingInv /\ [PairingNext]_pairingVars => PairingInv'
  <2> SUFFICES ASSUME PairingInv, [PairingNext]_pairingVars
               PROVE  PairingInv'
    OBVIOUS
  <2>1. CASE UNCHANGED pairingVars
    BY <2>1
    DEF PairingInv, Typed, MintedFirst, Knows, OfferIsHonoured, SettingsAreTrue, SavedStarts,
        pairingVars, processVars
  <2>2. CASE \E m \in Machines : \/ \E patch \in Patches : Save(m, patch)
                                 \/ Offer(m) \/ OfferExpires(m) \/ Claim(m) \/ Ends(m) \/ Starts(m)
    BY <2>2, SaveStep, OfferStep, OfferExpiresStep, ClaimStep, EndsStep, StartsStep
  <2>3. CASE \E d \in claims : Redeem(d) \/ ClaimFails(d) \/ AddHubNode(d)
    BY <2>3, RedeemStep, ClaimFailsStep, AddHubNodeStep
  <2> QED
    BY <2>1, <2>2, <2>3 DEF PairingNext
<1> QED
  BY <1>1, PairingInitInv, PTL DEF PairingSpec

\* Every state has its type: no token or code is used before it was made (store.ts,
\* pairing.ts).
THEOREM PairingTyped == PairingSpec => []PairingTypeOK
<1>1. PairingInv => PairingTypeOK
  BY DEF PairingInv, Typed, MintedFirst, PairingTypeOK
<1> QED
  BY <1>1, Invariance, PTL

\* However saves, claims, restarts, expiries and failed writes follow each other, a
\* code that can be redeemed buys the token the node checks requests with, now and
\* after a restart, at an address that answers (pairing/offer, clearPairingOffers).
THEOREM OfferHonoured == PairingSpec => []OfferIsHonoured
<1>1. PairingInv => OfferIsHonoured
  BY DEF PairingInv
<1> QED
  BY <1>1, Invariance, PTL

\* What the settings page shows is what the files hold, a due restart is announced,
\* and what was saved starts, but for a machine one of whose saves failed between its
\* files (applyPatch, addHubNode, loadConfig).
THEOREM SettingsSound == PairingSpec => []SettingsAreSound
<1>1. PairingInv => SettingsAreSound
  BY DEF PairingInv, SettingsAreSound
<1> QED
  BY <1>1, Invariance, PTL

-----------------------------------------------------------------------------
(* The session list: the invariant.                                         *)

RowRecord == [last : Nat, grade : 0..1, runs : BOOLEAN]
Cursors   == [sort : {"none", "lastActivity", "grade"}, value : Nat, key : Nat]
Pages     == [rows : Seq(Rows), next : Cursors, read : BOOLEAN]
Requests  == [mode : {"replace", "append"}, from : Cursors, query : Queries, gen : Nat,
              page : Pages, moved : SUBSET Rows]

\* A cursor is of the query it was read for, or none.
IsOf(c, q) == c = NoCursor \/ c.sort = q.sort

\* A request has the mode its cursor says, and its page is of its query.
WellFormed(f) ==
    /\ f.gen \in 1..generation
    /\ f.mode = "replace" <=> f.from = NoCursor
    /\ IsOf(f.from, f.query) /\ IsOf(f.page.next, f.query)

ListTyped ==
    /\ listRow \in [Rows -> RowRecord]
    /\ query \in Queries /\ generation \in 1..(MaxActs + 1) /\ inFlight \in BOOLEAN
    /\ listed \in Seq(Rows) /\ cursor \in Cursors /\ IsOf(cursor, query)
    /\ flags \in [loading : BOOLEAN, more : BOOLEAN, changed : BOOLEAN, error : BOOLEAN]
    /\ fetches \subseteq Requests /\ \A f \in fetches : WellFormed(f)
    /\ moved \subseteq Rows

\* One request at most is the newest; the spinner turns for it.
OneIsNewest ==
    /\ \A f, g \in fetches : Newest(f) /\ Newest(g) => f = g
    /\ inFlight <=> \E f \in fetches : Newest(f)
    /\ flags.loading \/ flags.more => inFlight

\* The newest request is for the query that is shown, and goes on where its list
\* ends.
GoesOn(f) ==
    Newest(f) => /\ f.query = query
                 /\ f.mode = "append" => f.from = cursor /\ listed # <<>>

\* No row of R is beyond the cursor.
Passed(c, R) == c = NoCursor \/ \A r \in R : ~Beyond(c, r)

\* Rows, up to the cursor next, are those of R that match and are beyond from.
IsWhole(rows, q, from, next, R) ==
    \A r \in R : r \in ToSet(rows) <=> /\ Matches(q, r) /\ Beyond(from, r)
                                       /\ next = NoCursor \/ ~Beyond(next, r)

\* A cursor that comes after another.
Further(c, from) ==
    from = NoCursor \/ c.value < from.value \/ (c.value = from.value /\ c.key > from.key)

\* What the page of the newest request will bring.
PageFits(f) ==
    Newest(f) /\ f.page.read =>
        /\ f.page.next # NoCursor => f.page.rows # <<>> /\ Further(f.page.next, f.from)
        /\ IsWhole(f.page.rows, f.query, f.from, f.page.next,
                   Rows \ (IF f.mode = "replace" THEN f.moved ELSE moved))
        /\ query.sort = "lastActivity" =>
              /\ IsInjective(f.page.rows) /\ Passed(f.page.next, ToSet(f.page.rows))
              /\ f.mode = "append" => ToSet(f.page.rows) \cap ToSet(listed) = {}

\* The list as it is shown: whole as soon as there is one, and then what is
\* shown is passed by the cursor for good where values only rise.
ShownFits ==
    /\ cursor # NoCursor => listed # <<>>
    /\ listed # <<>> \/ (~flags.loading /\ ~flags.error) =>
          IsWhole(listed, query, NoCursor, cursor, Rows \ moved)
    /\ query.sort = "lastActivity" => IsInjective(listed) /\ Passed(cursor, ToSet(listed))

ListInv ==
    /\ ListTyped /\ OneIsNewest /\ ShownFits
    /\ \A f \in fetches : GoesOn(f) /\ PageFits(f)

-----------------------------------------------------------------------------
(* The operators.                                                           *)

\* The members of a list are what stands at its places.
LEMMA MembersByPlace ==
    ASSUME NEW S, NEW s \in Seq(S) PROVE ToSet(s) = {s[i] : i \in 1..Len(s)}
BY DEF ToSet

\* A finite set of numbers has a largest member, which is what Max picks.
LEMMA MaxIsLargest ==
    ASSUME NEW S \in SUBSET Nat, IsFiniteSet(S), S # {}
    PROVE  Max(S) \in S /\ \A x \in S : x <= Max(S)
<1> DEFINE Larger(x) == {y \in S : x < y}
           T == {Larger(x) : x \in S}
<1>1. T \subseteq FiniteSubsetsOf(S) /\ T # {}
  <2>1. ASSUME NEW x \in S PROVE Larger(x) \in FiniteSubsetsOf(S)
    <3>1. Larger(x) \in SUBSET S
      OBVIOUS
    <3> HIDE DEF Larger
    <3> QED
      BY <3>1, FS_Subset DEF FiniteSubsetsOf
  <2> QED
    BY <2>1
<1>2. \E U \in T : \A V \in T : <<V, U>> \notin StrictSubsetOrdering(S)
  BY <1>1, FS_StrictSubsetOrderingWellFounded, WFMin
<1>3. PICK m \in S : \A y \in S : <<Larger(y), Larger(m)>> \notin StrictSubsetOrdering(S)
  BY <1>2
<1>4. \A y \in S : y <= m
  <2>1. SUFFICES ASSUME NEW y \in S, ~(y <= m) PROVE FALSE
    OBVIOUS
  <2>4. m < y /\ \A z \in S : z \in Int
    BY <2>1
  <2>2. Larger(y) \subseteq Larger(m) /\ y \in Larger(m) /\ y \notin Larger(y)
    <3>1. \A z \in S : y < z => m < z
      BY <2>4
    <3>2. ~(y < y)
      BY <2>4
    <3> QED
      BY <2>4, <3>1, <3>2
  <2>3. <<Larger(y), Larger(m)>> \in StrictSubsetOrdering(S)
    BY <2>2 DEF StrictSubsetOrdering
  <2> QED
    BY <1>3, <2>3
<1> QED
  BY <1>4 DEF Max

\* The order of a sort is strict and total.
LEMMA BeforeIsAnOrder ==
    ASSUME ListTyped, NEW sort
    PROVE  /\ \A r, s \in Rows : Value(sort, r) \in Nat /\ r \in Nat
           /\ \A r, s \in Rows : r = s \/ Before(sort, r, s) \/ Before(sort, s, r)
           /\ \A r, s \in Rows : ~(Before(sort, r, s) /\ Before(sort, s, r))
           /\ \A r, s, t \in Rows : Before(sort, r, s) /\ Before(sort, s, t) => Before(sort, r, t)
<1>1. \A r \in Rows : Value(sort, r) \in Nat /\ r \in Nat
  BY ListAssumption DEF ListTyped, RowRecord, Value
<1> QED
  BY <1>1 DEF Before

\* Any rows can be put in the order of a sort.
LEMMA OrderOfRows ==
    ASSUME ListTyped, NEW sort, NEW S \in SUBSET Rows
    PROVE  /\ Cardinality(S) \in Nat
           /\ InOrder(sort, S) \in [1..Cardinality(S) -> S]
           /\ \A r \in S : \E i \in 1..Cardinality(S) : InOrder(sort, S)[i] = r
           /\ \A i, j \in 1..Cardinality(S) :
                 i < j => Before(sort, InOrder(sort, S)[i], InOrder(sort, S)[j])
<1> DEFINE n == Cardinality(S)
           Ahead(r) == {s \in S : Before(sort, s, r)}
           rank == [r \in S |-> Cardinality(Ahead(r))]
<1>1. /\ IsFiniteSet(S) /\ n \in Nat
      /\ \A r \in S : Ahead(r) \in SUBSET S /\ IsFiniteSet(Ahead(r))
  BY ListAssumption, FS_Subset, FS_CardinalityType
<1>2. \A r \in S : rank[r] = Cardinality(Ahead(r)) /\ rank[r] \in Nat
  BY <1>1, FS_CardinalityType
<1>3. ASSUME NEW r \in S, NEW x \in S, Before(sort, r, x) PROVE rank[r] < rank[x]
  <2>1. Ahead(r) \cup {r} \in SUBSET Ahead(x) /\ r \notin Ahead(r)
    BY <1>3, BeforeIsAnOrder
  <2>2. Cardinality(Ahead(r) \cup {r}) = Cardinality(Ahead(r)) + 1
    BY <1>1, <2>1, FS_AddElement
  <2>3. Cardinality(Ahead(r) \cup {r}) <= Cardinality(Ahead(x))
    BY <1>1, <2>1, FS_Subset
  <2> QED
    BY <1>2, <2>2, <2>3
<1>4. ASSUME NEW r \in S PROVE rank[r] \in 0..(n - 1)
  <2>1. Ahead(r) \cup {r} \in SUBSET S /\ r \notin Ahead(r)
    BY BeforeIsAnOrder
  <2>2. Cardinality(Ahead(r) \cup {r}) = Cardinality(Ahead(r)) + 1
    BY <1>1, <2>1, FS_AddElement
  <2>3. Cardinality(Ahead(r) \cup {r}) <= n
    BY <1>1, <2>1, FS_Subset
  <2> QED
    BY <1>1, <1>2, <2>2, <2>3
<1> HIDE DEF rank
<1>5. ASSUME NEW r \in S, NEW x \in S, rank[r] = rank[x] PROVE r = x
  <2>1. ~(rank[r] < rank[x]) /\ ~(rank[x] < rank[r])
    <3>1. rank[r] \in Nat
      BY <1>2
    <3> QED
      BY <3>1, <1>5
  <2> QED
    BY <1>3, <2>1, BeforeIsAnOrder
<1>6. rank \in Injection(S, 0..(n - 1))
  <2>1. rank \in [S -> 0..(n - 1)]
    BY <1>4 DEF rank
  <2> QED
    BY <1>5, <2>1 DEF Injection, IsInjective
<1>7. IsFiniteSet(0..(n - 1)) /\ Cardinality(0..(n - 1)) = n
  BY <1>1, FS_Interval
<1>8. rank \in Surjection(S, 0..(n - 1))
  BY <1>6, <1>7, FS_Injection
<1>9. \A i \in 1..n : \E r \in S : rank[r] = i - 1
  BY <1>1, <1>8 DEF Surjection
<1> DEFINE q == [i \in 1..n |-> CHOOSE r \in S : Cardinality(Ahead(r)) = i - 1]
<1>10. ASSUME NEW i \in 1..n PROVE q[i] \in S /\ rank[q[i]] = i - 1
  <2>1. PICK r \in S : Cardinality(Ahead(r)) = i - 1
    BY <1>2, <1>9
  <2>2. q[i] \in S /\ Cardinality(Ahead(q[i])) = i - 1
    <3> HIDE DEF Ahead
    <3> QED
      BY <2>1
  <2> QED
    BY <1>2, <2>2
<1>11. InOrder(sort, S) = q
  BY DEF InOrder
<1>12. q \in [1..n -> S]
  BY <1>10
<1> HIDE DEF q
<1>13. \A r \in S : \E i \in 1..n : q[i] = r
  <2>1. SUFFICES ASSUME NEW r \in S PROVE \E i \in 1..n : q[i] = r
    OBVIOUS
  <2>2. rank[r] + 1 \in 1..n /\ rank[r] = (rank[r] + 1) - 1
    BY <1>1, <1>4
  <2>3. rank[q[rank[r] + 1]] = rank[r] /\ q[rank[r] + 1] \in S
    BY <1>10, <2>2
  <2> QED
    BY <1>5, <2>2, <2>3
<1>14. \A i, j \in 1..n : i < j => Before(sort, q[i], q[j])
  <2>1. SUFFICES ASSUME NEW i \in 1..n, NEW j \in 1..n, i < j PROVE Before(sort, q[i], q[j])
    OBVIOUS
  <2>2. /\ q[i] \in S /\ q[j] \in S
        /\ rank[q[i]] = i - 1 /\ rank[q[j]] = j - 1
    BY <1>10
  <2>3. q[i] # q[j] /\ ~(rank[q[j]] < rank[q[i]])
    BY <1>1, <2>1, <2>2
  <2>4. ~Before(sort, q[j], q[i])
    BY <1>3, <2>2, <2>3
  <2> QED
    BY <2>2, <2>3, <2>4, BeforeIsAnOrder
<1> QED
  BY <1>1, <1>11, <1>12, <1>13, <1>14

\* The server's page: the first rows of the query beyond a cursor, each once, and
\* the cursor it goes on from.
LEMMA PageFacts ==
    ASSUME ListTyped, NEW q \in Queries, NEW from \in Cursors, IsOf(from, q)
    PROVE  LET p == PageOf(q, from)
           IN  /\ p \in Pages /\ p.read /\ IsOf(p.next, q)
               /\ IsInjective(p.rows)
               /\ p.next # NoCursor => p.rows # <<>> /\ Further(p.next, from)
               /\ IsWhole(p.rows, q, from, p.next, Rows)
<1> DEFINE S == {r \in Rows : Matches(q, r) /\ Beyond(from, r)}
           n == Cardinality(S)
           scan == InOrder(q.sort, S)
           p == PageOf(q, from)
<1>1. /\ S \in SUBSET Rows /\ n \in Nat
      /\ scan \in [1..n -> S]
      /\ \A r \in S : \E i \in 1..n : scan[i] = r
      /\ \A i, j \in 1..n : i < j => Before(q.sort, scan[i], scan[j])
  BY OrderOfRows
<1>2. ListLimit \in Nat /\ ListLimit > 0 /\ q.sort \in {"lastActivity", "grade"}
  <2>1. q.sort \in Sorts
    BY DEF Queries
  <2>2. q.sort \in {"lastActivity", "grade"}
    BY <2>1, ListAssumption
  <2> QED
    BY <2>2, ListAssumption
<1>3. NoCursor \in Cursors
  BY DEF NoCursor, Cursors
<1>4. /\ p = IF Len(scan) <= ListLimit THEN [rows |-> scan, next |-> NoCursor, read |-> TRUE]
            ELSE [rows |-> SubSeq(scan, 1, ListLimit), read |-> TRUE,
                  next |-> [sort |-> q.sort, value |-> Value(q.sort, BoundaryRow(scan)),
                            key |-> BoundaryRow(scan)]]
  BY DEF PageOf
<1>5. /\ \A r \in Rows : r \in S <=> Matches(q, r) /\ Beyond(from, r)
  OBVIOUS
<1> HIDE DEF S, n, scan, p
<1>6. scan \in Seq(Rows) /\ Len(scan) = n /\ DOMAIN scan = 1..n
  BY <1>1
<1>7. \A i \in 1..n : scan[i] \in S /\ scan[i] \in Rows
  BY <1>1
<1>8. \A i, j \in 1..n : scan[i] = scan[j] => i = j
  <2>1. SUFFICES ASSUME NEW i \in 1..n, NEW j \in 1..n, scan[i] = scan[j], i < j PROVE FALSE
    BY <1>1
  <2>2. Before(q.sort, scan[i], scan[i])
    BY <1>1, <2>1
  <2> QED
    BY <1>7, <2>2, BeforeIsAnOrder
<1>9. CASE n <= ListLimit
  <2>1. p = [rows |-> scan, next |-> NoCursor, read |-> TRUE]
    BY <1>4, <1>6, <1>9
  <2>2. \A r \in Rows : r \in ToSet(scan) <=> r \in S
    BY <1>1, <1>6, <1>7 DEF ToSet
  <2> QED
    BY <1>3, <1>5, <1>6, <1>8, <2>1, <2>2 DEF Pages, IsOf, IsInjective, IsWhole, p
<1>10. CASE ~(n <= ListLimit)
  <2> DEFINE L == ListLimit
             b == scan[L]
             head == SubSeq(scan, 1, L)
             next == [sort |-> q.sort, value |-> Value(q.sort, b), key |-> b]
  <2>1. L \in 1..n /\ b \in S /\ b \in Rows /\ b \in Nat /\ Value(q.sort, b) \in Nat
    BY <1>1, <1>2, <1>7, <1>10, BeforeIsAnOrder
  <2>2. p = [rows |-> head, read |-> TRUE, next |-> next]
    BY <1>4, <1>6, <1>10 DEF BoundaryRow
  <2>3. \A i \in 1..L : scan[i] \in Rows
    BY <1>1, <1>7, <2>1
  <2>4. head \in Seq(Rows) /\ Len(head) = L /\ DOMAIN head = 1..L /\ \A i \in 1..L : head[i] = scan[i]
    BY <1>2, <1>6, <2>1, <2>3
  <2>5. next \in Cursors /\ next # NoCursor /\ next.sort = q.sort
    BY <1>2, <2>1 DEF Cursors, NoCursor
  <2>6. IsInjective(head)
    BY <1>1, <1>8, <2>1, <2>4 DEF IsInjective
  <2>7. head # <<>>
    <3> HIDE DEF head
    <3> QED
      BY <1>2, <2>4
  <2>8. Further(next, from)
    <3>1. Beyond(from, b)
      BY <1>5, <2>1
    <3>2. from # NoCursor => from.sort = q.sort
      BY DEF IsOf
    <3> QED
      BY <3>1, <3>2 DEF Beyond, Further
  <2>9. \A r \in Rows : Beyond(next, r) <=> Before(q.sort, b, r)
    <3>1. SUFFICES ASSUME NEW r \in Rows PROVE Beyond(next, r) <=> Before(q.sort, b, r)
      OBVIOUS
    <3>2. Value(q.sort, r) \in Nat /\ r \in Nat
      BY BeforeIsAnOrder
    <3>3. Beyond(next, r) <=> \/ Value(q.sort, r) < Value(q.sort, b)
                              \/ Value(q.sort, r) = Value(q.sort, b) /\ r > b
      <4>1. next.sort = q.sort /\ next.value = Value(q.sort, b) /\ next.key = b
        OBVIOUS
      <4> HIDE DEF next
      <4> QED
        BY <2>5, <4>1 DEF Beyond
    <3> HIDE DEF next, b
    <3> QED
      BY <2>1, <3>2, <3>3 DEF Before
  <2>10. \A r \in Rows : r \in ToSet(head) <=> r \in S /\ ~Beyond(next, r)
    <3>1. SUFFICES ASSUME NEW r \in Rows PROVE r \in ToSet(head) <=> r \in S /\ ~Before(q.sort, b, r)
      BY <2>9
    <3>2. ASSUME r \in ToSet(head) PROVE r \in S /\ ~Before(q.sort, b, r)
      <4>1. PICK i \in 1..L : scan[i] = r
        BY <2>4, <3>2 DEF ToSet
      <4>2. i \in 1..n /\ (i = L \/ i < L)
        BY <1>1, <2>1
      <4>3. r = b \/ Before(q.sort, r, b)
        BY <1>1, <2>1, <4>1, <4>2
      <4> QED
        BY <1>7, <2>1, <4>1, <4>2, <4>3, BeforeIsAnOrder
    <3>3. ASSUME r \in S, ~Before(q.sort, b, r) PROVE r \in ToSet(head)
      <4>1. PICK i \in 1..n : scan[i] = r
        BY <1>1, <3>3
      <4>2. ~(L < i)
        BY <1>1, <2>1, <3>3, <4>1
      <4>3. i \in 1..L
        BY <1>1, <2>1, <4>2
      <4> QED
        BY <2>4, <4>1, <4>3 DEF ToSet
    <3> QED
      BY <3>2, <3>3
  <2>11. p \in Pages
    BY <2>2, <2>4, <2>5 DEF Pages
  <2>12. p.read /\ p.rows = head /\ p.next = next
    BY <2>2
  <2> HIDE DEF head, next
  <2>13. IsWhole(head, q, from, next, Rows)
    BY <1>5, <2>5, <2>10 DEF IsWhole
  <2> QED
    BY <2>5, <2>6, <2>7, <2>8, <2>11, <2>12, <2>13 DEF IsOf, p
<1> QED
  BY <1>9, <1>10

-----------------------------------------------------------------------------
(* The steps.                                                               *)

\* What load() begins with.
LEMMA FetchFacts ==
    ASSUME NEW mode \in {"replace", "append"}, NEW from \in Cursors, NEW q \in Queries, NEW gen \in Nat
    PROVE  LET f == Fetch(mode, from, q, gen)
           IN  /\ f \in Requests /\ f.mode = mode /\ f.from = from /\ f.query = q /\ f.gen = gen
               /\ ~f.page.read /\ f.page.next = NoCursor /\ NoCursor \in Cursors
<1>1. NoCursor \in Cursors
  BY DEF NoCursor, Cursors
<1>2. UnreadPage \in Pages /\ ~UnreadPage.read /\ UnreadPage.next = NoCursor
  <2>1. <<>> \in Seq(Rows)
    OBVIOUS
  <2> HIDE DEF Cursors
  <2> QED
    BY <1>1, <2>1 DEF UnreadPage, Pages
<1> QED
  BY <1>1, <1>2 DEF Fetch, Requests

LEMMA InitListInv == ListInit => ListInv
<1> SUFFICES ASSUME ListInit PROVE ListInv
  OBVIOUS
<1> DEFINE f == Fetch("replace", NoCursor, query, 1)
<1>1. /\ f \in Requests /\ f.mode = "replace" /\ f.from = NoCursor /\ f.query = query /\ f.gen = 1
      /\ ~f.page.read /\ f.page.next = NoCursor /\ NoCursor \in Cursors
  BY FetchFacts DEF ListInit, NoCursor, Cursors
<1>2. fetches = {f}
  BY DEF ListInit
<1> HIDE DEF f
<1>3. MaxActs \in Nat /\ Rows \subseteq Nat
  BY ListAssumption
<1>4. listRow \in [Rows -> RowRecord]
  BY <1>3 DEF ListInit, RowRecord
<1>5. ListTyped
  BY <1>1, <1>2, <1>3, <1>4 DEF ListInit, ListTyped, WellFormed, IsOf
<1>6. OneIsNewest
  BY <1>1, <1>2 DEF ListInit, OneIsNewest, Newest
<1>7. ShownFits
  BY DEF ListInit, ShownFits, IsInjective, Passed
<1>8. GoesOn(f) /\ PageFits(f)
  BY <1>1 DEF GoesOn, PageFits
<1> QED
  BY <1>2, <1>5, <1>6, <1>7, <1>8 DEF ListInv

\* A row that changes: the others stay, and nothing is less recent than it was.
LEMMA TouchedRows ==
    ASSUME ListTyped, NEW r \in Rows, Touch(r)
    PROVE  /\ listRow' \in [Rows -> RowRecord]
           /\ \A s \in Rows \ {r} : listRow'[s] = listRow[s]
           /\ \A s \in Rows : listRow[s].last <= listRow'[s].last
<1> DEFINE S == {listRow[s].last : s \in Rows}
<1>1. /\ listRow \in [Rows -> RowRecord]
      /\ \A s \in Rows : listRow[s].last \in Nat /\ listRow[s].grade \in 0..1
                         /\ listRow[s].runs \in BOOLEAN
  BY DEF ListTyped, RowRecord
<1>2. S \in SUBSET Nat /\ IsFiniteSet(S) /\ S # {}
  <2> DEFINE last == [s \in Rows |-> listRow[s].last]
  <2>1. last \in Surjection(Rows, S)
    BY DEF Surjection
  <2>2. IsFiniteSet(S)
    <3> HIDE DEF S, last
    <3> QED
      BY <2>1, FS_Surjection, ListAssumption
  <2> QED
    BY <1>1, <2>2
<1>3. Max(S) \in Nat /\ listRow[r].last <= Max(S)
  <2>1. listRow[r].last \in S
    OBVIOUS
  <2> HIDE DEF S
  <2> QED
    BY <1>2, <2>1, MaxIsLargest
<1>4. \/ listRow' = [listRow EXCEPT ![r].last = Max(S) + 1]
      \/ listRow' = [listRow EXCEPT ![r].grade = 1 - @]
      \/ listRow' = [listRow EXCEPT ![r].runs = ~@]
  BY DEF Touch
<1> HIDE DEF S
<1>5. CASE listRow' = [listRow EXCEPT ![r].last = Max(S) + 1]
  <2>1. [listRow[r] EXCEPT !.last = Max(S) + 1] \in RowRecord
    BY <1>1, <1>3 DEF RowRecord
  <2> QED
    BY <1>1, <1>3, <1>5, <2>1
<1>6. CASE listRow' = [listRow EXCEPT ![r].grade = 1 - @]
  <2>1. [listRow[r] EXCEPT !.grade = 1 - @] \in RowRecord
    <3>1. 1 - listRow[r].grade \in 0..1
      BY <1>1
    <3> QED
      BY <1>1, <3>1 DEF RowRecord
  <2> QED
    BY <1>1, <1>6, <2>1
<1>7. CASE listRow' = [listRow EXCEPT ![r].runs = ~@]
  <2>1. [listRow[r] EXCEPT !.runs = ~@] \in RowRecord
    BY <1>1 DEF RowRecord
  <2> QED
    BY <1>1, <1>7, <2>1
<1> QED
  BY <1>4, <1>5, <1>6, <1>7

\* What is whole for the rows that did not change stays so.
LEMMA WholeStays ==
    ASSUME NEW R \in SUBSET Rows, \A r \in R : listRow'[r] = listRow[r],
           NEW rows, NEW q, NEW from, NEW next, IsWhole(rows, q, from, next, R)
    PROVE  IsWhole(rows, q, from, next, R)'
  BY DEF IsWhole, Matches, Beyond, Value

\* A row that is passed stays so where values only rise.
LEMMA PassedStays ==
    ASSUME ListTyped, listRow' \in [Rows -> RowRecord],
           \A r \in Rows : listRow[r].last <= listRow'[r].last,
           NEW c \in Cursors, c = NoCursor \/ c.sort = "lastActivity",
           NEW R \in SUBSET Rows, Passed(c, R)
    PROVE  Passed(c, R)'
<1>1. SUFFICES ASSUME c # NoCursor, NEW r \in R PROVE ~Beyond(c, r)'
  BY DEF Passed
<1>2. ~Beyond(c, r) /\ c.sort = "lastActivity"
  BY <1>1 DEF Passed
<1>3. /\ listRow[r].last \in Nat /\ listRow'[r].last \in Nat
      /\ listRow[r].last <= listRow'[r].last /\ c.value \in Nat /\ c.key \in Nat /\ r \in Nat
  BY ListAssumption DEF ListTyped, RowRecord, Cursors
<1>4. ~(listRow[r].last < c.value) /\ ~(listRow[r].last = c.value /\ r > c.key)
  BY <1>2 DEF Beyond, Value
<1>5. ~(listRow'[r].last < c.value) /\ ~(listRow'[r].last = c.value /\ r > c.key)
  BY <1>3, <1>4
<1> QED
  BY <1>1, <1>2, <1>5 DEF Beyond, Value

LEMMA TouchStep == ASSUME ListInv, NEW r \in Rows, Touch(r) PROVE ListInv'
<1> DEFINE Told(f) == [f EXCEPT !.moved = IF f.page.read THEN @ \cup {r} ELSE @]
<1>1. /\ ListTyped /\ OneIsNewest /\ ShownFits
      /\ \A f \in fetches : GoesOn(f) /\ PageFits(f)
  BY DEF ListInv
<1>2. /\ listRow' \in [Rows -> RowRecord]
      /\ \A s \in Rows \ {r} : listRow'[s] = listRow[s]
      /\ \A s \in Rows : listRow[s].last <= listRow'[s].last
  BY <1>1, TouchedRows
<1>3. /\ moved' = moved \cup {r} /\ fetches' = {Told(f) : f \in fetches}
      /\ flags' = [flags EXCEPT !.changed = TRUE]
      /\ UNCHANGED <<query, generation, inFlight, listed, cursor>>
  BY DEF Touch
<1>4. ASSUME NEW f \in fetches
      PROVE  /\ Told(f) \in Requests
             /\ Told(f).mode = f.mode /\ Told(f).from = f.from /\ Told(f).query = f.query
             /\ Told(f).gen = f.gen /\ Told(f).page = f.page
             /\ Told(f).moved = IF f.page.read THEN f.moved \cup {r} ELSE f.moved
  BY <1>1 DEF ListTyped, Requests
<1> HIDE DEF Told
<1>5. ListTyped'
  <2>1. ASSUME NEW g \in fetches' PROVE g \in Requests /\ WellFormed(g)'
    <3>1. PICK f \in fetches : g = Told(f)
      BY <1>3
    <3> QED
      BY <1>1, <1>3, <1>4, <3>1 DEF ListTyped, WellFormed, IsOf
  <2> QED
    BY <1>1, <1>2, <1>3, <2>1 DEF ListTyped, IsOf
<1>6. OneIsNewest'
  <2>1. \A f \in fetches : Newest(Told(f))' <=> Newest(f)
    BY <1>3, <1>4 DEF Newest
  <2>2. \A g, h \in fetches' : Newest(g)' /\ Newest(h)' => g = h
    BY <1>1, <1>3, <2>1 DEF OneIsNewest
  <2>3. (\E g \in fetches' : Newest(g)') <=> \E f \in fetches : Newest(f)
    BY <1>3, <2>1
  <2>4. flags'.loading = flags.loading /\ flags'.more = flags.more
    BY <1>1, <1>3 DEF ListTyped
  <2> QED
    BY <1>1, <1>3, <2>2, <2>3, <2>4 DEF OneIsNewest
<1>7. cursor \in Cursors /\ (query.sort = "lastActivity" => cursor = NoCursor \/ cursor.sort = "lastActivity")
  BY <1>1 DEF ListTyped, IsOf
<1>8. ToSet(listed) \in SUBSET Rows
  BY <1>1 DEF ListTyped, ToSet
<1>9. ShownFits'
  <2>1. flags'.loading = flags.loading /\ flags'.error = flags.error
    BY <1>1, <1>3 DEF ListTyped
  <2>2. ASSUME listed # <<>> \/ (~flags.loading /\ ~flags.error)
        PROVE  IsWhole(listed, query, NoCursor, cursor, Rows \ moved)'
    <3>1. IsWhole(listed, query, NoCursor, cursor, Rows \ moved)
      BY <1>1, <2>2 DEF ShownFits
    <3> QED
      BY <1>2, <1>3, <3>1 DEF IsWhole, Matches, Beyond, Value
  <2>3. ASSUME query.sort = "lastActivity" PROVE Passed(cursor, ToSet(listed))'
    <3>1. Passed(cursor, ToSet(listed))
      BY <1>1, <2>3 DEF ShownFits
    <3>2. \A c \in Cursors : \A R \in SUBSET Rows :
             (c = NoCursor \/ c.sort = "lastActivity") /\ Passed(c, R) => Passed(c, R)'
      BY <1>1, <1>2, PassedStays
    <3> QED
      BY <1>3, <1>7, <1>8, <2>3, <3>1, <3>2 DEF Passed
  <2> QED
    BY <1>1, <1>3, <2>1, <2>2, <2>3 DEF ShownFits
<1>10. ASSUME NEW g \in fetches' PROVE GoesOn(g)' /\ PageFits(g)'
  <2>1. PICK f \in fetches : g = Told(f)
    BY <1>3
  <2>2. /\ g.mode = f.mode /\ g.from = f.from /\ g.query = f.query /\ g.gen = f.gen /\ g.page = f.page
        /\ g.moved = IF f.page.read THEN f.moved \cup {r} ELSE f.moved
    BY <1>4, <2>1
  <2>3. GoesOn(f) /\ PageFits(f) /\ (Newest(g)' <=> Newest(f))
    BY <1>1, <1>3, <2>2 DEF Newest
  <2>4. GoesOn(g)'
    BY <1>3, <2>2, <2>3 DEF GoesOn
  <2>5. ASSUME Newest(f), f.page.read PROVE PageFits(g)'
    <3>1. IsWhole(f.page.rows, f.query, f.from, f.page.next,
                  Rows \ (IF f.mode = "replace" THEN f.moved ELSE moved))
      BY <2>3, <2>5 DEF PageFits
    <3>2. IsWhole(g.page.rows, g.query, g.from, g.page.next,
                  Rows \ (IF g.mode = "replace" THEN g.moved ELSE moved))'
      BY <1>2, <1>3, <2>2, <2>5, <3>1 DEF IsWhole, Matches, Beyond, Value
    <3>3. ASSUME query.sort = "lastActivity"
          PROVE  Passed(g.page.next, ToSet(g.page.rows))'
      <4>1. Passed(f.page.next, ToSet(f.page.rows))
        BY <2>3, <2>5, <3>3 DEF PageFits
      <4>2. /\ f.page.next \in Cursors /\ f.page.rows \in Seq(Rows)
            /\ f.page.next = NoCursor \/ f.page.next.sort = "lastActivity"
        BY <1>1, <2>3, <2>5, <3>3 DEF ListTyped, Requests, Pages, WellFormed, GoesOn, IsOf
      <4>3. ToSet(f.page.rows) \in SUBSET Rows
        BY <4>2 DEF ToSet
      <4>4. \A c \in Cursors : \A R \in SUBSET Rows :
               (c = NoCursor \/ c.sort = "lastActivity") /\ Passed(c, R) => Passed(c, R)'
        BY <1>1, <1>2, PassedStays
      <4> QED
        BY <2>2, <4>1, <4>2, <4>3, <4>4 DEF Passed
    <3> QED
      BY <1>3, <2>2, <2>3, <2>5, <3>2, <3>3 DEF PageFits
  <2> QED
    BY <2>2, <2>3, <2>4, <2>5 DEF PageFits
<1> QED
  BY <1>5, <1>6, <1>9, <1>10 DEF ListInv

\* A list that is given up for another query or read anew: the new request is
\* the newest, and none before it is.
LEMMA NextGenerationFacts ==
    ASSUME ListTyped, NEW q \in Queries, NextGeneration(q)
    PROVE  /\ inFlight' /\ generation' \in 1..(MaxActs + 1)
           /\ fetches' \in SUBSET Requests
           /\ \A f \in fetches' : f.gen \in 1..generation'
           /\ \E f \in fetches' : f.gen = generation'
           /\ \A f \in fetches' :
                 IF f.gen = generation'
                 THEN /\ f = Fetch("replace", NoCursor, q, generation')
                      /\ f.mode = "replace" /\ f.from = NoCursor /\ f.query = q
                      /\ ~f.page.read /\ f.page.next = NoCursor
                 ELSE f \in fetches
<1> DEFINE f == Fetch("replace", NoCursor, q, generation + 1)
<1>1. generation \in Nat /\ MaxActs \in Nat /\ generation <= MaxActs /\ generation > 0
      /\ generation' = generation + 1 /\ fetches' = fetches \cup {f} /\ inFlight'
  BY ListAssumption DEF ListTyped, NextGeneration
<1>2. /\ f \in Requests /\ f.mode = "replace" /\ f.from = NoCursor /\ f.query = q
      /\ f.gen = generation + 1 /\ ~f.page.read /\ f.page.next = NoCursor
  BY <1>1, FetchFacts DEF NoCursor, Cursors
<1>3. \A g \in fetches : g \in Requests /\ g.gen \in 1..generation
  BY DEF ListTyped, WellFormed
<1>4. f = Fetch("replace", NoCursor, q, generation')
  BY <1>1
<1> HIDE DEF f
<1> QED
  BY <1>1, <1>2, <1>3, <1>4

LEMMA ChooseQueryStep == ASSUME ListInv, NEW q \in Queries, ChooseQuery(q) PROVE ListInv'
<1>1. /\ ListTyped /\ query' = q /\ NextGeneration(q) /\ listed' = <<>> /\ cursor' = NoCursor
      /\ moved' = {} /\ flags' = [flags EXCEPT !.loading = TRUE, !.changed = FALSE]
      /\ listRow' = listRow
  BY DEF ListInv, ChooseQuery, Cleared
<1>2. /\ inFlight' /\ generation' \in 1..(MaxActs + 1)
      /\ fetches' \in SUBSET Requests
      /\ \A f \in fetches' : f.gen \in 1..generation'
      /\ \E f \in fetches' : f.gen = generation'
      /\ \A f \in fetches' :
            IF f.gen = generation'
            THEN /\ f = Fetch("replace", NoCursor, q, generation')
                 /\ f.mode = "replace" /\ f.from = NoCursor /\ f.query = q
                 /\ ~f.page.read /\ f.page.next = NoCursor
            ELSE f \in fetches
  BY <1>1, NextGenerationFacts
<1>3. /\ flags' \in [loading : BOOLEAN, more : BOOLEAN, changed : BOOLEAN, error : BOOLEAN]
      /\ flags'.loading
  BY <1>1 DEF ListTyped
<1>4. NoCursor \in Cursors /\ <<>> \in Seq(Rows)
  BY DEF NoCursor, Cursors
<1>5. ListTyped'
  <2>1. \A f \in fetches' : WellFormed(f)'
    BY <1>1, <1>2 DEF ListTyped, WellFormed, IsOf
  <2>2. inFlight' \in BOOLEAN
    BY <1>1 DEF NextGeneration
  <2> QED
    BY <1>1, <1>2, <1>3, <1>4, <2>1, <2>2 DEF ListTyped, IsOf
<1>6. OneIsNewest'
  BY <1>2 DEF OneIsNewest, Newest
<1>7. ShownFits'
  BY <1>1, <1>3 DEF ShownFits, IsInjective, Passed
<1>8. \A f \in fetches' : GoesOn(f)' /\ PageFits(f)'
  BY <1>1, <1>2 DEF GoesOn, PageFits, Newest
<1> QED
  BY <1>5, <1>6, <1>7, <1>8 DEF ListInv

LEMMA ReloadStep == ASSUME ListInv, Reload PROVE ListInv'
<1>1. /\ ListTyped /\ ShownFits /\ NextGeneration(query)
      /\ UNCHANGED <<listRow, query, listed, cursor, flags, moved>>
  BY DEF ListInv, Reload
<1>2. query \in Queries
  BY <1>1 DEF ListTyped
<1>3. /\ inFlight' /\ generation' \in 1..(MaxActs + 1)
      /\ fetches' \in SUBSET Requests
      /\ \A f \in fetches' : f.gen \in 1..generation'
      /\ \E f \in fetches' : f.gen = generation'
      /\ \A f \in fetches' :
            IF f.gen = generation'
            THEN /\ f = Fetch("replace", NoCursor, query, generation')
                 /\ f.mode = "replace" /\ f.from = NoCursor /\ f.query = query
                 /\ ~f.page.read /\ f.page.next = NoCursor
            ELSE f \in fetches
  BY <1>1, <1>2, NextGenerationFacts
<1>4. ListTyped'
  <2>1. \A f \in fetches' : WellFormed(f)'
    BY <1>1, <1>3 DEF ListTyped, WellFormed, IsOf
  <2>2. inFlight' \in BOOLEAN
    BY <1>1 DEF NextGeneration
  <2> QED
    BY <1>1, <1>3, <2>1, <2>2 DEF ListTyped, IsOf
<1>5. OneIsNewest'
  BY <1>3 DEF OneIsNewest, Newest
<1>6. ShownFits'
  BY <1>1 DEF ShownFits, IsWhole, Matches, Passed, Beyond, Value
<1>7. \A f \in fetches' : GoesOn(f)' /\ PageFits(f)'
  BY <1>1, <1>3 DEF GoesOn, PageFits, Newest
<1> QED
  BY <1>4, <1>5, <1>6, <1>7 DEF ListInv

LEMMA LoadMoreStep == ASSUME ListInv, LoadMore PROVE ListInv'
<1> DEFINE f == Fetch("append", cursor, query, generation)
<1>1. /\ ListTyped /\ OneIsNewest /\ ShownFits
      /\ \A g \in fetches : GoesOn(g) /\ PageFits(g)
      /\ cursor # NoCursor /\ ~inFlight /\ inFlight' = TRUE
      /\ flags' = [flags EXCEPT !.more = TRUE] /\ fetches' = fetches \cup {f}
      /\ UNCHANGED <<listRow, query, generation, listed, cursor, moved>>
  BY DEF ListInv, LoadMore
<1>2. cursor \in Cursors /\ query \in Queries /\ generation \in Nat /\ generation > 0
  BY <1>1, ListAssumption DEF ListTyped
<1>3. /\ f \in Requests /\ f.mode = "append" /\ f.from = cursor /\ f.query = query
      /\ f.gen = generation /\ ~f.page.read /\ f.page.next = NoCursor
  BY <1>2, FetchFacts
<1> HIDE DEF f
<1>4. \A g \in fetches : ~Newest(g)
  BY <1>1 DEF OneIsNewest
<1>5. ListTyped'
  <2>1. flags' \in [loading : BOOLEAN, more : BOOLEAN, changed : BOOLEAN, error : BOOLEAN]
    BY <1>1 DEF ListTyped
  <2>2. \A g \in fetches' : WellFormed(g)'
    BY <1>1, <1>2, <1>3 DEF ListTyped, WellFormed, IsOf
  <2> QED
    BY <1>1, <1>3, <2>1, <2>2 DEF ListTyped, IsOf
<1>6. OneIsNewest'
  BY <1>1, <1>3, <1>4 DEF OneIsNewest, Newest
<1>7. ShownFits'
  <2>1. flags'.loading = flags.loading /\ flags'.error = flags.error
    BY <1>1 DEF ListTyped
  <2> QED
    BY <1>1, <2>1 DEF ShownFits, IsWhole, Matches, Passed, Beyond, Value
<1>8. ASSUME NEW g \in fetches' PROVE GoesOn(g)' /\ PageFits(g)'
  <2>1. CASE g = f
    BY <1>1, <1>3, <2>1 DEF GoesOn, PageFits, ShownFits
  <2>2. CASE g \in fetches
    BY <1>1, <1>4, <2>2 DEF GoesOn, PageFits, Newest
  <2> QED
    BY <1>1, <2>1, <2>2
<1> QED
  BY <1>5, <1>6, <1>7, <1>8 DEF ListInv

LEMMA ServerAnswersStep ==
    ASSUME ListInv, NEW f \in fetches, ServerAnswers(f) PROVE ListInv'
<1>1. PICK p : p = PageOf(f.query, f.from)
  OBVIOUS
<1>2. PICK h : h = [f EXCEPT !.page = p]
  OBVIOUS
<1>3. /\ ListTyped /\ OneIsNewest /\ ShownFits
      /\ \A g \in fetches : GoesOn(g) /\ PageFits(g)
      /\ fetches' = (fetches \ {f}) \cup {h}
      /\ UNCHANGED <<listRow, query, generation, inFlight, listed, cursor, flags, moved>>
  BY <1>1, <1>2 DEF ListInv, ServerAnswers
<1>4. f \in Requests /\ f.query \in Queries /\ f.from \in Cursors /\ WellFormed(f) /\ IsOf(f.from, f.query)
  BY <1>3 DEF ListTyped, WellFormed, Requests
<1>5. /\ p \in Pages /\ p.read /\ IsOf(p.next, f.query) /\ IsInjective(p.rows)
      /\ p.next # NoCursor => p.rows # <<>> /\ Further(p.next, f.from)
      /\ IsWhole(p.rows, f.query, f.from, p.next, Rows)
  BY <1>3, <1>4, <1>1, PageFacts
<1>6. /\ h \in Requests /\ h.page = p /\ h.mode = f.mode /\ h.from = f.from
      /\ h.query = f.query /\ h.gen = f.gen /\ h.moved = f.moved
  BY <1>4, <1>5, <1>2 DEF Requests
<1>7. ListTyped'
  <2>1. \A g \in fetches' : WellFormed(g)'
    BY <1>3, <1>4, <1>5, <1>6 DEF ListTyped, WellFormed, IsOf
  <2> QED
    BY <1>3, <1>6, <2>1 DEF ListTyped, IsOf
<1>8. OneIsNewest'
  BY <1>3, <1>6 DEF OneIsNewest, Newest
<1>9. ShownFits'
  BY <1>3 DEF ShownFits, IsWhole, Matches, Passed, Beyond, Value
<1>10. ASSUME NEW g \in fetches, g # f PROVE GoesOn(g)' /\ PageFits(g)'
  BY <1>3, <1>10 DEF GoesOn, PageFits, Newest, IsWhole, Matches, Passed, Beyond, Value
<1>11. GoesOn(h)'
  BY <1>3, <1>6 DEF GoesOn, Newest
<1>12. ASSUME Newest(f) PROVE PageFits(h)'
  <2>1. f.query = query /\ (f.mode = "append" => f.from = cursor /\ listed # <<>>)
    BY <1>3, <1>12 DEF GoesOn
  <2>2. p.rows \in Seq(Rows) /\ p.next \in Cursors /\ listed \in Seq(Rows)
    BY <1>3, <1>5 DEF Pages, ListTyped
  <2>3. ToSet(p.rows) \in SUBSET Rows /\ ToSet(listed) \in SUBSET Rows
    BY <2>2 DEF ToSet
  <2>4. Passed(p.next, ToSet(p.rows))
    BY <1>5, <2>3 DEF IsWhole, Passed
  <2>5. ASSUME query.sort = "lastActivity", f.mode = "append"
        PROVE  ToSet(p.rows) \cap ToSet(listed) = {}
    <3>1. SUFFICES ASSUME NEW r \in ToSet(p.rows), r \in ToSet(listed) PROVE FALSE
      OBVIOUS
    <3>2. Beyond(cursor, r)
      BY <1>5, <2>1, <2>3, <2>5, <3>1 DEF IsWhole
    <3>3. Passed(cursor, ToSet(listed)) /\ cursor # NoCursor
      BY <1>3, <1>4, <2>1, <2>5 DEF ShownFits, WellFormed
    <3> QED
      BY <3>1, <3>2, <3>3 DEF Passed
  <2>6. IsWhole(p.rows, f.query, f.from, p.next, Rows)'
    BY <1>3, <1>5 DEF IsWhole, Matches, Beyond, Value
  <2>7. Passed(p.next, ToSet(p.rows))'
    BY <1>3, <2>4 DEF Passed, Beyond, Value
  <2> QED
    BY <1>3, <1>5, <1>6, <2>1, <2>5, <2>6, <2>7 DEF PageFits, IsWhole
<1>13. PageFits(h)'
  BY <1>3, <1>6, <1>12 DEF PageFits, Newest
<1> QED
  BY <1>3, <1>7, <1>8, <1>9, <1>10, <1>11, <1>13 DEF ListInv

\* A request that is not the newest settles without a trace.
LEMMA OldSettles ==
    ASSUME ListInv, NEW f \in fetches, ~Newest(f), fetches' = fetches \ {f},
           UNCHANGED <<listRow, query, generation, inFlight, listed, cursor, flags, moved>>
    PROVE  ListInv'
<1>1. /\ ListTyped /\ OneIsNewest /\ ShownFits
      /\ \A g \in fetches : GoesOn(g) /\ PageFits(g)
  BY DEF ListInv
<1>2. ListTyped'
  BY <1>1 DEF ListTyped, WellFormed, IsOf
<1>3. OneIsNewest'
  BY <1>1 DEF OneIsNewest, Newest
<1>4. ShownFits'
  BY <1>1 DEF ShownFits, IsWhole, Matches, Passed, Beyond, Value
<1>5. \A g \in fetches' : GoesOn(g)' /\ PageFits(g)'
  BY <1>1 DEF GoesOn, PageFits, Newest, IsWhole, Matches, Passed, Beyond, Value
<1> QED
  BY <1>2, <1>3, <1>4, <1>5 DEF ListInv

\* The newest one leaves none, and the spinner stops.
LEMMA NewestSettles ==
    ASSUME ListInv, NEW f \in fetches, Newest(f), fetches' = fetches \ {f},
           inFlight' = FALSE, flags' \in [loading : BOOLEAN, more : BOOLEAN, changed : BOOLEAN, error : BOOLEAN],
           ~flags'.loading, ~flags'.more, UNCHANGED <<listRow, query, generation>>,
           listed' \in Seq(Rows), cursor' \in Cursors, IsOf(cursor', query), moved' \in SUBSET Rows,
           ShownFits'
    PROVE  ListInv'
<1>1. /\ ListTyped /\ OneIsNewest
  BY DEF ListInv
<1>2. ListTyped'
  BY <1>1 DEF ListTyped, WellFormed, IsOf
<1>3. \A g \in fetches' : ~Newest(g)'
  BY <1>1 DEF OneIsNewest, Newest
<1>4. OneIsNewest'
  BY <1>3 DEF OneIsNewest
<1>5. \A g \in fetches' : GoesOn(g)' /\ PageFits(g)'
  BY <1>3 DEF GoesOn, PageFits
<1> QED
  BY <1>2, <1>4, <1>5 DEF ListInv

LEMMA FetchFailsStep == ASSUME ListInv, NEW f \in fetches, FetchFails(f) PROVE ListInv'
<1>1. UNCHANGED <<listRow, query, generation, listed, cursor, moved>> /\ fetches' = fetches \ {f}
  BY DEF FetchFails, Finished
<1>2. CASE ~Newest(f)
  BY <1>1, <1>2, OldSettles DEF FetchFails, Finished
<1>3. CASE Newest(f)
  <2>1. inFlight' = FALSE /\ flags' = [[flags EXCEPT !.error = TRUE] EXCEPT !.loading = FALSE, !.more = FALSE]
    BY <1>3 DEF FetchFails, Finished
  <2>2. flags \in [loading : BOOLEAN, more : BOOLEAN, changed : BOOLEAN, error : BOOLEAN]
    BY DEF ListInv, ListTyped
  <2>3. /\ flags' \in [loading : BOOLEAN, more : BOOLEAN, changed : BOOLEAN, error : BOOLEAN]
        /\ ~flags'.loading /\ ~flags'.more /\ flags'.error
    BY <2>1, <2>2
  <2>4. ShownFits'
    BY <1>1, <2>3 DEF ListInv, ShownFits, IsWhole, Matches, Passed, Beyond, Value
  <2>5. listed' \in Seq(Rows) /\ cursor' \in Cursors /\ IsOf(cursor', query) /\ moved' \in SUBSET Rows
    BY <1>1 DEF ListInv, ListTyped, IsOf
  <2> QED
    BY <1>1, <1>3, <2>1, <2>3, <2>4, <2>5, NewestSettles
<1> QED
  BY <1>2, <1>3

LEMMA PageArrivesStep == ASSUME ListInv, NEW f \in fetches, PageArrives(f) PROVE ListInv'
<1>1. /\ UNCHANGED <<listRow, query, generation>> /\ fetches' = fetches \ {f} /\ f.page.read
  BY DEF PageArrives, Finished
<1>2. CASE ~Newest(f)
  BY <1>1, <1>2, OldSettles DEF PageArrives, Finished
<1>3. CASE Newest(f)
  <2> DEFINE rows == f.page.rows
             next == f.page.next
  <2>1. /\ inFlight' = FALSE
        /\ flags' = [[flags EXCEPT !.error = FALSE,
                                   !.changed = IF f.mode = "replace" THEN FALSE ELSE @]
                        EXCEPT !.loading = FALSE, !.more = FALSE]
        /\ listed' = IF f.mode = "append" THEN listed \o rows ELSE rows
        /\ cursor' = next
        /\ moved' = IF f.mode = "append" THEN moved ELSE f.moved
    BY <1>3 DEF PageArrives, Finished
  <2>2. /\ ListTyped /\ ShownFits /\ GoesOn(f) /\ PageFits(f) /\ WellFormed(f)
        /\ f \in Requests /\ f.page \in Pages
    BY DEF ListInv, ListTyped, Requests
  <2>3. /\ flags' \in [loading : BOOLEAN, more : BOOLEAN, changed : BOOLEAN, error : BOOLEAN]
        /\ ~flags'.loading /\ ~flags'.more
    BY <2>1, <2>2 DEF ListTyped
  <2>4. /\ rows \in Seq(Rows) /\ next \in Cursors /\ IsOf(next, query) /\ f.query = query
        /\ f.moved \in SUBSET Rows /\ f.mode \in {"replace", "append"}
    BY <1>3, <2>2 DEF Requests, Pages, WellFormed, GoesOn
  <2>5. /\ next # NoCursor => rows # <<>> /\ Further(next, f.from)
        /\ query.sort = "lastActivity" => IsInjective(rows) /\ Passed(next, ToSet(rows))
    BY <1>1, <1>3, <2>2 DEF PageFits
  <2>6. IsWhole(rows, query, f.from, next,
                Rows \ (IF f.mode = "replace" THEN f.moved ELSE moved))
    BY <1>1, <1>3, <2>2, <2>4 DEF PageFits
  <2>7. CASE f.mode = "replace"
    <3>1. f.from = NoCursor /\ listed' = rows /\ moved' = f.moved
      BY <2>1, <2>2, <2>7 DEF WellFormed
    <3>2. IsWhole(rows, query, NoCursor, next, Rows \ f.moved)
      BY <2>6, <2>7, <3>1
    <3>3. ShownFits'
      BY <1>1, <2>1, <2>5, <3>1, <3>2
         DEF ShownFits, IsWhole, Matches, Passed, Beyond, Value
    <3> QED
      BY <1>1, <1>3, <2>1, <2>3, <2>4, <3>1, <3>3, NewestSettles
  <2>8. CASE f.mode = "append"
    <3>1. /\ f.from = cursor /\ cursor # NoCursor /\ listed # <<>> /\ listed \in Seq(Rows)
          /\ moved' = moved /\ listed' = listed \o rows /\ moved \in SUBSET Rows /\ cursor \in Cursors
          /\ IsOf(cursor, query)
      BY <1>3, <2>1, <2>2, <2>8 DEF WellFormed, GoesOn, ListTyped
    <3>2. IsWhole(listed, query, NoCursor, cursor, Rows \ moved)
      BY <2>2, <3>1 DEF ShownFits
    <3>3. IsWhole(rows, query, cursor, next, Rows \ moved)
      BY <2>6, <2>8, <3>1
    <3>4. \A r \in Rows : Beyond(next, r) /\ next # NoCursor => Beyond(cursor, r)
      <4>1. SUFFICES ASSUME NEW r \in Rows, Beyond(next, r), next # NoCursor PROVE Beyond(cursor, r)
        OBVIOUS
      <4>2. next.sort = cursor.sort /\ (next.value < cursor.value \/ (next.value = cursor.value /\ next.key > cursor.key))
        BY <2>4, <2>5, <3>1, <4>1 DEF IsOf, Further
      <4>3. /\ next.value \in Nat /\ next.key \in Nat /\ cursor.value \in Nat /\ cursor.key \in Nat
            /\ r \in Nat /\ Value(next.sort, r) \in Nat
        <5>1. next.value \in Nat /\ next.key \in Nat
          BY <2>4, <4>1, ListAssumption DEF Cursors
        <5>2. cursor.value \in Nat /\ cursor.key \in Nat
          BY <3>1, ListAssumption DEF Cursors
        <5>3. r \in Nat /\ Value(next.sort, r) \in Nat
          BY <2>2, <4>1, ListAssumption DEF ListTyped, RowRecord, Value
        <5> QED
          BY <5>1, <5>2, <5>3
      <4>4. Value(next.sort, r) < next.value \/ (Value(next.sort, r) = next.value /\ r > next.key)
        BY <4>1 DEF Beyond
      <4> HIDE DEF next
      <4>5. Value(next.sort, r) < cursor.value \/ (Value(next.sort, r) = cursor.value /\ r > cursor.key)
        BY <4>2, <4>3, <4>4
      <4> QED
        BY <4>2, <4>5 DEF Beyond
    <3> DEFINE joined == listed \o rows
    <3>5. /\ joined \in Seq(Rows) /\ joined # <<>> /\ ToSet(joined) = ToSet(listed) \cup ToSet(rows)
          /\ Len(joined) = Len(listed) + Len(rows)
          /\ \A i \in 1..Len(joined) : joined[i] = IF i <= Len(listed) THEN listed[i] ELSE rows[i - Len(listed)]
      <4> HIDE DEF rows
      <4>1. /\ joined \in Seq(Rows) /\ Len(joined) = Len(listed) + Len(rows)
            /\ \A i \in 1..Len(joined) : joined[i] = IF i <= Len(listed) THEN listed[i] ELSE rows[i - Len(listed)]
        BY <2>4, <3>1
      <4>2. Len(listed) \in Nat /\ Len(rows) \in Nat /\ Len(listed) # 0
        BY <2>4, <3>1
      <4> HIDE DEF joined
      <4>3. joined # <<>>
        BY <4>1, <4>2
      <4>4. \A i \in 1..Len(listed) : i \in 1..Len(joined) /\ joined[i] = listed[i]
        BY <4>1, <4>2
      <4>5. \A i \in 1..Len(rows) : Len(listed) + i \in 1..Len(joined) /\ joined[Len(listed) + i] = rows[i]
        BY <4>1, <4>2
      <4>6. \A i \in 1..Len(joined) : \/ i \in 1..Len(listed) /\ joined[i] = listed[i]
                                      \/ i - Len(listed) \in 1..Len(rows) /\ joined[i] = rows[i - Len(listed)]
        BY <4>1, <4>2
      <4>7. /\ ToSet(joined) = {joined[i] : i \in 1..Len(joined)}
            /\ ToSet(listed) = {listed[i] : i \in 1..Len(listed)}
            /\ ToSet(rows) = {rows[i] : i \in 1..Len(rows)}
        <5>1. listed \in Seq(Rows) /\ rows \in Seq(Rows)
          BY <2>4, <3>1
        <5> QED
          BY <4>1, <5>1, MembersByPlace
      <4>8. ToSet(joined) = ToSet(listed) \cup ToSet(rows)
        BY <4>4, <4>5, <4>6, <4>7
      <4> QED
        BY <4>1, <4>3, <4>8
    <3>6. IsWhole(joined, query, NoCursor, next, Rows \ moved)
      <4>1. SUFFICES ASSUME NEW r \in Rows \ moved
                     PROVE  r \in ToSet(joined) <=> /\ Matches(query, r) /\ Beyond(NoCursor, r)
                                                    /\ next = NoCursor \/ ~Beyond(next, r)
        BY DEF IsWhole
      <4>2. r \in ToSet(joined) <=> r \in ToSet(listed) \/ r \in ToSet(rows)
        BY <3>5
      <4>3. Beyond(NoCursor, r)
        BY DEF Beyond
      <4>4. r \in ToSet(listed) <=> Matches(query, r) /\ ~Beyond(cursor, r)
        BY <3>1, <3>2, <4>1, <4>3 DEF IsWhole
      <4>5. r \in ToSet(rows) <=> /\ Matches(query, r) /\ Beyond(cursor, r)
                                  /\ next = NoCursor \/ ~Beyond(next, r)
        BY <3>3, <4>1 DEF IsWhole
      <4>6. next # NoCursor /\ Beyond(next, r) => Beyond(cursor, r)
        BY <3>4, <4>1
      <4> HIDE DEF joined, rows, next
      <4> QED
        BY <4>2, <4>3, <4>4, <4>5, <4>6
    <3>7. ASSUME query.sort = "lastActivity"
          PROVE  IsInjective(joined) /\ Passed(next, ToSet(joined))
      <4>1. /\ IsInjective(rows) /\ Passed(next, ToSet(rows)) /\ IsInjective(listed)
            /\ ToSet(rows) \cap ToSet(listed) = {} /\ Passed(cursor, ToSet(listed))
        BY <1>1, <1>3, <2>2, <2>8, <3>7 DEF PageFits, ShownFits
      <4>2. ToSet(listed) \in SUBSET Rows
        BY <3>1 DEF ToSet
      <4>3. Passed(next, ToSet(joined))
        BY <3>1, <3>4, <3>5, <4>1, <4>2 DEF Passed
      <4>4. ASSUME NEW i \in 1..Len(joined), NEW j \in 1..Len(joined), joined[i] = joined[j] PROVE i = j
        <5> HIDE DEF rows
        <5>1. /\ Len(listed) \in Nat /\ Len(rows) \in Nat
              /\ DOMAIN listed = 1..Len(listed) /\ DOMAIN rows = 1..Len(rows)
          BY <2>4, <3>1
        <5>2. \A a, b \in 1..Len(listed) : listed[a] = listed[b] => a = b
          BY <4>1, <5>1 DEF IsInjective
        <5>3. \A a, b \in 1..Len(rows) : rows[a] = rows[b] => a = b
          BY <4>1, <5>1 DEF IsInjective
        <5>4. \A a \in 1..Len(listed), b \in 1..Len(rows) : listed[a] # rows[b]
          BY <4>1, <5>1 DEF ToSet
        <5>5. \A a \in 1..Len(joined) :
                 \/ a \in 1..Len(listed) /\ joined[a] = listed[a]
                 \/ a - Len(listed) \in 1..Len(rows) /\ joined[a] = rows[a - Len(listed)]
          BY <3>5, <5>1
        <5> HIDE DEF joined
        <5>6. CASE i \in 1..Len(listed) /\ j \in 1..Len(listed)
                  /\ joined[i] = listed[i] /\ joined[j] = listed[j]
          BY <4>4, <5>2, <5>6
        <5>7. CASE /\ i - Len(listed) \in 1..Len(rows) /\ joined[i] = rows[i - Len(listed)]
                  /\ j - Len(listed) \in 1..Len(rows) /\ joined[j] = rows[j - Len(listed)]
          <6>1. i - Len(listed) = j - Len(listed)
            BY <4>4, <5>3, <5>7
          <6> QED
            BY <5>1, <6>1
        <5> QED
          BY <4>4, <5>4, <5>5, <5>6, <5>7
      <4>5. DOMAIN joined = 1..Len(joined)
        <5> HIDE DEF joined
        <5> QED
          BY <3>5
      <4> HIDE DEF joined
      <4> QED
        BY <4>3, <4>4, <4>5 DEF IsInjective
    <3>8. ShownFits'
      <4>1. IsWhole(joined, query, NoCursor, next, Rows \ moved) /\ joined # <<>>
        BY <3>5, <3>6
      <4>2. listed' = joined /\ cursor' = next /\ moved' = moved
        BY <2>1, <3>1
      <4> HIDE DEF joined, next
      <4> QED
        BY <1>1, <3>7, <4>1, <4>2 DEF ShownFits, IsWhole, Matches, Passed, Beyond, Value
    <3>9. listed' \in Seq(Rows)
      BY <3>1, <3>5
    <3> QED
      BY <1>1, <1>3, <2>1, <2>3, <2>4, <3>1, <3>8, <3>9, NewestSettles
  <2> QED
    BY <2>4, <2>7, <2>8
<1> QED
  BY <1>2, <1>3

-----------------------------------------------------------------------------
(* The theorems.                                                            *)

LEMMA NextListInv == ASSUME ListInv, [ListNext]_listVars PROVE ListInv'
<1>1. ASSUME NEW r \in Rows, Touch(r) PROVE ListInv'
  BY <1>1, TouchStep
<1>2. ASSUME NEW q \in Queries, ChooseQuery(q) PROVE ListInv'
  BY <1>2, ChooseQueryStep
<1>3. CASE Reload
  BY <1>3, ReloadStep
<1>4. CASE LoadMore
  BY <1>4, LoadMoreStep
<1>5. ASSUME NEW f \in fetches, ServerAnswers(f) PROVE ListInv'
  BY <1>5, ServerAnswersStep
<1>6. ASSUME NEW f \in fetches, PageArrives(f) PROVE ListInv'
  BY <1>6, PageArrivesStep
<1>7. ASSUME NEW f \in fetches, FetchFails(f) PROVE ListInv'
  BY <1>7, FetchFailsStep
<1>8. CASE UNCHANGED listVars
  BY <1>8 DEF ListInv, listVars, ListTyped, OneIsNewest, ShownFits, GoesOn, PageFits, WellFormed, IsOf,
              Newest, IsWhole, Matches, Passed, Beyond, Value
<1> QED
  BY <1>1, <1>2, <1>3, <1>4, <1>5, <1>6, <1>7, <1>8 DEF ListNext

LEMMA ListInvHolds == ListSpec => []ListInv
<1>1. ListInit => ListInv
  BY InitListInv
<1>2. ListInv /\ [ListNext]_listVars => ListInv'
  BY NextListInv
<1> QED
  BY <1>1, <1>2, PTL DEF ListSpec

\* The state of the list is typed, and its cursor is one of its query.
THEOREM ListsTyped == ListSpec => []ListTypeOK
<1>1. ListInv => ListTypeOK
  <2>1. SUFFICES ASSUME ListInv PROVE ListTypeOK
    OBVIOUS
  <2>2. ListTyped
    BY <2>1 DEF ListInv
  <2>3. \A r \in Rows : listRow[r].grade \in 0..1 /\ listRow[r].runs \in BOOLEAN
    BY <2>2 DEF ListTyped, RowRecord
  <2>4. ToSet(listed) \subseteq Rows
    BY <2>2 DEF ListTyped, ToSet
  <2>5. cursor.sort \in {"none", query.sort}
    BY <2>2 DEF ListTyped, IsOf, NoCursor
  <2>6. \A f \in fetches : f.gen \in 1..generation
    BY <2>2 DEF ListTyped, WellFormed
  <2>7. \A name \in DOMAIN flags : flags[name] \in BOOLEAN
    BY <2>2 DEF ListTyped
  <2> QED
    BY <2>2, <2>3, <2>4, <2>5, <2>6, <2>7 DEF ListTypeOK, ListTyped
<1> QED
  BY <1>1, ListInvHolds, PTL

\* However rows move between two pages and answers overtake each other, no row is
\* shown twice where values only rise, the list is whole down to its cursor, and
\* it says that it is loading only while it is (usePagedQuery, listSessionsPage).
THEOREM ListSound == ListSpec => []ListIsSound
<1>1. ListInv => ListIsSound
  <2>1. SUFFICES ASSUME ListInv PROVE ListIsSound
    OBVIOUS
  <2>2. ListTyped /\ OneIsNewest /\ ShownFits
    BY <2>1 DEF ListInv
  <2>3. NoRowTwice
    BY <2>2 DEF ShownFits, NoRowTwice
  <2>4. ListIsWhole
    BY <2>2 DEF ShownFits, ListIsWhole, IsWhole, Beyond
  <2>5. SpinnerIsReal
    <3>1. inFlight = (\E f \in fetches : Newest(f))
      BY <2>2 DEF OneIsNewest, ListTyped
    <3>2. flags.loading \/ flags.more => \E f \in fetches : Newest(f)
      BY <2>2 DEF OneIsNewest
    <3>3. ASSUME listed = <<>>, ~flags.loading, ~flags.error, moved = {}, NEW r \in Rows
          PROVE  ~Matches(query, r)
      <4>1. IsWhole(listed, query, NoCursor, cursor, Rows \ moved) /\ cursor = NoCursor
        BY <2>2, <3>3 DEF ShownFits
      <4>2. r \notin ToSet(listed)
        BY <3>3 DEF ToSet
      <4> QED
        BY <3>3, <4>1, <4>2 DEF IsWhole, Beyond
    <3> QED
      BY <3>1, <3>2, <3>3 DEF SpinnerIsReal
  <2> QED
    BY <2>3, <2>4, <2>5 DEF ListIsSound
<1> QED
  BY <1>1, ListInvHolds, PTL

-----------------------------------------------------------------------------
(* The page of a session: the invariant.                                    *)

Letters == [key : PanelSessions, n : Nat \ {0}]

PanelRequests ==
    [what : {"facts", "load", "extend", "search"}, key : PanelSessions, tag : Nat, after : Nat,
     term : Terms \cup {Empty}, read : BOOLEAN, got : Seq(Letters), at : Nat]

PanelStates ==
    [on : BOOLEAN, loaded : BOOLEAN, messages : Seq(Letters), synced : Nat, error : BOOLEAN,
     loadingMore : BOOLEAN]

Boxes ==
    [query : Terms \cup {Empty}, effect : Nat, timer : BOOLEAN, searching : BOOLEAN,
     result : [of : Terms \cup {Empty}, key : PanelSessions \cup {NoSession}, upto : Nat],
     failed : Terms \cup {Empty}]

PanelShape ==
    /\ archived \in [PanelSessions -> 0..MaxArchived] /\ factsAt \in Nat /\ unheard \in BOOLEAN
    /\ openKey \in PanelSessions /\ detailGen \in Nat /\ mounts \in Nat
    /\ detail \in [key : PanelSessions \cup {NoSession}, at : Nat]
    /\ panel \in PanelStates /\ box \in Boxes
    /\ reads \in Seq(PanelRequests) /\ Len(reads) <= MaxReads

\* The numbers of a list of messages.
Numbers(letters) == {letters[k].n : k \in DOMAIN letters}

\* The facts shown are the page's, and no newer than there are; a panel that is
\* not there holds nothing, and one that has not loaded shows nothing.
PageHolds ==
    /\ detail.key \in {openKey, NoSession} /\ detail.at <= factsAt
    /\ panel.on => detail.key = openKey
    /\ ~panel.on => panel = Unmounted /\ box = EmptyBox
    /\ ~panel.loaded => panel.messages = <<>>
    /\ \A k \in DOMAIN panel.messages : panel.messages[k].key = openKey
    /\ \A n \in Numbers(panel.messages) : 1..n \subseteq Numbers(panel.messages)

\* The reading whose answer will be the page's facts.
AwaitedFacts(r) == r.what = "facts" /\ NewestFacts(r)

AwaitedText(r) == r.what = "load" /\ OfThisPanel(r)

FactsHold(r) ==
    r.what = "facts" =>
        /\ r.tag <= detailGen
        /\ NewestFacts(r) => r.key = openKey /\ (r.read => detail.at <= r.at /\ r.at <= factsAt)

\* What a request that was sent from the panel on the screen will bring to it.
TextHolds(r) ==
    /\ r.what # "facts" => r.tag <= mounts /\ (OfThisPanel(r) => r.key = openKey)
    /\ r.what \in {"load", "extend"} =>
         \A k \in DOMAIN r.got : r.got[k].key = r.key /\ r.got[k].n = r.after + k
    /\ AwaitedText(r) => r.after = 0 /\ ~panel.loaded
    /\ r.what = "extend" /\ OfThisPanel(r) =>
         panel.loaded /\ 1..r.after \subseteq Numbers(panel.messages)
    /\ r.what = "search" /\ OfThisPanel(r) =>
         r.after <= box.effect /\ (r.after = box.effect => r.term = box.query)

ReadsHold == \A k \in DOMAIN reads : FactsHold(reads[k]) /\ TextHolds(reads[k])

\* No two readings would both be taken for the page's first.
OneOfAKind ==
    \A j, k \in DOMAIN reads :
        \/ AwaitedFacts(reads[j]) /\ AwaitedFacts(reads[k])
        \/ AwaitedText(reads[j]) /\ AwaitedText(reads[k])
        => j = k

PanelInv == PanelShape /\ PageHolds /\ ReadsHold /\ OneOfAKind /\ SearchIsOfTheBox

\* What is true of a request under way.
LEMMA RequestUnderWay ==
    ASSUME PanelInv, NEW k \in DOMAIN reads
    PROVE  /\ k \in 1..Len(reads) /\ reads[k] \in PanelRequests
           /\ FactsHold(reads[k]) /\ TextHolds(reads[k])
<1>1. reads \in Seq(PanelRequests)
  BY DEF PanelInv, PanelShape
<1>2. reads[k] \in PanelRequests /\ k \in 1..Len(reads)
  BY <1>1
<1> QED
  BY <1>2 DEF PanelInv, ReadsHold

\* A request as it is sent.
LEMMA SendingFields ==
    ASSUME NEW what \in {"facts", "load", "extend", "search"}, NEW key \in PanelSessions
    PROVE  LET m == Sending(what, key)
           IN /\ m \in PanelRequests /\ m.what = what /\ m.key = key /\ m.after = 0
              /\ m.read = FALSE /\ m.got = <<>>
<1> DEFINE m == Sending(what, key)
<1>1. m = [what |-> what, key |-> key, tag |-> 0, after |-> 0, term |-> Empty, read |-> FALSE,
           got |-> <<>>, at |-> 0]
  BY DEF Sending
<1>2. <<>> \in Seq(Letters) /\ FALSE \in BOOLEAN
  OBVIOUS
<1> QED
  BY <1>1, <1>2 DEF PanelRequests

LEMMA UnmountedIsTyped ==
    /\ Unmounted \in PanelStates /\ Unmounted.on = FALSE /\ Unmounted.loaded = FALSE
    /\ Unmounted.messages = <<>>
    /\ EmptyBox \in Boxes /\ EmptyBox.result = NoResult /\ EmptyBox.searching = FALSE
  BY DEF Unmounted, EmptyBox, NoResult, PanelStates, Boxes

LEMMA FactsFields ==
    ASSUME NEW gen \in Nat, openKey \in PanelSessions
    PROVE  /\ Facts(gen) \in PanelRequests /\ Facts(gen).what = "facts" /\ Facts(gen).key = openKey
           /\ Facts(gen).tag = gen /\ Facts(gen).read = FALSE /\ Facts(gen).got = <<>>
<1> DEFINE m == Sending("facts", openKey)
<1>1. m \in PanelRequests /\ m.what = "facts" /\ m.key = openKey /\ m.read = FALSE /\ m.got = <<>>
  BY SendingFields
<1> HIDE DEF m
<1>2. Facts(gen) = [m EXCEPT !.tag = gen]
  BY DEF m, Facts
<1> QED
  BY <1>1, <1>2 DEF PanelRequests

LEMMA PanelInitInv == PanelInit => PanelInv
<1> SUFFICES ASSUME PanelInit PROVE PanelInv
  OBVIOUS
<1> USE PanelAssumption
<1>1. Facts(1) \in PanelRequests /\ Facts(1).what = "facts" /\ Facts(1).tag = 1
      /\ Facts(1).key = openKey /\ Facts(1).read = FALSE /\ Facts(1).got = <<>>
  <2>1. openKey \in PanelSessions
    BY DEF PanelInit
  <2>2. 1 \in Nat /\ "facts" \in {"facts", "load", "extend", "search"}
    OBVIOUS
  <2> QED
    BY <2>1, <2>2, FactsFields
<1>2. reads = <<Facts(1)>> /\ reads \in Seq(PanelRequests) /\ Len(reads) = 1 /\ DOMAIN reads = {1}
      /\ reads[1] = Facts(1)
  BY <1>1 DEF PanelInit
<1>3. panel \in PanelStates /\ box \in Boxes /\ panel.on = FALSE /\ panel.messages = <<>>
      /\ box.result = NoResult /\ box.searching = FALSE
  BY DEF PanelInit, Unmounted, EmptyBox, NoResult, PanelStates, Boxes
<1>4. PanelShape
  <2>1. archived \in [PanelSessions -> 0..MaxArchived]
    BY DEF PanelInit
  <2>2. detail \in [key : PanelSessions \cup {NoSession}, at : Nat]
    BY DEF PanelInit, NoDetail
  <2>3. /\ factsAt \in Nat /\ unheard \in BOOLEAN /\ openKey \in PanelSessions
        /\ detailGen \in Nat /\ mounts \in Nat
    BY DEF PanelInit
  <2> QED
    BY <1>2, <1>3, <2>1, <2>2, <2>3 DEF PanelShape
<1>5. PageHolds
  BY <1>3 DEF PageHolds, PanelInit, NoDetail, Numbers
<1>6. ReadsHold
  BY <1>1, <1>2 DEF ReadsHold, FactsHold, TextHolds, AwaitedText, PanelInit, NewestFacts
<1>7. OneOfAKind
  BY <1>2 DEF OneOfAKind
<1>8. SearchIsOfTheBox
  BY <1>3 DEF SearchIsOfTheBox
<1> QED
  BY <1>4, <1>5, <1>6, <1>7, <1>8 DEF PanelInv

-----------------------------------------------------------------------------
(* The requests under way: one more, one less.                              *)

\* Where the request that is number i when number k has gone was before.
WasAt(k, i) == IF i < k THEN i ELSE i + 1

LEMMA WasAtPlaces ==
    ASSUME NEW n \in Nat, NEW k \in 1..n
    PROVE  /\ \A i \in 1..(n - 1) : WasAt(k, i) \in 1..n /\ WasAt(k, i) # k
           /\ \A i, j \in 1..(n - 1) : WasAt(k, i) = WasAt(k, j) => i = j
           /\ \A j \in 1..n : j # k => \E i \in 1..(n - 1) : WasAt(k, i) = j
<1>1. \A i \in 1..(n - 1) : WasAt(k, i) \in 1..n /\ WasAt(k, i) # k
  BY DEF WasAt
<1>2. \A i, j \in 1..(n - 1) : WasAt(k, i) = WasAt(k, j) => i = j
  BY DEF WasAt
<1>3. ASSUME NEW j \in 1..n, j # k PROVE \E i \in 1..(n - 1) : WasAt(k, i) = j
  <2>1. CASE j < k
    <3>1. j \in 1..(n - 1) /\ WasAt(k, j) = j
      BY <2>1 DEF WasAt
    <3> QED
      BY <3>1
  <2>2. CASE j > k
    <3>1. j - 1 \in 1..(n - 1) /\ WasAt(k, j - 1) = j
      BY <2>2 DEF WasAt
    <3> QED
      BY <3>1
  <2> QED
    BY <1>3, <2>1, <2>2
<1> QED
  BY <1>1, <1>2, <1>3

LEMMA JoinedPlaces ==
    ASSUME NEW S, NEW a \in Seq(S), NEW b \in Seq(S)
    PROVE  /\ DOMAIN (a \o b) = 1..(Len(a) + Len(b))
           /\ \A j \in 1..Len(a) : (a \o b)[j] = a[j]
           /\ \A j \in 1..Len(b) : (a \o b)[Len(a) + j] = b[j]
<1>1. Len(a) \in Nat /\ Len(b) \in Nat
  OBVIOUS
<1>2. Len(a \o b) = Len(a) + Len(b) /\ a \o b \in Seq(S)
  BY ConcatProperties
<1>3. \A i \in 1..(Len(a) + Len(b)) : (a \o b)[i] = IF i <= Len(a) THEN a[i] ELSE b[i - Len(a)]
  BY ConcatProperties
<1>4. ASSUME NEW j \in 1..Len(a) PROVE (a \o b)[j] = a[j]
  BY <1>1, <1>3
<1>5. ASSUME NEW j \in 1..Len(b) PROVE (a \o b)[Len(a) + j] = b[j]
  <2>1. /\ Len(a) + j \in 1..(Len(a) + Len(b)) /\ ~(Len(a) + j <= Len(a))
        /\ (Len(a) + j) - Len(a) = j
    BY <1>1
  <2> QED
    BY <1>3, <2>1
<1> QED
  BY <1>2, <1>4, <1>5

LEMMA OneLess ==
    ASSUME NEW S, NEW s \in Seq(S), NEW k \in 1..Len(s)
    PROVE  /\ RemoveAt(s, k) \in Seq(S) /\ Len(RemoveAt(s, k)) = Len(s) - 1
           /\ \A i \in 1..(Len(s) - 1) : RemoveAt(s, k)[i] = s[WasAt(k, i)]
<1> DEFINE a == SubSeq(s, 1, k - 1)
           b == SubSeq(s, k + 1, Len(s))
<1>1. a \in Seq(S) /\ Len(a) = k - 1 /\ \A i \in 1..(k - 1) : a[i] = s[i]
  OBVIOUS
<1>2. b \in Seq(S) /\ Len(b) = Len(s) - k /\ \A i \in 1..(Len(s) - k) : b[i] = s[k + i]
  OBVIOUS
<1>3. RemoveAt(s, k) = a \o b
  BY DEF RemoveAt
<1> HIDE DEF a, b
<1>4. a \o b \in Seq(S) /\ Len(a \o b) = Len(s) - 1
  BY <1>1, <1>2
<1>5. ASSUME NEW i \in 1..(Len(s) - 1) PROVE (a \o b)[i] = s[WasAt(k, i)]
  <2>1. CASE i < k
    <3>1. (a \o b)[i] = a[i]
      BY <1>1, <1>2, <2>1
    <3> QED
      BY <1>1, <2>1, <3>1 DEF WasAt
  <2>3. i < k \/ i >= k
    OBVIOUS
  <2>2. CASE i >= k
    <3>1. (a \o b)[i] = b[i - (k - 1)]
      BY <1>1, <1>2, <2>2
    <3>2. i - (k - 1) \in 1..(Len(s) - k) /\ k + (i - (k - 1)) = i + 1
      BY <2>2
    <3>3. b[i - (k - 1)] = s[k + (i - (k - 1))]
      BY <1>2, <3>2
    <3> QED
      BY <2>2, <3>1, <3>2, <3>3 DEF WasAt
  <2> QED
    BY <2>1, <2>2, <2>3
<1> QED
  BY <1>3, <1>4, <1>5

\* An answer has been handled: the others stay, in their order.
LEMMA AnswerGone ==
    ASSUME PanelInv, NEW k \in DOMAIN reads, Arrived(k)
    PROVE  /\ reads' \in Seq(PanelRequests) /\ Len(reads') <= MaxReads
           /\ \A i \in DOMAIN reads' :
                /\ WasAt(k, i) \in DOMAIN reads /\ WasAt(k, i) # k
                /\ reads'[i] = reads[WasAt(k, i)]
           /\ \A i, j \in DOMAIN reads' : WasAt(k, i) = WasAt(k, j) => i = j
           /\ \A j \in DOMAIN reads : j # k => \E i \in DOMAIN reads' : reads'[i] = reads[j]
<1>1. reads \in Seq(PanelRequests) /\ Len(reads) <= MaxReads /\ Len(reads) \in Nat /\ k \in 1..Len(reads)
      /\ DOMAIN reads = 1..Len(reads)
  BY DEF PanelInv, PanelShape
<1>2. /\ reads' \in Seq(PanelRequests) /\ Len(reads') = Len(reads) - 1
      /\ \A i \in 1..(Len(reads) - 1) : reads'[i] = reads[WasAt(k, i)]
  BY <1>1, OneLess DEF Arrived
<1>3. DOMAIN reads' = 1..(Len(reads) - 1) /\ Len(reads') <= MaxReads
  BY <1>1, <1>2, PanelAssumption
<1>4. /\ \A i \in 1..(Len(reads) - 1) : WasAt(k, i) \in 1..Len(reads) /\ WasAt(k, i) # k
      /\ \A i, j \in 1..(Len(reads) - 1) : WasAt(k, i) = WasAt(k, j) => i = j
      /\ \A j \in 1..Len(reads) : j # k => \E i \in 1..(Len(reads) - 1) : WasAt(k, i) = j
  BY <1>1, WasAtPlaces
<1>5. ASSUME NEW j \in DOMAIN reads, j # k PROVE \E i \in DOMAIN reads' : reads'[i] = reads[j]
  <2>1. PICK i \in 1..(Len(reads) - 1) : WasAt(k, i) = j
    BY <1>1, <1>4, <1>5
  <2> QED
    BY <1>2, <1>3, <2>1
<1> QED
  BY <1>1, <1>2, <1>3, <1>4, <1>5

\* A request is sent: it is the last, the others stay.
LEMMA RequestSent ==
    ASSUME PanelInv, NEW r \in PanelRequests, Room(1), reads' = Append(reads, r)
    PROVE  /\ reads' \in Seq(PanelRequests) /\ Len(reads') <= MaxReads
           /\ DOMAIN reads' = DOMAIN reads \cup {Len(reads) + 1}
           /\ Len(reads) + 1 \notin DOMAIN reads /\ reads'[Len(reads) + 1] = r
           /\ \A i \in DOMAIN reads : reads'[i] = reads[i]
<1>1. reads \in Seq(PanelRequests) /\ Len(reads) \in Nat
  BY DEF PanelInv, PanelShape
<1>2. Len(reads') = Len(reads) + 1 /\ Len(reads) + 1 <= MaxReads
  BY <1>1 DEF Room
<1> QED
  BY <1>1, <1>2

-----------------------------------------------------------------------------
(* The page of a session: the steps.                                        *)

\* What the page and its requests are held against has not changed.
LEMMA NothingElseStep ==
    ASSUME PanelInv, archived' \in [PanelSessions -> 0..MaxArchived], unheard' \in BOOLEAN,
           UNCHANGED <<factsAt, openKey, detail, detailGen, panel, mounts, box, reads>>
    PROVE  PanelInv'
<1>1. PanelShape'
  BY DEF PanelInv, PanelShape
<1>2. PageHolds'
  BY DEF PanelInv, PageHolds, Numbers
<1>3. ReadsHold'
  BY DEF PanelInv, ReadsHold, FactsHold, TextHolds, AwaitedText, NewestFacts, OfThisPanel, Numbers
<1>4. OneOfAKind'
  BY DEF PanelInv, OneOfAKind, AwaitedFacts, AwaitedText, NewestFacts, OfThisPanel
<1>5. SearchIsOfTheBox'
  BY DEF PanelInv, SearchIsOfTheBox, Aborted, OfThisPanel
<1> QED
  BY <1>1, <1>2, <1>3, <1>4, <1>5 DEF PanelInv

LEMMA ArchivesStep == ASSUME PanelInv, NEW s \in PanelSessions, Archives(s) PROVE PanelInv'
<1>1. archived \in [PanelSessions -> 0..MaxArchived] /\ archived[s] < MaxArchived
  BY DEF PanelInv, PanelShape, Archives
<1>2. archived[s] + 1 \in 0..MaxArchived
  BY <1>1, PanelAssumption
<1>3. archived' \in [PanelSessions -> 0..MaxArchived] /\ unheard' \in BOOLEAN
  BY <1>1, <1>2 DEF Archives
<1> QED
  BY <1>3, NothingElseStep DEF Archives

\* extend: whoever calls it, it asks for what follows the last message shown.
LEMMA ExtendStep ==
    ASSUME PanelInv, CanExtend, Room(1), reads' = Append(reads, Extend),
           panel' = [panel EXCEPT !.loadingMore = TRUE], unheard' \in BOOLEAN,
           UNCHANGED <<archived, factsAt, openKey, detail, detailGen, mounts, box>>
    PROVE  PanelInv'
<1>1. /\ openKey \in PanelSessions /\ mounts \in Nat /\ panel \in PanelStates
      /\ reads \in Seq(PanelRequests)
  BY DEF PanelInv, PanelShape
<1>2. panel.messages \in Seq(Letters) /\ panel.messages # <<>> /\ panel.on /\ panel.loaded
  BY <1>1 DEF PanelStates, CanExtend
<1> DEFINE last == Last(panel.messages)
           m == Sending("extend", openKey)
<1>3. last.n \in Nat /\ 1..last.n \subseteq Numbers(panel.messages)
  <2>1. Len(panel.messages) \in DOMAIN panel.messages /\ last = panel.messages[Len(panel.messages)]
    BY <1>2 DEF Last
  <2>2. last \in Letters
    BY <1>2, <2>1
  <2>3. last.n \in Numbers(panel.messages)
    BY <2>1 DEF Numbers
  <2> QED
    BY <2>2, <2>3 DEF PanelInv, PageHolds, Letters
<1>4. m \in PanelRequests /\ m.what = "extend" /\ m.key = openKey /\ m.read = FALSE /\ m.got = <<>>
  BY <1>1, SendingFields
<1>5. Extend = [m EXCEPT !.tag = mounts, !.after = last.n]
  BY DEF Extend
<1> HIDE DEF m, last
<1>6. /\ Extend \in PanelRequests /\ Extend.what = "extend" /\ Extend.key = openKey
      /\ Extend.tag = mounts /\ Extend.after = last.n /\ Extend.read = FALSE /\ Extend.got = <<>>
  BY <1>1, <1>3, <1>4, <1>5 DEF PanelRequests
<1>7. /\ reads' \in Seq(PanelRequests) /\ Len(reads') <= MaxReads
      /\ DOMAIN reads' = DOMAIN reads \cup {Len(reads) + 1}
      /\ Len(reads) + 1 \notin DOMAIN reads /\ reads'[Len(reads) + 1] = Extend
      /\ \A i \in DOMAIN reads : reads'[i] = reads[i]
  BY <1>6, RequestSent
<1>8. /\ panel' \in PanelStates /\ panel'.on = panel.on /\ panel'.loaded = panel.loaded
      /\ panel'.messages = panel.messages
  BY <1>1 DEF PanelStates
<1>9. PanelShape'
  BY <1>7, <1>8 DEF PanelInv, PanelShape
<1>10. PageHolds'
  BY <1>2, <1>8 DEF PanelInv, PageHolds, Numbers
<1>11. ASSUME NEW k \in DOMAIN reads' PROVE (FactsHold(reads[k]) /\ TextHolds(reads[k]))'
  <2>1. CASE k = Len(reads) + 1
    <3>1. reads'[k] = Extend /\ Numbers(panel.messages)' = Numbers(panel.messages)
      BY <1>7, <1>8, <2>1 DEF Numbers
    <3>2. Extend.got = <<>> /\ DOMAIN Extend.got = {}
      BY <1>6
    <3> QED
      BY <1>1, <1>2, <1>3, <1>6, <1>8, <3>1, <3>2
         DEF FactsHold, TextHolds, AwaitedText, NewestFacts, OfThisPanel
  <2>2. CASE k \in DOMAIN reads
    <3>1. reads'[k] = reads[k] /\ FactsHold(reads[k]) /\ TextHolds(reads[k])
      BY <1>7, <2>2, RequestUnderWay
    <3> QED
      BY <1>8, <3>1 DEF FactsHold, TextHolds, AwaitedText, NewestFacts, OfThisPanel, Numbers
  <2> QED
    BY <1>7, <2>1, <2>2
<1>12. OneOfAKind'
  BY <1>6, <1>7, <1>8 DEF PanelInv, OneOfAKind, AwaitedFacts, AwaitedText, NewestFacts, OfThisPanel
<1>13. SearchIsOfTheBox'
  BY <1>7, <1>8 DEF PanelInv, SearchIsOfTheBox, Aborted, OfThisPanel
<1> QED
  BY <1>9, <1>10, <1>11, <1>12, <1>13 DEF PanelInv, ReadsHold

LEMMA HandlesMessagesStep == ASSUME PanelInv, HandlesMessages PROVE PanelInv'
<1>0. archived \in [PanelSessions -> 0..MaxArchived]
  BY DEF PanelInv, PanelShape
<1>1. CASE ~CanExtend /\ UNCHANGED <<panel, reads>>
  BY <1>0, <1>1, NothingElseStep DEF HandlesMessages
<1>2. CASE /\ CanExtend /\ Room(1) /\ reads' = Append(reads, Extend)
           /\ panel' = [panel EXCEPT !.loadingMore = TRUE]
  BY <1>2, ExtendStep DEF HandlesMessages
<1> QED
  BY <1>1, <1>2 DEF HandlesMessages

LEMMA LoadsMoreStep == ASSUME PanelInv, LoadsMore PROVE PanelInv'
<1>1. unheard \in BOOLEAN
  BY DEF PanelInv, PanelShape
<1> QED
  BY <1>1, ExtendStep DEF LoadsMore

\* A reading of the facts is sent, of whatever session the page is of now, with a
\* generation of its own; the page keeps its panel, or has none now.
LEMMA FactsSentStep ==
    ASSUME PanelInv, NEW r \in PanelRequests, Room(1), reads' = Append(reads, r),
           r.what = "facts", r.key = openKey', r.tag = detailGen', r.read = FALSE, r.got = <<>>,
           detailGen' = detailGen + 1, factsAt' \in Nat, factsAt' >= factsAt,
           openKey' \in PanelSessions, UNCHANGED <<archived, unheard, mounts>>,
           \/ UNCHANGED <<openKey, detail, panel, box>>
           \/ detail' = NoDetail /\ panel' = Unmounted /\ box' = EmptyBox
    PROVE  PanelInv'
<1>1. /\ detailGen \in Nat /\ factsAt \in Nat /\ mounts \in Nat /\ reads \in Seq(PanelRequests)
      /\ detail \in [key : PanelSessions \cup {NoSession}, at : Nat]
  BY DEF PanelInv, PanelShape
<1>2. /\ reads' \in Seq(PanelRequests) /\ Len(reads') <= MaxReads
      /\ DOMAIN reads' = DOMAIN reads \cup {Len(reads) + 1}
      /\ Len(reads) + 1 \notin DOMAIN reads /\ reads'[Len(reads) + 1] = r
      /\ \A i \in DOMAIN reads : reads'[i] = reads[i]
  BY RequestSent
<1>3. /\ NoDetail \in [key : PanelSessions \cup {NoSession}, at : Nat] /\ NoDetail.key = NoSession
      /\ NoDetail.at = 0
  BY DEF NoDetail
<1>4. /\ Unmounted \in PanelStates /\ Unmounted.on = FALSE /\ Unmounted.loaded = FALSE
      /\ Unmounted.messages = <<>>
      /\ EmptyBox \in Boxes /\ EmptyBox.result = NoResult /\ EmptyBox.searching = FALSE
  BY UnmountedIsTyped
<1>5. PanelShape'
  BY <1>1, <1>2, <1>3, <1>4 DEF PanelInv, PanelShape
<1>6. PageHolds'
  BY <1>1, <1>3, <1>4 DEF PanelInv, PageHolds, Numbers
<1>7. ASSUME NEW k \in DOMAIN reads' PROVE (FactsHold(reads[k]) /\ TextHolds(reads[k]))'
  <2>1. CASE k = Len(reads) + 1
    <3>1. reads'[k] = r /\ DOMAIN r.got = {}
      BY <1>2, <2>1
    <3> QED
      BY <1>1, <3>1 DEF FactsHold, TextHolds, AwaitedText, NewestFacts
  <2>2. CASE k \in DOMAIN reads
    <3>1. /\ reads'[k] = reads[k] /\ FactsHold(reads[k]) /\ TextHolds(reads[k])
          /\ reads[k] \in PanelRequests
      BY <1>2, <2>2, RequestUnderWay
    <3>2. FactsHold(reads[k])'
      <4>1. reads[k].what = "facts" => reads[k].tag <= detailGen
        BY <3>1 DEF FactsHold
      <4>2. reads[k].tag \in Nat
        BY <3>1 DEF PanelRequests
      <4>3. reads[k].what = "facts" => reads[k].tag <= detailGen' /\ reads[k].tag # detailGen'
        BY <1>1, <4>1, <4>2
      <4> QED
        BY <3>1, <4>3 DEF FactsHold, NewestFacts
    <3>3. TextHolds(reads[k])'
      <4>1. CASE UNCHANGED <<openKey, panel, box>>
        BY <3>1, <4>1 DEF TextHolds, AwaitedText, OfThisPanel, Numbers
      <4>2. CASE panel' = Unmounted
        BY <1>4, <3>1, <4>2 DEF TextHolds, AwaitedText, OfThisPanel
      <4> QED
        BY <4>1, <4>2
    <3> QED
      BY <3>2, <3>3
  <2> QED
    BY <1>2, <2>1, <2>2
<1>8. OneOfAKind'
  <2>1. ASSUME NEW k \in DOMAIN reads PROVE ~AwaitedFacts(reads[k])'
    <3>1. /\ reads'[k] = reads[k] /\ FactsHold(reads[k]) /\ reads[k] \in PanelRequests
      BY <1>2, RequestUnderWay
    <3> QED
      BY <1>1, <3>1 DEF FactsHold, AwaitedFacts, NewestFacts, PanelRequests
  <2>2. \A k \in DOMAIN reads : AwaitedText(reads[k])' => AwaitedText(reads[k])
    BY <1>2, <1>4 DEF AwaitedText, OfThisPanel
  <2>3. ASSUME NEW k \in DOMAIN reads', k \notin DOMAIN reads
        PROVE  k = Len(reads) + 1 /\ ~AwaitedText(reads[k])'
    BY <1>2, <2>3 DEF AwaitedText
  <2>4. \A j, k \in DOMAIN reads : AwaitedText(reads[j]) /\ AwaitedText(reads[k]) => j = k
    BY DEF PanelInv, OneOfAKind
  <2>5. ASSUME NEW j \in DOMAIN reads', NEW k \in DOMAIN reads',
               AwaitedFacts(reads[j])', AwaitedFacts(reads[k])'
        PROVE  j = k
    BY <2>1, <2>3, <2>5
  <2>6. ASSUME NEW j \in DOMAIN reads', NEW k \in DOMAIN reads',
               AwaitedText(reads[j])', AwaitedText(reads[k])'
        PROVE  j = k
    BY <2>2, <2>3, <2>4, <2>6
  <2> QED
    BY <2>5, <2>6 DEF OneOfAKind
<1>9. SearchIsOfTheBox'
  <2>1. CASE UNCHANGED <<openKey, panel, box>>
    BY <1>2, <2>1 DEF PanelInv, SearchIsOfTheBox, Aborted, OfThisPanel
  <2>2. CASE panel' = Unmounted /\ box' = EmptyBox
    BY <1>4, <2>2 DEF SearchIsOfTheBox
  <2> QED
    BY <2>1, <2>2
<1> QED
  BY <1>5, <1>6, <1>7, <1>8, <1>9 DEF PanelInv, ReadsHold

LEMMA FactsChangeStep == ASSUME PanelInv, FactsChange PROVE PanelInv'
<1>1. detailGen \in Nat /\ factsAt \in Nat /\ openKey \in PanelSessions
  BY DEF PanelInv, PanelShape
<1>0. detailGen + 1 \in Nat
  BY <1>1
<1> DEFINE r == Facts(detailGen + 1)
<1>2. /\ r \in PanelRequests /\ r.what = "facts" /\ r.key = openKey /\ r.tag = detailGen + 1
      /\ r.read = FALSE /\ r.got = <<>>
  BY <1>0, <1>1, FactsFields
<1>3. factsAt' \in Nat /\ factsAt' >= factsAt /\ openKey' \in PanelSessions /\ openKey' = openKey
      /\ detailGen' = detailGen + 1
  BY <1>1 DEF FactsChange
<1>4. reads' = Append(reads, r)
  BY DEF FactsChange
<1> HIDE DEF r
<1> QED
  BY <1>2, <1>3, <1>4, FactsSentStep DEF FactsChange

LEMMA FollowStep == ASSUME PanelInv, NEW s \in PanelSessions, Follow(s) PROVE PanelInv'
<1>1. detailGen \in Nat /\ factsAt \in Nat /\ openKey \in PanelSessions
  BY DEF PanelInv, PanelShape
<1>0. detailGen + 1 \in Nat
  BY <1>1
<1> DEFINE m == Facts(detailGen + 1)
           r == [m EXCEPT !.key = s]
<1>2. /\ m \in PanelRequests /\ m.what = "facts" /\ m.tag = detailGen + 1 /\ m.read = FALSE
      /\ m.got = <<>>
  BY <1>0, <1>1, FactsFields
<1>3. reads' = Append(reads, r)
  BY DEF Follow
<1> HIDE DEF m
<1>4. /\ r \in PanelRequests /\ r.what = "facts" /\ r.key = s /\ r.tag = detailGen + 1
      /\ r.read = FALSE /\ r.got = <<>>
  BY <1>2 DEF PanelRequests
<1>5. factsAt' \in Nat /\ factsAt' >= factsAt /\ openKey' \in PanelSessions /\ openKey' = s
      /\ detailGen' = detailGen + 1
  BY <1>1 DEF Follow
<1> HIDE DEF r
<1> QED
  BY <1>3, <1>4, <1>5, FactsSentStep DEF Follow

\* What the archive answers: the messages that follow, numbered on.
LEMMA PageAfterFits ==
    ASSUME PanelInv, NEW s \in PanelSessions, NEW n \in Nat
    PROVE  /\ PageAfter(s, n) \in Seq(Letters)
           /\ \A j \in DOMAIN PageAfter(s, n) :
                PageAfter(s, n)[j].key = s /\ PageAfter(s, n)[j].n = n + j
<1> DEFINE m == IF archived[s] - n < PanelPage THEN archived[s] - n ELSE PanelPage
           len == IF m < 0 THEN 0 ELSE m
           letters == [j \in 1..len |-> [key |-> s, n |-> n + j]]
<1>1. archived[s] \in Nat
  BY PanelAssumption DEF PanelInv, PanelShape
<1>2. m \in Int /\ len \in Nat
  BY <1>1, PanelAssumption
<1>3. 1..m = 1..len
  BY <1>2
<1>4. PageAfter(s, n) = [j \in 1..m |-> [key |-> s, n |-> n + j]]
  BY DEF PageAfter
<1>5. PageAfter(s, n) = letters
  BY <1>3, <1>4
<1> HIDE DEF m, len
<1>6. \A j \in 1..len : [key |-> s, n |-> n + j] \in Letters
  BY <1>2 DEF Letters
<1>7. letters \in [1..len -> Letters] /\ DOMAIN letters = 1..len
  BY <1>6
<1>8. letters \in Seq(Letters)
  BY <1>2, <1>7
<1> QED
  BY <1>5, <1>7, <1>8

LEMMA PanelServesStep == ASSUME PanelInv, NEW k \in DOMAIN reads, PanelServes(k) PROVE PanelInv'
<1> DEFINE r == reads[k]
           q == Reading(r)
<1>1. r \in PanelRequests /\ k \in 1..Len(reads) /\ FactsHold(r) /\ TextHolds(r)
  BY RequestUnderWay
<1>2. /\ reads \in Seq(PanelRequests) /\ archived \in [PanelSessions -> 0..MaxArchived]
      /\ factsAt \in Nat /\ detail.at <= factsAt
      /\ detail \in [key : PanelSessions \cup {NoSession}, at : Nat]
  BY DEF PanelInv, PanelShape, PageHolds
<1>3. r.key \in PanelSessions /\ r.after \in Nat
  BY <1>1 DEF PanelRequests
<1> DEFINE got == IF r.what \in {"load", "extend"} THEN PageAfter(r.key, r.after) ELSE <<>>
           at == IF r.what = "facts" THEN factsAt ELSE archived[r.key]
<1>4. /\ got \in Seq(Letters)
      /\ r.what \in {"load", "extend"} =>
           \A j \in DOMAIN got : got[j].key = r.key /\ got[j].n = r.after + j
  <2>1. CASE r.what \in {"load", "extend"}
    <3>1. got = PageAfter(r.key, r.after)
      BY <2>1
    <3> HIDE DEF got, r
    <3> QED
      BY <1>3, <3>1, PageAfterFits
  <2>2. CASE r.what \notin {"load", "extend"}
    BY <2>2
  <2> QED
    BY <2>1, <2>2
<1>5. at \in Nat
  BY <1>2, <1>3, PanelAssumption
<1>6. q = [r EXCEPT !.read = TRUE, !.got = got, !.at = at]
  BY DEF Reading
<1>7. r.what = "facts" => at = factsAt
  OBVIOUS
<1>8. reads' = [reads EXCEPT ![k] = q]
  BY DEF PanelServes
<1> HIDE DEF got, at, q
<1>9. /\ q \in PanelRequests /\ q.what = r.what /\ q.key = r.key /\ q.tag = r.tag
      /\ q.after = r.after /\ q.term = r.term /\ q.got = got /\ q.at = at
  BY <1>1, <1>4, <1>5, <1>6 DEF PanelRequests
<1> HIDE DEF r
<1>10. /\ reads' \in Seq(PanelRequests) /\ Len(reads') = Len(reads) /\ DOMAIN reads' = DOMAIN reads
       /\ reads'[k] = q /\ \A i \in DOMAIN reads : i # k => reads'[i] = reads[i]
  BY <1>1, <1>2, <1>8, <1>9
<1>11. \A i \in DOMAIN reads :
          /\ reads'[i].what = reads[i].what /\ reads'[i].key = reads[i].key
          /\ reads'[i].tag = reads[i].tag /\ reads'[i].after = reads[i].after
          /\ reads'[i].term = reads[i].term
  BY <1>9, <1>10 DEF r
<1>12. UNCHANGED <<archived, factsAt, unheard, openKey, detail, detailGen, panel, mounts, box>>
  BY DEF PanelServes
<1>13. PanelShape'
  BY <1>10, <1>12 DEF PanelInv, PanelShape
<1>14. PageHolds'
  BY <1>12 DEF PanelInv, PageHolds, Numbers
<1>15. ASSUME NEW i \in DOMAIN reads' PROVE (FactsHold(reads[i]) /\ TextHolds(reads[i]))'
  <2>1. CASE i = k
    <3>1. reads'[i] = q
      BY <1>10, <2>1
    <3>2. FactsHold(reads[i])'
      BY <3>1, <1>1, <1>2, <1>7, <1>9, <1>12 DEF FactsHold, NewestFacts
    <3>3. TextHolds(reads[i])'
      BY <3>1, <1>1, <1>4, <1>9, <1>12 DEF TextHolds, AwaitedText, OfThisPanel, Numbers
    <3> QED
      BY <3>2, <3>3
  <2>2. CASE i # k
    <3>1. reads'[i] = reads[i] /\ FactsHold(reads[i]) /\ TextHolds(reads[i])
      BY <1>10, <2>2, RequestUnderWay
    <3> QED
      BY <1>12, <3>1 DEF FactsHold, TextHolds, AwaitedText, NewestFacts, OfThisPanel, Numbers
  <2> QED
    BY <2>1, <2>2
<1>16. OneOfAKind'
  BY <1>10, <1>11, <1>12
     DEF PanelInv, OneOfAKind, AwaitedFacts, AwaitedText, NewestFacts, OfThisPanel
<1>17. SearchIsOfTheBox'
  BY <1>10, <1>11, <1>12 DEF PanelInv, SearchIsOfTheBox, Aborted, OfThisPanel
<1> QED
  BY <1>13, <1>14, <1>15, <1>16, <1>17 DEF PanelInv, ReadsHold

\* An answer that changes neither the facts, nor the text, nor what is searched for.
LEMMA AnswerLeaves ==
    ASSUME PanelInv, NEW k \in DOMAIN reads, Arrived(k),
           UNCHANGED <<archived, factsAt, unheard, openKey, detail, detailGen, mounts>>,
           panel' \in PanelStates, panel'.on = panel.on, panel'.loaded = panel.loaded,
           panel'.messages = panel.messages, box' \in Boxes, box'.query = box.query,
           box'.effect = box.effect, ~panel.on => panel' = panel /\ box' = box
    PROVE  PanelShape' /\ PageHolds' /\ ReadsHold' /\ OneOfAKind'
<1>1. PanelShape'
  BY AnswerGone DEF PanelInv, PanelShape
<1>2. PageHolds'
  BY DEF PanelInv, PageHolds, Numbers
<1>3. ASSUME NEW i \in DOMAIN reads' PROVE (FactsHold(reads[i]) /\ TextHolds(reads[i]))'
  <2>1. WasAt(k, i) \in DOMAIN reads /\ reads'[i] = reads[WasAt(k, i)]
    BY AnswerGone
  <2>2. FactsHold(reads[WasAt(k, i)]) /\ TextHolds(reads[WasAt(k, i)])
    BY <2>1, RequestUnderWay
  <2>3. Numbers(panel.messages)' = Numbers(panel.messages)
    BY DEF Numbers
  <2> QED
    BY <2>1, <2>2, <2>3 DEF FactsHold, TextHolds, AwaitedText, NewestFacts, OfThisPanel
<1>4. OneOfAKind'
  <2>1. /\ \A i \in DOMAIN reads' :
              WasAt(k, i) \in DOMAIN reads /\ reads'[i] = reads[WasAt(k, i)]
        /\ \A i, j \in DOMAIN reads' : WasAt(k, i) = WasAt(k, j) => i = j
    BY AnswerGone
  <2> QED
    BY <2>1 DEF PanelInv, OneOfAKind, AwaitedFacts, AwaitedText, NewestFacts, OfThisPanel
<1> QED
  BY <1>1, <1>2, <1>3, <1>4 DEF ReadsHold

\* The search that is being made is still being made when another answer has come.
LEMMA SearchGoesOn ==
    ASSUME PanelInv, NEW k \in DOMAIN reads, Arrived(k), UNCHANGED <<openKey, mounts, box>>,
           panel'.on = panel.on, reads[k].what # "search" \/ Aborted(reads[k])
    PROVE  SearchIsOfTheBox'
<1>1. \A j \in DOMAIN reads : j # k => \E i \in DOMAIN reads' : reads'[i] = reads[j]
  BY AnswerGone
<1> QED
  BY <1>1 DEF PanelInv, SearchIsOfTheBox, Aborted, OfThisPanel

\* The facts of the page: its panel is mounted with them, and asks for its first page.
LEMMA FactsArriveStep ==
    ASSUME PanelInv, NEW k \in DOMAIN reads, FactsArrive(k, reads[k])
    PROVE  PanelInv'
<1> DEFINE r == reads[k]
<1>1. r \in PanelRequests /\ k \in 1..Len(reads) /\ FactsHold(r) /\ TextHolds(r)
  BY RequestUnderWay
<1>2. r.what = "facts" /\ r.read
  BY DEF FactsArrive
<1>3. /\ panel \in PanelStates /\ box \in Boxes /\ mounts \in Nat /\ detailGen \in Nat
      /\ reads \in Seq(PanelRequests) /\ openKey \in PanelSessions
      /\ detail \in [key : PanelSessions \cup {NoSession}, at : Nat] /\ factsAt \in Nat
  BY DEF PanelInv, PanelShape
<1>4. UNCHANGED <<archived, factsAt, unheard, openKey, detailGen>>
  BY DEF FactsArrive
<1>5. CASE ~NewestFacts(r) /\ Arrived(k) /\ UNCHANGED <<detail, panel, mounts, box>>
  BY <1>2, <1>3, <1>4, <1>5, AnswerLeaves, SearchGoesOn DEF PanelInv
<1>6. CASE NewestFacts(r) /\ detail' = [key |-> r.key, at |-> r.at]
  <2>1. /\ r.key = openKey /\ detail.at <= r.at /\ r.at <= factsAt /\ r.at \in Nat
    BY <1>1, <1>2, <1>6 DEF FactsHold, PanelRequests
  <2>2. /\ detail' \in [key : PanelSessions \cup {NoSession}, at : Nat] /\ detail'.key = openKey
        /\ detail'.at <= factsAt
    BY <1>3, <1>6, <2>1
  <2>3. ASSUME NEW j \in DOMAIN reads, j # k PROVE ~AwaitedFacts(reads[j])
    BY <1>2, <1>6, <2>3 DEF PanelInv, OneOfAKind, AwaitedFacts
  <2>4. CASE panel.on /\ Arrived(k) /\ UNCHANGED <<panel, mounts, box>>
    <3>1. /\ reads' \in Seq(PanelRequests) /\ Len(reads') <= MaxReads
          /\ \A i \in DOMAIN reads' :
               /\ WasAt(k, i) \in DOMAIN reads /\ WasAt(k, i) # k
               /\ reads'[i] = reads[WasAt(k, i)]
          /\ \A i, j \in DOMAIN reads' : WasAt(k, i) = WasAt(k, j) => i = j
      BY <2>4, AnswerGone
    <3>2. PanelShape'
      BY <1>4, <2>2, <2>4, <3>1 DEF PanelInv, PanelShape
    <3>3. PageHolds'
      <4>1. PageHolds /\ panel' = panel /\ box' = box /\ openKey' = openKey /\ factsAt' = factsAt
        BY <1>4, <2>4 DEF PanelInv
      <4>2. Numbers(panel.messages)' = Numbers(panel.messages)
        BY <4>1 DEF Numbers
      <4> QED
        BY <2>2, <4>1, <4>2 DEF PageHolds
    <3>4. ASSUME NEW i \in DOMAIN reads' PROVE (FactsHold(reads[i]) /\ TextHolds(reads[i]))'
      <4>1. WasAt(k, i) \in DOMAIN reads /\ reads'[i] = reads[WasAt(k, i)]
            /\ ~AwaitedFacts(reads[WasAt(k, i)])
        BY <2>3, <3>1
      <4>2. FactsHold(reads[WasAt(k, i)]) /\ TextHolds(reads[WasAt(k, i)])
        BY <4>1, RequestUnderWay
      <4>3. FactsHold(reads[i])'
        BY <1>4, <4>1, <4>2 DEF FactsHold, NewestFacts, AwaitedFacts
      <4>4. TextHolds(reads[i])'
        BY <2>4, <1>4, <4>1, <4>2 DEF TextHolds, AwaitedText, OfThisPanel, Numbers
      <4> QED
        BY <4>3, <4>4
    <3>5. OneOfAKind'
      BY <1>4, <2>4, <3>1 DEF PanelInv, OneOfAKind, AwaitedFacts, AwaitedText, NewestFacts, OfThisPanel
    <3>6. SearchIsOfTheBox'
      BY <1>2, <1>4, <2>4, SearchGoesOn
    <3> QED
      BY <3>2, <3>3, <3>4, <3>5, <3>6 DEF PanelInv, ReadsHold
  <2>5. CASE /\ ~panel.on /\ mounts' = mounts + 1 /\ box' = EmptyBox
             /\ panel' = [Unmounted EXCEPT !.on = TRUE]
             /\ reads' = [reads EXCEPT ![k] = [Sending("load", r.key) EXCEPT !.tag = mounts + 1]]
    <3> DEFINE m == Sending("load", r.key)
               q == [m EXCEPT !.tag = mounts + 1]
    <3>1. /\ m \in PanelRequests /\ m.what = "load" /\ m.key = r.key /\ m.after = 0
          /\ m.read = FALSE /\ m.got = <<>>
      BY <1>3, <2>1, SendingFields
    <3>2. reads' = [reads EXCEPT ![k] = q]
      BY <2>5
    <3> HIDE DEF m
    <3>3. /\ q \in PanelRequests /\ q.what = "load" /\ q.key = openKey /\ q.after = 0
          /\ q.tag = mounts + 1 /\ q.got = <<>>
      <4>1. mounts + 1 \in Nat
        BY <1>3
      <4>2. q \in PanelRequests
        BY <3>1, <4>1 DEF PanelRequests
      <4>3. q.what = m.what /\ q.key = m.key /\ q.after = m.after /\ q.got = m.got
            /\ q.tag = mounts + 1
        BY <3>1 DEF PanelRequests
      <4> QED
        BY <2>1, <3>1, <4>2, <4>3
    <3> HIDE DEF q
    <3>4. /\ reads' \in Seq(PanelRequests) /\ Len(reads') = Len(reads) /\ DOMAIN reads' = DOMAIN reads
          /\ reads'[k] = q /\ \A i \in DOMAIN reads : i # k => reads'[i] = reads[i]
      BY <1>1, <1>3, <3>2, <3>3
    <3>5. /\ panel' \in PanelStates /\ panel'.on /\ ~panel'.loaded /\ panel'.messages = <<>>
      BY <2>5, UnmountedIsTyped DEF PanelStates
    <3>6. box' \in Boxes /\ box'.query = Empty /\ box'.result = NoResult /\ ~box'.searching
      BY <2>5, UnmountedIsTyped DEF EmptyBox
    <3>7. PanelShape'
      BY <1>3, <1>4, <2>2, <2>5, <3>4, <3>5, <3>6 DEF PanelInv, PanelShape
    <3>8. PageHolds'
      BY <1>4, <2>2, <3>5 DEF PageHolds, Numbers
    <3>9. ASSUME NEW i \in DOMAIN reads, i # k
          PROVE  /\ reads'[i] = reads[i] /\ FactsHold(reads[i]) /\ TextHolds(reads[i])
                 /\ reads[i].tag \in Nat /\ ~AwaitedFacts(reads[i])
      BY <2>3, <3>4, <3>9, RequestUnderWay DEF PanelRequests
    <3>10. ASSUME NEW i \in DOMAIN reads, i # k
           PROVE  reads[i].what # "facts" => reads[i].tag <= mounts /\ reads[i].tag # mounts'
      BY <1>3, <2>5, <3>9, <3>10 DEF TextHolds
    <3>11. ASSUME NEW i \in DOMAIN reads' PROVE (FactsHold(reads[i]) /\ TextHolds(reads[i]))'
      <4>1. CASE i = k
        <5>1. reads'[i] = q /\ DOMAIN q.got = {}
          BY <3>3, <3>4, <4>1
        <5>2. q.tag <= mounts' /\ openKey' = openKey
          BY <1>3, <1>4, <2>5, <3>3
        <5>3. FactsHold(reads[i])'
          BY <3>3, <5>1 DEF FactsHold
        <5>4. TextHolds(reads[i])'
          BY <3>3, <3>5, <5>1, <5>2 DEF TextHolds, AwaitedText, OfThisPanel
        <5> QED
          BY <5>3, <5>4
      <4>2. CASE i # k
        <5>1. FactsHold(reads[i])'
          BY <1>4, <3>4, <3>9, <4>2 DEF FactsHold, NewestFacts, AwaitedFacts
        <5>2. reads[i].what # "facts" => reads[i].tag <= mounts' /\ reads[i].tag # mounts'
          BY <1>3, <2>5, <3>4, <3>9, <3>10, <4>2
        <5>3. reads[i].what # "facts" => ~OfThisPanel(reads[i])'
          BY <3>4, <3>9, <4>2, <5>2 DEF OfThisPanel
        <5>4. \A j \in DOMAIN reads[i].got :
                 reads[i].what \in {"load", "extend"} =>
                   reads[i].got[j].key = reads[i].key /\ reads[i].got[j].n = reads[i].after + j
          BY <3>4, <3>9, <4>2 DEF TextHolds
        <5>5. TextHolds(reads[i])'
          BY <3>4, <3>9, <4>2, <5>2, <5>3, <5>4 DEF TextHolds, AwaitedText
        <5> QED
          BY <5>1, <5>5
      <4> QED
        BY <4>1, <4>2
    <3>12. OneOfAKind'
      <4>1. ASSUME NEW i \in DOMAIN reads', i # k
            PROVE  ~AwaitedFacts(reads[i])' /\ ~AwaitedText(reads[i])'
        BY <1>4, <3>4, <3>9, <3>10, <4>1 DEF AwaitedFacts, AwaitedText, NewestFacts, OfThisPanel
      <4> QED
        BY <4>1 DEF OneOfAKind
    <3>13. SearchIsOfTheBox'
      BY <3>6 DEF SearchIsOfTheBox
    <3> QED
      BY <3>7, <3>8, <3>11, <3>12, <3>13 DEF PanelInv, ReadsHold
  <2> QED
    BY <1>6, <2>4, <2>5 DEF FactsArrive
<1> QED
  BY <1>5, <1>6 DEF FactsArrive

\* The page has an error in the place of its panel.
LEMMA FactsFailStep ==
    ASSUME PanelInv, NEW k \in DOMAIN reads, FactsFail(k, reads[k])
    PROVE  PanelInv'
<1>1. /\ panel \in PanelStates /\ box \in Boxes
  BY DEF PanelInv, PanelShape
<1>2. /\ UNCHANGED <<archived, factsAt, unheard, openKey, detail, detailGen, mounts>>
      /\ reads[k].what = "facts" /\ Arrived(k)
  BY DEF FactsFail
<1>3. CASE UNCHANGED <<panel, box>>
  BY <1>1, <1>2, <1>3, AnswerLeaves, SearchGoesOn DEF PanelInv
<1>4. CASE panel' = Unmounted /\ box' = EmptyBox
  <2>1. /\ reads' \in Seq(PanelRequests) /\ Len(reads') <= MaxReads
        /\ \A i \in DOMAIN reads' :
             /\ WasAt(k, i) \in DOMAIN reads /\ reads'[i] = reads[WasAt(k, i)]
        /\ \A i, j \in DOMAIN reads' : WasAt(k, i) = WasAt(k, j) => i = j
    BY <1>2, AnswerGone
  <2>2. PanelShape'
    BY <1>2, <1>4, <2>1, UnmountedIsTyped DEF PanelInv, PanelShape
  <2>3. PageHolds'
    BY <1>2, <1>4, UnmountedIsTyped DEF PanelInv, PageHolds, Numbers
  <2>4. ASSUME NEW i \in DOMAIN reads' PROVE (FactsHold(reads[i]) /\ TextHolds(reads[i]))'
    <3>1. FactsHold(reads[WasAt(k, i)]) /\ TextHolds(reads[WasAt(k, i)])
      BY <2>1, RequestUnderWay
    <3> QED
      BY <1>2, <1>4, <2>1, <3>1, UnmountedIsTyped
         DEF FactsHold, TextHolds, AwaitedText, NewestFacts, OfThisPanel
  <2>5. OneOfAKind'
    BY <1>2, <1>4, <2>1, UnmountedIsTyped
       DEF PanelInv, OneOfAKind, AwaitedFacts, AwaitedText, NewestFacts, OfThisPanel
  <2>6. SearchIsOfTheBox'
    BY <1>4, UnmountedIsTyped DEF SearchIsOfTheBox
  <2> QED
    BY <2>2, <2>3, <2>4, <2>5, <2>6 DEF PanelInv, ReadsHold
<1> QED
  BY <1>3, <1>4 DEF FactsFail

\* A first page, or what follows, for the panel on the screen or for one that is gone.
LEMMA PageLandsStep ==
    ASSUME PanelInv, NEW k \in DOMAIN reads, PageLands(k, reads[k])
    PROVE  PanelInv'
<1> DEFINE r == reads[k]
<1>1. r \in PanelRequests /\ FactsHold(r) /\ TextHolds(r)
  BY RequestUnderWay
<1>2. /\ UNCHANGED <<archived, factsAt, unheard, openKey, detail, detailGen, mounts, box>>
      /\ r.what \in {"load", "extend"} /\ Arrived(k)
  BY DEF PageLands
<1>3. /\ panel \in PanelStates /\ box \in Boxes /\ openKey \in PanelSessions
      /\ panel.messages \in Seq(Letters) /\ r.got \in Seq(Letters) /\ r.at \in Nat
  BY <1>1 DEF PanelInv, PanelShape, PanelStates, PanelRequests
<1>4. CASE ~OfThisPanel(r)
  <2>1. panel' = panel
    BY <1>4 DEF PageLands
  <2> QED
    BY <1>2, <1>3, <2>1, AnswerLeaves, SearchGoesOn DEF PanelInv
<1>5. CASE OfThisPanel(r)
  <2>1. /\ panel.on /\ r.key = openKey /\ r.after \in Nat
        /\ \A j \in DOMAIN r.got : r.got[j].key = openKey /\ r.got[j].n = r.after + j
    BY <1>1, <1>2, <1>5 DEF TextHolds, OfThisPanel, PanelRequests
  <2>2. /\ panel' \in PanelStates /\ panel'.on /\ panel'.loaded
        /\ \/ /\ r.what = "load" /\ panel'.messages = r.got /\ r.after = 0 /\ ~panel.loaded
           \/ /\ r.what = "extend" /\ panel'.messages = panel.messages \o r.got /\ panel.loaded
              /\ 1..r.after \subseteq Numbers(panel.messages)
    <3>1. CASE r.what = "load"
      <4>1. panel' = [panel EXCEPT !.loaded = TRUE, !.messages = r.got, !.synced = r.at]
        BY <1>5, <3>1 DEF PageLands
      <4>2. r.after = 0 /\ ~panel.loaded
        BY <1>1, <1>5, <3>1 DEF TextHolds, AwaitedText
      <4> HIDE DEF r
      <4> QED
        BY <1>3, <2>1, <3>1, <4>1, <4>2 DEF PanelStates
    <3>2. CASE r.what = "extend"
      <4> DEFINE joined == panel.messages \o r.got
      <4>1. panel' = [panel EXCEPT !.messages = joined, !.synced = r.at, !.loadingMore = FALSE]
        BY <1>5, <3>2 DEF PageLands
      <4>2. panel.loaded /\ 1..r.after \subseteq Numbers(panel.messages)
        BY <1>1, <1>5, <3>2 DEF TextHolds
      <4>3. joined \in Seq(Letters)
        BY <1>3
      <4> HIDE DEF r, joined
      <4>4. /\ panel' \in PanelStates /\ panel'.on /\ panel'.loaded /\ panel'.messages = joined
        BY <1>3, <2>1, <4>1, <4>2, <4>3 DEF PanelStates
      <4> QED
        BY <3>2, <4>2, <4>4 DEF joined
    <3> QED
      BY <1>2, <3>1, <3>2
  <2>3. /\ Numbers(panel.messages) \subseteq Numbers(panel.messages)'
        /\ \A n \in Numbers(panel.messages)' : 1..n \subseteq Numbers(panel.messages)'
        /\ \A j \in DOMAIN panel'.messages : panel'.messages[j].key = openKey
    <3> HIDE DEF r
    <3>1. CASE r.what = "load" /\ panel'.messages = r.got /\ r.after = 0 /\ ~panel.loaded
      <4>0. DOMAIN r.got = 1..Len(r.got) /\ Len(r.got) \in Nat
        BY <1>3
      <4>1. \A j \in 1..Len(r.got) : r.got[j].n = j
        BY <2>1, <3>1, <4>0
      <4>2. Numbers(panel.messages)' = 1..Len(r.got)
        BY <3>1, <4>0, <4>1 DEF Numbers
      <4>3. panel.messages = <<>> /\ Numbers(panel.messages) = {}
        BY <3>1 DEF PanelInv, PageHolds, Numbers
      <4> QED
        BY <2>1, <3>1, <4>0, <4>2, <4>3
    <3>2. CASE /\ panel'.messages = panel.messages \o r.got
               /\ 1..r.after \subseteq Numbers(panel.messages)
      <4> DEFINE a == panel.messages
                 b == r.got
                 c == a \o b
      <4>1. a \in Seq(Letters) /\ b \in Seq(Letters)
        BY <1>3
      <4>6. DOMAIN a = 1..Len(a) /\ DOMAIN b = 1..Len(b) /\ Len(a) \in Nat /\ Len(b) \in Nat
        BY <4>1
      <4>2. /\ DOMAIN c = 1..(Len(a) + Len(b)) /\ \A j \in 1..Len(a) : c[j] = a[j]
            /\ \A j \in 1..Len(b) : c[Len(a) + j] = b[j]
        <5> HIDE DEF a, b
        <5> QED
          BY <4>1, JoinedPlaces
      <4>3. \A j \in 1..Len(b) : b[j].key = openKey /\ b[j].n = r.after + j
        BY <2>1, <4>6
      <4>4. /\ \A n \in Numbers(a) : 1..n \subseteq Numbers(a)
            /\ \A j \in DOMAIN a : a[j].key = openKey
        BY DEF PanelInv, PageHolds
      <4>5. panel'.messages = c
        BY <3>2
      <4> HIDE DEF a, b, c
      <4>0. \A i \in DOMAIN c : i \in 1..Len(a) \/ i - Len(a) \in 1..Len(b)
        BY <4>2, <4>6
      <4>7. Numbers(c) = Numbers(a) \cup {r.after + j : j \in 1..Len(b)}
        <5>1. ASSUME NEW i \in DOMAIN c
              PROVE  c[i].n \in Numbers(a) \cup {r.after + j : j \in 1..Len(b)}
          <6>1. CASE i \in 1..Len(a)
            BY <4>2, <4>6, <6>1 DEF Numbers
          <6>2. CASE i - Len(a) \in 1..Len(b)
            <7>1. Len(a) + (i - Len(a)) = i
              BY <4>2, <4>6
            <7>2. c[i] = b[i - Len(a)]
              BY <4>2, <6>2, <7>1
            <7> QED
              BY <4>3, <6>2, <7>2
          <6> QED
            BY <4>0, <6>1, <6>2
        <5>2. ASSUME NEW i \in 1..Len(a) PROVE a[i].n \in Numbers(c)
          <6>1. i \in DOMAIN c /\ c[i] = a[i]
            BY <4>2, <4>6
          <6> QED
            BY <6>1 DEF Numbers
        <5>3. ASSUME NEW j \in 1..Len(b) PROVE r.after + j \in Numbers(c)
          <6>1. Len(a) + j \in DOMAIN c /\ c[Len(a) + j] = b[j]
            BY <4>2, <4>6
          <6>2. c[Len(a) + j].n = r.after + j
            BY <4>3, <6>1
          <6> QED
            BY <6>1, <6>2 DEF Numbers
        <5> QED
          BY <4>6, <5>1, <5>2, <5>3 DEF Numbers
      <4>8. Numbers(panel.messages)' = Numbers(c)
        BY <4>5 DEF Numbers
      <4>9. ASSUME NEW n \in Numbers(c) PROVE 1..n \subseteq Numbers(c)
        <5>1. CASE n \in Numbers(a)
          BY <4>4, <4>7, <5>1
        <5>2. CASE n \in {r.after + j : j \in 1..Len(b)}
          <6>1. PICK j \in 1..Len(b) : n = r.after + j
            BY <5>2
          <6>2. ASSUME NEW x \in 1..n PROVE x \in Numbers(c)
            <7>1. CASE x <= r.after
              <8>1. x \in 1..r.after
                BY <2>1, <4>6, <6>1, <7>1
              <8> QED
                BY <3>2, <4>7, <8>1 DEF a
            <7>2. CASE x > r.after
              <8>1. x - r.after \in 1..Len(b) /\ r.after + (x - r.after) = x
                BY <2>1, <4>6, <6>1, <7>2
              <8> QED
                BY <4>7, <8>1
            <7>3. x <= r.after \/ x > r.after
              BY <2>1, <4>6, <6>1
            <7> QED
              BY <7>1, <7>2, <7>3
          <6> QED
            BY <6>2
        <5> QED
          BY <4>7, <5>1, <5>2
      <4>10. ASSUME NEW i \in DOMAIN c PROVE c[i].key = openKey
        <5>1. CASE i \in 1..Len(a)
          BY <4>2, <4>4, <4>6, <5>1
        <5>2. CASE i - Len(a) \in 1..Len(b)
          <6>1. Len(a) + (i - Len(a)) = i
            BY <4>2, <4>6
          <6>2. c[i] = b[i - Len(a)]
            BY <4>2, <5>2, <6>1
          <6> QED
            BY <4>3, <5>2, <6>2
        <5> QED
          BY <4>0, <5>1, <5>2
      <4>11. Numbers(panel.messages) = Numbers(a)
        BY DEF a
      <4> QED
        BY <4>5, <4>7, <4>8, <4>9, <4>10, <4>11
    <3> QED
      BY <2>2, <3>1, <3>2
  <2>4. /\ reads' \in Seq(PanelRequests) /\ Len(reads') <= MaxReads
        /\ \A i \in DOMAIN reads' :
             /\ WasAt(k, i) \in DOMAIN reads /\ WasAt(k, i) # k
             /\ reads'[i] = reads[WasAt(k, i)]
        /\ \A i, j \in DOMAIN reads' : WasAt(k, i) = WasAt(k, j) => i = j
    BY <1>2, AnswerGone
  <2>5. PanelShape'
    BY <1>2, <2>2, <2>4 DEF PanelInv, PanelShape
  <2>6. PageHolds'
    <3>1. /\ detail'.key \in {openKey', NoSession} /\ detail'.at <= factsAt'
          /\ detail'.key = openKey'
      BY <1>2, <2>1 DEF PanelInv, PageHolds
    <3> QED
      BY <1>2, <2>2, <2>3, <3>1 DEF PageHolds
  <2>7. ASSUME NEW i \in DOMAIN reads' PROVE (FactsHold(reads[i]) /\ TextHolds(reads[i]))'
    <3> DEFINE q == reads[WasAt(k, i)]
    <3>1. FactsHold(q) /\ TextHolds(q) /\ reads'[i] = q
      BY <2>4, RequestUnderWay
    <3>2. ~AwaitedText(q) \/ panel.loaded
      <4>1. CASE AwaitedText(q)
        <5>1. ~AwaitedText(r)
          BY <2>4, <4>1 DEF PanelInv, OneOfAKind
        <5> QED
          BY <1>5, <2>2, <5>1 DEF AwaitedText
      <4> QED
        BY <4>1
    <3>3. ~AwaitedText(q)
      BY <3>1, <3>2 DEF TextHolds
    <3>4. FactsHold(reads[i])'
      BY <1>2, <3>1 DEF FactsHold, NewestFacts
    <3>5. OfThisPanel(reads[i])' <=> OfThisPanel(q)
      BY <1>2, <2>1, <2>2, <3>1 DEF OfThisPanel
    <3> HIDE DEF q
    <3>6. TextHolds(reads[i])'
      BY <1>2, <2>2, <2>3, <3>1, <3>3, <3>5 DEF TextHolds, AwaitedText
    <3> QED
      BY <3>4, <3>6
  <2>8. OneOfAKind'
    BY <1>2, <2>1, <2>2, <2>4
       DEF PanelInv, OneOfAKind, AwaitedFacts, AwaitedText, NewestFacts, OfThisPanel
  <2>9. SearchIsOfTheBox'
    BY <1>2, <2>1, <2>2, SearchGoesOn
  <2> QED
    BY <2>5, <2>6, <2>7, <2>8, <2>9 DEF PanelInv, ReadsHold
<1> QED
  BY <1>4, <1>5

LEMMA PageIsLostStep ==
    ASSUME PanelInv, NEW k \in DOMAIN reads, PageIsLost(k, reads[k])
    PROVE  PanelInv'
<1>1. /\ UNCHANGED <<archived, factsAt, unheard, openKey, detail, detailGen, mounts, box>>
      /\ reads[k].what \in {"load", "extend"} /\ Arrived(k)
  BY DEF PageIsLost
<1>2. panel \in PanelStates /\ box \in Boxes
  BY DEF PanelInv, PanelShape
<1>3. /\ panel' \in PanelStates /\ panel'.on = panel.on /\ panel'.loaded = panel.loaded
      /\ panel'.messages = panel.messages /\ (~panel.on => panel' = panel)
  <2>1. CASE ~OfThisPanel(reads[k])
    BY <1>2, <2>1 DEF PageIsLost
  <2>2. CASE OfThisPanel(reads[k])
    <3> DEFINE busy == IF reads[k].what = "extend" THEN FALSE ELSE panel.loadingMore
    <3>1. panel' = [panel EXCEPT !.error = TRUE, !.loadingMore = busy] /\ panel.on
      BY <2>2 DEF PageIsLost, OfThisPanel
    <3>2. busy \in BOOLEAN
      BY <1>2 DEF PanelStates
    <3> HIDE DEF busy
    <3> QED
      BY <1>2, <3>1, <3>2 DEF PanelStates
  <2> QED
    BY <2>1, <2>2
<1> QED
  BY <1>1, <1>2, <1>3, AnswerLeaves, SearchGoesOn DEF PanelInv

\* What was searched for before is not what is searched for now.
LEMMA TypesStep == ASSUME PanelInv, NEW term \in Terms \cup {Empty}, Types(term) PROVE PanelInv'
<1>1. /\ UNCHANGED <<archived, factsAt, unheard, openKey, detail, detailGen, panel, mounts, reads>>
      /\ panel.on
  BY DEF Types, CanExtend
<1>2. box \in Boxes /\ box.effect \in Nat
  BY DEF PanelInv, PanelShape, Boxes
<1> DEFINE some == term # Empty
<1>3. box' = [query |-> term, effect |-> box.effect + 1, timer |-> some, searching |-> some,
              result |-> NoResult, failed |-> Empty]
  BY DEF Types
<1>4. /\ some \in BOOLEAN
      /\ NoResult \in [of : Terms \cup {Empty}, key : PanelSessions \cup {NoSession}, upto : Nat]
  BY DEF NoResult
<1>5. /\ box' \in Boxes /\ box'.query = term /\ box'.effect = box.effect + 1
      /\ box'.timer = some /\ box'.searching = some /\ box'.result = NoResult
  <2> HIDE DEF some
  <2>1. box.effect + 1 \in Nat
    BY <1>2
  <2> QED
    BY <1>3, <1>4, <2>1 DEF Boxes
<1>6. PanelShape'
  BY <1>1, <1>5 DEF PanelInv, PanelShape
<1>7. PageHolds'
  BY <1>1, ZenonT(60) DEF PanelInv, PageHolds, Numbers
<1>8. ASSUME NEW k \in DOMAIN reads' PROVE (FactsHold(reads[k]) /\ TextHolds(reads[k]))'
  <2>1. reads'[k] = reads[k] /\ FactsHold(reads[k]) /\ TextHolds(reads[k]) /\ reads[k].after \in Nat
    BY <1>1, RequestUnderWay DEF PanelRequests
  <2>2. Numbers(panel.messages)' = Numbers(panel.messages)
    BY <1>1 DEF Numbers
  <2>3. FactsHold(reads[k])'
    BY <1>1, <2>1 DEF FactsHold, NewestFacts
  <2>4. reads[k].what = "search" /\ OfThisPanel(reads[k]) =>
          reads[k].after <= box'.effect /\ reads[k].after # box'.effect
    BY <1>2, <1>5, <2>1 DEF TextHolds
  <2>5. TextHolds(reads[k])'
    BY <1>1, <2>1, <2>2, <2>4 DEF TextHolds, AwaitedText, OfThisPanel
  <2> QED
    BY <2>3, <2>5
<1>9. OneOfAKind'
  BY <1>1 DEF PanelInv, OneOfAKind, AwaitedFacts, AwaitedText, NewestFacts, OfThisPanel
<1>10. SearchIsOfTheBox'
  BY <1>5 DEF SearchIsOfTheBox
<1> QED
  BY <1>6, <1>7, <1>8, <1>9, <1>10 DEF PanelInv, ReadsHold

LEMMA SearchesStep == ASSUME PanelInv, Searches PROVE PanelInv'
<1>1. UNCHANGED <<archived, factsAt, unheard, openKey, detail, detailGen, panel, mounts>>
  BY DEF Searches
<1>2. /\ box \in Boxes /\ openKey \in PanelSessions /\ mounts \in Nat /\ box.effect \in Nat
      /\ box.query \in Terms \cup {Empty} /\ reads \in Seq(PanelRequests)
  BY DEF PanelInv, PanelShape, Boxes
<1>3. panel.on
  BY DEF PanelInv, PageHolds, Searches, EmptyBox
<1>4. /\ box' \in Boxes /\ box'.query = box.query /\ box'.effect = box.effect
      /\ box'.searching = box.searching /\ box'.result = box.result /\ box'.failed = box.failed
  BY <1>2 DEF Searches, Boxes
<1> DEFINE m == Sending("search", openKey)
           r == [m EXCEPT !.tag = mounts, !.after = box.effect, !.term = box.query]
<1>5. m \in PanelRequests /\ m.what = "search" /\ m.key = openKey /\ m.got = <<>>
  BY <1>2, SendingFields
<1>6. reads' = Append(reads, r) /\ Room(1)
  BY DEF Searches
<1> HIDE DEF m
<1>7. /\ r \in PanelRequests /\ r.what = "search" /\ r.key = openKey /\ r.got = <<>>
      /\ r.tag = mounts /\ r.after = box.effect /\ r.term = box.query
  BY <1>2, <1>5 DEF PanelRequests
<1> HIDE DEF r
<1>8. /\ reads' \in Seq(PanelRequests) /\ Len(reads') <= MaxReads
      /\ DOMAIN reads' = DOMAIN reads \cup {Len(reads) + 1}
      /\ Len(reads) + 1 \notin DOMAIN reads /\ reads'[Len(reads) + 1] = r
      /\ \A i \in DOMAIN reads : reads'[i] = reads[i]
  BY <1>6, <1>7, RequestSent
<1>9. PanelShape'
  BY <1>1, <1>4, <1>8 DEF PanelInv, PanelShape
<1>10. PageHolds'
  BY <1>1, <1>3, SMTT(30) DEF PanelInv, PageHolds, Numbers
<1>11. ASSUME NEW k \in DOMAIN reads' PROVE (FactsHold(reads[k]) /\ TextHolds(reads[k]))'
  <2>1. CASE k = Len(reads) + 1
    <3>1. reads'[k] = r /\ DOMAIN r.got = {}
      BY <1>7, <1>8, <2>1
    <3> QED
      BY <1>1, <1>2, <1>4, <1>7, <3>1 DEF FactsHold, TextHolds, AwaitedText
  <2>2. CASE k \in DOMAIN reads
    <3>1. reads'[k] = reads[k] /\ FactsHold(reads[k]) /\ TextHolds(reads[k])
      BY <1>8, <2>2, RequestUnderWay
    <3>2. Numbers(panel.messages)' = Numbers(panel.messages)
      BY <1>1 DEF Numbers
    <3> QED
      BY <1>1, <1>4, <3>1, <3>2 DEF FactsHold, TextHolds, AwaitedText, NewestFacts, OfThisPanel
  <2> QED
    BY <1>8, <2>1, <2>2
<1>12. OneOfAKind'
  BY <1>1, <1>7, <1>8
     DEF PanelInv, OneOfAKind, AwaitedFacts, AwaitedText, NewestFacts, OfThisPanel
<1>13. SearchIsOfTheBox'
  <2>1. \E k \in DOMAIN reads' : reads'[k].what = "search" /\ ~Aborted(reads[k])'
    <3>1. reads'[Len(reads) + 1].what = "search" /\ Len(reads) + 1 \in DOMAIN reads'
      BY <1>7, <1>8
    <3>2. ASSUME NEW k \in DOMAIN reads', k = Len(reads) + 1 PROVE ~Aborted(reads[k])'
      <4>1. reads'[k] = r
        BY <1>8, <3>2
      <4> QED
        BY <1>1, <1>3, <1>4, <1>7, <4>1 DEF Aborted, OfThisPanel
    <3> QED
      BY <3>1, <3>2
  <2> QED
    BY <1>1, <1>4, <2>1 DEF PanelInv, SearchIsOfTheBox
<1> QED
  BY <1>9, <1>10, <1>11, <1>12, <1>13 DEF PanelInv, ReadsHold

LEMMA SearchLandsStep ==
    ASSUME PanelInv, NEW k \in DOMAIN reads, SearchLands(k, reads[k])
    PROVE  PanelInv'
<1> DEFINE r == reads[k]
<1>1. r \in PanelRequests /\ TextHolds(r) /\ r.what = "search" /\ Arrived(k)
  BY RequestUnderWay DEF SearchLands
<1>2. UNCHANGED <<archived, factsAt, unheard, openKey, detail, detailGen, panel, mounts>>
  BY DEF SearchLands
<1>3. panel \in PanelStates /\ box \in Boxes
  BY DEF PanelInv, PanelShape
<1>4. CASE Aborted(r)
  <2>1. box' = box
    BY <1>4 DEF SearchLands
  <2> QED
    BY <1>1, <1>2, <1>3, <1>4, <2>1, AnswerLeaves, SearchGoesOn DEF PanelInv
<1>5. CASE ~Aborted(r)
  <2> DEFINE found == [of |-> r.term, key |-> r.key, upto |-> r.at]
  <2>1. panel.on /\ r.term = box.query /\ r.key = openKey
    BY <1>1, <1>5 DEF Aborted, OfThisPanel, TextHolds
  <2>2. found \in [of : Terms \cup {Empty}, key : PanelSessions \cup {NoSession}, upto : Nat]
    BY <1>1 DEF PanelRequests
  <2>3. box' = [box EXCEPT !.result = found, !.failed = Empty, !.searching = FALSE]
    BY <1>5 DEF SearchLands
  <2>4. found.of = box.query /\ found.key = openKey
    BY <2>1
  <2> HIDE DEF found
  <2>5. /\ box' \in Boxes /\ box'.query = box.query /\ box'.effect = box.effect
        /\ box'.result = found /\ box'.searching = FALSE
    BY <1>3, <2>2, <2>3 DEF Boxes
  <2>6. PanelShape' /\ PageHolds' /\ ReadsHold' /\ OneOfAKind'
    BY <1>1, <1>2, <1>3, <2>1, <2>5, AnswerLeaves
  <2>7. SearchIsOfTheBox'
    BY <1>2, <2>4, <2>5 DEF SearchIsOfTheBox
  <2> QED
    BY <2>6, <2>7 DEF PanelInv
<1> QED
  BY <1>4, <1>5

LEMMA SearchFailsStep ==
    ASSUME PanelInv, NEW k \in DOMAIN reads, SearchFails(k, reads[k])
    PROVE  PanelInv'
<1> DEFINE r == reads[k]
<1>1. r \in PanelRequests /\ TextHolds(r) /\ r.what = "search" /\ Arrived(k)
  BY RequestUnderWay DEF SearchFails
<1>2. UNCHANGED <<archived, factsAt, unheard, openKey, detail, detailGen, panel, mounts>>
  BY DEF SearchFails
<1>3. panel \in PanelStates /\ box \in Boxes
  BY DEF PanelInv, PanelShape
<1>4. CASE Aborted(r)
  <2>1. box' = box
    BY <1>4 DEF SearchFails
  <2> QED
    BY <1>1, <1>2, <1>3, <1>4, <2>1, AnswerLeaves, SearchGoesOn DEF PanelInv
<1>5. CASE ~Aborted(r)
  <2>1. panel.on /\ r.term = box.query /\ r.term \in Terms \cup {Empty}
    BY <1>1, <1>5 DEF Aborted, OfThisPanel, TextHolds, PanelRequests
  <2>2. box' = [box EXCEPT !.failed = r.term, !.searching = FALSE]
    BY <1>5 DEF SearchFails
  <2>3. /\ box' \in Boxes /\ box'.query = box.query /\ box'.effect = box.effect
        /\ box'.failed = box.query /\ box'.result = box.result /\ box'.searching = FALSE
    BY <1>3, <2>1, <2>2 DEF Boxes
  <2>4. PanelShape' /\ PageHolds' /\ ReadsHold' /\ OneOfAKind'
    BY <1>1, <1>2, <1>3, <2>1, <2>3, AnswerLeaves
  <2>5. SearchIsOfTheBox'
    BY <1>2, <2>3 DEF PanelInv, SearchIsOfTheBox
  <2> QED
    BY <2>4, <2>5 DEF PanelInv
<1> QED
  BY <1>4, <1>5

LEMMA NextPanelInv == ASSUME PanelInv, [PanelNext]_panelVars PROVE PanelInv'
<1>1. CASE HandlesMessages
  BY <1>1, HandlesMessagesStep
<1>2. CASE LoadsMore
  BY <1>2, LoadsMoreStep
<1>3. CASE FactsChange
  BY <1>3, FactsChangeStep
<1>4. CASE Searches
  BY <1>4, SearchesStep
<1>5. ASSUME NEW s \in PanelSessions, Archives(s) \/ Follow(s) PROVE PanelInv'
  BY <1>5, ArchivesStep, FollowStep
<1>6. ASSUME NEW term \in Terms \cup {Empty}, Types(term) PROVE PanelInv'
  BY <1>6, TypesStep
<1>7. ASSUME NEW k \in DOMAIN reads, PanelServes(k) \/ FactsArrive(k, reads[k]) \/ FactsFail(k, reads[k])
      PROVE  PanelInv'
  BY <1>7, PanelServesStep, FactsArriveStep, FactsFailStep
<1>8. ASSUME NEW k \in DOMAIN reads, PageLands(k, reads[k]) \/ PageIsLost(k, reads[k])
      PROVE  PanelInv'
  BY <1>8, PageLandsStep, PageIsLostStep
<1>9. ASSUME NEW k \in DOMAIN reads, SearchLands(k, reads[k]) \/ SearchFails(k, reads[k])
      PROVE  PanelInv'
  BY <1>9, SearchLandsStep, SearchFailsStep
<1>10. CASE UNCHANGED panelVars
  <2>1. UNCHANGED <<archived, factsAt, unheard, openKey, detail, detailGen, panel, mounts, box, reads>>
    BY <1>10 DEF panelVars
  <2>2. archived' \in [PanelSessions -> 0..MaxArchived] /\ unheard' \in BOOLEAN
    BY <2>1 DEF PanelInv, PanelShape
  <2> QED
    BY <2>1, <2>2, NothingElseStep
<1> QED
  BY <1>1, <1>2, <1>3, <1>4, <1>5, <1>6, <1>7, <1>8, <1>9, <1>10 DEF PanelNext

LEMMA PanelInvHolds == PanelSpec => []PanelInv
<1>1. PanelInv /\ [PanelNext]_panelVars => PanelInv'
  BY NextPanelInv
<1> QED
  BY <1>1, PanelInitInv, PTL DEF PanelSpec

\* The state of the page is typed, and its requests are never more than it sends.
THEOREM PanelTyped == PanelSpec => []PanelTypeOK
<1>1. PanelInv => PanelTypeOK
  BY DEF PanelInv, PanelShape, PanelTypeOK
<1> QED
  BY <1>1, PanelInvHolds, PTL

\* What a new reading of the facts brings is no older than what is shown.
LEMMA FactsAreNewer ==
    ASSUME PanelInv, [PanelNext]_panelVars, detail.key # NoSession, detail'.key = detail.key
    PROVE  detail'.at >= detail.at
<1>1. detail \in [key : PanelSessions \cup {NoSession}, at : Nat]
  BY DEF PanelInv, PanelShape
<1>2. CASE detail' = detail
  BY <1>1, <1>2
<1>3. ASSUME NEW k \in DOMAIN reads, FactsArrive(k, reads[k]), detail' # detail
      PROVE  detail'.at >= detail.at
  <2>1. /\ reads[k].what = "facts" /\ reads[k].read /\ NewestFacts(reads[k])
        /\ detail' = [key |-> reads[k].key, at |-> reads[k].at]
    BY <1>3 DEF FactsArrive
  <2>2. FactsHold(reads[k]) /\ reads[k] \in PanelRequests
    BY RequestUnderWay
  <2>3. detail.at <= reads[k].at /\ reads[k].at \in Nat
    BY <2>1, <2>2 DEF FactsHold, PanelRequests
  <2> QED
    BY <1>1, <2>1, <2>3
<1>4. ASSUME NEW s \in PanelSessions, Follow(s) PROVE FALSE
  BY <1>4 DEF Follow, NoDetail
<1>5. detail' = detail \/ (\E s \in PanelSessions : Follow(s))
      \/ (\E k \in DOMAIN reads : FactsArrive(k, reads[k]) /\ detail' # detail)
  BY DEF PanelNext, panelVars, HandlesMessages, LoadsMore, FactsChange, Searches, Archives, Types,
         PanelServes, FactsFail, PageLands, PageIsLost, SearchLands, SearchFails
<1> QED
  BY <1>2, <1>3, <1>4, <1>5

\* Whatever answers overtake each other and whatever fails: the page of a session
\* shows that session's facts and text, the text without a hole; the matches are
\* of the term in the box, and a search that is shown is being made; and the
\* facts are never replaced by older ones (SessionPage, TranscriptPanel).
THEOREM PanelSound == PanelSpec => PanelIsSound
<1>1. PanelInv => PanelIsOwn /\ SearchIsOfTheBox
  BY DEF PanelInv, PageHolds, PanelIsOwn, Numbers
<1>2. PanelInv /\ [PanelNext]_panelVars
        => [detail.key # NoSession /\ detail'.key = detail.key => detail'.at >= detail.at]_panelVars
  BY FactsAreNewer
<1> QED
  BY <1>1, <1>2, PanelInvHolds, PTL DEF PanelSpec, PanelIsSound, FactsNeverGoBack

-----------------------------------------------------------------------------
(* The page: what it gathers and what it asks for.                          *)

PageReads ==
    [of : Topics, range : PageRanges, read : {NotRead} \cup 0..MaxServed, late : BOOLEAN]

PageShape ==
    /\ served \in [Topics -> 0..MaxServed] /\ events \in Seq(SUBSET Topics)
    /\ live \in {"connecting", "open", "reconnecting", "stopped"}
    /\ events # <<>> => live = "open"
    /\ pending \in SUBSET Topics /\ range \in PageRanges
    /\ shown \in [Topics -> {NotRead} \cup 0..MaxServed] /\ trouble \in SUBSET Topics
    /\ asked \in Seq(PageReads) /\ Len(asked) <= MaxAsked

PageInv == PageShape /\ GatheredIsScheduled

LEMMA ComesLate == ASSUME NEW q \in PageReads PROVE [q EXCEPT !.late = TRUE] \in PageReads
  BY DEF PageReads

LEMMA SentFits ==
    ASSUME NEW requests \in Seq(PageReads), NEW topics \in SUBSET Topics, NEW r \in PageRanges
    PROVE  /\ Sent(requests, topics, r) \in Seq(PageReads)
           /\ Len(Sent(requests, topics, r)) = Len(requests) + Cardinality(topics)
           /\ Cardinality(topics) \in Nat
<1> DEFINE n == Cardinality(topics)
           old == [i \in DOMAIN requests |->
                      IF requests[i].of = "agents" /\ "agents" \in topics
                      THEN [requests[i] EXCEPT !.late = TRUE] ELSE requests[i]]
           new == [i \in 1..n |-> Read(SetToSeq(topics)[i], r)]
<1>1. IsFiniteSet(topics)
  <2>1. IsFiniteSet({}) /\ IsFiniteSet({} \cup {"activities"})
        /\ IsFiniteSet(({} \cup {"activities"}) \cup {"agents"})
    BY FS_EmptySet, FS_AddElement
  <2>2. topics \subseteq ({} \cup {"activities"}) \cup {"agents"}
    BY DEF Topics
  <2> QED
    BY <2>1, <2>2, FS_Subset
<1>2. n \in Nat /\ SetToSeq(topics) \in [1..n -> topics]
  BY <1>1, ListedOnce
<1>3. old \in Seq(PageReads) /\ Len(old) = Len(requests)
  <2>1. DOMAIN requests = 1..Len(requests) /\ Len(requests) \in Nat
    OBVIOUS
  <2>2. ASSUME NEW i \in 1..Len(requests)
        PROVE  requests[i] \in PageReads /\ [requests[i] EXCEPT !.late = TRUE] \in PageReads
    BY ComesLate
  <2>3. old \in [1..Len(requests) -> PageReads]
    BY <2>1, <2>2
  <2> HIDE DEF old
  <2> QED
    BY <2>1, <2>3
<1> HIDE DEF n
<1>4. new \in Seq(PageReads) /\ Len(new) = n
  <2>1. ASSUME NEW i \in 1..n PROVE Read(SetToSeq(topics)[i], r) \in PageReads
    BY <1>2, PageAssumption DEF Read, PageReads, NotRead
  <2>2. new \in [1..n -> PageReads]
    BY <2>1
  <2> HIDE DEF new
  <2> QED
    BY <1>2, <2>2
<1>5. Sent(requests, topics, r) = old \o new
  BY DEF Sent, n
<1> HIDE DEF old, new
<1> QED
  BY <1>2, <1>3, <1>4, <1>5 DEF n

LEMMA PageInitInv == PageInit => PageInv
<1> SUFFICES ASSUME PageInit PROVE PageInv
  OBVIOUS
<1>1. asked = Sent(<<>>, Topics, range) /\ range \in PageRanges
  BY DEF PageInit
<1>2. Cardinality(Topics) = 2
  <2>1. IsFiniteSet({}) /\ Cardinality({}) = 0
    BY FS_EmptySet
  <2>2. IsFiniteSet({} \cup {"activities"}) /\ Cardinality({} \cup {"activities"}) = 1
    BY <2>1, FS_AddElement
  <2>3. Cardinality(({} \cup {"activities"}) \cup {"agents"}) = 2
    BY <2>2, FS_AddElement
  <2>4. ({} \cup {"activities"}) \cup {"agents"} = Topics
    BY DEF Topics
  <2> QED
    BY <2>3, <2>4
<1>3. asked \in Seq(PageReads) /\ Len(asked) = 2
  <2>1. <<>> \in Seq(PageReads) /\ Len(<<>>) = 0
    OBVIOUS
  <2>2. Topics \in SUBSET Topics
    OBVIOUS
  <2>3. asked \in Seq(PageReads) /\ Len(asked) = 0 + Cardinality(Topics)
    BY <1>1, <2>1, <2>2, SentFits
  <2> QED
    BY <1>2, <2>3
<1>4. /\ served \in [Topics -> 0..MaxServed] /\ shown \in [Topics -> {NotRead} \cup 0..MaxServed]
  BY PageAssumption DEF PageInit
<1>5. events = <<>> /\ live = "connecting" /\ pending = {} /\ trouble = {}
  BY DEF PageInit
<1>6. Len(asked) <= MaxAsked
  BY <1>3, PageAssumption
<1> QED
  BY <1>1, <1>3, <1>4, <1>5, <1>6 DEF PageInv, PageShape, GatheredIsScheduled

\* An answer has come, or none will: one request less.
LEMMA SettledFits ==
    ASSUME PageInv, NEW i \in DOMAIN asked
    PROVE  /\ Settled(i) \in Seq(PageReads) /\ Len(Settled(i)) <= MaxAsked
           /\ asked[i] \in PageReads
<1> DEFINE told == [k \in DOMAIN asked |->
                       IF k < i /\ asked[k].of = "activities" /\ asked[i].of = "activities"
                       THEN [asked[k] EXCEPT !.late = TRUE] ELSE asked[k]]
<1>1. /\ asked \in Seq(PageReads) /\ Len(asked) <= MaxAsked /\ DOMAIN asked = 1..Len(asked)
      /\ Len(asked) \in Nat /\ i \in 1..Len(asked)
  BY DEF PageInv, PageShape
<1>2. ASSUME NEW k \in 1..Len(asked)
      PROVE  asked[k] \in PageReads /\ [asked[k] EXCEPT !.late = TRUE] \in PageReads
  BY <1>1, ComesLate
<1>3. told \in [1..Len(asked) -> PageReads]
  BY <1>1, <1>2
<1>4. Settled(i) = RemoveAt(told, i)
  BY DEF Settled
<1> HIDE DEF told
<1>5. told \in Seq(PageReads) /\ Len(told) = Len(asked)
  BY <1>1, <1>3
<1>6. RemoveAt(told, i) \in Seq(PageReads) /\ Len(RemoveAt(told, i)) = Len(asked) - 1
  BY <1>1, <1>5, OneLess
<1> QED
  BY <1>1, <1>2, <1>4, <1>6, PageAssumption

LEMMA PageStep == ASSUME PageInv, [PageNext]_pageVars PROVE PageInv'
<1> USE DEF PageInv, PageShape, GatheredIsScheduled
<1>1. ASSUME NEW t \in Topics, ServerChanges(t) PROVE PageInv'
  <2>1. served' \in [Topics -> 0..MaxServed]
    BY <1>1, PageAssumption DEF ServerChanges
  <2>2. events' \in Seq(SUBSET Topics) /\ (events' # <<>> => live = "open")
    BY <1>1 DEF ServerChanges
  <2> QED
    BY <1>1, <2>1, <2>2 DEF ServerChanges
<1>2. CASE StreamConnects
  BY <1>2 DEF StreamConnects, OnOpen, Gather
<1>3. CASE HandlesEvent
  <2>1. /\ events' \in Seq(SUBSET Topics) /\ Head(events) \in SUBSET Topics
        /\ (events' # <<>> => live = "open")
    BY <1>3 DEF HandlesEvent
  <2> QED
    BY <1>3, <2>1 DEF HandlesEvent, Gather
<1>4. CASE Flush
  <2>1. Touched(pending) \in SUBSET Topics
    BY DEF Touched, Topics
  <2>2. asked' \in Seq(PageReads) /\ Len(asked') <= MaxAsked
    BY <1>4, <2>1, SentFits DEF Flush, Asks
  <2> QED
    BY <1>4, <2>2 DEF Flush
<1>5. CASE StreamBreaks
  BY <1>5 DEF StreamBreaks, PageFault, Topics
<1>6. CASE RetryLive
  BY <1>6 DEF RetryLive
<1>7. ASSUME NEW r \in PageRanges, ChooseRange(r) PROVE PageInv'
  <2>1. {"activities"} \in SUBSET Topics
    BY DEF Topics
  <2>2. asked' \in Seq(PageReads) /\ Len(asked') <= MaxAsked
    BY <1>7, <2>1, SentFits DEF ChooseRange, Asks
  <2> QED
    BY <1>7, <2>2 DEF ChooseRange
<1>8. ASSUME NEW i \in DOMAIN asked, ServerReads(i) PROVE PageInv'
  <2>1. asked[i] \in PageReads /\ served[asked[i].of] \in {NotRead} \cup 0..MaxServed
    BY SettledFits DEF PageReads
  <2>2. [asked[i] EXCEPT !.read = served[asked[i].of]] \in PageReads
    BY <2>1 DEF PageReads
  <2>3. asked' \in Seq(PageReads) /\ Len(asked') = Len(asked)
    BY <1>8, <2>2 DEF ServerReads
  <2> QED
    BY <1>8, <2>3 DEF ServerReads
<1>9. ASSUME NEW i \in DOMAIN asked, Arrives(i) PROVE PageInv'
  <2>1. /\ asked' \in Seq(PageReads) /\ Len(asked') <= MaxAsked /\ asked[i] \in PageReads
    BY <1>9, SettledFits DEF Arrives
  <2>2. shown' \in [Topics -> {NotRead} \cup 0..MaxServed] /\ trouble' \in SUBSET Topics
    BY <1>9, <2>1 DEF Arrives, PageReads
  <2> QED
    BY <1>9, <2>1, <2>2 DEF Arrives
<1>10. ASSUME NEW i \in DOMAIN asked, ReadFails(i) PROVE PageInv'
  <2>1. /\ asked' \in Seq(PageReads) /\ Len(asked') <= MaxAsked /\ asked[i] \in PageReads
    BY <1>10, SettledFits DEF ReadFails
  <2>2. trouble' \in SUBSET Topics
    BY <1>10, <2>1 DEF ReadFails, PageReads
  <2> QED
    BY <1>10, <2>1, <2>2 DEF ReadFails
<1>11. CASE UNCHANGED pageVars
  BY <1>11 DEF pageVars
<1> QED
  BY <1>1, <1>2, <1>3, <1>4, <1>5, <1>6, <1>7, <1>8, <1>9, <1>10, <1>11 DEF PageNext

LEMMA PageInvHolds == PageSpec => []PageInv
  BY PageInitInv, PageStep, PTL DEF PageSpec

\* The state of the page is typed.
THEOREM PageTyped == PageSpec => []PageTypeOK
<1>1. PageInv => PageTypeOK
  BY DEF PageInv, PageShape, PageTypeOK
<1> QED
  BY <1>1, PageInvHolds, PTL

\* Topics that were gathered from an open stream have a timer that reads them, also
\* when the stream was replaced meanwhile (scheduleInvalidation, retryLive).
THEOREM GatheredScheduled == PageSpec => []GatheredIsScheduled
<1>1. PageInv => GatheredIsScheduled
  BY DEF PageInv
<1> QED
  BY <1>1, PageInvHolds, PTL

-----------------------------------------------------------------------------
(* The board and the links: what they are computed from.                    *)

LEMMA BoardInitTyped == BoardInit => BoardTypeOK
<1> SUFFICES ASSUME BoardInit PROVE BoardTypeOK
  OBVIOUS
<1>1. boardRow \in [Hosts -> [Ids -> {NoRow} \cup RowStates \cup TerminalStates]]
  BY DEF BoardInit
<1>2. heldRange \in [Hosts -> DOMAIN Span] /\ boardRange \in DOMAIN Span
  BY DEF BoardInit
<1> QED
  BY <1>1, <1>2, BoardAssumption DEF BoardInit, BoardTypeOK

LEMMA BoardStepTyped == ASSUME BoardTypeOK, [BoardNext]_boardVars PROVE BoardTypeOK'
<1> USE DEF BoardTypeOK
<1> DEFINE R == {NoRow} \cup RowStates \cup TerminalStates
<1>1. CASE Ticks
  BY <1>1, BoardAssumption DEF Ticks
<1>2. ASSUME NEW r \in DOMAIN Span, ShowRange(r) PROVE BoardTypeOK'
  BY <1>2 DEF ShowRange
<1>3. ASSUME NEW kind, ShowKind(kind) PROVE BoardTypeOK'
  BY <1>3 DEF ShowKind
<1>4. ASSUME NEW h \in Hosts, HostChanges(h) PROVE BoardTypeOK'
  BY <1>4 DEF HostChanges, SymDiff
<1>5. ASSUME NEW h \in Hosts, HoldRange(h) PROVE BoardTypeOK'
  BY <1>5 DEF HoldRange
<1>6. ASSUME NEW h \in Hosts, NEW i \in Ids, NEW row \in R,
             boardRow' = [boardRow EXCEPT ![h][i] = row],
             UNCHANGED <<clock, reachable, boardRange, heldRange>>
      PROVE  BoardTypeOK'
  <2> HIDE DEF R
  <2>1. boardRow \in [Hosts -> [Ids -> R]]
    BY DEF R
  <2>2. boardRow' \in [Hosts -> [Ids -> R]]
    BY <1>6, <2>1
  <2> QED
    BY <1>6, <2>2 DEF R
<1>7. ASSUME NEW h \in Hosts, NEW i \in Ids, NEW row \in R, Observe(h, i, row)
      PROVE  BoardTypeOK'
  BY <1>6, <1>7 DEF Observe
<1>8. ASSUME NEW h \in Hosts, NEW i \in Ids, Prunes(h, i) PROVE BoardTypeOK'
  BY <1>6, <1>8 DEF Prunes
<1>9. ASSUME NEW outcome \in Outcomes
      PROVE  [state |-> "terminal", mark |-> "none", outcome |-> outcome, at |-> clock] \in R
  BY DEF TerminalStates
<1>10. CASE UNCHANGED boardVars
  BY <1>10 DEF boardVars
<1> QED
  BY <1>1, <1>2, <1>3, <1>4, <1>5, <1>7, <1>8, <1>9, <1>10 DEF BoardNext

\* The rows, the nodes and the ranges are typed.
THEOREM BoardTyped == BoardSpec => []BoardTypeOK
  BY BoardInitTyped, BoardStepTyped, PTL DEF BoardSpec

\* A snapshot holds what there is.
THEOREM ForestTyped == ForestSpec => []ForestTypeOK
<1>1. ForestInit => ForestTypeOK
  BY ForestAssumption DEF ForestInit, ForestTypeOK
<1>2. ForestTypeOK /\ [ForestNext]_forestVars => ForestTypeOK'
  BY DEF ForestTypeOK, ForestNext, Learns, forestVars
<1> QED
  BY <1>1, <1>2, PTL DEF ForestSpec

-----------------------------------------------------------------------------
(* The board: what it shows of the rows.  All of it follows from the types: *)
(* it is so of any rows, not only of those some steps lead to.              *)

\* The item of a row on the merged board.
CardOf(h, i) ==
    [host |-> h, id |-> QualifyId(h, i), agent |-> QualifyId(h, Shape[i].agent),
     kind |-> Shape[i].kind, row |-> boardRow[h][i]]

LEMMA CardIsOfOne ==
    ASSUME NEW h, NEW i
    PROVE  /\ CardOf(h, i).host = h /\ CardOf(h, i).id = QualifyId(h, i)
           /\ CardOf(h, i).agent = QualifyId(h, Shape[i].agent)
           /\ CardOf(h, i).kind = Shape[i].kind /\ CardOf(h, i).row = boardRow[h][i]
           /\ \A g, j : QualifyId(h, i) = QualifyId(g, j) => h = g /\ i = j
  BY DEF CardOf, QualifyId

\* What a node lists, and what the hub makes of it.
LEMMA ItemsAre ==
    ASSUME BoardTypeOK, NEW v \in Views
    PROVE  /\ reachable \subseteq Hosts
           /\ \A h \in reachable : /\ v[h] \subseteq Ids /\ Running(h) \subseteq v[h]
                                   /\ v[h] \subseteq Running(h) \cup Ended(h)
           /\ \A h \in reachable : \A i \in v[h] : CardOf(h, i) \in MergedItems(v)
           /\ \A x \in MergedItems(v) : \E h \in reachable : \E i \in v[h] : x = CardOf(h, i)
<1>1. reachable \subseteq Hosts
  BY DEF BoardTypeOK
<1>2. ASSUME NEW h \in reachable
      PROVE  /\ v[h] \subseteq Ids /\ Running(h) \subseteq v[h]
             /\ v[h] \subseteq Running(h) \cup Ended(h)
  <2>1. v[h] \in Listings(h) /\ v[h] \in SUBSET Ids
    BY <1>1 DEF Views
  <2>2. PICK recent \in SUBSET Ended(h) : v[h] = Running(h) \cup recent
    BY <2>1 DEF Listings
  <2> QED
    BY <2>1, <2>2
<1>3. MergedItems(v) = UNION {{CardOf(h, i) : i \in v[h]} : h \in reachable}
  BY DEF MergedItems, CardOf
<1> QED
  BY <1>1, <1>2, <1>3

\* Where a row stands: among the unconfirmed, or in the lane of its agent.
Seat(h, i) ==
    IF IsUnconfirmed(CardOf(h, i)) THEN <<"unconfirmed", QualifyId(h, i)>>
    ELSE <<IF boardRow[h][i].state = "queued" THEN "queued" ELSE "running",
           <<h, QualifyId(h, Shape[i].agent)>>, QualifyId(h, i)>>

LEMMA DueIs ==
    ASSUME NEW h, NEW i
    PROVE  <<h, i>> \in Due <=> h \in reachable /\ i \in Running(h) /\ MatchesKind(Shape[i].kind)
  BY DEF Due

LEMMA CurrentIs ==
    ASSUME BoardTypeOK, NEW v \in Views
    PROVE  /\ \A h, i : <<h, i>> \in Due => CardOf(h, i) \in Current(MergedItems(v))
           /\ \A x \in Current(MergedItems(v)) :
                \E h \in reachable : \E i \in Ids : <<h, i>> \in Due /\ x = CardOf(h, i)
<1>1. ASSUME NEW h, NEW i, <<h, i>> \in Due PROVE CardOf(h, i) \in Current(MergedItems(v))
  <2>1. h \in reachable /\ i \in Running(h) /\ MatchesKind(Shape[i].kind)
    BY <1>1, DueIs
  <2>2. CardOf(h, i) \in MergedItems(v)
    BY <2>1, ItemsAre
  <2>3. boardRow[h][i].state # "terminal"
    BY <2>1 DEF Running
  <2> QED
    BY <2>1, <2>2, <2>3, CardIsOfOne DEF Current
<1>2. ASSUME NEW x \in Current(MergedItems(v))
      PROVE  \E h \in reachable : \E i \in Ids : <<h, i>> \in Due /\ x = CardOf(h, i)
  <2>1. x \in MergedItems(v) /\ x.row.state # "terminal" /\ MatchesKind(x.kind)
    BY DEF Current
  <2>2. PICK h \in reachable : \E i \in v[h] : x = CardOf(h, i)
    BY <2>1, ItemsAre
  <2>3. PICK i \in v[h] : x = CardOf(h, i)
    BY <2>2
  <2>4. i \in Ids /\ i \in Running(h) \cup Ended(h)
    BY ItemsAre
  <2>5. i \notin Ended(h) /\ MatchesKind(Shape[i].kind)
    BY <2>1, <2>3, CardIsOfOne DEF Ended
  <2>6. <<h, i>> \in Due
    BY <2>4, <2>5, DueIs
  <2> QED
    BY <2>3, <2>4, <2>6
<1> QED
  BY <1>1, <1>2

LEMMA PlacesAre ==
    ASSUME BoardTypeOK, NEW v \in Views, NEW h \in reachable, NEW i \in Ids
    PROVE  Places(MergedItems(v), h, i) = IF <<h, i>> \in Due THEN {Seat(h, i)} ELSE {}
<1> DEFINE shows == MergedItems(v)
           P == Places(shows, h, i)
<1>1. ASSUME NEW item \in Current(shows), item.id = QualifyId(h, i)
      PROVE  item = CardOf(h, i) /\ <<h, i>> \in Due
  <2>1. PICK g \in reachable : \E j \in Ids : <<g, j>> \in Due /\ item = CardOf(g, j)
    BY CurrentIs
  <2>2. PICK j \in Ids : <<g, j>> \in Due /\ item = CardOf(g, j)
    BY <2>1
  <2>3. g = h /\ j = i
    BY <1>1, <2>2, CardIsOfOne
  <2> QED
    BY <2>2, <2>3
<1>2. ASSUME NEW x \in P PROVE x = Seat(h, i) /\ <<h, i>> \in Due
  <2>1. CASE x \in {<<"unconfirmed", item.id>> :
                      item \in {u \in Unconfirmed(shows) : u.id = QualifyId(h, i)}}
    <3>1. PICK item \in Unconfirmed(shows) : item.id = QualifyId(h, i) /\ x = <<"unconfirmed", item.id>>
      BY <2>1
    <3>2. item \in Current(shows) /\ IsUnconfirmed(item)
      BY DEF Unconfirmed
    <3> QED
      BY <1>1, <3>1, <3>2 DEF Seat
  <2>2. ASSUME NEW key \in LaneKeys(shows), NEW item \in Lane(shows, key).queued,
               item.id = QualifyId(h, i), x = <<"queued", key, item.id>>
        PROVE  x = Seat(h, i) /\ <<h, i>> \in Due
    <3>1. /\ item \in Confirmed(shows) /\ <<item.host, item.agent>> = key
          /\ item.row.state = "queued"
      BY DEF Lane
    <3>2. item \in Current(shows) /\ ~IsUnconfirmed(item)
      BY <3>1 DEF Confirmed
    <3>3. item = CardOf(h, i) /\ <<h, i>> \in Due
      BY <1>1, <2>2, <3>2
    <3> QED
      BY <2>2, <3>1, <3>2, <3>3, CardIsOfOne DEF Seat
  <2>3. ASSUME NEW key \in LaneKeys(shows), NEW item \in Lane(shows, key).running,
               item.id = QualifyId(h, i), x = <<"running", key, item.id>>
        PROVE  x = Seat(h, i) /\ <<h, i>> \in Due
    <3>1. /\ item \in Confirmed(shows) /\ <<item.host, item.agent>> = key
          /\ item.row.state # "queued"
      BY DEF Lane
    <3>2. item \in Current(shows) /\ ~IsUnconfirmed(item)
      BY <3>1 DEF Confirmed
    <3>3. item = CardOf(h, i) /\ <<h, i>> \in Due
      BY <1>1, <2>3, <3>2
    <3> QED
      BY <2>3, <3>1, <3>2, <3>3, CardIsOfOne DEF Seat
  <2> HIDE DEF shows
  <2>4. \/ x \in {<<"unconfirmed", item.id>> :
                      item \in {u \in Unconfirmed(shows) : u.id = QualifyId(h, i)}}
        \/ \E key \in LaneKeys(shows) : \E item \in Lane(shows, key).queued :
              item.id = QualifyId(h, i) /\ x = <<"queued", key, item.id>>
        \/ \E key \in LaneKeys(shows) : \E item \in Lane(shows, key).running :
              item.id = QualifyId(h, i) /\ x = <<"running", key, item.id>>
    BY DEF Places
  <2> QED
    BY <2>1, <2>2, <2>3, <2>4
<1>3. ASSUME <<h, i>> \in Due PROVE Seat(h, i) \in P
  <2> DEFINE item == CardOf(h, i)
             key == <<h, QualifyId(h, Shape[i].agent)>>
  <2>1. item \in Current(shows) /\ item.id = QualifyId(h, i) /\ <<item.host, item.agent>> = key
        /\ item.row = boardRow[h][i]
    BY <1>3, CurrentIs, CardIsOfOne
  <2> HIDE DEF shows, item, key
  <2>2. CASE IsUnconfirmed(item)
    <3>1. item \in Unconfirmed(shows)
      BY <2>1, <2>2 DEF Unconfirmed
    <3>2. Seat(h, i) = <<"unconfirmed", item.id>>
      BY <2>1, <2>2 DEF Seat, item
    <3> QED
      BY <2>1, <3>1, <3>2 DEF Places
  <2>3. CASE ~IsUnconfirmed(item)
    <3>1. item \in Confirmed(shows)
      BY <2>1, <2>3 DEF Confirmed
    <3>2. key \in LaneKeys(shows)
      BY <2>1, <3>1 DEF LaneKeys
    <3>3. CASE boardRow[h][i].state = "queued"
      <4>1. item \in Lane(shows, key).queued
        BY <2>1, <3>1, <3>3 DEF Lane
      <4>2. Seat(h, i) = <<"queued", key, item.id>>
        BY <2>1, <2>3, <3>3 DEF Seat, item, key
      <4> QED
        BY <2>1, <3>2, <4>1, <4>2 DEF Places
    <3>4. CASE boardRow[h][i].state # "queued"
      <4>1. item \in Lane(shows, key).running
        BY <2>1, <3>1, <3>4 DEF Lane
      <4>2. Seat(h, i) = <<"running", key, item.id>>
        BY <2>1, <2>3, <3>4 DEF Seat, item, key
      <4> QED
        BY <2>1, <3>2, <4>1, <4>2 DEF Places
    <3> QED
      BY <3>3, <3>4
  <2> QED
    BY <2>2, <2>3
<1> HIDE DEF P
<1>4. P = IF <<h, i>> \in Due THEN {Seat(h, i)} ELSE {}
  BY <1>2, <1>3
<1> QED
  BY <1>4 DEF P

LEMMA DueIsFinite == ASSUME BoardTypeOK PROVE Due \subseteq Hosts \X Ids /\ IsFiniteSet(Due)
<1>1. Due \subseteq Hosts \X Ids
  BY DEF Due, BoardTypeOK, Running
<1>2. IsFiniteSet(Hosts \X Ids)
  BY BoardAssumption, FS_Product
<1> QED
  BY <1>1, <1>2, FS_Subset

LEMMA EachHasOnePlace == ASSUME BoardTypeOK PROVE OnePlace
<1> SUFFICES ASSUME NEW v \in Views
             PROVE  /\ \A h \in reachable, i \in Ids :
                          Cardinality(Places(MergedItems(v), h, i)) = IF <<h, i>> \in Due THEN 1 ELSE 0
                    /\ Cardinality(Current(MergedItems(v))) = Cardinality(Due)
                    /\ Attention(MergedItems(v)) \subseteq
                         UNION {Lane(MergedItems(v), key).running : key \in LaneKeys(MergedItems(v))}
  BY DEF OnePlace
<1>1. ASSUME NEW h \in reachable, NEW i \in Ids
      PROVE  Cardinality(Places(MergedItems(v), h, i)) = IF <<h, i>> \in Due THEN 1 ELSE 0
  <2>1. Cardinality({Seat(h, i)}) = 1 /\ Cardinality({}) = 0
    BY FS_Singleton, FS_EmptySet
  <2> QED
    BY <2>1, PlacesAre
<1>2. Cardinality(Current(MergedItems(v))) = Cardinality(Due)
  <2> DEFINE f == [c \in Due |-> CardOf(c[1], c[2])]
  <2>1. \A c \in Due : c = <<c[1], c[2]>>
    BY DueIsFinite
  <2>2. ASSUME NEW c \in Due, NEW d \in Due, f[c] = f[d] PROVE c = d
    <3>1. CardOf(c[1], c[2]).id = CardOf(d[1], d[2]).id
      BY <2>2
    <3>2. c[1] = d[1] /\ c[2] = d[2]
      BY <3>1, CardIsOfOne
    <3> QED
      BY <2>1, <3>2
  <2>3. Current(MergedItems(v)) = {f[c] : c \in Due}
    <3>1. ASSUME NEW c \in Due PROVE f[c] \in Current(MergedItems(v))
      BY <2>1, CurrentIs
    <3>2. ASSUME NEW x \in Current(MergedItems(v)) PROVE \E c \in Due : x = f[c]
      <4>1. PICK h \in reachable : \E i \in Ids : <<h, i>> \in Due /\ x = CardOf(h, i)
        BY CurrentIs
      <4>2. PICK i \in Ids : <<h, i>> \in Due /\ x = CardOf(h, i)
        BY <4>1
      <4>3. f[<<h, i>>] = CardOf(h, i)
        BY <4>2
      <4> QED
        BY <4>2, <4>3
    <3> HIDE DEF f
    <3> QED
      BY <3>1, <3>2
  <2> HIDE DEF f
  <2> QED
    BY <2>2, <2>3, DueIsFinite, ImagesCount
<1>3. ASSUME NEW x \in Attention(MergedItems(v))
      PROVE  \E key \in LaneKeys(MergedItems(v)) : x \in Lane(MergedItems(v), key).running
  <2> DEFINE key == <<x.host, x.agent>>
  <2>1. x \in Confirmed(MergedItems(v)) /\ x.row.state = "active"
    BY DEF Attention, IsAwaitingApproval
  <2>2. key \in LaneKeys(MergedItems(v))
    BY <2>1 DEF LaneKeys
  <2>3. x \in Lane(MergedItems(v), key).running
    BY <2>1 DEF Lane
  <2> HIDE DEF key
  <2> QED
    BY <2>2, <2>3
<1> QED
  BY <1>1, <1>2, <1>3

LEMMA LinksAreOfOne == ASSUME BoardTypeOK PROVE LinksResolve
<1> SUFFICES ASSUME NEW v \in Views, NEW r \in MergedRelations(v)
             PROVE  \E h \in reachable : \A end \in {r.from, r.to} :
                      LET found == {item \in MergedItems(v) : item.id = end}
                      IN Cardinality(found) = 1 /\ \A item \in found : item.host = h
  BY DEF LinksResolve
<1>1. PICK h \in reachable :
        r \in {[q EXCEPT !.from = QualifyId(h, @), !.to = QualifyId(h, @)] : q \in Relations(v[h])}
  BY DEF MergedRelations
<1>2. PICK q \in Relations(v[h]) : r = [q EXCEPT !.from = QualifyId(h, @), !.to = QualifyId(h, @)]
  BY <1>1
<1>3. /\ DOMAIN q = {"type", "from", "to"} /\ q.from \in v[h] /\ q.to \in v[h]
  BY DEF Relations
<1>4. r.from = QualifyId(h, q.from) /\ r.to = QualifyId(h, q.to)
  BY <1>2, <1>3
<1>5. ASSUME NEW i \in v[h]
      PROVE  {item \in MergedItems(v) : item.id = QualifyId(h, i)} = {CardOf(h, i)}
  <2>1. CardOf(h, i) \in MergedItems(v) /\ CardOf(h, i).id = QualifyId(h, i)
    BY ItemsAre, CardIsOfOne
  <2>2. ASSUME NEW item \in MergedItems(v), item.id = QualifyId(h, i) PROVE item = CardOf(h, i)
    <3>1. PICK g \in reachable : \E j \in v[g] : item = CardOf(g, j)
      BY ItemsAre
    <3>2. PICK j \in v[g] : item = CardOf(g, j)
      BY <3>1
    <3> QED
      BY <2>2, <3>2, CardIsOfOne
  <2> QED
    BY <2>1, <2>2
<1>6. ASSUME NEW i \in v[h]
      PROVE  LET found == {item \in MergedItems(v) : item.id = QualifyId(h, i)}
             IN Cardinality(found) = 1 /\ \A item \in found : item.host = h
  <2> DEFINE found == {item \in MergedItems(v) : item.id = QualifyId(h, i)}
             c == CardOf(h, i)
  <2>1. found = {c} /\ c.host = h
    BY <1>5, CardIsOfOne
  <2> HIDE DEF found, c
  <2>2. Cardinality(found) = 1 /\ \A item \in found : item.host = h
    BY <2>1, FS_Singleton
  <2> QED
    BY <2>2 DEF found
<1> QED
  BY <1>3, <1>4, <1>6

\* The items of a node, by what is asked of them.
LEMMA PartIsFinite ==
    ASSUME BoardTypeOK, NEW v \in Views
    PROVE  /\ IsFiniteSet(UNION {{<<h, i>> : i \in v[h]} : h \in reachable})
           /\ IsFiniteSet(reachable) /\ \A h \in reachable : IsFiniteSet(v[h])
<1>1. reachable \subseteq Hosts /\ \A h \in reachable : v[h] \subseteq Ids
  BY ItemsAre
<1>2. UNION {{<<h, i>> : i \in v[h]} : h \in reachable} \subseteq Hosts \X Ids
  BY <1>1
<1> QED
  BY <1>1, <1>2, FS_Subset, FS_Product, BoardAssumption

LEMMA StagesSum == ASSUME BoardTypeOK PROVE StagesAddUp
<1> SUFFICES ASSUME NEW v \in Views
             PROVE  SumFunction(MergedSummary(v)) = Cardinality(MergedItems(v))
  BY DEF StagesAddUp
<1> DEFINE S == UNION {{<<h, i>> : i \in v[h]} : h \in reachable}
           stage == [c \in S |-> StageFor(boardRow[c[1]][c[2]])]
           Staged(s) == {c \in S : stage[c] = s}
           first == [c \in S |-> c[1]]
           card == [c \in S |-> CardOf(c[1], c[2])]
<1>1. IsFiniteSet(S) /\ IsFiniteSet(reachable) /\ \A h \in reachable : IsFiniteSet(v[h])
  BY PartIsFinite
<1>2. \A c \in S : c = <<c[1], c[2]>> /\ c[1] \in reachable /\ c[2] \in v[c[1]]
  OBVIOUS
<1>3. \A h \in reachable : \A i \in v[h] : <<h, i>> \in S
  OBVIOUS
<1> HIDE DEF S
<1>4. \A c \in S : stage[c] = StageFor(boardRow[c[1]][c[2]]) /\ first[c] = c[1]
                   /\ card[c] = CardOf(c[1], c[2])
  OBVIOUS
<1> HIDE DEF stage, first, card
<1>5. ASSUME NEW s \in Stages
      PROVE  MergedSummary(v)[s] = Cardinality(Staged(s))
  <2> DEFINE f == [h \in reachable |-> CountStages(h, v[h])[s]]
  <2>1. DOMAIN f = reachable /\ IsFiniteSet(Staged(s)) /\ \A c \in Staged(s) : first[c] \in reachable
    BY <1>1, <1>2, <1>4, FS_Subset
  <2>2. ASSUME NEW h \in reachable
        PROVE  f[h] = Cardinality({c \in Staged(s) : first[c] = h})
    <3> DEFINE I == {i \in v[h] : StageFor(boardRow[h][i]) = s}
               pair == [i \in I |-> <<h, i>>]
    <3>1. f[h] = Cardinality(I)
      BY DEF CountStages
    <3>2. IsFiniteSet(I) /\ \A x, y \in I : pair[x] = pair[y] => x = y
      BY <1>1, FS_Subset
    <3>3. {c \in Staged(s) : first[c] = h} = {pair[i] : i \in I}
      <4>1. ASSUME NEW c \in S, stage[c] = s, first[c] = h PROVE \E i \in I : c = pair[i]
        <5>1. c = <<h, c[2]>> /\ c[2] \in v[h] /\ StageFor(boardRow[h][c[2]]) = s
          BY <1>2, <1>4, <4>1
        <5> QED
          BY <5>1
      <4>2. ASSUME NEW i \in I PROVE pair[i] \in S /\ stage[pair[i]] = s /\ first[pair[i]] = h
        <5>1. pair[i] = <<h, i>> /\ pair[i] \in S
          BY <1>3
        <5> QED
          BY <1>4, <5>1
      <4> HIDE DEF I, pair
      <4> QED
        BY <4>1, <4>2
    <3> HIDE DEF I, pair
    <3>4. Cardinality({pair[i] : i \in I}) = Cardinality(I)
      BY <3>2, ImagesCount
    <3> QED
      BY <3>1, <3>3, <3>4
  <2>3. MergedSummary(v)[s] = SumFunction(f)
    BY DEF MergedSummary
  <2> HIDE DEF f, Staged
  <2>4. SumFunction(f) = Cardinality(Staged(s))
    BY <1>1, <2>1, <2>2, SumOfParts
  <2> QED
    BY <2>3, <2>4
<1>6. DOMAIN MergedSummary(v) = Stages /\ IsFiniteSet(Stages)
  <2>1. IsFiniteSet({"incoming"}) /\ IsFiniteSet({"inFlight"}) /\ IsFiniteSet({"waiting"})
        /\ IsFiniteSet({"settled"}) /\ IsFiniteSet({"unresolved"})
    BY FS_Singleton
  <2>2. Stages = {"incoming"} \cup ({"inFlight"} \cup ({"waiting"} \cup ({"settled"} \cup {"unresolved"})))
    BY DEF Stages
  <2>3. IsFiniteSet(Stages)
    BY <2>1, <2>2, FS_Union
  <2> QED
    BY <2>3 DEF MergedSummary
<1>7. \A c \in S : stage[c] \in Stages
  BY <1>4 DEF StageFor, Stages
<1>8. SumFunction(MergedSummary(v)) = Cardinality(S)
  BY <1>1, <1>5, <1>6, <1>7, SumOfParts
<1>9. MergedItems(v) = {card[c] : c \in S}
  <2>1. \A c \in S : card[c] \in MergedItems(v)
    BY <1>2, <1>4, ItemsAre
  <2>2. ASSUME NEW x \in MergedItems(v) PROVE \E c \in S : x = card[c]
    <3>1. PICK h \in reachable : \E i \in v[h] : x = CardOf(h, i)
      BY ItemsAre
    <3>2. PICK i \in v[h] : x = CardOf(h, i)
      BY <3>1
    <3>3. <<h, i>> \in S /\ card[<<h, i>>] = CardOf(h, i)
      BY <1>3, <1>4
    <3> QED
      BY <3>2, <3>3
  <2> QED
    BY <2>1, <2>2
<1>10. \A c, d \in S : card[c] = card[d] => c = d
  <2>1. SUFFICES ASSUME NEW c \in S, NEW d \in S, card[c] = card[d] PROVE c = d
    OBVIOUS
  <2>2. CardOf(c[1], c[2]).id = CardOf(d[1], d[2]).id
    BY <1>4, <2>1
  <2>3. c[1] = d[1] /\ c[2] = d[2]
    BY <2>2, CardIsOfOne
  <2> QED
    BY <1>2, <2>3
<1> QED
  BY <1>1, <1>8, <1>9, <1>10, ImagesCount

LEMMA EndedRowsAre ==
    ASSUME BoardTypeOK, NEW h \in Hosts, NEW i \in Ended(h)
    PROVE  /\ i \in Ids /\ boardRow[h][i].outcome \in Outcomes
           /\ boardRow[h][i].at \in Nat
<1>1. i \in Ids /\ boardRow[h][i].state = "terminal"
  BY DEF Ended
<1>2. boardRow[h][i] \in {NoRow} \cup RowStates \cup TerminalStates
  BY <1>1 DEF BoardTypeOK
<1>3. boardRow[h][i] \in TerminalStates
  BY <1>1, <1>2 DEF NoRow, RowStates
<1> QED
  BY <1>1, <1>3, BoardAssumption DEF TerminalStates

LEMMA RangeIs ==
    ASSUME BoardTypeOK, NEW h \in Hosts, NEW r
    PROVE  InRange(h, r) \subseteq Ended(h) /\ InRange(h, r) \subseteq Ids /\ IsFiniteSet(InRange(h, r))
  BY BoardAssumption, FS_Subset DEF InRange, Ended

\* The runs of a series that has any, and its card.
LEMMA GroupIs ==
    ASSUME BoardTypeOK, NEW h \in Hosts, NEW i \in InRange(h, boardRange)
    PROVE  LET g == Group(h, SeriesKey(i), boardRange)
               runs == {j \in InRange(h, boardRange) : SeriesKey(j) = SeriesKey(i)}
           IN /\ i \in runs /\ runs \subseteq Ended(h) /\ IsFiniteSet(runs)
              /\ g.host = h /\ g.series = SeriesKey(i) /\ g.runCount = Cardinality(runs)
              /\ g.outcomes = [o \in Outcomes |-> Having(h, runs, {o})]
              /\ g.failures = Having(h, runs, {"failed", "timed_out"})
              /\ g.last = boardRow[h][Latest(h, runs)].outcome
              /\ g.latestAt = boardRow[h][Latest(h, runs)].at
              /\ g.tier = PriorityTier(h, runs)
<1> DEFINE runs == {j \in InRange(h, boardRange) : SeriesKey(j) = SeriesKey(i)}
<1>1. i \in runs /\ runs \subseteq Ended(h) /\ IsFiniteSet(runs)
  BY RangeIs, FS_Subset
<1> QED
  BY <1>1 DEF Group

\* The runs the page counts: of every node that holds the range.
Counted == UNION {{<<h, i>> : i \in InRange(h, boardRange)} : h \in Holding}

GroupOf(c) == Group(c[1], SeriesKey(c[2]), boardRange)

LEMMA CountedIs ==
    ASSUME BoardTypeOK
    PROVE  /\ Holding \subseteq Hosts /\ IsFiniteSet(Holding) /\ IsFiniteSet(Counted)
           /\ \A c \in Counted : /\ c = <<c[1], c[2]>> /\ c[1] \in Holding
                                 /\ c[2] \in InRange(c[1], boardRange)
           /\ \A h \in Holding : \A i \in InRange(h, boardRange) : <<h, i>> \in Counted
           /\ MergedGroups = {GroupOf(c) : c \in Counted} /\ IsFiniteSet(MergedGroups)
<1>1. Holding \subseteq Hosts /\ IsFiniteSet(Holding)
  BY BoardAssumption, FS_Subset DEF Holding, BoardTypeOK
<1>2. Counted \subseteq Hosts \X Ids
  BY <1>1, RangeIs DEF Counted
<1>3. IsFiniteSet(Counted)
  BY <1>2, BoardAssumption, FS_Product, FS_Subset
<1>4. \A c \in Counted : c = <<c[1], c[2]>> /\ c[1] \in Holding /\ c[2] \in InRange(c[1], boardRange)
  BY DEF Counted
<1>5. \A h \in Holding : \A i \in InRange(h, boardRange) : <<h, i>> \in Counted
  BY DEF Counted
<1>6. MergedGroups = {GroupOf(c) : c \in Counted}
  <2>1. ASSUME NEW g \in MergedGroups PROVE \E c \in Counted : g = GroupOf(c)
    <3>1. PICK h \in Holding : g \in Groups(h, boardRange)
      BY DEF MergedGroups
    <3>2. PICK i \in InRange(h, boardRange) : g = Group(h, SeriesKey(i), boardRange)
      BY <3>1 DEF Groups
    <3>3. g = GroupOf(<<h, i>>)
      BY <3>2 DEF GroupOf
    <3> QED
      BY <1>5, <3>3
  <2>2. ASSUME NEW c \in Counted PROVE GroupOf(c) \in MergedGroups
    <3>1. GroupOf(c) \in Groups(c[1], boardRange)
      BY <1>4 DEF GroupOf, Groups
    <3> QED
      BY <1>4, <3>1 DEF MergedGroups
  <2> QED
    BY <2>1, <2>2
<1>7. IsFiniteSet(MergedGroups)
  <2> DEFINE f == [c \in Counted |-> GroupOf(c)]
  <2>1. f \in [Counted -> MergedGroups] /\ \A g \in MergedGroups : \E c \in Counted : f[c] = g
    BY <1>6
  <2> HIDE DEF f
  <2>2. f \in Surjection(Counted, MergedGroups)
    BY <2>1 DEF Surjection
  <2> QED
    BY <1>3, <2>2, FS_Surjection
<1> QED
  BY <1>1, <1>3, <1>4, <1>5, <1>6, <1>7

LEMMA RunsAreCounted == ASSUME BoardTypeOK PROVE RunsCountOnce
<1>1. MergedRuns = Cardinality(Counted)
  <2> DEFINE f == [h \in Holding |-> Cardinality(InRange(h, boardRange))]
             first == [c \in Counted |-> c[1]]
  <2>1. DOMAIN f = Holding /\ \A c \in Counted : first[c] \in Holding
    BY CountedIs
  <2>2. ASSUME NEW h \in Holding PROVE f[h] = Cardinality({c \in Counted : first[c] = h})
    <3> DEFINE I == InRange(h, boardRange)
               pair == [i \in I |-> <<h, i>>]
    <3>1. IsFiniteSet(I) /\ \A x, y \in I : pair[x] = pair[y] => x = y
      BY CountedIs, RangeIs
    <3>2. {c \in Counted : first[c] = h} = {pair[i] : i \in I}
      BY CountedIs
    <3> HIDE DEF I, pair
    <3>3. Cardinality({pair[i] : i \in I}) = Cardinality(I)
      BY <3>1, ImagesCount
    <3> QED
      BY <3>2, <3>3 DEF I
  <2> HIDE DEF f, first
  <2>3. SumFunction(f) = Cardinality(Counted)
    BY <2>1, <2>2, CountedIs, SumOfParts
  <2> QED
    BY <2>3 DEF MergedRuns, f
<1>2. SumFunction([g \in MergedGroups |-> g.runCount]) = Cardinality(Counted)
  <2> DEFINE f == [g \in MergedGroups |-> g.runCount]
             of == [c \in Counted |-> GroupOf(c)]
  <2>1. DOMAIN f = MergedGroups /\ \A c \in Counted : of[c] \in MergedGroups
    BY CountedIs
  <2>2. ASSUME NEW g \in MergedGroups PROVE f[g] = Cardinality({c \in Counted : of[c] = g})
    <3>1. PICK d \in Counted : g = GroupOf(d)
      BY CountedIs
    <3> DEFINE h == d[1]
               I == {j \in InRange(h, boardRange) : SeriesKey(j) = SeriesKey(d[2])}
               pair == [i \in I |-> <<h, i>>]
    <3>2. h \in Holding /\ h \in Hosts /\ d[2] \in InRange(h, boardRange)
      BY CountedIs
    <3>3. f[g] = Cardinality(I) /\ IsFiniteSet(I)
      BY <3>1, <3>2, GroupIs DEF GroupOf
    <3>4. \A x, y \in I : pair[x] = pair[y] => x = y
      OBVIOUS
    <3>5. ASSUME NEW c \in Counted, GroupOf(c) = g PROVE \E i \in I : c = pair[i]
      <4>1. /\ c = <<c[1], c[2]>> /\ c[1] \in Hosts /\ c[2] \in InRange(c[1], boardRange)
        BY CountedIs
      <4>2. GroupOf(c).host = c[1] /\ GroupOf(c).series = SeriesKey(c[2])
        BY <4>1, GroupIs DEF GroupOf
      <4>3. GroupOf(d).host = d[1] /\ GroupOf(d).series = SeriesKey(d[2])
        BY <3>2, GroupIs DEF GroupOf
      <4>4. c[1] = h /\ SeriesKey(c[2]) = SeriesKey(d[2])
        BY <3>1, <3>5, <4>2, <4>3
      <4> QED
        BY <4>1, <4>4
    <3>6. ASSUME NEW i \in I PROVE pair[i] \in Counted /\ GroupOf(pair[i]) = g
      <4>1. pair[i] = <<h, i>> /\ pair[i] \in Counted
        BY <3>2, CountedIs
      <4> QED
        BY <3>1, <4>1 DEF GroupOf
    <3> HIDE DEF I, pair
    <3>7. {c \in Counted : of[c] = g} = {pair[i] : i \in I}
      BY <3>5, <3>6
    <3>8. Cardinality({pair[i] : i \in I}) = Cardinality(I)
      BY <3>3, <3>4, ImagesCount
    <3> QED
      BY <3>3, <3>7, <3>8
  <2> HIDE DEF f, of
  <2>3. SumFunction(f) = Cardinality(Counted)
    BY <2>1, <2>2, CountedIs, SumOfParts, SMTT(30)
  <2> QED
    BY <2>3 DEF f
<1>3. ASSUME NEW g \in MergedGroups
      PROVE  /\ SumFunction(g.outcomes) = g.runCount
             /\ g.runCount = Cardinality(SeriesRuns(g.host, g.series, boardRange))
  <2>1. PICK d \in Counted : g = GroupOf(d)
    BY <1>3, CountedIs
  <2> DEFINE h == d[1]
             runs == {j \in InRange(h, boardRange) : SeriesKey(j) = SeriesKey(d[2])}
             ended == [i \in runs |-> boardRow[h][i].outcome]
             f == [o \in Outcomes |-> Having(h, runs, {o})]
  <2>2. h \in Hosts /\ d[2] \in InRange(h, boardRange)
    BY CountedIs
  <2>3. /\ IsFiniteSet(runs) /\ runs \subseteq Ended(h) /\ g.outcomes = f
        /\ g.runCount = Cardinality(runs) /\ g.host = h /\ g.series = SeriesKey(d[2])
    BY <2>1, <2>2, GroupIs DEF GroupOf
  <2>4. \A i \in runs : ended[i] \in Outcomes
    BY <2>2, <2>3, EndedRowsAre
  <2>5. \A o \in Outcomes : f[o] = Cardinality({i \in runs : ended[i] = o})
    <3>1. SUFFICES ASSUME NEW o \in Outcomes PROVE f[o] = Cardinality({i \in runs : ended[i] = o})
      OBVIOUS
    <3>2. {i \in runs : boardRow[h][i].outcome \in {o}} = {i \in runs : ended[i] = o}
      OBVIOUS
    <3> HIDE DEF ended
    <3> QED
      BY <3>2 DEF Having
  <2>6. DOMAIN f = Outcomes
    OBVIOUS
  <2>7. SeriesRuns(g.host, g.series, boardRange) = runs
    BY <2>3 DEF SeriesRuns
  <2> HIDE DEF runs, ended, f
  <2>8. SumFunction(f) = Cardinality(runs)
    BY <2>3, <2>4, <2>5, <2>6, SumOfParts, BoardAssumption
  <2> QED
    BY <2>3, <2>7, <2>8
<1>4. Complete => MergedRuns = SumFunction([h \in Hosts |-> Cardinality(InRange(h, boardRange))])
  BY DEF Complete, MergedRuns
<1> QED
  BY <1>1, <1>2, <1>3, <1>4 DEF RunsCountOnce

LEMMA LatestIs ==
    ASSUME BoardTypeOK, NEW h \in Hosts, NEW runs, IsFiniteSet(runs), runs \subseteq Ended(h), runs # {}
    PROVE  Latest(h, runs) \in runs
<1> DEFINE Beats(i, j) == \/ boardRow[h][i].at > boardRow[h][j].at
                          \/ boardRow[h][i].at = boardRow[h][j].at /\ i <= j
           F == {T \in SUBSET runs : T = {} \/ \E i \in T : \A j \in T : Beats(i, j)}
<1>1. \A i \in runs : i \in Nat /\ boardRow[h][i].at \in Nat
  BY EndedRowsAre, BoardAssumption
<1>2. /\ \A i \in runs : Beats(i, i)
      /\ \A i, j \in runs : Beats(i, j) \/ Beats(j, i)
      /\ \A i, j, k \in runs : Beats(i, j) /\ Beats(j, k) => Beats(i, k)
  BY <1>1
<1>3. Latest(h, runs) = CHOOSE i \in runs : \A j \in runs : Beats(i, j)
  BY DEF Latest
<1> HIDE DEF Beats
<1>4. {} \in F
  OBVIOUS
<1>5. ASSUME NEW T \in SUBSET runs, NEW x \in runs \ T, T \in F PROVE T \cup {x} \in F
  <2>1. CASE T = {}
    BY <1>2, <2>1
  <2>2. ASSUME NEW i \in T, \A j \in T : Beats(i, j) PROVE T \cup {x} \in F
    <3>1. CASE Beats(i, x)
      BY <2>2, <3>1
    <3>2. CASE Beats(x, i)
      <4>1. \A j \in T \cup {x} : Beats(x, j)
        BY <1>2, <2>2, <3>2
      <4> QED
        BY <4>1
    <3> QED
      BY <1>2, <3>1, <3>2
  <2> QED
    BY <1>5, <2>1, <2>2
<1>6. runs \in F
  <2> HIDE DEF F
  <2> QED
    BY <1>4, <1>5, ByMembers
<1> QED
  BY <1>3, <1>6

\* What the order reads of a card.
LEMMA CardsAre ==
    ASSUME BoardTypeOK, NEW g \in MergedGroups
    PROVE  /\ g.runCount \in Nat \ {0} /\ g.failures \in Nat /\ g.latestAt \in Nat
           /\ g.tier \in 0..3 /\ (g.last = "failed" => g.tier = 0)
<1>1. PICK d \in Counted : g = GroupOf(d)
  BY CountedIs
<1> DEFINE h == d[1]
           runs == {j \in InRange(h, boardRange) : SeriesKey(j) = SeriesKey(d[2])}
<1>2. h \in Hosts /\ d[2] \in InRange(h, boardRange)
  BY CountedIs
<1>3. /\ d[2] \in runs /\ IsFiniteSet(runs) /\ runs \subseteq Ended(h)
      /\ g.runCount = Cardinality(runs) /\ g.failures = Having(h, runs, {"failed", "timed_out"})
      /\ g.last = boardRow[h][Latest(h, runs)].outcome
      /\ g.latestAt = boardRow[h][Latest(h, runs)].at /\ g.tier = PriorityTier(h, runs)
  BY <1>1, <1>2, GroupIs DEF GroupOf
<1> HIDE DEF h, runs
<1>4. Latest(h, runs) \in runs
  BY <1>2, <1>3, LatestIs
<1>5. g.latestAt \in Nat
  BY <1>2, <1>3, <1>4, EndedRowsAre
<1>6. g.runCount \in Nat \ {0}
  BY <1>3, FS_CardinalityType, FS_EmptySet
<1>7. g.failures \in Nat
  <2>1. IsFiniteSet({i \in runs : boardRow[h][i].outcome \in {"failed", "timed_out"}})
    BY <1>3, FS_Subset
  <2> QED
    BY <1>3, <2>1, FS_CardinalityType DEF Having
<1>8. g.last = "failed" => Having(h, runs, {"succeeded"}) # Cardinality(runs)
  <2> DEFINE won == {i \in runs : boardRow[h][i].outcome \in {"succeeded"}}
  <2>1. SUFFICES ASSUME g.last = "failed" PROVE Cardinality(won) # Cardinality(runs)
    BY DEF Having
  <2>2. won \subseteq runs /\ won # runs
    BY <1>3, <1>4, <2>1
  <2> HIDE DEF won
  <2> QED
    BY <1>3, <2>2, FS_Subset
<1>9. PriorityTier(h, runs) \in 0..3
  BY DEF PriorityTier
<1>10. g.last = "failed" => PriorityTier(h, runs) = 0
  BY <1>3, <1>8 DEF PriorityTier
<1> QED
  BY <1>3, <1>5, <1>6, <1>7, <1>9, <1>10

LEMMA Products ==
    ASSUME NEW x \in Nat, NEW y \in Nat, NEW k \in Nat \ {0}
    PROVE  /\ x * k \in Nat /\ x * k = k * x
           /\ x < y <=> x * k < y * k
           /\ x = y <=> x * k = y * k
OBVIOUS

\* To compare rates as products is to order them.
LEMMA RatesAreOrdered ==
    ASSUME NEW a \in Nat, NEW b \in Nat, NEW c \in Nat,
           NEW l \in Nat \ {0}, NEW m \in Nat \ {0}, NEW n \in Nat \ {0}
    PROVE  /\ b * l < a * m /\ c * m < b * n => c * l < a * n
           /\ b * l < a * m /\ c * m = b * n => c * l < a * n
           /\ b * l = a * m /\ c * m < b * n => c * l < a * n
           /\ b * l = a * m /\ c * m = b * n => c * l = a * n
<1>1. /\ b * l \in Nat /\ a * m \in Nat /\ c * m \in Nat /\ b * n \in Nat
      /\ c * l \in Nat /\ a * n \in Nat
  OBVIOUS
<1>2. (b * l < a * m <=> (b * l) * n < (a * m) * n) /\ (b * l = a * m <=> (b * l) * n = (a * m) * n)
  BY <1>1, Products
<1>3. (c * m < b * n <=> (c * m) * l < (b * n) * l) /\ (c * m = b * n <=> (c * m) * l = (b * n) * l)
  BY <1>1, Products
<1>4. (c * l < a * n <=> (c * l) * m < (a * n) * m) /\ (c * l = a * n <=> (c * l) * m = (a * n) * m)
  BY <1>1, Products
<1>5. (b * l) * n = (b * n) * l /\ (c * m) * l = (c * l) * m /\ (a * m) * n = (a * n) * m
  OBVIOUS
<1>6. /\ (b * l) * n \in Nat /\ (c * m) * l \in Nat /\ (a * m) * n \in Nat
  BY <1>1, Products
<1> QED
  BY <1>2, <1>3, <1>4, <1>5, <1>6

\* The order, field by field.
LEMMA PrecedesIs ==
    ASSUME NEW g, NEW o, g.tier \in 0..3, o.tier \in 0..3, g.latestAt \in Nat, o.latestAt \in Nat,
           {g.runCount, o.runCount} \subseteq Nat \ {0}, {g.failures, o.failures} \subseteq Nat
    PROVE  Precedes(g, o) <=>
             \/ g.tier < o.tier
             \/ /\ g.tier = o.tier
                /\ \/ g.tier = 2 /\ o.failures * g.runCount < g.failures * o.runCount
                   \/ g.tier = 3 /\ g.runCount < o.runCount
                   \/ /\ g.tier = 2 => o.failures * g.runCount = g.failures * o.runCount
                      /\ g.tier = 3 => g.runCount = o.runCount
                      /\ o.latestAt < g.latestAt
<1> DEFINE p == o.failures * g.runCount
           q == g.failures * o.runCount
           w == g.tier - o.tier
           x == IF g.tier = 2 THEN p - q ELSE 0
           y == IF g.tier = 3 THEN g.runCount - o.runCount ELSE 0
           z == o.latestAt - g.latestAt
<1>1. p \in Nat /\ q \in Nat
  BY Products
<1>2. Precedes(g, o) <=> FirstDiffers(<<w, x, y, z>>)
  BY DEF Precedes
<1> HIDE DEF p, q
<1>3. w \in Int /\ x \in Int /\ y \in Int /\ z \in Int
  BY <1>1
<1>4. FirstDiffers(<<w, x, y, z>>) <=>
        \/ w < 0
        \/ w = 0 /\ x < 0
        \/ w = 0 /\ x = 0 /\ y < 0
        \/ w = 0 /\ x = 0 /\ y = 0 /\ z < 0
  <2> HIDE DEF w, x, y, z
  <2> DEFINE s == <<w, x, y, z>>
  <2>1. DOMAIN s = 1..4 /\ s[1] = w /\ s[2] = x /\ s[3] = y /\ s[4] = z
    OBVIOUS
  <2> HIDE DEF s
  <2>2. 1..4 = {1, 2, 3, 4} /\ 1..(1 - 1) = {} /\ 1..(2 - 1) = {1} /\ 1..(3 - 1) = {1, 2}
        /\ 1..(4 - 1) = {1, 2, 3}
    OBVIOUS
  <2>3. (\E k \in {1, 2, 3, 4} : s[k] < 0 /\ \A j \in 1..(k - 1) : s[j] = 0)
        <=> \/ s[1] < 0
            \/ s[2] < 0 /\ s[1] = 0
            \/ s[3] < 0 /\ s[1] = 0 /\ s[2] = 0
            \/ s[4] < 0 /\ s[1] = 0 /\ s[2] = 0 /\ s[3] = 0
    <3> DEFINE At(k) == s[k] < 0 /\ \A j \in 1..(k - 1) : s[j] = 0
    <3>1. At(1) <=> s[1] < 0
      BY <2>2
    <3>2. At(2) <=> s[2] < 0 /\ s[1] = 0
      BY <2>2
    <3>3. At(3) <=> s[3] < 0 /\ s[1] = 0 /\ s[2] = 0
      BY <2>2
    <3>4. At(4) <=> s[4] < 0 /\ s[1] = 0 /\ s[2] = 0 /\ s[3] = 0
      BY <2>2
    <3>5. (\E k \in {1, 2, 3, 4} : At(k)) <=> At(1) \/ At(2) \/ At(3) \/ At(4)
      <4> HIDE DEF At
      <4> QED
        OBVIOUS
    <3> HIDE DEF At
    <3>6. (\E k \in {1, 2, 3, 4} : At(k))
          <=> \/ s[1] < 0
              \/ s[2] < 0 /\ s[1] = 0
              \/ s[3] < 0 /\ s[1] = 0 /\ s[2] = 0
              \/ s[4] < 0 /\ s[1] = 0 /\ s[2] = 0 /\ s[3] = 0
      BY <3>1, <3>2, <3>3, <3>4, <3>5
    <3> QED
      BY <3>6 DEF At
  <2>4. FirstDiffers(s) <=> (\E k \in {1, 2, 3, 4} : s[k] < 0 /\ \A j \in 1..(k - 1) : s[j] = 0)
    BY <2>1, <2>2 DEF FirstDiffers
  <2> QED
    BY <1>3, <2>1, <2>3, <2>4 DEF s
<1>5. Precedes(g, o) <=>
        \/ g.tier < o.tier
        \/ /\ g.tier = o.tier
           /\ \/ g.tier = 2 /\ p < q
              \/ g.tier = 3 /\ g.runCount < o.runCount
              \/ /\ g.tier = 2 => p = q
                 /\ g.tier = 3 => g.runCount = o.runCount
                 /\ o.latestAt < g.latestAt
  <2>1. /\ w < 0 <=> g.tier < o.tier
        /\ w = 0 <=> g.tier = o.tier
        /\ x < 0 <=> g.tier = 2 /\ p < q
        /\ x = 0 <=> (g.tier = 2 => p = q)
        /\ y < 0 <=> g.tier = 3 /\ g.runCount < o.runCount
        /\ y = 0 <=> (g.tier = 3 => g.runCount = o.runCount)
        /\ z < 0 <=> o.latestAt < g.latestAt
    BY <1>1
  <2> HIDE DEF w, x, y, z
  <2> QED
    BY <1>1, <1>2, <1>3, <1>4, <2>1
<1> QED
  BY <1>5 DEF p, q

LEMMA CardsAreOrdered == ASSUME BoardTypeOK PROVE OrderHolds
<1> SUFFICES ASSUME NEW g \in MergedGroups, NEW o \in MergedGroups, NEW p \in MergedGroups
             PROVE  /\ ~(Precedes(g, o) /\ Precedes(o, g))
                    /\ Precedes(g, o) /\ Precedes(o, p) => Precedes(g, p)
                    /\ g.last = "failed" /\ o.last # "failed" => ~Precedes(o, g) \/ o.tier = 0
  BY DEF OrderHolds, HistoryShown
<1> DEFINE Less(x, y) == y.failures * x.runCount < x.failures * y.runCount
           Same(x, y) == y.failures * x.runCount = x.failures * y.runCount
           Ahead(x, y) ==
             \/ x.tier < y.tier
             \/ /\ x.tier = y.tier
                /\ \/ x.tier = 2 /\ Less(x, y)
                   \/ x.tier = 3 /\ x.runCount < y.runCount
                   \/ /\ x.tier = 2 => Same(x, y)
                      /\ x.tier = 3 => x.runCount = y.runCount
                      /\ y.latestAt < x.latestAt
<1>1. \A x \in MergedGroups :
        /\ x.runCount \in Nat \ {0} /\ x.failures \in Nat /\ x.latestAt \in Nat
        /\ x.tier \in 0..3 /\ (x.last = "failed" => x.tier = 0)
  BY CardsAre
<1>2. \A x, y \in MergedGroups : Precedes(x, y) <=> Ahead(x, y)
  BY <1>1, PrecedesIs
<1>3. \A x, y \in MergedGroups : /\ ~(Less(x, y) /\ Less(y, x)) /\ ~(Less(x, y) /\ Same(y, x))
                                 /\ ~(Same(x, y) /\ Less(y, x))
  <2>1. \A x, y \in MergedGroups : x.failures * y.runCount \in Nat
    BY <1>1, Products
  <2> QED
    BY <2>1
<1>4. /\ Less(g, o) /\ Less(o, p) => Less(g, p)
      /\ Less(g, o) /\ Same(o, p) => Less(g, p)
      /\ Same(g, o) /\ Less(o, p) => Less(g, p)
      /\ Same(g, o) /\ Same(o, p) => Same(g, p)
  <2> DEFINE a == g.failures  b == o.failures  c == p.failures
             l == g.runCount  m == o.runCount  n == p.runCount
  <2>1. /\ a \in Nat /\ b \in Nat /\ c \in Nat
        /\ l \in Nat \ {0} /\ m \in Nat \ {0} /\ n \in Nat \ {0}
    BY <1>1
  <2>2. /\ b * l < a * m /\ c * m < b * n => c * l < a * n
        /\ b * l < a * m /\ c * m = b * n => c * l < a * n
        /\ b * l = a * m /\ c * m < b * n => c * l < a * n
        /\ b * l = a * m /\ c * m = b * n => c * l = a * n
    <3> HIDE DEF a, b, c, l, m, n
    <3> QED
      BY <2>1, RatesAreOrdered
  <2> QED
    BY <2>2
<1> HIDE DEF Less, Same
<1>5. ~(Ahead(g, o) /\ Ahead(o, g))
  BY <1>1, <1>3
<1>6. Ahead(g, o) /\ Ahead(o, p) => Ahead(g, p)
  BY <1>1, <1>4
<1>7. g.last = "failed" => ~(Ahead(o, g)) \/ o.tier = 0
  BY <1>1
<1> HIDE DEF Ahead
<1> QED
  BY <1>2, <1>5, <1>6, <1>7

LEMMA BoardFollows == ASSUME BoardTypeOK PROVE BoardIsExact
  BY EachHasOnePlace, LinksAreOfOne, RunsAreCounted, CardsAreOrdered, StagesSum DEF BoardIsExact

\* Whatever the rows are, whichever rows the nodes list and whichever nodes are
\* reachable: the board shows each activity once, resolves each link, counts each
\* settled run once and orders the cards.
THEOREM BoardExact == BoardSpec => []BoardIsExact
  BY BoardTyped, BoardFollows, PTL


-----------------------------------------------------------------------------
(* The links of a snapshot: components.                                     *)

LEMMA EndsAre ==
    ASSUME ForestTypeOK, NEW mode
    PROVE  /\ NodesOf(mode) \subseteq items /\ NodesOf(mode) \subseteq Items
           /\ IsFiniteSet(NodesOf(mode)) /\ IsFiniteSet(GoodEdges(mode))
           /\ \A l \in GoodEdges(mode) :
                /\ Endpoint(l.from) \in NodesOf(mode) /\ Endpoint(l.to) \in NodesOf(mode)
                /\ EndsOf(l) = {Endpoint(l.from), Endpoint(l.to)} /\ EndsOf(l) \subseteq NodesOf(mode)
<1>1. ASSUME NEW l \in GoodEdges(mode) PROVE Endpoint(l.from) \in items /\ Endpoint(l.to) \in items
  <2>1. ~Missing(l)
    BY DEF GoodEdges, Reason
  <2>2. Found(l.from) # {} /\ Found(l.to) # {}
    BY <2>1 DEF Missing
  <2> QED
    BY <2>2 DEF Endpoint, Found
<1>2. \A l \in GoodEdges(mode) :
        /\ Endpoint(l.from) \in NodesOf(mode) /\ Endpoint(l.to) \in NodesOf(mode)
        /\ EndsOf(l) = {Endpoint(l.from), Endpoint(l.to)} /\ EndsOf(l) \subseteq NodesOf(mode)
  BY DEF NodesOf, EndsOf
<1>3. NodesOf(mode) \subseteq items
  BY <1>1 DEF NodesOf, EndsOf
<1>4. items \subseteq Items /\ GoodEdges(mode) \subseteq Links
  BY DEF ForestTypeOK, GoodEdges, Edges
<1> QED
  BY <1>2, <1>3, <1>4, FS_Subset, ForestAssumption

\* What the search comes to: closed under links, and within all that is so closed
\* and has the seed.
Closed(mode, nodes) == Neighbours(mode, nodes) \subseteq nodes

LEMMA ClosedIs ==
    ASSUME NEW mode, NEW nodes
    PROVE  Closed(mode, nodes) <=>
             \A l \in GoodEdges(mode) : EndsOf(l) \cap nodes # {} => EndsOf(l) \subseteq nodes
  BY DEF Closed, Neighbours

LEMMA ComponentIs ==
    ASSUME ForestTypeOK, NEW mode, NEW seed \in NodesOf(mode)
    PROVE  /\ Component(mode, seed) \subseteq NodesOf(mode) /\ seed \in Component(mode, seed)
           /\ Closed(mode, Component(mode, seed))
           /\ \A P : Closed(mode, P) /\ seed \in P => Component(mode, seed) \subseteq P
<1> DEFINE T == NodesOf(mode)
           N == Cardinality(T)
           Unfolds(v) == v = [k \in 0..N |-> IF k = 0 THEN {seed}
                                             ELSE v[k - 1] \cup Neighbours(mode, v[k - 1])]
           visited == CHOOSE v : Unfolds(v)
           grow == [S \in SUBSET T |-> S \cup Neighbours(mode, S)]
           g == [k \in 1..N |-> grow]
<1>1. Component(mode, seed) = visited[N]
  BY DEF Component
<1>2. IsFiniteSet(T) /\ N \in Nat
  BY EndsAre, FS_CardinalityType
<1>3. \A S \in SUBSET T : Neighbours(mode, S) \in SUBSET T
  BY EndsAre DEF Neighbours
<1>4. \A S \in SUBSET T : grow[S] = S \cup Neighbours(mode, S) /\ grow[S] \in SUBSET T /\ S \subseteq grow[S]
  BY <1>3
<1>5. {seed} \in SUBSET T
  OBVIOUS
<1> HIDE DEF T, N, grow
<1>6. \A k \in 1..N : \A S \in SUBSET T : g[k][S] = grow[S] /\ g[k][S] \in SUBSET T
  BY <1>4
<1> HIDE DEF g
<1> DEFINE f == Iteration(N, SUBSET T, {seed}, g)
<1>7. f \in [0..N -> SUBSET T]
      /\ \A k \in 0..N : f[k] = IF k = 0 THEN {seed} ELSE g[k][f[k - 1]]
  <2> DEFINE W == SUBSET T
             b == {seed}
  <2>1. N \in Nat /\ b \in W /\ \A k \in 1..N : \A w \in W : g[k][w] \in W
    BY <1>2, <1>5, <1>6
  <2> HIDE DEF W, b
  <2>2. LET i == Iteration(N, W, b, g)
        IN i \in [0..N -> W] /\ \A k \in 0..N : i[k] = IF k = 0 THEN b ELSE g[k][i[k - 1]]
    BY <2>1, Iterated
  <2> QED
    BY <2>2 DEF W, b
<1> HIDE DEF f
<1>8. \A k \in 0..N : k # 0 => k \in 1..N /\ k - 1 \in 0..N
  BY <1>2
<1>9. \A k \in 0..N : f[k] = IF k = 0 THEN {seed} ELSE f[k - 1] \cup Neighbours(mode, f[k - 1])
  <2>1. SUFFICES ASSUME NEW k \in 0..N
                 PROVE  f[k] = IF k = 0 THEN {seed} ELSE f[k - 1] \cup Neighbours(mode, f[k - 1])
    OBVIOUS
  <2>2. f[k] = IF k = 0 THEN {seed} ELSE g[k][f[k - 1]]
    BY <1>7, Zenon
  <2>3. CASE k # 0
    <3>1. f[k - 1] \in SUBSET T /\ k \in 1..N
      BY <1>7, <1>8, <2>3
    <3>2. g[k][f[k - 1]] = grow[f[k - 1]]
      BY <1>6, <3>1
    <3> QED
      BY <1>4, <2>2, <2>3, <3>1, <3>2
  <2> QED
    BY <2>2, <2>3
<1>10. Unfolds(f)
  BY <1>7, <1>9
<1>11. Unfolds(visited)
  <2> HIDE DEF Unfolds
  <2> QED
    BY <1>10, Zenon
<1>12. \A k \in 0..N : visited[k] = IF k = 0 THEN {seed}
                                   ELSE visited[k - 1] \cup Neighbours(mode, visited[k - 1])
  <2> HIDE DEF visited
  <2> QED
    BY <1>11, Zenon
<1> HIDE DEF visited, Unfolds
<1> DEFINE A == {k \in Nat : k <= N =>
                   /\ visited[k] \in SUBSET T /\ seed \in visited[k]
                   /\ \A P : Closed(mode, P) /\ seed \in P => visited[k] \subseteq P}
<1>13. 0 \in A
  <2>1. visited[0] = {seed}
    <3>1. 0 \in 0..N
      BY <1>2
    <3> QED
      BY <1>12, <3>1, Zenon
  <2> QED
    BY <1>5, <2>1
<1>14. \A k \in Nat : k \in A => k + 1 \in A
  <2>1. SUFFICES ASSUME NEW k \in Nat, k \in A, k + 1 <= N PROVE k + 1 \in A
    OBVIOUS
  <2>2. visited[k + 1] = visited[k] \cup Neighbours(mode, visited[k])
    <3>1. k + 1 \in 0..N /\ k + 1 # 0 /\ (k + 1) - 1 = k
      BY <1>2, <2>1
    <3> QED
      BY <1>12, <3>1
  <2>3. /\ visited[k] \in SUBSET T /\ seed \in visited[k]
        /\ \A P : Closed(mode, P) /\ seed \in P => visited[k] \subseteq P
    BY <1>2, <2>1
  <2>4. ASSUME NEW P, Closed(mode, P), seed \in P PROVE visited[k + 1] \subseteq P
    <3>1. visited[k] \subseteq P
      BY <2>3, <2>4
    <3>2. Neighbours(mode, visited[k]) \subseteq Neighbours(mode, P)
      BY <3>1 DEF Neighbours
    <3> QED
      BY <2>2, <2>4, <3>1, <3>2 DEF Closed
  <2> QED
    BY <1>3, <2>2, <2>3, <2>4
<1>15. \A k \in Nat : k \in A
  <2> HIDE DEF A
  <2> QED
    BY <1>13, <1>14, ByNumbers
<1>16. /\ visited[N] \in SUBSET T /\ seed \in visited[N]
       /\ \A P : Closed(mode, P) /\ seed \in P => visited[N] \subseteq P
  BY <1>2, <1>15
<1>17. grow[visited[N]] = visited[N]
  <2>1. visited[0] \in SUBSET T
    BY <1>2, <1>15
  <2>2. \A k \in 1..N : visited[k] = grow[visited[k - 1]]
    <3>1. SUFFICES ASSUME NEW k \in 1..N PROVE visited[k] = grow[visited[k - 1]]
      OBVIOUS
    <3>2. k \in 0..N /\ k # 0 /\ k - 1 \in Nat /\ k - 1 <= N
      BY <1>2
    <3>3. visited[k - 1] \in SUBSET T
      BY <1>15, <3>2
    <3> QED
      BY <1>4, <1>12, <3>2, <3>3
  <2> HIDE DEF A
  <2>3. N <= N
    BY <1>2
  <2> QED
    BY <1>2, <1>4, <2>1, <2>2, <2>3, GrowthEnds DEF N
<1>18. Closed(mode, visited[N])
  BY <1>4, <1>16, <1>17 DEF Closed
<1> QED
  BY <1>1, <1>16, <1>18 DEF T

\* What hangs together with one of a component is the component.
LEMMA ComponentOfAny ==
    ASSUME ForestTypeOK, NEW mode, NEW seed \in NodesOf(mode), NEW n \in Component(mode, seed)
    PROVE  n \in NodesOf(mode) /\ Component(mode, n) = Component(mode, seed)
<1> DEFINE T == NodesOf(mode)
           C == Component(mode, seed)
           D == Component(mode, n)
<1>1. n \in T /\ C \subseteq T /\ seed \in C /\ Closed(mode, C)
  BY ComponentIs
<1>2. D \subseteq T /\ n \in D /\ Closed(mode, D)
  BY <1>1, ComponentIs
<1>3. D \subseteq C
  BY <1>1, ComponentIs
<1>4. Closed(mode, T \ D)
  <2>1. \A l \in GoodEdges(mode) : EndsOf(l) \subseteq T
    BY EndsAre
  <2>2. \A l \in GoodEdges(mode) : EndsOf(l) \cap D # {} => EndsOf(l) \subseteq D
    BY <1>2, ClosedIs
  <2>3. ASSUME NEW l \in GoodEdges(mode), EndsOf(l) \cap (T \ D) # {} PROVE EndsOf(l) \subseteq T \ D
    BY <2>1, <2>2, <2>3
  <2> QED
    BY <2>3, ClosedIs
<1>5. seed \in D
  <2>1. SUFFICES ASSUME seed \notin D PROVE FALSE
    OBVIOUS
  <2>2. C \subseteq T \ D
    BY <1>4, <2>1, ComponentIs
  <2> QED
    BY <1>2, <2>2
<1>6. C \subseteq D
  BY <1>2, <1>5, ComponentIs
<1> QED
  BY <1>1, <1>3, <1>6

LEMMA GroupsHangTogether == ASSUME ForestTypeOK PROVE GroupsAreComponents
<1> SUFFICES ASSUME NEW mode \in Modes, NEW nodes \in Components(mode),
                    NEW some \in (SUBSET nodes) \ {{}}
             PROVE  Neighbours(mode, some) \subseteq some <=> some = nodes
  BY DEF GroupsAreComponents
<1>1. PICK seed \in NodesOf(mode) : nodes = Component(mode, seed)
  BY DEF Components
<1>2. Neighbours(mode, nodes) \subseteq nodes
  BY <1>1, ComponentIs DEF Closed
<1>3. ASSUME Neighbours(mode, some) \subseteq some PROVE some = nodes
  <2>1. PICK n \in some : TRUE
    OBVIOUS
  <2>2. n \in NodesOf(mode) /\ Component(mode, n) = nodes
    BY <1>1, ComponentOfAny
  <2>3. nodes \subseteq some
    BY <1>3, <2>2, ComponentIs DEF Closed
  <2> QED
    BY <2>3
<1> QED
  BY <1>2, <1>3

LEMMA LinksArePlaced == ASSUME ForestTypeOK PROVE LinksHavePlaces
<1> SUFFICES ASSUME NEW mode \in Modes, NEW l \in Edges(mode)
             PROVE  Cardinality({nodes \in GroupsOf(mode) : l \in Within(mode, nodes)})
                      + Cardinality({u \in Unresolved(mode) : u[1] = l}) = 1
  BY DEF LinksHavePlaces
<1> DEFINE drawn == {nodes \in GroupsOf(mode) : l \in Within(mode, nodes)}
           inList == {u \in Unresolved(mode) : u[1] = l}
<1>1. CASE l \notin GoodEdges(mode)
  <2>1. drawn = {}
    BY <1>1 DEF Within
  <2>2. inList = {<<l, Reason(l)>>}
    BY <1>1 DEF Unresolved, Within
  <2> HIDE DEF drawn, inList
  <2>3. Cardinality(drawn) = 0 /\ Cardinality(inList) = 1
    BY <2>1, <2>2, FS_EmptySet, FS_Singleton
  <2> QED
    BY <2>3 DEF drawn, inList
<1>2. CASE l \in GoodEdges(mode)
  <2> DEFINE C == Component(mode, Endpoint(l.from))
  <2>1. Endpoint(l.from) \in NodesOf(mode) /\ Endpoint(l.from) \in EndsOf(l)
    BY <1>2, EndsAre
  <2>2. C \in Components(mode) /\ Endpoint(l.from) \in C /\ Closed(mode, C)
    BY <2>1, ComponentIs DEF Components
  <2>3. EndsOf(l) \subseteq C
    BY <1>2, <2>1, <2>2, ClosedIs
  <2>4. l \in Within(mode, C)
    BY <1>2, <2>3 DEF Within
  <2>5. ASSUME NEW nodes \in Components(mode), l \in Within(mode, nodes) PROVE nodes = C
    <3>1. PICK seed \in NodesOf(mode) : nodes = Component(mode, seed)
      BY DEF Components
    <3>2. Endpoint(l.from) \in nodes
      BY <2>1, <2>5 DEF Within
    <3> QED
      BY <3>1, <3>2, ComponentOfAny
  <2> HIDE DEF C
  <2>6. drawn = IF RefusalOf(mode, C) = "none" THEN {C} ELSE {}
    BY <2>2, <2>4, <2>5 DEF GroupsOf
  <2>7. inList = IF RefusalOf(mode, C) = "none" THEN {} ELSE {<<l, RefusalOf(mode, C)>>}
    <3>1. ASSUME NEW u \in inList
          PROVE  RefusalOf(mode, C) # "none" /\ u = <<l, RefusalOf(mode, C)>>
      <4>1. u \notin {<<e, Reason(e)>> : e \in Edges(mode) \ GoodEdges(mode)}
        BY <1>2
      <4>2. PICK nodes \in Components(mode) \ GroupsOf(mode) :
              u \in {<<e, RefusalOf(mode, nodes)>> : e \in Within(mode, nodes)}
        BY <4>1 DEF Unresolved
      <4>3. u = <<l, RefusalOf(mode, nodes)>> /\ l \in Within(mode, nodes)
        BY <4>2
      <4>4. nodes = C
        BY <2>5, <4>3
      <4> QED
        BY <4>2, <4>3, <4>4 DEF GroupsOf
    <3>2. ASSUME RefusalOf(mode, C) # "none" PROVE <<l, RefusalOf(mode, C)>> \in inList
      <4>1. C \in Components(mode) \ GroupsOf(mode)
        BY <2>2, <3>2 DEF GroupsOf
      <4> QED
        BY <2>4, <4>1 DEF Unresolved
    <3> HIDE DEF inList
    <3> QED
      BY <3>1, <3>2
  <2> HIDE DEF drawn, inList
  <2>8. Cardinality({C}) = 1 /\ Cardinality({<<l, RefusalOf(mode, C)>>}) = 1 /\ Cardinality({}) = 0
    BY FS_EmptySet, FS_Singleton
  <2>9. Cardinality(drawn) + Cardinality(inList) = 1
    BY <2>6, <2>7, <2>8
  <2> QED
    BY <2>9 DEF drawn, inList
<1> QED
  BY <1>1, <1>2


-----------------------------------------------------------------------------
(* The rows of a tree: the walk.                                            *)

LEMMA NodesAreOrdered ==
    ASSUME NEW x \in Items, NEW y \in Items, NEW z \in Items
    PROVE  /\ ~CompareNodes(x, x)
           /\ CompareNodes(x, y) /\ CompareNodes(y, z) => CompareNodes(x, z)
           /\ x # y => CompareNodes(x, y) \/ CompareNodes(y, x)
<1>1. /\ x \in [host : Nat, id : Nat \ {0}] /\ y \in [host : Nat, id : Nat \ {0}]
      /\ z \in [host : Nat, id : Nat \ {0}]
  BY ForestAssumption
<1>2. x = y <=> x.host = y.host /\ x.id = y.id
  BY <1>1
<1> QED
  BY <1>1, <1>2 DEF CompareNodes

\* Each node has a place of its own.
LEMMA InOrderIs ==
    ASSUME NEW S \in SUBSET Items
    PROVE  LET s == SortedNodes(S)
           IN /\ s \in Seq(S) /\ Len(s) = Cardinality(S) /\ Cardinality(S) \in Nat
              /\ \A x \in S : \E k \in 1..Len(s) : s[k] = x
<1> DEFINE n == Cardinality(S)
           Below(x) == {o \in S : CompareNodes(o, x)}
           rank == [x \in S |-> Cardinality(Below(x)) + 1]
           s == SortedNodes(S)
<1>1. IsFiniteSet(S) /\ n \in Nat
  BY ForestAssumption, FS_Subset, FS_CardinalityType
<1>2. \A x \in S : IsFiniteSet(Below(x)) /\ Cardinality(Below(x)) \in Nat /\ Below(x) \subseteq S
  BY <1>1, FS_Subset, FS_CardinalityType
<1>3. ASSUME NEW x \in S, NEW y \in S, CompareNodes(x, y) PROVE rank[x] < rank[y]
  <2>1. Below(x) \subseteq Below(y) /\ x \in Below(y) /\ x \notin Below(x)
    BY <1>3, NodesAreOrdered
  <2>2. Cardinality(Below(x)) <= Cardinality(Below(y)) /\ Cardinality(Below(x)) # Cardinality(Below(y))
    BY <1>2, <2>1, FS_Subset
  <2> HIDE DEF Below
  <2> QED
    BY <1>2, <2>2
<1>4. ASSUME NEW x \in S PROVE rank[x] \in 1..n
  <2>1. x \notin Below(x)
    BY NodesAreOrdered
  <2>2. Cardinality(Below(x)) <= n /\ Cardinality(Below(x)) # n
    BY <1>1, <1>2, <2>1, FS_Subset
  <2> HIDE DEF Below
  <2> QED
    BY <1>1, <1>2, <2>2
<1>5. \A x, y \in S : rank[x] = rank[y] => x = y
  BY <1>3, <1>4, NodesAreOrdered
<1>6. \A k \in 1..n : \E x \in S : rank[x] = k
  <2>1. rank \in [S -> 1..n] /\ DOMAIN rank = S
    BY <1>4
  <2> HIDE DEF rank
  <2>2. IsInjective(rank)
    BY <1>5, <2>1 DEF IsInjective
  <2>3. rank \in Injection(S, 1..n)
    BY <2>1, <2>2 DEF Injection
  <2>4. IsFiniteSet(1..n) /\ Cardinality(1..n) = n
    BY <1>1, FS_Interval
  <2>5. rank \in Surjection(S, 1..n)
    BY <2>3, <2>4, FS_Injection
  <2> QED
    BY <2>5 DEF Surjection
<1>7. \A x \in S : \A k \in 1..n : Cardinality(Below(x)) = k - 1 <=> rank[x] = k
  <2> HIDE DEF Below
  <2> QED
    BY <1>1, <1>2
<1>8. s = [k \in 1..n |-> CHOOSE x \in S : Cardinality(Below(x)) = k - 1]
  BY DEF SortedNodes
<1> HIDE DEF Below, rank, s
<1>9. \A k \in 1..n : s[k] \in S /\ rank[s[k]] = k
  BY <1>6, <1>7, <1>8
<1>10. s \in Seq(S) /\ Len(s) = n
  <2>1. s \in [1..n -> S]
    BY <1>8, <1>9
  <2> QED
    BY <1>1, <2>1
<1>11. \A x \in S : s[rank[x]] = x
  BY <1>4, <1>5, <1>9
<1>12. \A x \in S : \E k \in 1..Len(s) : s[k] = x
  BY <1>4, <1>10, <1>11
<1> QED
  BY <1>1, <1>10, <1>12 DEF s

\* Nodes and links of one component.
IsGraph(nodes, edges) ==
    /\ nodes \in SUBSET Items /\ IsFiniteSet(nodes) /\ IsFiniteSet(edges)
    /\ \A l \in edges : Endpoint(l.from) \in nodes /\ Endpoint(l.to) \in nodes

KidsOf(edges, n) == {Endpoint(l.to) : l \in {e \in edges : Endpoint(e.from) = n}}
RootsOf(nodes, edges) == {n \in nodes : Parents(edges, n) = {}}

LEMMA GraphIs ==
    ASSUME NEW nodes, NEW edges, IsGraph(nodes, edges)
    PROVE  /\ \A n : KidsOf(edges, n) \subseteq nodes /\ Parents(edges, n) \subseteq nodes
           /\ \A m, n : m \in Parents(edges, n) <=> n \in KidsOf(edges, m)
           /\ RootsOf(nodes, edges) \subseteq nodes /\ NoParent \notin nodes
           /\ IsFiniteSet(RootsOf(nodes, edges))
<1>1. \A n : KidsOf(edges, n) \subseteq nodes /\ Parents(edges, n) \subseteq nodes
  BY DEF IsGraph, KidsOf, Parents
<1>2. \A m, n : m \in Parents(edges, n) <=> n \in KidsOf(edges, m)
  BY DEF KidsOf, Parents
<1>3. RootsOf(nodes, edges) \subseteq nodes /\ IsFiniteSet(RootsOf(nodes, edges))
  BY FS_Subset DEF RootsOf, IsGraph
<1>4. NoParent \notin nodes
  <2>1. NoParent.id = 0
    BY DEF NoParent
  <2>2. \A it \in nodes : it.id \in Nat \ {0}
    BY ForestAssumption DEF IsGraph
  <2> QED
    BY <2>1, <2>2
<1> QED
  BY <1>1, <1>2, <1>3, <1>4

LEMMA ChildrenAre ==
    ASSUME NEW nodes, NEW edges, IsGraph(nodes, edges), NEW n
    PROVE  LET s == Children(edges, n)
           IN /\ s \in Seq(KidsOf(edges, n)) /\ Len(s) = Cardinality(KidsOf(edges, n))
              /\ Len(s) \in Nat /\ \A k \in 1..Len(s) : s[k] \in KidsOf(edges, n)
              /\ \A x \in KidsOf(edges, n) : \E k \in 1..Len(s) : s[k] = x
<1> DEFINE K == KidsOf(edges, n)
           t == SortedNodes(K)
           s == Reverse(t)
<1>1. K \in SUBSET Items
  BY GraphIs DEF IsGraph
<1>2. Children(edges, n) = s
  BY DEF Children, KidsOf
<1> HIDE DEF K
<1>3. /\ t \in Seq(K) /\ Len(t) = Cardinality(K) /\ Cardinality(K) \in Nat
      /\ \A x \in K : \E k \in 1..Len(t) : t[k] = x
  BY <1>1, InOrderIs
<1>4. s = [i \in 1..Len(t) |-> t[(Len(t) - i) + 1]]
  BY DEF Reverse
<1> HIDE DEF t, s
<1>5. \A i \in 1..Len(t) : (Len(t) - i) + 1 \in 1..Len(t) /\ t[(Len(t) - i) + 1] \in K
  BY <1>3
<1>6. s \in Seq(K) /\ Len(s) = Len(t)
  <2>1. s \in [1..Len(t) -> K] /\ Len(t) \in Nat
    BY <1>3, <1>4, <1>5
  <2> QED
    BY <2>1
<1>7. ASSUME NEW x \in K PROVE \E k \in 1..Len(s) : s[k] = x
  <2>1. PICK k \in 1..Len(t) : t[k] = x
    BY <1>3
  <2> DEFINE i == (Len(t) - k) + 1
  <2>2. i \in 1..Len(t) /\ (Len(t) - i) + 1 = k
    BY <1>3
  <2>3. s[i] = x
    BY <1>4, <2>1, <2>2
  <2> QED
    BY <1>6, <2>2, <2>3
<1>8. \A k \in 1..Len(s) : s[k] \in K
  BY <1>6
<1> QED
  BY <1>2, <1>3, <1>6, <1>7, <1>8 DEF K


Frames(nodes) == [node : nodes, depth : Nat, parent : nodes \cup {NoParent}]
Walks(nodes)  == [stack : Seq(Frames(nodes)), rows : Seq(Frames(nodes))]

InRows(w)  == {w.rows[i].node : i \in 1..Len(w.rows)}
InStack(w) == {w.stack[s].node : s \in 1..Len(w.stack)}

\* What the walk holds: frames of the graph.
IsWalk(nodes, w) ==
    /\ w \in Walks(nodes) /\ Len(w.stack) \in Nat /\ Len(w.rows) \in Nat
    /\ w.stack \in Seq(Frames(nodes)) /\ w.rows \in Seq(Frames(nodes))
    /\ \A s \in 1..Len(w.stack) : w.stack[s] \in Frames(nodes)
    /\ \A i \in 1..Len(w.rows) : w.rows[i] \in Frames(nodes)

\* What is left of the stack, when the top is a node that has its row.
Dropped(w, v) ==
    /\ v.rows = w.rows /\ Len(v.stack) = Len(w.stack) - 1
    /\ \A s \in 1..Len(w.stack) - 1 : v.stack[s] = w.stack[s]

\* And when it gets its row.
Placed(edges, w, v) ==
    LET n == Len(w.stack)  row == w.stack[n]  m == Cardinality(KidsOf(edges, row.node))
    IN /\ m \in Nat /\ Len(v.rows) = Len(w.rows) + 1 /\ v.rows[Len(w.rows) + 1] = row
       /\ \A i \in 1..Len(w.rows) : v.rows[i] = w.rows[i]
       /\ Len(v.stack) = (n - 1) + m
       /\ \A s \in 1..(n - 1) : v.stack[s] = w.stack[s]
       /\ \A s \in n..((n - 1) + m) :
             /\ v.stack[s].node \in KidsOf(edges, row.node)
             /\ v.stack[s].depth = row.depth + 1 /\ v.stack[s].parent = row.node
       /\ \A x \in KidsOf(edges, row.node) : \E s \in n..((n - 1) + m) : v.stack[s].node = x

LEMMA PopIs ==
    ASSUME NEW nodes, NEW edges, IsGraph(nodes, edges), NEW w, IsWalk(nodes, w), w.stack # <<>>
    PROVE  LET v == Pop(edges, w)  top == w.stack[Len(w.stack)].node
           IN /\ Len(w.stack) # 0 /\ IsWalk(nodes, v)
              /\ top \in InRows(w) => Dropped(w, v)
              /\ top \notin InRows(w) => Placed(edges, w, v)
<1> DEFINE n == Len(w.stack)
           row == w.stack[n]
           rest == Front(w.stack)
           kids == Children(edges, row.node)
           new == [k \in DOMAIN kids |->
                     [node |-> kids[k], depth |-> row.depth + 1, parent |-> row.node]]
           v == Pop(edges, w)
           F == Frames(nodes)
<1>1. /\ w \in Walks(nodes) /\ w.stack \in Seq(F) /\ w.rows \in Seq(F) /\ n \in Nat /\ n # 0
      /\ row \in F /\ Len(w.rows) \in Nat /\ DOMAIN w.rows = 1..Len(w.rows)
  BY DEF IsWalk
<1>2. rest \in Seq(F) /\ Len(rest) = n - 1 /\ \A s \in 1..(n - 1) : rest[s] = w.stack[s]
  BY <1>1 DEF Front
<1>3. v = IF row.node \in {w.rows[k].node : k \in DOMAIN w.rows}
          THEN [w EXCEPT !.stack = rest]
          ELSE [stack |-> rest \o new, rows |-> Append(w.rows, row)]
  BY DEF Pop, Last
<1>4. row.node \in nodes /\ row.depth \in Nat
  BY <1>1 DEF Frames
<1>5. /\ kids \in Seq(KidsOf(edges, row.node)) /\ Len(kids) = Cardinality(KidsOf(edges, row.node))
      /\ Len(kids) \in Nat /\ \A k \in 1..Len(kids) : kids[k] \in KidsOf(edges, row.node)
      /\ \A x \in KidsOf(edges, row.node) : \E k \in 1..Len(kids) : kids[k] = x
  BY ChildrenAre
<1> HIDE DEF rest, kids, v
<1>6. /\ new \in Seq(F) /\ Len(new) = Len(kids)
      /\ \A k \in 1..Len(kids) : /\ new[k].node = kids[k] /\ new[k].depth = row.depth + 1
                                 /\ new[k].parent = row.node
  <2> DEFINE frame(x) == [node |-> x, depth |-> row.depth + 1, parent |-> row.node]
  <2>1. \A x \in nodes : frame(x) \in F
    BY <1>4 DEF Frames
  <2>2. \A k \in 1..Len(kids) : kids[k] \in nodes
    BY <1>5, GraphIs
  <2>3. DOMAIN kids = 1..Len(kids)
    BY <1>5
  <2>4. \A k \in 1..Len(kids) : frame(kids[k]) \in F
    BY <2>1, <2>2
  <2>5. new = [k \in 1..Len(kids) |-> frame(kids[k])]
    BY <2>3
  <2>6. \A k \in 1..Len(kids) : new[k] = frame(kids[k])
    BY <2>5
  <2>9. \A x : frame(x).node = x /\ frame(x).depth = row.depth + 1 /\ frame(x).parent = row.node
    OBVIOUS
  <2> HIDE DEF frame, F, new
  <2>7. new \in [1..Len(kids) -> F]
    BY <2>4, <2>5
  <2>8. new \in Seq(F) /\ Len(new) = Len(kids)
    BY <1>5, <2>7
  <2> QED
    BY <2>6, <2>8, <2>9
<1> HIDE DEF new
<1>7. CASE row.node \in InRows(w)
  <2>1. v = [w EXCEPT !.stack = rest]
    BY <1>1, <1>3, <1>7 DEF InRows
  <2>2. v.stack = rest /\ v.rows = w.rows /\ v \in Walks(nodes)
    BY <1>1, <1>2, <2>1 DEF Walks
  <2>3. IsWalk(nodes, v)
    BY <1>1, <1>2, <2>2 DEF IsWalk
  <2>4. Dropped(w, v)
    BY <1>2, <2>2 DEF Dropped
  <2> QED
    BY <1>1, <1>7, <2>3, <2>4 DEF v
<1>8. CASE row.node \notin InRows(w)
  <2> DEFINE m == Len(kids)
             st == rest \o new
             ro == Append(w.rows, row)
  <2>1. v = [stack |-> st, rows |-> ro]
    BY <1>1, <1>3, <1>8 DEF InRows
  <2>2. /\ st \in Seq(F) /\ Len(st) = (n - 1) + m
        /\ \A s \in 1..(n - 1) : st[s] = rest[s]
        /\ \A s \in n..((n - 1) + m) : st[s] = new[s - (n - 1)] /\ s - (n - 1) \in 1..m
    <3> HIDE DEF n
    <3>0. rest \in Seq(F) /\ new \in Seq(F)
      BY <1>2, <1>6
    <3> HIDE DEF F
    <3>1. /\ st \in Seq(F) /\ Len(st) = Len(rest) + Len(new)
          /\ \A s \in 1..Len(rest) + Len(new) :
                st[s] = IF s <= Len(rest) THEN rest[s] ELSE new[s - Len(rest)]
      BY <3>0
    <3> HIDE DEF st
    <3>2. Len(rest) = n - 1 /\ Len(new) = m /\ n \in Nat /\ n # 0 /\ m \in Nat
      BY <1>1, <1>2, <1>5, <1>6
    <3> QED
      BY <3>1, <3>2
  <2>3. /\ ro \in Seq(F) /\ Len(ro) = Len(w.rows) + 1 /\ ro[Len(w.rows) + 1] = row
        /\ \A i \in 1..Len(w.rows) : ro[i] = w.rows[i]
    BY <1>1
  <2> HIDE DEF st, ro
  <2>4. v.stack = st /\ v.rows = ro /\ v \in Walks(nodes)
    BY <2>1, <2>2, <2>3 DEF Walks
  <2>5. IsWalk(nodes, v)
    BY <1>1, <2>2, <2>3, <2>4 DEF IsWalk
  <2>6. \A x \in KidsOf(edges, row.node) : \E s \in n..((n - 1) + m) : st[s].node = x
    <3>1. SUFFICES ASSUME NEW x \in KidsOf(edges, row.node)
                   PROVE  \E s \in n..((n - 1) + m) : st[s].node = x
      OBVIOUS
    <3>2. PICK k \in 1..m : kids[k] = x
      BY <1>5
    <3>3. (n - 1) + k \in n..((n - 1) + m) /\ ((n - 1) + k) - (n - 1) = k
      BY <1>1, <1>5
    <3>4. st[(n - 1) + k] = new[k]
      BY <2>2, <3>3
    <3> QED
      BY <1>6, <3>2, <3>3, <3>4
  <2>7. \A s \in n..((n - 1) + m) :
             /\ st[s].node \in KidsOf(edges, row.node)
             /\ st[s].depth = row.depth + 1 /\ st[s].parent = row.node
    <3>1. SUFFICES ASSUME NEW s \in n..((n - 1) + m)
                   PROVE  /\ st[s].node \in KidsOf(edges, row.node)
                          /\ st[s].depth = row.depth + 1 /\ st[s].parent = row.node
      OBVIOUS
    <3> DEFINE k == s - (n - 1)
    <3>2. st[s] = new[k] /\ k \in 1..m
      BY <2>2
    <3> HIDE DEF k, m
    <3>3. k \in 1..Len(kids)
      BY <3>2 DEF m
    <3>4. new[k].node = kids[k] /\ new[k].depth = row.depth + 1 /\ new[k].parent = row.node
      BY <1>6, <3>3
    <3>5. kids[k] \in KidsOf(edges, row.node)
      BY <1>5, <3>3
    <3> QED
      BY <3>2, <3>4, <3>5
  <2>8. Placed(edges, w, v)
    BY <1>2, <1>5, <2>2, <2>3, <2>4, <2>6, <2>7 DEF Placed
  <2> QED
    BY <1>1, <1>8, <2>5, <2>8 DEF v
<1> QED
  BY <1>7, <1>8


\* A frame stands under row j, when all rows from there to row m are deeper than j.
Under(rows, j, m, f) ==
    /\ rows[j].node = f.parent /\ f.depth = rows[j].depth + 1
    /\ \A i \in (j + 1)..m : rows[i].depth > rows[j].depth

FrameFits(edges, f) ==
    /\ f.depth = 0 => f.parent = NoParent /\ Parents(edges, f.node) = {}
    /\ f.depth > 0 => f.parent \in Parents(edges, f.node)

WalkFits(edges, w) ==
    /\ \A i \in 1..Len(w.rows) : FrameFits(edges, w.rows[i])
    /\ \A s \in 1..Len(w.stack) : FrameFits(edges, w.stack[s])

WalkOnce(w) == \A i, j \in 1..Len(w.rows) : w.rows[i].node = w.rows[j].node => i = j

WalkNests(w) ==
    \A k \in 1..Len(w.rows) : w.rows[k].depth > 0 =>
        \E j \in 1..(k - 1) : Under(w.rows, j, k - 1, w.rows[k])

WalkHangs(w) ==
    /\ \A s \in 1..Len(w.stack) : w.stack[s].depth > 0 =>
          \E j \in 1..Len(w.rows) : Under(w.rows, j, Len(w.rows), w.stack[s])
    /\ \A s, t \in 1..Len(w.stack) : s <= t => w.stack[s].depth <= w.stack[t].depth

WalkReaches(nodes, edges, w) ==
    /\ RootsOf(nodes, edges) \subseteq InRows(w) \cup InStack(w)
    /\ \A n \in InRows(w) : KidsOf(edges, n) \subseteq InRows(w) \cup InStack(w)

\* The links whose ends the walk has put on the stack.
Used(edges, w) == {l \in edges : Endpoint(l.from) \in InRows(w)}

WalkEnds(nodes, edges, k, w) ==
    \/ w.stack = <<>>
    \/ k + Len(w.stack) <= Cardinality(RootsOf(nodes, edges)) + Cardinality(Used(edges, w))

WalkInv(nodes, edges, k, w) ==
    /\ IsWalk(nodes, w) /\ WalkFits(edges, w) /\ WalkOnce(w) /\ WalkNests(w) /\ WalkHangs(w)
    /\ WalkReaches(nodes, edges, w) /\ WalkEnds(nodes, edges, k, w)

\* The top has its row already: it goes.
LEMMA DroppedStep ==
    ASSUME NEW nodes, NEW edges, IsGraph(nodes, edges), NEW k \in Nat, NEW w, NEW v,
           WalkInv(nodes, edges, k, w), IsWalk(nodes, v), Dropped(w, v), Len(w.stack) # 0,
           w.stack[Len(w.stack)].node \in InRows(w)
    PROVE  WalkInv(nodes, edges, k + 1, v)
<1> DEFINE n == Len(w.stack)
<1>1. /\ v.rows = w.rows /\ Len(v.stack) = n - 1 /\ n \in Nat /\ n # 0 /\ Len(w.rows) \in Nat
      /\ \A s \in 1..(n - 1) : v.stack[s] = w.stack[s] /\ s \in 1..n
      /\ w.stack # <<>>
  BY DEF Dropped, WalkInv, IsWalk
<1> HIDE DEF n
<1>2. Len(v.stack) = n - 1 /\ \A s \in 1..Len(v.stack) : s \in 1..(n - 1)
  BY <1>1
<1>3. WalkFits(edges, v)
  BY <1>1, <1>2 DEF WalkInv, WalkFits, n
<1>4. WalkOnce(v) /\ WalkNests(v)
  BY <1>1 DEF WalkInv, WalkOnce, WalkNests
<1>5. WalkHangs(v)
  <2>1. WalkHangs(w)
    BY DEF WalkInv
  <2> QED
    BY <1>1, <1>2, <2>1 DEF WalkHangs, n
<1>6. InRows(v) = InRows(w)
  BY <1>1 DEF InRows
<1>7. WalkReaches(nodes, edges, v)
  <2>1. InStack(w) \subseteq InStack(v) \cup InRows(w)
    <3>1. SUFFICES ASSUME NEW s \in 1..n PROVE w.stack[s].node \in InStack(v) \cup InRows(w)
      BY DEF InStack, n
    <3>2. CASE s = n
      BY <3>2 DEF n
    <3>3. CASE s # n
      <4>1. s \in 1..(n - 1)
        BY <1>1, <3>3
      <4>2. v.stack[s] = w.stack[s] /\ s \in 1..Len(v.stack)
        BY <1>1, <4>1
      <4> QED
        BY <4>2 DEF InStack
    <3> QED
      BY <3>2, <3>3
  <2> QED
    BY <1>6, <2>1 DEF WalkInv, WalkReaches
<1>8. WalkEnds(nodes, edges, k + 1, v)
  <2>1. Used(edges, v) = Used(edges, w)
    BY <1>6 DEF Used
  <2>2. k + n <= Cardinality(RootsOf(nodes, edges)) + Cardinality(Used(edges, w))
    BY <1>1 DEF WalkInv, WalkEnds, n
  <2>3. (k + 1) + Len(v.stack) = k + n
    BY <1>1
  <2> QED
    BY <2>1, <2>2, <2>3 DEF WalkEnds
<1> QED
  BY <1>3, <1>4, <1>5, <1>7, <1>8 DEF WalkInv

\* The top gets its row, and its children go on the stack.
LEMMA PlacedStep ==
    ASSUME NEW nodes, NEW edges, IsGraph(nodes, edges), NEW k \in Nat, NEW w, NEW v,
           WalkInv(nodes, edges, k, w), IsWalk(nodes, v), Placed(edges, w, v), Len(w.stack) # 0,
           w.stack[Len(w.stack)].node \notin InRows(w)
    PROVE  WalkInv(nodes, edges, k + 1, v)
<1> DEFINE n == Len(w.stack)
           row == w.stack[n]
           K == KidsOf(edges, row.node)
           m == Cardinality(K)
           z == Len(w.rows)
<1>1. /\ m \in Nat /\ Len(v.rows) = z + 1 /\ v.rows[z + 1] = row
      /\ \A i \in 1..z : v.rows[i] = w.rows[i]
      /\ Len(v.stack) = (n - 1) + m
      /\ \A s \in 1..(n - 1) : v.stack[s] = w.stack[s]
      /\ \A s \in n..((n - 1) + m) : /\ v.stack[s].node \in K /\ v.stack[s].depth = row.depth + 1
                                     /\ v.stack[s].parent = row.node
      /\ \A x \in K : \E s \in n..((n - 1) + m) : v.stack[s].node = x
  BY DEF Placed
<1>2. /\ n \in Nat /\ n # 0 /\ z \in Nat /\ row \in Frames(nodes) /\ n \in 1..n
      /\ \A s \in 1..n : w.stack[s] \in Frames(nodes)
      /\ \A i \in 1..z : w.rows[i] \in Frames(nodes)
  BY DEF WalkInv, IsWalk
<1>3. row.node \in nodes /\ row.depth \in Nat
  BY <1>2 DEF Frames
<1>4. /\ \A s \in 1..n : w.stack[s].depth \in Nat
      /\ \A i \in 1..z : w.rows[i].depth \in Nat
  BY <1>2 DEF Frames
<1>5. row.node \notin InRows(w)
  OBVIOUS
<1>6. /\ \A i \in 1..z : FrameFits(edges, w.rows[i])
      /\ \A s \in 1..n : FrameFits(edges, w.stack[s])
  BY DEF WalkInv, WalkFits
<1>7. \A i, j \in 1..z : w.rows[i].node = w.rows[j].node => i = j
  BY DEF WalkInv, WalkOnce
<1>8. \A i \in 1..z : w.rows[i].depth > 0 => \E j \in 1..(i - 1) : Under(w.rows, j, i - 1, w.rows[i])
  BY DEF WalkInv, WalkNests
<1>9. \A s \in 1..n : w.stack[s].depth > 0 => \E j \in 1..z : Under(w.rows, j, z, w.stack[s])
  BY DEF WalkInv, WalkHangs
<1>10. \A s, t \in 1..n : s <= t => w.stack[s].depth <= w.stack[t].depth
  BY DEF WalkInv, WalkHangs
<1>11. /\ RootsOf(nodes, edges) \subseteq InRows(w) \cup InStack(w)
       /\ \A x \in InRows(w) : KidsOf(edges, x) \subseteq InRows(w) \cup InStack(w)
  BY DEF WalkInv, WalkReaches
<1>12. k + n <= Cardinality(RootsOf(nodes, edges)) + Cardinality(Used(edges, w))
  <2>1. w.stack # <<>>
    BY DEF WalkInv, IsWalk
  <2> QED
    BY <2>1 DEF WalkInv, WalkEnds
<1>13. w.stack[n] = row
  OBVIOUS
<1>14. InRows(w) = {w.rows[i].node : i \in 1..z} /\ InStack(w) = {w.stack[s].node : s \in 1..n}
  BY DEF InRows, InStack
<1>15. K = KidsOf(edges, row.node) /\ m = Cardinality(K)
  OBVIOUS
<1> HIDE DEF n, row, K, m, z
<1>16. \A i \in 1..(z + 1) : i \in 1..z \/ i = z + 1
  BY <1>2
<1>17. \A s \in 1..((n - 1) + m) : s \in 1..(n - 1) \/ s \in n..((n - 1) + m)
  BY <1>1, <1>2
<1>18. \A s \in 1..(n - 1) : s \in 1..n
  BY <1>2
<1>19. WalkFits(edges, v)
  <2>1. \A s \in n..((n - 1) + m) : FrameFits(edges, v.stack[s])
    <3>1. SUFFICES ASSUME NEW s \in n..((n - 1) + m) PROVE FrameFits(edges, v.stack[s])
      OBVIOUS
    <3>2. v.stack[s].node \in K /\ v.stack[s].depth = row.depth + 1 /\ v.stack[s].parent = row.node
      BY <1>1
    <3>3. row.node \in Parents(edges, v.stack[s].node)
      BY <1>15, <3>2, GraphIs
    <3> QED
      BY <1>3, <3>2, <3>3 DEF FrameFits
  <2>2. \A s \in 1..Len(v.stack) : FrameFits(edges, v.stack[s])
    BY <1>1, <1>6, <1>17, <1>18, <2>1
  <2>3. \A i \in 1..Len(v.rows) : FrameFits(edges, v.rows[i])
    BY <1>1, <1>2, <1>6, <1>13, <1>16
  <2> QED
    BY <2>2, <2>3 DEF WalkFits
<1>20. WalkOnce(v)
  <2>1. \A i \in 1..z : w.rows[i].node # row.node
    BY <1>5, <1>14
  <2>2. \A i, j \in 1..(z + 1) : v.rows[i].node = v.rows[j].node => i = j
    BY <1>1, <1>7, <1>16, <2>1
  <2> QED
    BY <1>1, <2>2 DEF WalkOnce
<1>21. \A f, j, y : j \in Nat /\ y \in Nat /\ y <= z /\ j \in 1..z => (Under(w.rows, j, y, f) <=> Under(v.rows, j, y, f))
  <2>1. SUFFICES ASSUME NEW j \in 1..z, NEW y \in Nat, y <= z, NEW f
                 PROVE  Under(w.rows, j, y, f) <=> Under(v.rows, j, y, f)
    OBVIOUS
  <2>2. \A i \in (j + 1)..y : i \in 1..z
    BY <1>2, <2>1
  <2>3. v.rows[j] = w.rows[j] /\ \A i \in (j + 1)..y : v.rows[i] = w.rows[i]
    BY <1>1, <2>2
  <2> QED
    BY <2>3 DEF Under
<1>22. WalkNests(v)
  <2>1. SUFFICES ASSUME NEW i \in 1..(z + 1), v.rows[i].depth > 0
                 PROVE  \E j \in 1..(i - 1) : Under(v.rows, j, i - 1, v.rows[i])
    BY <1>1 DEF WalkNests
  <2>2. CASE i \in 1..z
    <3>1. v.rows[i] = w.rows[i]
      BY <1>1, <2>2
    <3>2. PICK j \in 1..(i - 1) : Under(w.rows, j, i - 1, w.rows[i])
      BY <1>8, <2>1, <2>2, <3>1
    <3>3. j \in Nat /\ i - 1 \in Nat /\ i - 1 <= z /\ j \in 1..z
      BY <1>2, <2>2
    <3> QED
      BY <1>21, <3>1, <3>2, <3>3
  <2>3. CASE i = z + 1
    <3>1. v.rows[i] = row /\ i - 1 = z
      BY <1>1, <1>2, <2>3
    <3>2. PICK j \in 1..z : Under(w.rows, j, z, row)
      BY <1>2, <1>9, <1>13, <2>1, <3>1
    <3>3. j \in Nat /\ z \in Nat /\ z <= z
      BY <1>2
    <3> QED
      BY <1>21, <3>1, <3>2, <3>3
  <2> QED
    BY <1>16, <2>2, <2>3
<1>23. WalkHangs(v)
  <2>1. ASSUME NEW s \in 1..(n - 1), v.stack[s].depth > 0
        PROVE  \E j \in 1..(z + 1) : Under(v.rows, j, z + 1, v.stack[s])
    <3>1. v.stack[s] = w.stack[s] /\ s \in 1..n /\ s <= n
      BY <1>1, <1>2
    <3>2. PICK j \in 1..z : Under(w.rows, j, z, w.stack[s])
      BY <1>9, <2>1, <3>1
    <3>3. Under(v.rows, j, z, w.stack[s])
      <4>1. j \in Nat /\ z \in Nat /\ z <= z
        BY <1>2
      <4> QED
        BY <1>21, <3>2, <4>1
    <3>4. w.stack[s].depth <= row.depth
      BY <1>2, <1>10, <1>13, <3>1
    <3>5. v.rows[j] = w.rows[j] /\ w.rows[j].depth \in Nat /\ w.stack[s].depth \in Nat
      BY <1>1, <1>4, <3>1
    <3>6. v.rows[z + 1].depth > v.rows[j].depth
      <4>1. w.stack[s].depth = w.rows[j].depth + 1
        BY <3>2 DEF Under
      <4> QED
        BY <1>1, <1>3, <3>4, <3>5, <4>1
    <3>7. \A i \in (j + 1)..(z + 1) : i \in (j + 1)..z \/ i = z + 1
      BY <1>2
    <3>8. Under(v.rows, j, z + 1, w.stack[s])
      BY <3>3, <3>6, <3>7 DEF Under
    <3>9. j \in 1..(z + 1)
      BY <1>2
    <3> QED
      BY <3>1, <3>8, <3>9
  <2>2. ASSUME NEW s \in n..((n - 1) + m)
        PROVE  \E j \in 1..(z + 1) : Under(v.rows, j, z + 1, v.stack[s])
    <3>1. v.stack[s].depth = row.depth + 1 /\ v.stack[s].parent = row.node
      BY <1>1
    <3>2. z + 1 \in 1..(z + 1) /\ \A i \in ((z + 1) + 1)..(z + 1) : FALSE
      BY <1>2
    <3>3. Under(v.rows, z + 1, z + 1, v.stack[s])
      BY <1>1, <3>1, <3>2 DEF Under
    <3> QED
      BY <3>2, <3>3
  <2>3. \A s \in 1..Len(v.stack) : v.stack[s].depth > 0 =>
           \E j \in 1..Len(v.rows) : Under(v.rows, j, Len(v.rows), v.stack[s])
    BY <1>1, <1>17, <2>1, <2>2
  <2>4. \A s, t \in 1..Len(v.stack) : s <= t => v.stack[s].depth <= v.stack[t].depth
    <3>1. SUFFICES ASSUME NEW s \in 1..((n - 1) + m), NEW t \in 1..((n - 1) + m), s <= t
                   PROVE  v.stack[s].depth <= v.stack[t].depth
      BY <1>1
    <3>2. CASE s \in 1..(n - 1) /\ t \in 1..(n - 1)
      BY <1>1, <1>10, <1>18, <3>1, <3>2
    <3>3. CASE s \in 1..(n - 1) /\ t \in n..((n - 1) + m)
      <4>1. v.stack[s] = w.stack[s] /\ v.stack[t].depth = row.depth + 1
        BY <1>1, <3>3
      <4>2. w.stack[s].depth <= row.depth /\ w.stack[s].depth \in Nat
        BY <1>2, <1>4, <1>10, <1>13, <3>3
      <4> QED
        BY <1>3, <4>1, <4>2
    <3>4. CASE s \in n..((n - 1) + m) /\ t \in n..((n - 1) + m)
      BY <1>1, <1>3, <3>4
    <3>5. CASE s \in n..((n - 1) + m) /\ t \in 1..(n - 1)
      BY <1>1, <1>2, <3>1, <3>5
    <3> QED
      BY <1>17, <3>2, <3>3, <3>4, <3>5
  <2> QED
    BY <2>3, <2>4 DEF WalkHangs
<1>24. InRows(v) = InRows(w) \cup {row.node}
  <2>1. InRows(v) = {v.rows[i].node : i \in 1..(z + 1)}
    BY <1>1 DEF InRows
  <2>2. \A i \in 1..z : i \in 1..(z + 1)
    BY <1>2
  <2>3. z + 1 \in 1..(z + 1)
    BY <1>2
  <2> QED
    BY <1>1, <1>14, <1>16, <2>1, <2>2, <2>3
<1>25. WalkReaches(nodes, edges, v)
  <2>1. InStack(v) = {v.stack[s].node : s \in 1..((n - 1) + m)}
    BY <1>1 DEF InStack
  <2>2. InStack(w) \subseteq InStack(v) \cup {row.node}
    <3>1. SUFFICES ASSUME NEW s \in 1..n PROVE w.stack[s].node \in InStack(v) \cup {row.node}
      BY <1>14
    <3>2. s = n \/ s \in 1..(n - 1)
      BY <1>2
    <3>3. CASE s \in 1..(n - 1)
      <4>1. s \in 1..((n - 1) + m) /\ v.stack[s] = w.stack[s]
        BY <1>1, <1>2, <3>3
      <4> QED
        BY <2>1, <4>1
    <3> QED
      BY <1>13, <3>2, <3>3
  <2>3. K \subseteq InStack(v)
    <3>1. SUFFICES ASSUME NEW x \in K PROVE x \in InStack(v)
      OBVIOUS
    <3>2. PICK s \in n..((n - 1) + m) : v.stack[s].node = x
      BY <1>1
    <3>3. s \in 1..((n - 1) + m)
      BY <1>1, <1>2
    <3> QED
      BY <2>1, <3>2, <3>3
  <2> QED
    BY <1>11, <1>15, <1>24, <2>2, <2>3 DEF WalkReaches
<1>26. WalkEnds(nodes, edges, k + 1, v)
  <2> DEFINE E == {l \in edges : Endpoint(l.from) = row.node}
             U == Used(edges, w)
             to == [l \in E |-> Endpoint(l.to)]
  <2>1. IsFiniteSet(edges)
    BY DEF IsGraph
  <2>2. IsFiniteSet(E) /\ IsFiniteSet(U) /\ Used(edges, v) = U \cup E /\ U \cap E = {}
    BY <1>5, <1>24, <2>1, FS_Subset DEF Used
  <2>3. m <= Cardinality(E)
    <3>1. to \in [E -> K] /\ \A x \in K : \E l \in E : to[l] = x
      BY <1>15 DEF KidsOf
    <3> HIDE DEF to, E
    <3>2. to \in Surjection(E, K)
      BY <3>1 DEF Surjection
    <3> QED
      BY <1>15, <2>2, <3>2, FS_Surjection
  <2> HIDE DEF E, U
  <2>4. Cardinality(U \cup E) = Cardinality(U) + Cardinality(E) - Cardinality(U \cap E)
        /\ Cardinality(U \cap E) = 0 /\ Cardinality(U) \in Nat /\ Cardinality(E) \in Nat
    BY <2>2, FS_Union, FS_EmptySet, FS_CardinalityType
  <2>5. Cardinality(RootsOf(nodes, edges)) \in Nat
    BY GraphIs, FS_CardinalityType
  <2>6. (k + 1) + Len(v.stack) = (k + n) + m
    BY <1>1, <1>2
  <2>7. k + n <= Cardinality(RootsOf(nodes, edges)) + Cardinality(U)
    BY <1>12 DEF U
  <2>8. (k + 1) + Len(v.stack) <= Cardinality(RootsOf(nodes, edges)) + Cardinality(U \cup E)
    BY <1>1, <1>2, <2>3, <2>4, <2>5, <2>6, <2>7
  <2> QED
    BY <2>2, <2>8 DEF WalkEnds
<1> QED
  BY <1>19, <1>20, <1>22, <1>23, <1>25, <1>26 DEF WalkInv


LEMMA WalkStep ==
    ASSUME NEW nodes, NEW edges, IsGraph(nodes, edges), NEW k \in Nat, NEW w,
           WalkInv(nodes, edges, k, w)
    PROVE  WalkInv(nodes, edges, k + 1, Pop(edges, w))
<1> DEFINE v == Pop(edges, w)
<1>1. IsWalk(nodes, w)
  BY DEF WalkInv
<1>2. CASE w.stack = <<>>
  <2>1. v = w
    BY <1>2 DEF Pop
  <2>2. WalkEnds(nodes, edges, k + 1, w)
    BY <1>2 DEF WalkEnds
  <2> QED
    BY <2>1, <2>2 DEF WalkInv
<1>3. CASE w.stack # <<>>
  <2> DEFINE top == w.stack[Len(w.stack)].node
  <2>1. /\ Len(w.stack) # 0 /\ IsWalk(nodes, v)
        /\ top \in InRows(w) => Dropped(w, v)
        /\ top \notin InRows(w) => Placed(edges, w, v)
    BY <1>1, <1>3, PopIs
  <2>2. CASE top \in InRows(w)
    BY <2>1, <2>2, DroppedStep
  <2>3. CASE top \notin InRows(w)
    BY <2>1, <2>3, PlacedStep
  <2> QED
    BY <2>2, <2>3
<1> QED
  BY <1>2, <1>3

\* The walk begins with the roots.
LEMMA WalkBegins ==
    ASSUME NEW nodes, NEW edges, IsGraph(nodes, edges)
    PROVE  LET roots == SortedNodes(RootsOf(nodes, edges))
               w == [stack |-> [r \in DOMAIN roots |->
                                  [node |-> roots[r], depth |-> 0, parent |-> NoParent]],
                     rows |-> <<>>]
           IN WalkInv(nodes, edges, 0, w)
<1> DEFINE R == RootsOf(nodes, edges)
           roots == SortedNodes(R)
           st == [r \in DOMAIN roots |-> [node |-> roots[r], depth |-> 0, parent |-> NoParent]]
           w == [stack |-> st, rows |-> <<>>]
           F == Frames(nodes)
<1>1. R \subseteq nodes /\ R \in SUBSET Items /\ IsFiniteSet(R)
  BY GraphIs DEF IsGraph
<1>2. /\ roots \in Seq(R) /\ Len(roots) = Cardinality(R) /\ Cardinality(R) \in Nat
      /\ \A x \in R : \E k \in 1..Len(roots) : roots[k] = x
  BY <1>1, InOrderIs
<1> HIDE DEF R, roots
<1>3. DOMAIN roots = 1..Len(roots) /\ \A r \in 1..Len(roots) : roots[r] \in R
  BY <1>2
<1> DEFINE frame(x) == [node |-> x, depth |-> 0, parent |-> NoParent]
<1>4. \A x \in nodes : frame(x) \in F /\ frame(x).node = x /\ frame(x).depth = 0
                       /\ frame(x).parent = NoParent
  BY DEF Frames
<1>5. st = [r \in 1..Len(roots) |-> frame(roots[r])]
  BY <1>3
<1> HIDE DEF frame, F, st
<1>6. \A r \in 1..Len(roots) : /\ st[r] \in F /\ st[r].node = roots[r] /\ st[r].depth = 0
                               /\ st[r].parent = NoParent
  BY <1>1, <1>3, <1>4, <1>5
<1>7. st \in Seq(F) /\ Len(st) = Len(roots) /\ Len(roots) \in Nat
  <2>1. st \in [1..Len(roots) -> F] /\ Len(roots) \in Nat
    BY <1>2, <1>5, <1>6
  <2> QED
    BY <2>1
<1>8. /\ w.stack = st /\ w.rows = <<>> /\ Len(w.rows) = 0 /\ \A i \in 1..Len(w.rows) : FALSE
      /\ <<>> \in Seq(F) /\ w \in [stack : Seq(F), rows : Seq(F)]
  BY <1>7
<1> HIDE DEF w
<1>9. IsWalk(nodes, w)
  BY <1>6, <1>7, <1>8 DEF IsWalk, Walks, F
<1>10. WalkFits(edges, w)
  <2>1. \A x \in R : Parents(edges, x) = {}
    BY DEF R, RootsOf
  <2>2. \A s \in 1..Len(w.stack) : FrameFits(edges, w.stack[s])
    BY <1>3, <1>6, <1>7, <1>8, <2>1 DEF FrameFits
  <2> QED
    BY <1>8, <2>2 DEF WalkFits
<1>11. WalkOnce(w) /\ WalkNests(w)
  BY <1>8 DEF WalkOnce, WalkNests
<1>12. WalkHangs(w)
  BY <1>6, <1>7, <1>8 DEF WalkHangs
<1>13. InRows(w) = {}
  BY <1>8 DEF InRows
<1>14. WalkReaches(nodes, edges, w)
  <2>1. ASSUME NEW x \in R PROVE x \in InStack(w)
    <3>1. PICK r \in 1..Len(roots) : roots[r] = x
      BY <1>2
    <3>2. w.stack[r].node = x /\ r \in 1..Len(w.stack)
      BY <1>6, <1>7, <1>8, <3>1
    <3> QED
      BY <3>2 DEF InStack
  <2> QED
    BY <1>13, <2>1 DEF WalkReaches, R
<1>15. WalkEnds(nodes, edges, 0, w)
  <2>1. Used(edges, w) = {}
    BY <1>13 DEF Used
  <2>2. Cardinality(Used(edges, w)) = 0
    BY <2>1, FS_EmptySet
  <2> QED
    BY <1>2, <1>7, <1>8, <2>2 DEF WalkEnds, R
<1>16. WalkInv(nodes, edges, 0, w)
  BY <1>9, <1>10, <1>11, <1>12, <1>14, <1>15 DEF WalkInv
<1> QED
  BY <1>16 DEF w, st, roots, R

\* The rows are those of a walk that has come to its end.
LEMMA PreorderIs ==
    ASSUME NEW nodes, NEW edges, IsGraph(nodes, edges)
    PROVE  \E w : /\ w.rows = Preorder(nodes, edges) /\ w.stack = <<>>
                  /\ WalkInv(nodes, edges, Cardinality(nodes) + Cardinality(edges), w)
<1> DEFINE roots == SortedNodes(RootsOf(nodes, edges))
           b == [stack |-> [r \in DOMAIN roots |->
                              [node |-> roots[r], depth |-> 0, parent |-> NoParent]],
                 rows |-> <<>>]
           N == Cardinality(nodes) + Cardinality(edges)
           W == Walks(nodes)
           Unfolds(h) == h = [k \in 0..N |-> IF k = 0 THEN b ELSE Pop(edges, h[k - 1])]
           walk == CHOOSE h : Unfolds(h)
           g == [k \in 1..N |-> [w \in W |-> Pop(edges, w)]]
<1>1. Preorder(nodes, edges) = walk[N].rows
  BY DEF Preorder, RootsOf
<1>2. WalkInv(nodes, edges, 0, b)
  BY WalkBegins
<1>3. N \in Nat /\ Cardinality(nodes) \in Nat /\ Cardinality(edges) \in Nat
  BY FS_CardinalityType DEF IsGraph
<1>4. b \in W
  BY <1>2 DEF WalkInv, IsWalk
<1>5. ASSUME NEW w \in W PROVE Pop(edges, w) \in W
  <2>1. IsWalk(nodes, w)
    BY DEF IsWalk, Walks
  <2>2. CASE w.stack = <<>>
    BY <2>2 DEF Pop
  <2>3. CASE w.stack # <<>>
    <3>1. IsWalk(nodes, Pop(edges, w))
      BY <2>1, <2>3, PopIs
    <3> QED
      BY <3>1 DEF IsWalk
  <2> QED
    BY <2>2, <2>3
<1> HIDE DEF b, N, W, walk
<1>6. \A k \in 1..N : \A w \in W : g[k][w] = Pop(edges, w) /\ g[k][w] \in W
  BY <1>5
<1> HIDE DEF g
<1> DEFINE f == Iteration(N, W, b, g)
<1>7. f \in [0..N -> W] /\ \A k \in 0..N : f[k] = IF k = 0 THEN b ELSE g[k][f[k - 1]]
  BY <1>3, <1>4, <1>6, Iterated
<1> HIDE DEF f
<1>8. \A k \in 0..N : k # 0 => k \in 1..N /\ k - 1 \in 0..N
  BY <1>3
<1>9. \A k \in 0..N : f[k] = IF k = 0 THEN b ELSE Pop(edges, f[k - 1])
  <2>1. SUFFICES ASSUME NEW k \in 0..N PROVE f[k] = IF k = 0 THEN b ELSE Pop(edges, f[k - 1])
    OBVIOUS
  <2>2. f[k] = IF k = 0 THEN b ELSE g[k][f[k - 1]]
    BY <1>7
  <2>3. CASE k # 0
    <3>1. f[k - 1] \in W /\ k \in 1..N
      BY <1>7, <1>8, <2>3
    <3> QED
      BY <1>6, <2>2, <2>3, <3>1
  <2> QED
    BY <2>2, <2>3
<1>10. Unfolds(f)
  BY <1>7, <1>9
<1>11. Unfolds(walk)
  <2> HIDE DEF Unfolds
  <2> QED
    BY <1>10, Zenon DEF walk
<1>12. \A k \in 0..N : walk[k] = IF k = 0 THEN b ELSE Pop(edges, walk[k - 1])
  BY <1>11, Zenon
<1> HIDE DEF Unfolds
<1> DEFINE A == {k \in Nat : k <= N => WalkInv(nodes, edges, k, walk[k])}
<1>13. 0 \in A
  <2>1. 0 \in 0..N
    BY <1>3
  <2>2. walk[0] = b
    BY <1>12, <2>1, Zenon
  <2> QED
    BY <1>2, <2>2
<1>14. \A k \in Nat : k \in A => k + 1 \in A
  <2>1. SUFFICES ASSUME NEW k \in Nat, k \in A, k + 1 <= N
                 PROVE  WalkInv(nodes, edges, k + 1, walk[k + 1])
    OBVIOUS
  <2>2. WalkInv(nodes, edges, k, walk[k])
    BY <1>3, <2>1
  <2>3. k + 1 \in 0..N /\ k + 1 # 0 /\ (k + 1) - 1 = k
    BY <1>3, <2>1
  <2>4. walk[k + 1] = Pop(edges, walk[k])
    BY <1>12, <2>3
  <2> QED
    BY <2>2, <2>4, WalkStep
<1>15. N \in A
  <2> HIDE DEF A
  <2> QED
    BY <1>3, <1>13, <1>14, ByNumbers
<1> DEFINE w == walk[N]
<1>16. WalkInv(nodes, edges, N, w)
  BY <1>3, <1>15
<1>17. w.stack = <<>>
  <2>1. SUFFICES ASSUME w.stack # <<>> PROVE FALSE
    OBVIOUS
  <2>2. N + Len(w.stack) <= Cardinality(RootsOf(nodes, edges)) + Cardinality(Used(edges, w))
    BY <1>16, <2>1 DEF WalkInv, WalkEnds
  <2>3. Cardinality(RootsOf(nodes, edges)) <= Cardinality(nodes)
        /\ Cardinality(RootsOf(nodes, edges)) \in Nat
    BY GraphIs, FS_Subset, FS_CardinalityType DEF IsGraph
  <2>4. Cardinality(Used(edges, w)) <= Cardinality(edges) /\ Cardinality(Used(edges, w)) \in Nat
    BY FS_Subset, FS_CardinalityType DEF IsGraph, Used
  <2>5. Len(w.stack) \in Nat /\ w.stack \in Seq(Frames(nodes))
    BY <1>16 DEF WalkInv, IsWalk
  <2>6. Len(w.stack) = 0
    BY <1>3, <2>2, <2>3, <2>4, <2>5 DEF N
  <2> QED
    BY <2>1, <2>5, <2>6
<1> QED
  BY <1>1, <1>16, <1>17 DEF N


LEMMA WithinIsGraph ==
    ASSUME ForestTypeOK, NEW mode, NEW nodes \in Components(mode)
    PROVE  IsGraph(nodes, Within(mode, nodes))
<1>1. PICK seed \in NodesOf(mode) : nodes = Component(mode, seed)
  BY DEF Components
<1>2. nodes \subseteq NodesOf(mode)
  BY <1>1, ComponentIs
<1>3. nodes \in SUBSET Items /\ IsFiniteSet(nodes)
  BY <1>2, EndsAre, FS_Subset
<1>4. IsFiniteSet(Within(mode, nodes))
  BY EndsAre, FS_Subset DEF Within
<1>5. \A l \in Within(mode, nodes) : Endpoint(l.from) \in nodes /\ Endpoint(l.to) \in nodes
  BY DEF Within, EndsOf
<1> QED
  BY <1>3, <1>4, <1>5 DEF IsGraph

\* Who is above whom: the least that has the parents, and theirs.
LEMMA AboveIs ==
    ASSUME NEW nodes, NEW edges, IsGraph(nodes, edges), NEW n
    PROVE  /\ Above(edges, n) \subseteq nodes /\ Parents(edges, n) \subseteq Above(edges, n)
           /\ \A o \in Above(edges, n) : Parents(edges, o) \subseteq Above(edges, n)
           /\ \A P : Parents(edges, n) \subseteq P /\ (\A o \in P : Parents(edges, o) \subseteq P)
                       => Above(edges, n) \subseteq P
<1> DEFINE T == {Endpoint(l.from) : l \in edges}
           N == Cardinality(edges)
           Over(S) == UNION {Parents(edges, o) : o \in S}
           b == Parents(edges, n)
           Unfolds(h) == h = [k \in 0..N |-> IF k = 0 THEN b
                                ELSE h[k - 1] \cup UNION {Parents(edges, o) : o \in h[k - 1]}]
           ups == CHOOSE h : Unfolds(h)
           grow == [S \in SUBSET T |-> S \cup Over(S)]
           g == [k \in 1..N |-> grow]
           W == SUBSET T
<1>1. Above(edges, n) = ups[N]
  BY DEF Above
<1>2. N \in Nat /\ IsFiniteSet(edges)
  BY FS_CardinalityType DEF IsGraph
<1>3. IsFiniteSet(T) /\ Cardinality(T) <= N
  <2> DEFINE from == [l \in edges |-> Endpoint(l.from)]
  <2>1. from \in [edges -> T] /\ \A x \in T : \E l \in edges : from[l] = x
    OBVIOUS
  <2> HIDE DEF from, T
  <2>2. from \in Surjection(edges, T)
    BY <2>1 DEF Surjection
  <2> QED
    BY <1>2, <2>2, FS_Surjection
<1>4. \A o : Parents(edges, o) \subseteq T
  BY DEF Parents
<1>5. T \subseteq nodes
  BY DEF IsGraph
<1>6. b \in W
  BY <1>4
<1> HIDE DEF T, N
<1>7. \A S \in SUBSET T : grow[S] = S \cup Over(S) /\ grow[S] \in SUBSET T /\ S \subseteq grow[S]
  BY <1>4
<1> HIDE DEF grow
<1>8. \A k \in 1..N : \A S \in W : g[k][S] = grow[S] /\ g[k][S] \in W
  BY <1>7
<1>9. \A S : S \in W <=> S \in SUBSET T
  OBVIOUS
<1> HIDE DEF g, W, b, ups
<1> DEFINE f == Iteration(N, W, b, g)
<1>10. f \in [0..N -> W] /\ \A k \in 0..N : f[k] = IF k = 0 THEN b ELSE g[k][f[k - 1]]
  BY <1>2, <1>6, <1>8, Iterated
<1> HIDE DEF f
<1>11. \A k \in 0..N : k # 0 => k \in 1..N /\ k - 1 \in 0..N
  BY <1>2
<1>12. \A k \in 0..N : f[k] = IF k = 0 THEN b ELSE f[k - 1] \cup Over(f[k - 1])
  <2>1. SUFFICES ASSUME NEW k \in 0..N
                 PROVE  f[k] = IF k = 0 THEN b ELSE f[k - 1] \cup Over(f[k - 1])
    OBVIOUS
  <2>2. f[k] = IF k = 0 THEN b ELSE g[k][f[k - 1]]
    BY <1>10
  <2>3. CASE k # 0
    <3>1. f[k - 1] \in W /\ k \in 1..N
      BY <1>10, <1>11, <2>3
    <3>2. g[k][f[k - 1]] = grow[f[k - 1]]
      BY <1>8, <3>1
    <3>3. grow[f[k - 1]] = f[k - 1] \cup Over(f[k - 1])
      BY <1>7, <1>9, <3>1
    <3> QED
      BY <2>2, <2>3, <3>2, <3>3
  <2> QED
    BY <2>2, <2>3
<1>13. Unfolds(f)
  BY <1>10, <1>12
<1>14. Unfolds(ups)
  <2> HIDE DEF Unfolds
  <2> QED
    BY <1>13, Zenon DEF ups
<1>15. \A k \in 0..N : ups[k] = IF k = 0 THEN b ELSE ups[k - 1] \cup Over(ups[k - 1])
  BY <1>14, Zenon
<1> HIDE DEF Unfolds
<1>16. ups[0] = b
  <2>1. 0 \in 0..N
    BY <1>2
  <2> QED
    BY <1>15, <2>1, Zenon
<1> DEFINE Has(S) == /\ S \in W /\ b \subseteq S
                     /\ \A P : b \subseteq P /\ (\A o \in P : Parents(edges, o) \subseteq P) => S \subseteq P
           A == {k \in Nat : k <= N => Has(ups[k])}
<1>17. 0 \in A
  BY <1>6, <1>16
<1>18. \A k \in Nat : k \in A => k + 1 \in A
  <2>1. SUFFICES ASSUME NEW k \in Nat, k \in A, k + 1 <= N PROVE Has(ups[k + 1])
    OBVIOUS
  <2>2. Has(ups[k])
    BY <1>2, <2>1
  <2>3. ups[k + 1] = ups[k] \cup Over(ups[k])
    <3>1. k + 1 \in 0..N /\ k + 1 # 0 /\ (k + 1) - 1 = k
      BY <1>2, <2>1
    <3> QED
      BY <1>15, <3>1
  <2>4. ups[k + 1] \in W
    BY <1>7, <1>9, <2>2, <2>3, ZenonT(60)
  <2>5. ASSUME NEW P, b \subseteq P, \A o \in P : Parents(edges, o) \subseteq P
        PROVE  ups[k + 1] \subseteq P
    <3>1. ups[k] \subseteq P
      BY <2>2, <2>5
    <3> QED
      BY <2>3, <2>5, <3>1
  <2> QED
    BY <2>2, <2>3, <2>4, <2>5
<1>19. \A k \in Nat : k \in A
  <2> HIDE DEF A
  <2> QED
    BY <1>17, <1>18, ByNumbers
<1>20. Has(ups[N])
  BY <1>2, <1>19
<1>21. grow[ups[N]] = ups[N]
  <2>1. ups[0] \in SUBSET T
    BY <1>6, <1>9, <1>16
  <2>2. \A k \in 1..N : ups[k] = grow[ups[k - 1]]
    <3>1. SUFFICES ASSUME NEW k \in 1..N PROVE ups[k] = grow[ups[k - 1]]
      OBVIOUS
    <3>2. k \in 0..N /\ k # 0 /\ k - 1 \in Nat /\ k - 1 <= N
      BY <1>2
    <3>3. ups[k - 1] \in SUBSET T
      BY <1>9, <1>19, <3>2
    <3>4. ups[k] = ups[k - 1] \cup Over(ups[k - 1])
      BY <1>15, <3>2
    <3> QED
      BY <1>7, <3>3, <3>4
  <2> HIDE DEF A, Has, Over
  <2> QED
    BY <1>2, <1>3, <1>7, <2>1, <2>2, GrowthEnds
<1>22. \A o \in ups[N] : Parents(edges, o) \subseteq ups[N]
  BY <1>7, <1>9, <1>20, <1>21
<1>23. ups[N] \subseteq nodes
  BY <1>5, <1>9, <1>20
<1> QED
  BY <1>1, <1>20, <1>22, <1>23 DEF b

\* Where the walk misses a node and none has two parents, one is above itself.
LEMMA MissedIsCycle ==
    ASSUME NEW nodes, NEW edges, IsGraph(nodes, edges),
           Len(Preorder(nodes, edges)) # Cardinality(nodes)
    PROVE  \E n \in nodes : n \in Above(edges, n)
<1>1. SUFFICES ASSUME \A n \in nodes : n \notin Above(edges, n) PROVE FALSE
  OBVIOUS
<1>2. PICK w : /\ w.rows = Preorder(nodes, edges) /\ w.stack = <<>>
               /\ WalkInv(nodes, edges, Cardinality(nodes) + Cardinality(edges), w)
  BY PreorderIs
<1> DEFINE z == Len(w.rows)
           U == nodes \ InRows(w)
<1>3. z \in Nat /\ \A i \in 1..z : w.rows[i] \in Frames(nodes) /\ w.rows[i].node \in nodes
  BY <1>2 DEF WalkInv, IsWalk, Frames
<1>4. InStack(w) = {}
  <2>1. \A s \in 1..Len(w.stack) : FALSE
    BY <1>2
  <2> QED
    BY <2>1 DEF InStack
<1>5. /\ RootsOf(nodes, edges) \subseteq InRows(w)
      /\ \A n \in InRows(w) : KidsOf(edges, n) \subseteq InRows(w)
  BY <1>2, <1>4 DEF WalkInv, WalkReaches
<1>6. IsFiniteSet(nodes) /\ Cardinality(nodes) \in Nat
  BY FS_CardinalityType DEF IsGraph
<1>7. U # {}
  <2>1. SUFFICES ASSUME U = {} PROVE FALSE
    OBVIOUS
  <2> DEFINE at == [i \in 1..z |-> w.rows[i].node]
  <2>2. \A i, j \in 1..z : at[i] = at[j] => i = j
    BY <1>2 DEF WalkInv, WalkOnce
  <2>3. {at[i] : i \in 1..z} = nodes
    BY <1>3, <2>1 DEF InRows
  <2>4. IsFiniteSet(1..z) /\ Cardinality(1..z) = z
    BY <1>3, FS_Interval
  <2> HIDE DEF at, z
  <2> DEFINE I == 1..z
  <2>6. IsFiniteSet(I) /\ \A x, y \in I : at[x] = at[y] => x = y
    BY <2>2, <2>4
  <2> HIDE DEF I
  <2>7. Cardinality({at[i] : i \in I}) = Cardinality(I)
    BY <2>6, ImagesCount
  <2>5. Cardinality({at[i] : i \in 1..z}) = z
    BY <2>4, <2>7 DEF I
  <2> QED
    BY <1>2, <2>3, <2>5 DEF z
<1>8. ASSUME NEW n \in U PROVE \E m \in U : m \in Parents(edges, n)
  <2>1. Parents(edges, n) # {}
    BY <1>5, <1>8 DEF RootsOf
  <2>2. PICK m \in Parents(edges, n) : TRUE
    BY <2>1
  <2>3. m \in nodes /\ n \in KidsOf(edges, m)
    BY GraphIs
  <2> QED
    BY <1>5, <1>8, <2>3
<1> DEFINE A == {k \in Nat : \A n \in U : Cardinality(Above(edges, n)) > k}
<1>9. \A n \in U : IsFiniteSet(Above(edges, n)) /\ Cardinality(Above(edges, n)) \in Nat
                   /\ Above(edges, n) \subseteq nodes
                   /\ Cardinality(Above(edges, n)) <= Cardinality(nodes)
  BY <1>6, AboveIs, FS_Subset, FS_CardinalityType
<1> HIDE DEF U
<1>10. 0 \in A
  <2>1. SUFFICES ASSUME NEW n \in U PROVE Cardinality(Above(edges, n)) > 0
    OBVIOUS
  <2>2. Above(edges, n) # {}
    BY <1>8, AboveIs
  <2>3. Cardinality(Above(edges, n)) # 0
    BY <1>9, <2>2, FS_EmptySet
  <2> QED
    BY <1>9, <2>3
<1>11. \A k \in Nat : k \in A => k + 1 \in A
  <2>1. SUFFICES ASSUME NEW k \in Nat, k \in A, NEW n \in U
                 PROVE  Cardinality(Above(edges, n)) > k + 1
    OBVIOUS
  <2>2. PICK m \in U : m \in Parents(edges, n)
    BY <1>8
  <2>3. m \in Above(edges, n) /\ Above(edges, m) \subseteq Above(edges, n)
    <3>1. m \in Above(edges, n)
      BY <2>2, AboveIs
    <3>2. /\ Parents(edges, m) \subseteq Above(edges, n)
          /\ \A o \in Above(edges, n) : Parents(edges, o) \subseteq Above(edges, n)
      BY <3>1, AboveIs
    <3> QED
      BY <3>1, <3>2, AboveIs
  <2>4. m \notin Above(edges, m)
    BY <1>1 DEF U
  <2>5. Cardinality(Above(edges, m)) <= Cardinality(Above(edges, n))
        /\ Cardinality(Above(edges, m)) # Cardinality(Above(edges, n))
    BY <1>9, <2>3, <2>4, FS_Subset
  <2>6. Cardinality(Above(edges, m)) > k
    BY <2>1
  <2> QED
    BY <1>9, <2>5, <2>6
<1>12. \A k \in Nat : k \in A
  <2> HIDE DEF A
  <2> QED
    BY <1>10, <1>11, ByNumbers
<1>13. PICK n \in U : TRUE
  BY <1>7
<1>14. Cardinality(Above(edges, n)) > Cardinality(nodes)
  BY <1>6, <1>12
<1> QED
  BY <1>6, <1>9, <1>14


\* The rows of a group of parents are a tree of its nodes.
IsTree(nodes, edges, rows) ==
    /\ Len(rows) \in Nat /\ DOMAIN rows = 1..Len(rows) /\ Len(rows) = Cardinality(nodes)
    /\ \A k \in 1..Len(rows) : /\ rows[k].node \in nodes /\ rows[k].depth \in Nat
                               /\ FrameFits(edges, rows[k])
    /\ \A i, j \in 1..Len(rows) : rows[i].node = rows[j].node => i = j
    /\ \A n \in nodes : \E k \in 1..Len(rows) : rows[k].node = n
    /\ \A k \in 1..Len(rows) : rows[k].depth > 0 =>
          \E j \in 1..(k - 1) : Under(rows, j, k - 1, rows[k])
    /\ \A k \in 1..Len(rows) : Parents(edges, rows[k].node) \subseteq {rows[k].parent}

LEMMA GroupIsTree ==
    ASSUME NEW nodes, NEW edges, IsGraph(nodes, edges), Refusal(nodes, edges) = "none"
    PROVE  IsTree(nodes, edges, Preorder(nodes, edges))
<1> DEFINE rows == Preorder(nodes, edges)
           z == Len(rows)
<1>1. PICK w : /\ w.rows = rows /\ w.stack = <<>>
               /\ WalkInv(nodes, edges, Cardinality(nodes) + Cardinality(edges), w)
  BY PreorderIs
<1>2. z = Cardinality(nodes) /\ \A n \in nodes : ~(Cardinality(Parents(edges, n)) > 1)
  BY DEF Refusal
<1> HIDE DEF rows
<1>3. /\ z \in Nat /\ rows \in Seq(Frames(nodes)) /\ DOMAIN rows = 1..z
      /\ \A k \in 1..z : rows[k] \in Frames(nodes)
  BY <1>1 DEF WalkInv, IsWalk
<1>4. \A k \in 1..z : rows[k].node \in nodes /\ rows[k].depth \in Nat
  BY <1>3 DEF Frames
<1>5. \A k \in 1..z : FrameFits(edges, rows[k])
  BY <1>1 DEF WalkInv, WalkFits
<1>6. \A i, j \in 1..z : rows[i].node = rows[j].node => i = j
  BY <1>1 DEF WalkInv, WalkOnce
<1>7. \A k \in 1..z : rows[k].depth > 0 => \E j \in 1..(k - 1) : Under(rows, j, k - 1, rows[k])
  BY <1>1 DEF WalkInv, WalkNests
<1>8. \A n \in nodes : \E k \in 1..z : rows[k].node = n
  <2> DEFINE I == 1..z
             at == [i \in I |-> rows[i].node]
             S == {at[i] : i \in I}
  <2>1. IsFiniteSet(I) /\ Cardinality(I) = z /\ \A x, y \in I : at[x] = at[y] => x = y
    <3>1. IsFiniteSet(1..z) /\ Cardinality(1..z) = z
      BY <1>3, FS_Interval
    <3>2. \A x, y \in I : at[x] = at[y] => x = y
      BY <1>6
    <3> HIDE DEF at
    <3> QED
      BY <3>1, <3>2
  <2>2. S \subseteq nodes /\ \A n \in S : \E k \in 1..z : rows[k].node = n
    BY <1>4
  <2> HIDE DEF I, at, z
  <2>3. Cardinality(S) = Cardinality(I)
    BY <2>1, ImagesCount
  <2> HIDE DEF S
  <2>4. S = nodes
    BY <1>2, <2>1, <2>2, <2>3, FS_Subset DEF IsGraph
  <2> QED
    BY <2>2, <2>4
<1>9. ASSUME NEW k \in 1..z PROVE Parents(edges, rows[k].node) \subseteq {rows[k].parent}
  <2> DEFINE P == Parents(edges, rows[k].node)
  <2>1. FrameFits(edges, rows[k]) /\ rows[k].node \in nodes /\ rows[k].depth \in Nat
    BY <1>4, <1>5
  <2>2. CASE rows[k].depth = 0
    BY <2>1, <2>2 DEF FrameFits
  <2>3. CASE rows[k].depth > 0
    <3>1. rows[k].parent \in P
      BY <2>1, <2>3 DEF FrameFits
    <3>2. IsFiniteSet(P) /\ ~(Cardinality(P) > 1)
      BY <1>2, <2>1, GraphIs, FS_Subset DEF IsGraph
    <3> HIDE DEF P
    <3>3. {rows[k].parent} \subseteq P /\ Cardinality({rows[k].parent}) = 1
      BY <3>1, FS_Singleton
    <3>4. Cardinality({rows[k].parent}) <= Cardinality(P) /\ Cardinality(P) \in Nat
      BY <3>2, <3>3, FS_Subset, FS_CardinalityType
    <3>5. {rows[k].parent} = P
      BY <3>2, <3>3, <3>4, FS_Subset
    <3> QED
      BY <3>5 DEF P
  <2> QED
    BY <2>1, <2>2, <2>3
<1>10. IsTree(nodes, edges, rows)
  BY <1>2, <1>3, <1>4, <1>5, <1>6, <1>7, <1>8, <1>9 DEF IsTree
<1> QED
  BY <1>10 DEF rows

LEMMA RefusedOrTree == ASSUME ForestTypeOK PROVE TreesAreTrees
<1> SUFFICES ASSUME NEW nodes \in Components("parent_task")
    PROVE  LET edges == Within("parent_task", nodes)
               rows  == Preorder(nodes, edges)
           IN IF nodes \in GroupsOf("parent_task")
              THEN /\ Len(rows) = Cardinality(nodes) /\ {rows[k].node : k \in DOMAIN rows} = nodes
                   /\ \A k \in DOMAIN rows : Parents(edges, rows[k].node) \subseteq {rows[k].parent}
                   /\ \A k \in DOMAIN rows : rows[k].depth > 0 =>
                        \E j \in 1..(k - 1) :
                           /\ rows[j].node = rows[k].parent /\ rows[j].depth = rows[k].depth - 1
                           /\ \A i \in (j + 1)..(k - 1) : rows[i].depth > rows[j].depth
              ELSE \E n \in nodes : Cardinality(Parents(edges, n)) > 1 \/ n \in Above(edges, n)
  BY DEF TreesAreTrees
<1> DEFINE edges == Within("parent_task", nodes)
           rows  == Preorder(nodes, edges)
<1>1. IsGraph(nodes, edges)
  BY WithinIsGraph
<1>2. nodes \in GroupsOf("parent_task") <=> Refusal(nodes, edges) = "none"
  BY DEF GroupsOf, RefusalOf
<1> HIDE DEF edges
<1>3. ASSUME Refusal(nodes, edges) = "none"
      PROVE  /\ Len(rows) = Cardinality(nodes) /\ {rows[k].node : k \in DOMAIN rows} = nodes
             /\ \A k \in DOMAIN rows : Parents(edges, rows[k].node) \subseteq {rows[k].parent}
             /\ \A k \in DOMAIN rows : rows[k].depth > 0 =>
                  \E j \in 1..(k - 1) :
                     /\ rows[j].node = rows[k].parent /\ rows[j].depth = rows[k].depth - 1
                     /\ \A i \in (j + 1)..(k - 1) : rows[i].depth > rows[j].depth
  <2>1. IsTree(nodes, edges, rows)
    BY <1>1, <1>3, GroupIsTree
  <2> HIDE DEF rows
  <2>2. DOMAIN rows = 1..Len(rows) /\ Len(rows) \in Nat
    BY <2>1 DEF IsTree
  <2>3. {rows[k].node : k \in DOMAIN rows} = nodes
    BY <2>1, <2>2 DEF IsTree
  <2>4. ASSUME NEW k \in DOMAIN rows, rows[k].depth > 0
        PROVE  \E j \in 1..(k - 1) :
                  /\ rows[j].node = rows[k].parent /\ rows[j].depth = rows[k].depth - 1
                  /\ \A i \in (j + 1)..(k - 1) : rows[i].depth > rows[j].depth
    <3>1. PICK j \in 1..(k - 1) : Under(rows, j, k - 1, rows[k])
      BY <2>1, <2>2, <2>4 DEF IsTree
    <3>2. j \in 1..Len(rows)
      BY <2>2
    <3>3. rows[j].depth \in Nat /\ rows[k].depth \in Nat
      BY <2>1, <2>2, <3>2 DEF IsTree
    <3> QED
      BY <3>1, <3>3 DEF Under
  <2> QED
    BY <2>1, <2>2, <2>3, <2>4 DEF IsTree
<1>4. ASSUME Refusal(nodes, edges) # "none"
      PROVE  \E n \in nodes : Cardinality(Parents(edges, n)) > 1 \/ n \in Above(edges, n)
  <2>1. \/ \E n \in nodes : Cardinality(Parents(edges, n)) > 1
        \/ Len(Preorder(nodes, edges)) # Cardinality(nodes)
    BY <1>4 DEF Refusal
  <2> QED
    BY <1>1, <2>1, MissedIsCycle
<1> HIDE DEF rows
<1> QED
  BY <1>2, <1>3, <1>4 DEF rows, edges

\* The rows that are open at k: each row from there to k is deeper.
OpenAt(rows, j, k) == j < k /\ \A i \in (j + 1)..k : rows[i].depth > rows[j].depth

\* The ancestors of a row are the rows that are open at it.
LEMMA AncestorsAre ==
    ASSUME NEW nodes, NEW edges, IsGraph(nodes, edges), NEW rows, IsTree(nodes, edges, rows)
    PROVE  \A k, j \in 1..Len(rows) :
              rows[j].node \in Above(edges, rows[k].node) <=> OpenAt(rows, j, k)
<1> DEFINE z == Len(rows)
<1>1. /\ z \in Nat /\ \A k \in 1..z : rows[k].node \in nodes /\ rows[k].depth \in Nat
                                      /\ FrameFits(edges, rows[k])
      /\ \A i, j \in 1..z : rows[i].node = rows[j].node => i = j
      /\ \A k \in 1..z : rows[k].depth > 0 => \E j \in 1..(k - 1) : Under(rows, j, k - 1, rows[k])
      /\ \A k \in 1..z : Parents(edges, rows[k].node) \subseteq {rows[k].parent}
  BY DEF IsTree
<1> HIDE DEF z
\* The parent's row is open, and nothing between it and the row is.
<1>2. ASSUME NEW k \in 1..z, rows[k].depth > 0
      PROVE  \E p \in 1..z : /\ rows[p].node \in Parents(edges, rows[k].node)
                             /\ OpenAt(rows, p, k) /\ rows[k].depth = rows[p].depth + 1
                             /\ rows[p].node = rows[k].parent
  <2>1. PICK p \in 1..(k - 1) : Under(rows, p, k - 1, rows[k])
    BY <1>1, <1>2
  <2>2. p \in 1..z /\ p < k
    BY <1>1
  <2>3. rows[p].depth \in Nat /\ rows[k].depth = rows[p].depth + 1
    BY <1>1, <2>1, <2>2 DEF Under
  <2>4. \A i \in (p + 1)..k : i \in (p + 1)..(k - 1) \/ i = k
    BY <1>1
  <2>5. OpenAt(rows, p, k)
    BY <2>1, <2>2, <2>3, <2>4 DEF Under, OpenAt
  <2>6. rows[k].parent \in Parents(edges, rows[k].node) /\ rows[p].node = rows[k].parent
    BY <1>1, <1>2, <2>1 DEF FrameFits, Under
  <2> QED
    BY <2>2, <2>3, <2>5, <2>6
<1>3. ASSUME NEW j \in 1..z, NEW p \in 1..z, NEW k \in 1..z, OpenAt(rows, j, p), OpenAt(rows, p, k)
      PROVE  OpenAt(rows, j, k)
  <2>1. j < p /\ p < k /\ \A i \in (j + 1)..p : rows[i].depth > rows[j].depth
    BY <1>3 DEF OpenAt
  <2>2. \A i \in (p + 1)..k : rows[i].depth > rows[p].depth /\ i \in 1..z
    BY <1>1, <1>3 DEF OpenAt
  <2>3. rows[p].depth > rows[j].depth /\ rows[p].depth \in Nat /\ rows[j].depth \in Nat
    BY <1>1, <2>1
  <2>4. \A i \in (j + 1)..k : i \in (j + 1)..p \/ i \in (p + 1)..k
    BY <2>1
  <2>5. \A i \in (j + 1)..k : rows[i].depth > rows[j].depth
    BY <1>1, <2>1, <2>2, <2>3, <2>4
  <2> QED
    BY <2>1, <2>5 DEF OpenAt
<1>4. ASSUME NEW k \in 1..z, NEW n \in Parents(edges, rows[k].node)
      PROVE  \E p \in 1..z : rows[p].node = n /\ OpenAt(rows, p, k)
  <2>1. rows[k].depth > 0
    <3>1. Parents(edges, rows[k].node) # {} /\ FrameFits(edges, rows[k]) /\ rows[k].depth \in Nat
      BY <1>1
    <3> QED
      BY <3>1 DEF FrameFits
  <2>2. PICK p \in 1..z : OpenAt(rows, p, k) /\ rows[p].node = rows[k].parent
    BY <1>2, <2>1
  <2> QED
    BY <1>1, <2>2
<1>5. ASSUME NEW k \in 1..z, NEW j \in 1..z, rows[j].node \in Above(edges, rows[k].node)
      PROVE  OpenAt(rows, j, k)
  <2> DEFINE P == {rows[p].node : p \in {i \in 1..z : OpenAt(rows, i, k)}}
  <2>1. Parents(edges, rows[k].node) \subseteq P
    BY <1>4
  <2>2. ASSUME NEW o \in P, NEW n \in Parents(edges, o) PROVE n \in P
    <3>1. PICK p \in 1..z : OpenAt(rows, p, k) /\ o = rows[p].node
      OBVIOUS
    <3>2. PICK q \in 1..z : rows[q].node = n /\ OpenAt(rows, q, p)
      BY <1>4, <3>1
    <3>3. OpenAt(rows, q, k)
      BY <1>3, <3>1, <3>2
    <3> QED
      BY <3>2, <3>3
  <2> HIDE DEF P
  <2>3. Above(edges, rows[k].node) \subseteq P
    BY <2>1, <2>2, AboveIs
  <2>4. rows[j].node \in P
    BY <1>5, <2>3
  <2>5. PICK p \in 1..z : OpenAt(rows, p, k) /\ rows[j].node = rows[p].node
    BY <2>4 DEF P
  <2> QED
    BY <1>1, <2>5
<1> DEFINE A == {m \in Nat : \A k, j \in 1..z : k <= m /\ OpenAt(rows, j, k) =>
                                rows[j].node \in Above(edges, rows[k].node)}
<1>6. 0 \in A
  BY <1>1
<1>7. \A m \in Nat : m \in A => m + 1 \in A
  <2>1. SUFFICES ASSUME NEW m \in Nat, m \in A, NEW k \in 1..z, NEW j \in 1..z, k <= m + 1,
                        OpenAt(rows, j, k)
                 PROVE  rows[j].node \in Above(edges, rows[k].node)
    OBVIOUS
  <2>2. j < k /\ \A i \in (j + 1)..k : rows[i].depth > rows[j].depth
    BY <2>1 DEF OpenAt
  <2>3. rows[k].depth > rows[j].depth /\ rows[j].depth \in Nat /\ rows[k].depth \in Nat
    <3>1. k \in (j + 1)..k
      BY <1>1, <2>2
    <3> QED
      BY <1>1, <2>2, <3>1
  <2>4. rows[k].depth > 0
    BY <2>3
  <2>5. PICK p \in 1..z : /\ rows[p].node \in Parents(edges, rows[k].node)
                          /\ OpenAt(rows, p, k) /\ rows[k].depth = rows[p].depth + 1
    BY <1>2, <2>4
  <2>6. p < k /\ \A i \in (p + 1)..k : rows[i].depth > rows[p].depth
    BY <2>5 DEF OpenAt
  <2>7. rows[p].node \in Above(edges, rows[k].node) /\ rows[p].depth \in Nat
    BY <1>1, <2>5, AboveIs
  <2>8. CASE j = p
    BY <2>7, <2>8
  <2>9. CASE j > p
    <3>1. j \in (p + 1)..k
      BY <1>1, <2>2, <2>9
    <3>2. rows[j].depth > rows[p].depth
      BY <2>6, <3>1
    <3> QED
      BY <2>3, <2>5, <2>7, <3>2
  <2>10. CASE j < p
    <3>1. OpenAt(rows, j, p)
      <4>1. \A i \in (j + 1)..p : i \in (j + 1)..k
        BY <1>1, <2>6
      <4> QED
        BY <2>2, <2>10, <4>1 DEF OpenAt
    <3>2. p <= m
      BY <1>1, <2>1, <2>6
    <3>3. rows[j].node \in Above(edges, rows[p].node)
      BY <2>1, <3>1, <3>2
    <3>4. Above(edges, rows[p].node) \subseteq Above(edges, rows[k].node)
      <4>1. Parents(edges, rows[p].node) \subseteq Above(edges, rows[k].node)
            /\ \A o \in Above(edges, rows[k].node) : Parents(edges, o) \subseteq Above(edges, rows[k].node)
        BY <2>7, AboveIs
      <4> QED
        BY <4>1, AboveIs
    <3> QED
      BY <3>3, <3>4
  <2> QED
    BY <1>1, <2>8, <2>9, <2>10
<1>8. \A m \in Nat : m \in A
  <2> HIDE DEF A
  <2> QED
    BY <1>6, <1>7, ByNumbers
<1>9. ASSUME NEW k \in 1..z, NEW j \in 1..z, OpenAt(rows, j, k)
      PROVE  rows[j].node \in Above(edges, rows[k].node)
  BY <1>1, <1>8, <1>9
<1> QED
  BY <1>5, <1>9 DEF z


\* The lines in front of a row: one for each row that is open there and has a sibling
\* still to come.
LEMMA BranchesAre ==
    ASSUME NEW nodes, NEW edges, NEW rows, IsTree(nodes, edges, rows), NEW k \in 1..Len(rows)
    PROVE  /\ \A d \in Branches(rows)[k] :
                 \E j \in 1..Len(rows) : d = rows[j].depth /\ Continues(rows, j) /\ OpenAt(rows, j, k)
           /\ \A j \in 1..Len(rows) :
                 Continues(rows, j) /\ OpenAt(rows, j, k) => rows[j].depth \in Branches(rows)[k]
<1> DEFINE z == Len(rows)
           own(m) == IF Continues(rows, m) THEN {rows[m].depth} ELSE {}
           Unfolds(h) == h = [m \in 0..z |-> IF m = 0 THEN {}
                                ELSE {d \in h[m - 1] : d < rows[m].depth} \cup
                                     (IF Continues(rows, m) THEN {rows[m].depth} ELSE {})]
           open == CHOOSE h : Unfolds(h)
           W == SUBSET Nat
           g == [m \in 1..z |-> [S \in W |-> {d \in S : d < rows[m].depth} \cup own(m)]]
           b == {}
<1>1. Branches(rows) = [m \in DOMAIN rows |-> {d \in open[m - 1] : d < rows[m].depth}]
  BY DEF Branches
<1>2. z \in Nat /\ DOMAIN rows = 1..z /\ \A m \in 1..z : rows[m].depth \in Nat
  BY DEF IsTree
<1>3. k \in 1..z /\ k \in Nat
  BY <1>2
<1> HIDE DEF open, z
<1>4. \A m \in 1..z : own(m) \in W
  BY <1>2
<1>5. \A m \in 1..z : \A S \in W : /\ g[m][S] = {d \in S : d < rows[m].depth} \cup own(m)
                                   /\ g[m][S] \in W
  <2> HIDE DEF own
  <2> QED
    BY <1>4
<1>6. b \in W
  OBVIOUS
<1> HIDE DEF g, W, b
<1> DEFINE f == Iteration(z, W, b, g)
<1>7. f \in [0..z -> W] /\ \A m \in 0..z : f[m] = IF m = 0 THEN b ELSE g[m][f[m - 1]]
  BY <1>2, <1>5, <1>6, Iterated
<1> HIDE DEF f
<1>8. \A m \in 0..z : m # 0 => m \in 1..z /\ m - 1 \in 0..z
  BY <1>2
<1>9. \A m \in 0..z : f[m] = IF m = 0 THEN {} ELSE {d \in f[m - 1] : d < rows[m].depth} \cup own(m)
  <2>1. SUFFICES ASSUME NEW m \in 0..z
                 PROVE  f[m] = IF m = 0 THEN {} ELSE {d \in f[m - 1] : d < rows[m].depth} \cup own(m)
    OBVIOUS
  <2>2. f[m] = IF m = 0 THEN b ELSE g[m][f[m - 1]]
    BY <1>7
  <2> HIDE DEF own
  <2>3. CASE m # 0
    <3>1. f[m - 1] \in W /\ m \in 1..z
      BY <1>7, <1>8, <2>3
    <3> QED
      BY <1>5, <2>2, <2>3, <3>1
  <2> QED
    BY <2>2, <2>3 DEF b
<1>10. Unfolds(f)
  BY <1>7, <1>9
<1>11. Unfolds(open)
  <2> HIDE DEF Unfolds
  <2> QED
    BY <1>10, Zenon DEF open
<1>12. \A m \in 0..z : open[m] = IF m = 0 THEN {}
                                ELSE {d \in open[m - 1] : d < rows[m].depth} \cup own(m)
  BY <1>11, Zenon
<1> HIDE DEF Unfolds
<1> DEFINE At(m, j) == /\ j \in 1..m /\ Continues(rows, j)
                       /\ \A i \in (j + 1)..m : rows[i].depth > rows[j].depth
           Held(m) == /\ \A d \in open[m] : \E j \in 1..z : d = rows[j].depth /\ At(m, j)
                      /\ \A j \in 1..z : At(m, j) => rows[j].depth \in open[m]
           A == {m \in Nat : m <= z => Held(m)}
<1>13. 0 \in A
  <2>1. 0 \in 0..z
    BY <1>2
  <2>2. open[0] = {}
    BY <1>12, <2>1, Zenon
  <2>3. \A j : ~At(0, j)
    OBVIOUS
  <2> QED
    BY <2>2, <2>3
<1>14. \A m \in Nat : m \in A => m + 1 \in A
  <2>1. SUFFICES ASSUME NEW m \in Nat, m \in A, m + 1 <= z PROVE Held(m + 1)
    OBVIOUS
  <2>2. m + 1 \in 0..z /\ m + 1 # 0 /\ (m + 1) - 1 = m /\ m + 1 \in 1..z
    BY <1>2, <2>1
  <2>3. open[m + 1] = {d \in open[m] : d < rows[m + 1].depth} \cup own(m + 1)
    <3> HIDE DEF own
    <3> QED
      BY <1>12, <2>2
  <2>4. Held(m)
    BY <1>2, <2>1
  <2>5. \A j \in 1..z : At(m + 1, j) <=> \/ At(m, j) /\ rows[m + 1].depth > rows[j].depth
                                         \/ j = m + 1 /\ Continues(rows, m + 1)
    <3>1. SUFFICES ASSUME NEW j \in 1..z
                   PROVE  At(m + 1, j) <=> \/ At(m, j) /\ rows[m + 1].depth > rows[j].depth
                                           \/ j = m + 1 /\ Continues(rows, m + 1)
      OBVIOUS
    <3>2. CASE j = m + 1
      <4>1. j \in 1..(m + 1) /\ j \notin 1..m /\ \A i \in (j + 1)..(m + 1) : FALSE
        BY <3>2
      <4> QED
        BY <3>2, <4>1
    <3>3. CASE j # m + 1
      <4>1. j \in 1..(m + 1) <=> j \in 1..m
        BY <1>2, <3>3
      <4>2. CASE j \in 1..m
        <5>1. \A i : i \in (j + 1)..(m + 1) <=> i \in (j + 1)..m \/ i = m + 1
          BY <4>2
        <5> QED
          BY <3>3, <4>1, <4>2, <5>1
      <4>3. CASE j \notin 1..m
        BY <3>3, <4>1, <4>3
      <4> QED
        BY <4>2, <4>3
    <3> QED
      BY <3>2, <3>3
  <2> HIDE DEF At
  <2>6. ASSUME NEW d \in open[m + 1] PROVE \E j \in 1..z : d = rows[j].depth /\ At(m + 1, j)
    <3>1. CASE d \in open[m] /\ d < rows[m + 1].depth
      <4>1. PICK j \in 1..z : d = rows[j].depth /\ At(m, j)
        BY <2>4, <3>1
      <4>2. rows[j].depth \in Nat /\ rows[m + 1].depth \in Nat
        BY <1>2, <2>2
      <4>3. rows[m + 1].depth > rows[j].depth
        BY <3>1, <4>1, <4>2
      <4> QED
        BY <2>5, <4>1, <4>3
    <3>2. CASE d \in own(m + 1)
      <4>1. d = rows[m + 1].depth /\ Continues(rows, m + 1)
        BY <3>2
      <4> QED
        BY <2>2, <2>5, <4>1
    <3> QED
      BY <2>3, <3>1, <3>2
  <2>7. ASSUME NEW j \in 1..z, At(m + 1, j) PROVE rows[j].depth \in open[m + 1]
    <3>1. CASE At(m, j) /\ rows[m + 1].depth > rows[j].depth
      <4>1. rows[j].depth \in open[m] /\ rows[j].depth \in Nat /\ rows[m + 1].depth \in Nat
        BY <1>2, <2>2, <2>4, <3>1
      <4> QED
        BY <2>3, <3>1, <4>1
    <3>2. CASE j = m + 1 /\ Continues(rows, m + 1)
      BY <2>3, <3>2
    <3> QED
      BY <2>5, <2>7, <3>1, <3>2
  <2> QED
    BY <2>6, <2>7
<1>15. Held(k - 1)
  <2>1. \A m \in Nat : m \in A
    <3> HIDE DEF A
    <3> QED
      BY <1>13, <1>14, ByNumbers
  <2>2. k - 1 \in Nat /\ k - 1 <= z
    BY <1>2, <1>3
  <2> HIDE DEF Held
  <2> QED
    BY <2>1, <2>2
<1>16. Branches(rows)[k] = {d \in open[k - 1] : d < rows[k].depth}
  BY <1>1, <1>2, <1>3
<1>17. \A j \in 1..z : OpenAt(rows, j, k) /\ Continues(rows, j)
                         <=> At(k - 1, j) /\ rows[k].depth > rows[j].depth
  <2>1. SUFFICES ASSUME NEW j \in 1..z
                 PROVE  OpenAt(rows, j, k) /\ Continues(rows, j)
                          <=> At(k - 1, j) /\ rows[k].depth > rows[j].depth
    OBVIOUS
  <2>2. j \in 1..(k - 1) <=> j < k
    BY <1>2, <1>3
  <2>3. j < k => \A i : i \in (j + 1)..k <=> i \in (j + 1)..(k - 1) \/ i = k
    BY <1>2, <1>3
  <2> QED
    BY <2>2, <2>3 DEF OpenAt
<1> HIDE DEF At
<1>18. \A d \in Branches(rows)[k] :
          \E j \in 1..z : d = rows[j].depth /\ Continues(rows, j) /\ OpenAt(rows, j, k)
  <2>1. SUFFICES ASSUME NEW d \in open[k - 1], d < rows[k].depth
                 PROVE  \E j \in 1..z : d = rows[j].depth /\ Continues(rows, j) /\ OpenAt(rows, j, k)
    BY <1>16
  <2>2. PICK j \in 1..z : d = rows[j].depth /\ At(k - 1, j)
    BY <1>15
  <2>3. rows[k].depth > rows[j].depth
    BY <1>2, <1>3, <2>1, <2>2
  <2> QED
    BY <1>17, <2>2, <2>3
<1>19. \A j \in 1..z : Continues(rows, j) /\ OpenAt(rows, j, k) => rows[j].depth \in Branches(rows)[k]
  BY <1>2, <1>3, <1>15, <1>16, <1>17
<1> QED
  BY <1>18, <1>19 DEF z

LEMMA LinesFollow == ASSUME ForestTypeOK PROVE LinesAreTrue
<1> SUFFICES ASSUME NEW nodes \in GroupsOf("parent_task")
             PROVE  LET edges == Within("parent_task", nodes)
                        rows  == Preorder(nodes, edges)
                        Place(n) == CHOOSE k \in DOMAIN rows : rows[k].node = n
                    IN \A k \in DOMAIN rows :
                         Branches(rows)[k] =
                           {rows[Place(n)].depth : n \in {a \in Above(edges, rows[k].node) :
                              \E j \in (k + 1)..Len(rows) :
                                 rows[Place(a)].depth > 0 /\ rows[j].parent = rows[Place(a)].parent}}
  BY DEF LinesAreTrue
<1> DEFINE edges == Within("parent_task", nodes)
           rows  == Preorder(nodes, edges)
           Place(n) == CHOOSE k \in DOMAIN rows : rows[k].node = n
           z == Len(rows)
           Later(k, a) == \E j \in (k + 1)..z :
                             rows[Place(a)].depth > 0 /\ rows[j].parent = rows[Place(a)].parent
<1>1. IsGraph(nodes, edges) /\ IsTree(nodes, edges, rows)
  <2>1. nodes \in Components("parent_task") /\ Refusal(nodes, edges) = "none"
    BY DEF GroupsOf, RefusalOf
  <2>2. IsGraph(nodes, edges)
    BY <2>1, WithinIsGraph
  <2> QED
    BY <2>1, <2>2, GroupIsTree
<1> HIDE DEF edges, rows
<1>2. /\ z \in Nat /\ DOMAIN rows = 1..z
      /\ \A k \in 1..z : rows[k].node \in nodes /\ rows[k].depth \in Nat /\ FrameFits(edges, rows[k])
      /\ \A i, j \in 1..z : rows[i].node = rows[j].node => i = j
      /\ \A n \in nodes : \E k \in 1..z : rows[k].node = n
      /\ \A k \in 1..z : rows[k].depth > 0 => \E j \in 1..(k - 1) : Under(rows, j, k - 1, rows[k])
  BY <1>1 DEF IsTree
<1>3. \A j \in 1..z : Place(rows[j].node) = j
  BY <1>2
<1> HIDE DEF Place, z
<1>4. \A k, j \in 1..z : rows[j].node \in Above(edges, rows[k].node) <=> OpenAt(rows, j, k)
  BY <1>1, AncestorsAre DEF z
<1>5. \A k \in 1..z : Above(edges, rows[k].node) \subseteq nodes
  BY <1>1, AboveIs
<1>6. \A k \in 1..z : rows[k].parent # NoParent <=> rows[k].depth > 0
  <2>1. SUFFICES ASSUME NEW k \in 1..z PROVE rows[k].parent # NoParent <=> rows[k].depth > 0
    OBVIOUS
  <2>2. FrameFits(edges, rows[k]) /\ rows[k].depth \in Nat
    BY <1>2
  <2>3. CASE rows[k].depth > 0
    <3>1. rows[k].parent \in nodes
      BY <1>1, <2>2, <2>3, GraphIs DEF FrameFits
    <3> QED
      BY <1>1, <2>3, <3>1, GraphIs
  <2>4. CASE rows[k].depth = 0
    BY <2>2, <2>4 DEF FrameFits
  <2> QED
    BY <2>2, <2>3, <2>4
\* Siblings are as deep as each other.
<1>7. ASSUME NEW i \in 1..z, NEW j \in 1..z, rows[i].parent = rows[j].parent,
             rows[j].parent # NoParent
      PROVE  rows[i].depth = rows[j].depth
  <2>1. rows[i].depth > 0 /\ rows[j].depth > 0
    BY <1>6, <1>7
  <2>2. PICK p \in 1..(i - 1) : Under(rows, p, i - 1, rows[i])
    BY <1>2, <2>1
  <2>3. PICK q \in 1..(j - 1) : Under(rows, q, j - 1, rows[j])
    BY <1>2, <2>1
  <2>4. p \in 1..z /\ q \in 1..z
    BY <1>2
  <2>5. rows[p].node = rows[q].node
    BY <1>7, <2>2, <2>3 DEF Under
  <2>6. p = q
    BY <1>2, <2>4, <2>5
  <2> QED
    BY <2>2, <2>3, <2>6 DEF Under
<1>8. ASSUME NEW k \in 1..z, NEW j \in 1..z, OpenAt(rows, j, k)
      PROVE  Continues(rows, j) <=> Later(k, rows[j].node)
  <2>1. j < k /\ \A i \in (j + 1)..k : rows[i].depth > rows[j].depth
    BY <1>8 DEF OpenAt
  <2>2. Place(rows[j].node) = j
    BY <1>3
  <2>3. ASSUME Continues(rows, j) PROVE Later(k, rows[j].node)
    <3>1. PICK i \in (j + 1)..z : rows[j].parent # NoParent /\ rows[i].parent = rows[j].parent
      BY <2>3 DEF Continues, z
    <3>2. i \in 1..z
      BY <1>2
    <3>3. rows[i].depth = rows[j].depth /\ rows[j].depth \in Nat /\ rows[j].depth > 0
      BY <1>2, <1>6, <1>7, <3>1, <3>2
    <3>4. i \notin (j + 1)..k
      BY <2>1, <3>3
    <3>5. i \in (k + 1)..z
      BY <1>2, <3>4
    <3> QED
      BY <2>2, <3>1, <3>3, <3>5
  <2>4. ASSUME Later(k, rows[j].node) PROVE Continues(rows, j)
    <3>1. PICK i \in (k + 1)..z : rows[j].depth > 0 /\ rows[i].parent = rows[j].parent
      BY <2>2, <2>4
    <3>2. i \in (j + 1)..z /\ rows[j].parent # NoParent
      BY <1>2, <1>6, <2>1, <3>1
    <3> QED
      BY <3>1, <3>2 DEF Continues, z
  <2> QED
    BY <2>3, <2>4
<1>9. ASSUME NEW k \in 1..z
      PROVE  Branches(rows)[k] =
               {rows[Place(n)].depth : n \in {a \in Above(edges, rows[k].node) : Later(k, a)}}
  <2> DEFINE R == {rows[Place(n)].depth : n \in {a \in Above(edges, rows[k].node) : Later(k, a)}}
             B == Branches(rows)[k]
  <2>1. /\ \A d \in B : \E j \in 1..z : d = rows[j].depth /\ Continues(rows, j) /\ OpenAt(rows, j, k)
        /\ \A j \in 1..z : Continues(rows, j) /\ OpenAt(rows, j, k) => rows[j].depth \in B
    BY <1>1, <1>9, BranchesAre DEF z
  <2> HIDE DEF B, Later
  <2>2. ASSUME NEW d \in B PROVE d \in R
    <3>1. PICK j \in 1..z : d = rows[j].depth /\ Continues(rows, j) /\ OpenAt(rows, j, k)
      BY <2>1
    <3>2. rows[j].node \in Above(edges, rows[k].node) /\ Later(k, rows[j].node)
          /\ Place(rows[j].node) = j
      BY <1>3, <1>4, <1>8, <3>1
    <3> QED
      BY <3>1, <3>2
  <2>3. ASSUME NEW a \in Above(edges, rows[k].node), Later(k, a) PROVE rows[Place(a)].depth \in B
    <3>1. PICK j \in 1..z : rows[j].node = a
      BY <1>2, <1>5
    <3>2. OpenAt(rows, j, k) /\ Place(a) = j
      BY <1>3, <1>4, <3>1
    <3> QED
      BY <1>8, <2>1, <2>3, <3>1, <3>2
  <2>4. B = R
    BY <2>2, <2>3
  <2> QED
    BY <2>4 DEF B
<1> QED
  BY <1>2, <1>9, ZenonT(60) DEF z, Place, rows, edges

LEMMA ForestFollows == ASSUME ForestTypeOK PROVE ForestIsExact
  BY LinksArePlaced, GroupsHangTogether, RefusedOrTree, LinesFollow DEF ForestIsExact

(* What the tables of relations hold is drawn, whatever they hold             *)
(* (relations-model.ts): the chains are the connected parts, each node has    *)
(* one line, beneath its first parent and before what follows it, a link that *)
(* no tree line draws is listed, and a cycle is cut and said to be one.       *)
THEOREM ForestExact == ForestSpec => []ForestIsExact
  BY ForestTyped, ForestFollows, PTL

-----------------------------------------------------------------------------
(* The composition: each part keeps its specification.                      *)

LEMMA SurfacePartsAreKept ==
    SurfaceSpec => /\ HubSpec /\ PairingSpec /\ PageSpec /\ ListSpec /\ BoardSpec /\ ForestSpec
                   /\ PanelSpec /\ [](part \in Parts)
<1>1. SurfaceInit => /\ part \in Parts /\ HubInit /\ PairingInit /\ PageInit /\ ListInit
                     /\ BoardInit /\ ForestInit /\ PanelInit
  BY DEF SurfaceInit
<1>2. [SurfaceNext]_surfaceVars => [HubNext]_hubVars
  BY Zenon DEF SurfaceNext, surfaceVars
<1>3. [SurfaceNext]_surfaceVars => [PairingNext]_pairingVars
  BY Zenon DEF SurfaceNext, surfaceVars
<1>4. [SurfaceNext]_surfaceVars => [PageNext]_pageVars
  BY Zenon DEF SurfaceNext, surfaceVars
<1>5. [SurfaceNext]_surfaceVars => [ListNext]_listVars
  BY Zenon DEF SurfaceNext, surfaceVars
<1>6. [SurfaceNext]_surfaceVars => [BoardNext]_boardVars
  BY Zenon DEF SurfaceNext, surfaceVars
<1>7. [SurfaceNext]_surfaceVars => [ForestNext]_forestVars
  BY Zenon DEF SurfaceNext, surfaceVars
<1>8. [SurfaceNext]_surfaceVars => [PanelNext]_panelVars
  BY Zenon DEF SurfaceNext, surfaceVars
<1>9. part \in Parts /\ [SurfaceNext]_surfaceVars => (part \in Parts)'
  BY DEF SurfaceNext, surfaceVars
<1> QED
  BY <1>1, <1>2, <1>3, <1>4, <1>5, <1>6, <1>7, <1>8, <1>9, PTL
     DEF SurfaceSpec, HubSpec, PairingSpec, PageSpec, ListSpec, BoardSpec, ForestSpec, PanelSpec

\* The types of all seven parts hold in their composition.
THEOREM SurfaceTyped == SurfaceSpec => []SurfaceTypeOK
<1>1. SurfaceSpec => []HubTypeOK /\ []PairingTypeOK /\ []PageTypeOK
  BY SurfacePartsAreKept, HubTyped, PairingTyped, PageTyped, PTL
<1>2. SurfaceSpec => []ListTypeOK /\ []BoardTypeOK /\ []ForestTypeOK /\ []PanelTypeOK
  BY SurfacePartsAreKept, ListsTyped, BoardTyped, ForestTyped, PanelTyped, PTL
<1>3. SurfaceSpec => [](part \in Parts)
  BY SurfacePartsAreKept
<1>4. (part \in Parts /\ HubTypeOK /\ PairingTypeOK /\ PageTypeOK /\ ListTypeOK /\ BoardTypeOK
         /\ ForestTypeOK /\ PanelTypeOK) => SurfaceTypeOK
  BY Zenon DEF SurfaceTypeOK
<1> QED
  BY <1>1, <1>2, <1>3, <1>4, PTL

\* And so do the properties of the parts: what the nodes' streams, the settings, the
\* list and the page of a session promise does not depend on the others, and the hub
\* still takes steps of Mirror only.
THEOREM SurfaceSound ==
    SurfaceSpec => /\ []StreamIsKept /\ []OfferIsHonoured /\ []SettingsAreSound /\ []ListIsSound
                   /\ []GatheredIsScheduled /\ PanelIsSound /\ Board!MirrorSafety
  BY SurfacePartsAreKept, StreamKept, HubIsAMirror, OfferHonoured, SettingsSound, ListSound,
     GatheredScheduled, PanelSound, PTL

\* Whatever the board shows is true of the rows, while the board moves and while it rests.
THEOREM BoardTrue == SurfaceSpec => []BoardIsTrue
<1>1. BoardIsExact => BoardIsTrue
  BY DEF BoardIsTrue
<1> QED
  BY <1>1, SurfacePartsAreKept, BoardExact, PTL

\* The Relations view draws every link that has a place and lists the others.
THEOREM LinksDrawn == SurfaceSpec => []LinksAreDrawn
<1>1. ForestIsExact => LinksAreDrawn
  BY DEF LinksAreDrawn
<1> QED
  BY <1>1, SurfacePartsAreKept, ForestExact, PTL
=============================================================================
