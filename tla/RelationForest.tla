--------------------------- MODULE RelationForest ---------------------------
(***************************************************************************)
(* The Relations view (web/src/lib/relations-model.ts): links between      *)
(* activities are grouped, shared runs as components, parents as trees     *)
(* that are written out row by row; a link that cannot be drawn is listed  *)
(* with the reason.  The model is a pure function of the items and links   *)
(* of a snapshot; the steps bring any snapshot about.                      *)
(*                                                                         *)
(* Abstracted: an item is its host and id, numbers that order it as its    *)
(* key does; links of other types are listed as they are.                  *)
(***************************************************************************)
EXTENDS Integers, Sequences, FiniteSets, FiniteSetsExt, SequencesExt

CONSTANTS
    Items,      \* what a snapshot may hold: [host, id]
    Links,      \* what it may say of them: [type, from, to, certainty]
    Pictures,   \* the sets of items that are looked at
    MaxLinks    \* bound: links of a snapshot

ASSUME ForestAssumption ==
    /\ IsFiniteSet(Items) /\ IsFiniteSet(Links) /\ Pictures \subseteq SUBSET Items
    /\ Items \subseteq [host : Nat, id : Nat \ {0}]
    /\ MaxLinks \in Nat

VARIABLES items, links       \* the snapshot

forestVars == <<items, links>>

Modes == {"parent_task", "run_correlation"}
Edges(mode) == {l \in links : l.type = mode}

Found(id)    == {it \in items : it.id = id}
Endpoint(id) == CHOOSE it \in Found(id) : TRUE

Ambiguous(l) == \E id \in {l.from, l.to} : Cardinality(Found(id)) > 1
Missing(l)   == \E id \in {l.from, l.to} : Found(id) = {}

\* Why a link is not drawn, before anything is known of the others.
Reason(l) ==
    IF Ambiguous(l) THEN "Ambiguous identity"
    ELSE IF Missing(l) THEN "Missing record"
    ELSE IF Endpoint(l.from).host # Endpoint(l.to).host THEN "Cross-host link"
    ELSE IF l.type = "parent_task" /\ l.certainty # "exact" THEN "Unverified parent"
    ELSE "none"

GoodEdges(mode) == {l \in Edges(mode) : Reason(l) = "none"}
EndsOf(l)       == {Endpoint(l.from), Endpoint(l.to)}
NodesOf(mode)   == UNION {EndsOf(l) : l \in GoodEdges(mode)}

Neighbours(mode, nodes) == UNION {EndsOf(l) : l \in {e \in GoodEdges(mode) : EndsOf(e) \cap nodes # {}}}

\* The queue of the search, round by round, until it is empty.
Component(mode, seed) ==
    LET visited[k \in 0..Cardinality(NodesOf(mode))] ==
            IF k = 0 THEN {seed} ELSE visited[k - 1] \cup Neighbours(mode, visited[k - 1])
    IN visited[Cardinality(NodesOf(mode))]

Components(mode) == {Component(mode, seed) : seed \in NodesOf(mode)}

Within(mode, nodes) == {l \in GoodEdges(mode) : EndsOf(l) \subseteq nodes}

-----------------------------------------------------------------------------
(* The rows of a tree.                                                     *)

CompareNodes(n, o) ==
    \/ n.host < o.host
    \/ n.host = o.host /\ n.id < o.id

\* sort: each node at the place that so many come before.
SortedNodes(nodes) ==
    [k \in 1..Cardinality(nodes) |->
        CHOOSE n \in nodes : Cardinality({o \in nodes : CompareNodes(o, n)}) = k - 1]

Parents(edges, n) == {Endpoint(l.from) : l \in {e \in edges : Endpoint(e.to) = n}}

\* Descending, for the stack gives them back in the other order.
Children(edges, n) ==
    Reverse(SortedNodes({Endpoint(l.to) : l \in {e \in edges : Endpoint(e.from) = n}}))

NoParent == [host |-> 0, id |-> 0]

Pop(edges, walk) ==
    LET row  == Last(walk.stack)
        rest == Front(walk.stack)
        kids == Children(edges, row.node)
    IN IF walk.stack = <<>> THEN walk
       ELSE IF row.node \in {walk.rows[k].node : k \in DOMAIN walk.rows}
       THEN [walk EXCEPT !.stack = rest]
       ELSE [stack |-> rest \o [k \in DOMAIN kids |->
                                   [node |-> kids[k], depth |-> row.depth + 1, parent |-> row.node]],
             rows |-> Append(walk.rows, row)]

\* The loop over treeQueue; each link and each root is popped once.
Preorder(nodes, edges) ==
    LET roots == SortedNodes({n \in nodes : Parents(edges, n) = {}})
        steps == Cardinality(nodes) + Cardinality(edges)
        walk[k \in 0..steps] ==
            IF k = 0
            THEN [stack |-> [r \in DOMAIN roots |-> [node |-> roots[r], depth |-> 0, parent |-> NoParent]],
                  rows |-> <<>>]
            ELSE Pop(edges, walk[k - 1])
    IN walk[steps].rows

\* The slip: a component is taken for a tree when no node has two parents.
RefusalMutant(nodes, edges) ==
    IF \E n \in nodes : Cardinality(Parents(edges, n)) > 1 THEN "Multiple parents" ELSE "none"

Refusal(nodes, edges) ==
    IF \E n \in nodes : Cardinality(Parents(edges, n)) > 1 THEN "Multiple parents"
    ELSE IF Len(Preorder(nodes, edges)) # Cardinality(nodes) THEN "Cycle"
    ELSE "none"

\* The last child of each parent that the rows name.
Continues(rows, k) ==
    \E j \in (k + 1)..Len(rows) : rows[k].parent # NoParent /\ rows[j].parent = rows[k].parent

\* ancestorBranches: the set of open branches as it stands at each row.
Branches(rows) ==
    LET open[k \in 0..Len(rows)] ==
            IF k = 0 THEN {}
            ELSE {d \in open[k - 1] : d < rows[k].depth} \cup
                 (IF Continues(rows, k) THEN {rows[k].depth} ELSE {})
    IN [k \in DOMAIN rows |-> {d \in open[k - 1] : d < rows[k].depth}]

-----------------------------------------------------------------------------
(* buildRelationsModel.                                                    *)

RefusalOf(mode, nodes) ==
    IF mode = "parent_task" THEN Refusal(nodes, Within(mode, nodes)) ELSE "none"

GroupsOf(mode) == {nodes \in Components(mode) : RefusalOf(mode, nodes) = "none"}

Unresolved(mode) ==
    {<<l, Reason(l)>> : l \in Edges(mode) \ GoodEdges(mode)} \cup
    UNION {{<<l, RefusalOf(mode, nodes)>> : l \in Within(mode, nodes)}
             : nodes \in Components(mode) \ GroupsOf(mode)}

-----------------------------------------------------------------------------
ForestInit == items \in Pictures /\ links = {}

Learns(l) ==
    /\ l \notin links /\ Cardinality(links) < MaxLinks
    /\ links' = links \cup {l} /\ UNCHANGED items

ForestNext == \E l \in Links : Learns(l)

ForestSpec == ForestInit /\ [][ForestNext]_forestVars

-----------------------------------------------------------------------------
ForestTypeOK == items \subseteq Items /\ links \subseteq Links

(* Every link of a snapshot is drawn in one group or listed with one reason.  *)
LinksHavePlaces ==
    \A mode \in Modes : \A l \in Edges(mode) :
        Cardinality({nodes \in GroupsOf(mode) : l \in Within(mode, nodes)})
          + Cardinality({u \in Unresolved(mode) : u[1] = l}) = 1

(* What is drawn together hangs together, and what hangs together is drawn    *)
(* together: a group is closed under its links and no part of it is.          *)
GroupsAreComponents ==
    \A mode \in Modes : \A nodes \in Components(mode) :
        \A part \in (SUBSET nodes) \ {{}} :
            Neighbours(mode, part) \subseteq part <=> part = nodes

\* Who is above whom, by the links.
Above(edges, n) ==
    LET up[k \in 0..Cardinality(edges)] ==
            IF k = 0 THEN Parents(edges, n)
            ELSE up[k - 1] \cup UNION {Parents(edges, o) : o \in up[k - 1]}
    IN up[Cardinality(edges)]

(* A group of parents is a tree and its rows are that tree: each item once,   *)
(* under its parent and before the next branch.  What is refused is no tree.  *)
TreesAreTrees ==
    \A nodes \in Components("parent_task") :
        LET edges == Within("parent_task", nodes)
            rows  == Preorder(nodes, edges)
        IN IF nodes \in GroupsOf("parent_task")
           THEN /\ Len(rows) = Cardinality(nodes) /\ {rows[k].node : k \in DOMAIN rows} = nodes
                /\ \A k \in DOMAIN rows : Parents(edges, rows[k].node) \subseteq {rows[k].parent}
                /\ \A k \in DOMAIN rows : rows[k].depth > 0 =>
                     \E j \in 1..(k - 1) :
                        /\ rows[j].node = rows[k].parent /\ rows[j].depth = rows[k].depth - 1
                        /\ \A i \in (j + 1)..(k - 1) : rows[i].depth > rows[j].depth
           ELSE \E n \in nodes : Cardinality(Parents(edges, n)) > 1 \/ n \in Above(edges, n)

(* The lines in front of a row are those of its ancestors that have a sibling *)
(* still to come.                                                             *)
LinesAreTrue ==
    \A nodes \in GroupsOf("parent_task") :
        LET edges == Within("parent_task", nodes)
            rows  == Preorder(nodes, edges)
            Place(n) == CHOOSE k \in DOMAIN rows : rows[k].node = n
        IN \A k \in DOMAIN rows :
             Branches(rows)[k] =
               {rows[Place(n)].depth : n \in {a \in Above(edges, rows[k].node) :
                  \E j \in (k + 1)..Len(rows) :
                     rows[Place(a)].depth > 0 /\ rows[j].parent = rows[Place(a)].parent}}

(* The Relations view draws what the links say and hides none of them.        *)
ForestIsExact == LinksHavePlaces /\ GroupsAreComponents /\ TreesAreTrees /\ LinesAreTrue
=============================================================================
