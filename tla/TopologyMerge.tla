--------------------------- MODULE TopologyMerge ---------------------------
(***************************************************************************)
(* graph.Merge as the loop it is: over the nodes of all parts, then over   *)
(* their edges (dedupeEdges), then over the joined nodes to stamp their    *)
(* colours.  The parts enter as one sequence of nodes and one of edges,    *)
(* the concatenation of theirs: the loops never look at a part's end.      *)
(* The loop is shown to compute the merge that Topology defines, and to    *)
(* keep every detail whatever the order the engines are taken in.          *)
(***************************************************************************)
EXTENDS Topology

CONSTANTS
    Ids,       \* ids of entities
    Strings,   \* values of a text, "" among them
    Keys,      \* keys of metadata
    Values,    \* values of metadata
    Inputs     \* the parts a merge is called with

Meta == Metas(Keys, Values)

ASSUME InputsAssumption ==
    /\ "" \in Strings
    /\ \A in \in Inputs :
          /\ in.nodes \in Seq(Nodes(Ids, Strings, Meta))
          /\ in.edges \in Seq(Edges(Ids, Strings))

VARIABLES
    nodes,   \* the reported nodes, never changed
    edges,   \* the reported edges, never changed
    i,       \* number of nodes taken
    order,   \* ids in the order first seen
    byID,    \* the joined node of each id seen
    j,       \* number of edges taken
    kept,    \* edges kept
    merged   \* stamped nodes of the result

vars == <<nodes, edges, i, order, byID, j, kept, merged>>

Init ==
    /\ \E in \in Inputs : nodes = in.nodes /\ edges = in.edges
    /\ i = 0
    /\ order = <<>>
    /\ byID = [id \in {} |-> {}]
    /\ j = 0
    /\ kept = <<>>
    /\ merged = <<>>

With(f, key, value) ==
    [k \in DOMAIN f \cup {key} |-> IF k = key THEN value ELSE f[k]]

TakeNew ==
    /\ i < Len(nodes)
    /\ nodes[i + 1].id \notin DOMAIN byID
    /\ order' = Append(order, nodes[i + 1].id)
    /\ byID' = With(byID, nodes[i + 1].id, nodes[i + 1])
    /\ i' = i + 1
    /\ UNCHANGED <<nodes, edges, j, kept, merged>>

TakeKnown ==
    /\ i < Len(nodes)
    /\ nodes[i + 1].id \in DOMAIN byID
    /\ byID' = With(byID, nodes[i + 1].id, JoinNodes(byID[nodes[i + 1].id], nodes[i + 1]))
    /\ i' = i + 1
    /\ UNCHANGED <<nodes, edges, order, j, kept, merged>>

(* Seen by its ends alone, as if the key were {from, to}.                  *)
SeenByEnds(edge) ==
    \E p \in DOMAIN kept : kept[p].from = edge.from /\ kept[p].to = edge.to

Seen(edge) == \E p \in DOMAIN kept : kept[p] = edge

TakeEdge ==
    /\ i = Len(nodes)
    /\ j < Len(edges)
    /\ kept' = IF Seen(edges[j + 1]) THEN kept ELSE Append(kept, edges[j + 1])
    /\ j' = j + 1
    /\ UNCHANGED <<nodes, edges, i, order, byID, merged>>

Stamp ==
    /\ i = Len(nodes)
    /\ j = Len(edges)
    /\ Len(merged) < Len(order)
    /\ merged' = Append(merged, Stamped(byID[order[Len(merged) + 1]]))
    /\ UNCHANGED <<nodes, edges, i, order, byID, j, kept>>

Next == TakeNew \/ TakeKnown \/ TakeEdge \/ Stamp

Spec == Init /\ [][Next]_vars
-----------------------------------------------------------------------------
Done == i = Len(nodes) /\ j = Len(edges) /\ Len(merged) = Len(order)

ReportedIds == [m \in DOMAIN nodes |-> nodes[m].id]

(* The types of the loop's state; every stamped colour is one of the table *)
(* or the neutral one (colors.go).                                         *)
TypeOK ==
    /\ nodes \in Seq(Nodes(Ids, Strings, Meta))
    /\ edges \in Seq(Edges(Ids, Strings))
    /\ i \in 0..Len(nodes)
    /\ j \in 0..Len(edges)
    /\ order \in Seq(Ids)
    /\ DOMAIN byID = IdsOf(nodes, i)
    /\ \A id \in DOMAIN byID : byID[id] \in Nodes(Ids, Strings, Meta)
    /\ kept \in Seq(Edges(Ids, Strings))
    /\ merged \in Seq([id : Ids, type : Strings, label : Strings, status : Strings,
                       meta : Meta, brandColor : Colors])
    /\ Len(merged) <= Len(order)

(* The loop's invariant: what was taken so far is merged (builder.go Merge *)
(* and dedupeEdges, at every iteration).                                   *)
LoopInv ==
    /\ TypeOK
    /\ IsDistinct(order, ReportedIds, i)
    /\ \A id \in DOMAIN byID : byID[id] = Joined(nodes, i, id)
    /\ IsDistinct(kept, edges, j)
    /\ merged # <<>> => i = Len(nodes) /\ j = Len(edges)
    /\ \A p \in DOMAIN merged : merged[p] = Stamped(Joined(nodes, i, order[p]))

(* The graph returned has one node for each entity, in the order in which  *)
(* the engines first named it, with the last detail given of each kind and *)
(* the colour of its final type, and every edge once (builder.go:20-33).   *)
ResultIsMerge ==
    Done =>
        /\ IsDistinct([p \in DOMAIN merged |-> merged[p].id], ReportedIds, Len(nodes))
        /\ {merged[p] : p \in DOMAIN merged} = MergedNodes(nodes)
        /\ IsDistinct(kept, edges, Len(edges))

(* No engine erases what another one said (builder.go:23-26): every detail *)
(* given is shown in some value, and, when no two reports disagree, in the *)
(* value given, so that the order of the engines does not matter.          *)
Shows(shown, node) ==
    /\ shown.id = node.id
    /\ \A text \in Texts : node[text] # "" => shown[text] # ""
    /\ DOMAIN node.meta \subseteq DOMAIN shown.meta
    /\ Consistent(nodes) => Agree(shown, node)

DetailsKept ==
    Done => \A m \in DOMAIN nodes : \E p \in DOMAIN merged : Shows(merged[p], nodes[m])
=============================================================================
