---------------------------- MODULE CanvasLayout ----------------------------
(***************************************************************************)
(* layoutGraph of the dashboard (ui/src/components/TopologyCanvas/         *)
(* layout.ts): where each node of a topology is drawn.  Columns come from  *)
(* a queue of nodes that is worked off a bounded number of times, rows     *)
(* from the order of the nodes.                                            *)
(***************************************************************************)
EXTENDS Naturals, Integers, Sequences, FiniteSets

CONSTANTS
    MaxId,      \* ids are 1..MaxId
    NodeCounts, \* numbers of nodes: the nodes of a graph are 1..n, in this order
    EdgeLists   \* lists of edges <<from, to>>; an end past n is no node of the graph

Ids == 1..MaxId

ASSUME InputAssumption ==
    /\ MaxId \in Nat
    /\ NodeCounts \subseteq 0..MaxId
    /\ EdgeLists \subseteq Seq(Ids \X Ids)

VARIABLES
    n, edges,   \* the graph
    depth,      \* by id; -1 where the Map has no entry
    queue,
    iterations,
    rowsUsed,   \* by column
    positions   \* of the nodes placed so far, a sequence in node order

graph == <<n, edges>>
vars == <<n, edges, depth, queue, iterations, rowsUsed, positions>>

Nodes == 1..n
maxIterations == n * 4
Columns == 0..maxIterations

Targets(v) == {w \in Ids : \E e \in DOMAIN edges : edges[e] = <<v, w>>}
Roots == {v \in Nodes : \A u \in Ids : v \notin Targets(u)}

(* The members of S, each once, in the order of their rank.                *)
Listed(S, rank) ==
    {s \in [1..Cardinality(S) -> S] :
        \A i, j \in 1..Cardinality(S) : i < j => rank[s[i]] < rank[s[j]]}

NodeOrder == [v \in Ids |-> v]

(* The place of w in the adjacency list of v.                              *)
EdgeOrder(v) ==
    [w \in Targets(v) |-> CHOOSE i \in DOMAIN edges :
        edges[i] = <<v, w>> /\ \A j \in 1..(i - 1) : edges[j] # <<v, w>>]

Init ==
    /\ n \in NodeCounts
    /\ edges \in EdgeLists
    /\ depth = [v \in Ids |-> IF v \in Roots THEN 0 ELSE -1]
    /\ queue \in Listed(Roots, NodeOrder)
    /\ iterations = 0
    /\ rowsUsed = [c \in Columns |-> 0]
    /\ positions = <<>>

(* Each node is dequeued once: a deeper way to it comes too late.          *)
DeeperOnce(v, w) == depth[w] = -1

(* The node w moves to the right of v.                                     *)
Deeper(v, w) == depth[w] < depth[v] + 1

(* The loop goes on until the queue is empty.                              *)
LoopingToTheEnd == queue # <<>>

Looping == queue # <<>> /\ iterations < maxIterations

Dequeue ==
    /\ Looping
    /\ LET v == Head(queue)
           moved == {w \in Targets(v) : Deeper(v, w)}
       IN  /\ depth' = [w \in Ids |-> IF w \in moved THEN depth[v] + 1 ELSE depth[w]]
           /\ \E s \in Listed(moved, EdgeOrder(v)) : queue' = Tail(queue) \o s
    /\ iterations' = iterations + 1
    /\ UNCHANGED <<graph, rowsUsed, positions>>

(* A node the loop did not reach is drawn in column 0.                     *)
Column(v) == IF depth[v] = -1 THEN 0 ELSE depth[v]

(* The rows of the nodes the loop did not reach are not counted.           *)
UseRowOfReached(column, v) ==
    IF depth[v] = -1 THEN rowsUsed ELSE [rowsUsed EXCEPT ![column] = @ + 1]

UseRow(column, v) == [rowsUsed EXCEPT ![column] = @ + 1]

Place ==
    /\ ~Looping
    /\ Len(positions) < n
    /\ LET v == Len(positions) + 1
       IN  /\ positions' = Append(positions, <<Column(v), rowsUsed[Column(v)]>>)
           /\ rowsUsed' = UseRow(Column(v), v)
    /\ UNCHANGED <<graph, depth, queue, iterations>>

Placed == ~Looping /\ Len(positions) = n

Returned == Placed /\ UNCHANGED vars

Next == Dequeue \/ Place \/ Returned

Spec == Init /\ [][Next]_vars
-----------------------------------------------------------------------------
(* The types of the layout's state.  No column is further right than the   *)
(* number of passes of the loop, and there are at most four per node, also *)
(* when the graph has cycles.                                              *)
TypeOK ==
    /\ n \in 0..MaxId /\ edges \in Seq(Ids \X Ids)
    /\ queue \in Seq(Ids)
    /\ iterations \in Columns
    /\ depth \in [Ids -> -1..iterations]
    /\ rowsUsed \in [Columns -> Nat]
    /\ positions \in Seq(Columns \X Nat) /\ Len(positions) <= n

(* No node is drawn on top of another, whatever the graph: with cycles,    *)
(* edges whose ends are missing, and nodes the loop never reached          *)
(* (layout.ts:70-81).                                                      *)
PlacedApart ==
    \A v, w \in DOMAIN positions : v # w => positions[v] # positions[w]

(* Unless the loop was cut short, a node is exactly one column to the      *)
(* right of the last of those that lead to it, in whatever order they were *)
(* moved: a node whose column grew after its own edges were followed is    *)
(* queued again, and no column is higher than a way there asks for.        *)
(* Nodes that the loop did not reach count for nothing; a missing end      *)
(* counts like a node (layout.ts:57-69).                                   *)
ColumnsFollowEdges ==
    (Placed /\ queue = <<>>) =>
        \A v \in Nodes :
            /\ \A w \in Nodes \cap Targets(v) :
                  depth[v] # -1 => positions[v][1] < positions[w][1]
            /\ positions[v][1] > 0 =>
                  \E u \in Ids : v \in Targets(u) /\ positions[v][1] = depth[u] + 1

(* The nodes at the end of some path of k edges.                           *)
PathEnds ==
    LET ends[k \in 0..n] ==
            IF k = 0 THEN Nodes ELSE UNION {Targets(v) : v \in ends[k - 1]}
    IN  ends

Acyclic == PathEnds[n] = {}

Whole == \A e \in DOMAIN edges : edges[e] \in Nodes \X Nodes

(* Where every edge has both its ends and there is no cycle, the column of *)
(* a node is the length of the longest path to it: the four passes per     *)
(* node are enough at these sizes, in whatever order they come             *)
(* (layout.ts:57-69).                                                      *)
ColumnsAreLongestPaths ==
    (Placed /\ Whole /\ Acyclic) =>
        \A v \in Nodes : \A k \in 0..n :
            positions[v][1] = k <=> /\ v \in PathEnds[k]
                                    /\ \A j \in (k + 1)..n : v \notin PathEnds[j]
=============================================================================
