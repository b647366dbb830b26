--------------------------- MODULE MCCanvasLayout ---------------------------
(***************************************************************************)
(* Graphs for TLC.                                                         *)
(***************************************************************************)
EXTENDS CanvasLayout

CONSTANT MaxEdges   \* bound: edges of a graph

Pairs == Ids \X Ids

(* Every list of different edges, self-loops and cycles included, up to    *)
(* the order of edges with different sources: the layout keeps an          *)
(* adjacency list by source and sees no other order.                       *)
AllEdgeLists ==
    UNION {{s \in [1..k -> Pairs] :
              \A i, j \in 1..k : i < j => s[i] # s[j] /\ s[i][1] <= s[j][1]} : k \in 0..MaxEdges}
=============================================================================
