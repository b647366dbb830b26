-------------------------- MODULE MCTopologyMerge --------------------------
(* TopologyMerge on all inputs of at most MaxNodes nodes without edges,    *)
(* and on all sequences of at most MaxEdges edges.                         *)
EXTENDS TopologyMerge

CONSTANTS MaxNodes, MaxEdges

MCIds == {"deployment/shop/cart", "service/shop/cart"}
MCStrings == {"", "k8s-deployment", "healthy", "other"}

Reported ==
    [id : MCIds, type : {"", "k8s-deployment"}, label : {"healthy"},
     status : {"", "healthy"}, meta : {[k \in {} |-> 1], [k \in {"image"} |-> 1]}]
        \cup
    [id : {"deployment/shop/cart"}, type : {"", "other"}, label : {"", "other"},
     status : {""}, meta : Metas({"replicas"}, {1}) \cup Metas({"image"}, {2})]

Drawn == [from : {"service/shop/cart"}, to : MCIds, type : {"healthy"}, label : {"", "other"}]

UpTo(n, S) == UNION {[1..m -> S] : m \in 0..n}

MCInputs ==
    [nodes : UpTo(MaxNodes, Reported), edges : {<<>>}]
        \cup [nodes : UpTo(1, Reported), edges : UpTo(MaxEdges, Drawn)]
=============================================================================
