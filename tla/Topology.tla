------------------------------ MODULE Topology ------------------------------
(***************************************************************************)
(* The topology: nodes, edges, and what graph.Merge promises to make of    *)
(* those the discovery engines report (internal/graph).                    *)
(*                                                                         *)
(* A node is a record.  A text of it may be "", which in an enrichment     *)
(* node means "not said here"; its metadata is a function on the keys it   *)
(* has.  The brand colour is Merge's own: no reported node has one.        *)
(***************************************************************************)
EXTENDS Integers, Sequences

Texts == {"type", "label", "status"}   \* the scalar fields of a node

Metas(Keys, Values) == UNION {[K -> Values] : K \in SUBSET Keys}

Nodes(Ids, Strings, Meta) ==
    [id : Ids, type : Strings, label : Strings, status : Strings, meta : Meta]

Edges(Ids, Strings) == [from : Ids, to : Ids, type : Strings, label : Strings]

BrandColorFor(type) ==
    CASE type \in {"k8s-deployment", "k8s-service"}                       -> "#326CE5"
      [] type \in {"istio-virtualservice", "istio-destinationrule"}       -> "#466BB0"
      [] type \in {"kyverno-policyreport", "kyverno-clusterpolicyreport"} -> "#1E40AF"
      [] type = "argocd-application"      -> "#EF7B4D"
      [] type = "github-actions-workflow" -> "#3B82F6"
      [] type = "github-repository"       -> "#333333"
      [] type = "docker-image"            -> "#2496ED"
      [] type = "prometheus-metric"       -> "#EA580C"
      [] type = "grafana-dashboard"       -> "#F46800"
      [] type = "loki-log-source"         -> "#10B981"
      [] OTHER                            -> "#6B7280"

Colors == {"#326CE5", "#466BB0", "#1E40AF", "#EF7B4D", "#3B82F6", "#333333",
           "#2496ED", "#EA580C", "#F46800", "#10B981", "#6B7280"}

Stamped(node) ==
    [id |-> node.id, type |-> node.type, label |-> node.label,
     status |-> node.status, meta |-> node.meta,
     brandColor |-> BrandColorFor(node.type)]
-----------------------------------------------------------------------------
(* Two views of one entity.                                                *)

MergeMeta(old, new) ==
    [k \in DOMAIN old \cup DOMAIN new |-> IF k \in DOMAIN new THEN new[k] ELSE old[k]]

OrElse(new, old) == IF new # "" THEN new ELSE old

(* The later view replaces the earlier one.                                *)
JoinNodesErasing(existing, next) == next

(* The later view's label is taken unconditionally.                        *)
JoinNodesRelabelling(existing, next) ==
    [id     |-> existing.id,
     type   |-> OrElse(next.type, existing.type),
     label  |-> next.label,
     status |-> OrElse(next.status, existing.status),
     meta   |-> MergeMeta(existing.meta, next.meta)]

JoinNodes(existing, next) ==
    [id     |-> existing.id,
     type   |-> OrElse(next.type, existing.type),
     label  |-> OrElse(next.label, existing.label),
     status |-> OrElse(next.status, existing.status),
     meta   |-> MergeMeta(existing.meta, next.meta)]
-----------------------------------------------------------------------------
(* What a merge is, said without a loop, of the first n of the reported    *)
(* nodes: for each id one node, whose every detail is the last one given.  *)

Latest(S) == CHOOSE m \in S : \A l \in S : l <= m

About(nodes, n, id) == {m \in 1..n : nodes[m].id = id}

Giving(nodes, n, id, text) == {m \in About(nodes, n, id) : nodes[m][text] # ""}

Knowing(nodes, n, id, k) == {m \in About(nodes, n, id) : k \in DOMAIN nodes[m].meta}

LastText(nodes, n, id, text) ==
    IF Giving(nodes, n, id, text) = {} THEN ""
    ELSE nodes[Latest(Giving(nodes, n, id, text))][text]

LastMeta(nodes, n, id) ==
    [k \in UNION {DOMAIN nodes[m].meta : m \in About(nodes, n, id)} |->
        nodes[Latest(Knowing(nodes, n, id, k))].meta[k]]

Joined(nodes, n, id) ==
    [id     |-> id,
     type   |-> LastText(nodes, n, id, "type"),
     label  |-> LastText(nodes, n, id, "label"),
     status |-> LastText(nodes, n, id, "status"),
     meta   |-> LastMeta(nodes, n, id)]

IdsOf(nodes, n) == {nodes[m].id : m \in 1..n}

MergedNodes(nodes) ==
    {Stamped(Joined(nodes, Len(nodes), id)) : id \in IdsOf(nodes, Len(nodes))}

(* out has the distinct elements of the first n of seq, in the order in    *)
(* which they first occur.                                                 *)
IsDistinct(out, seq, n) ==
    /\ \A p \in DOMAIN out : \E m \in 1..n : seq[m] = out[p]
    /\ \A m \in 1..n : \E p \in DOMAIN out : out[p] = seq[m]
    /\ \A p, q \in DOMAIN out : p < q =>
          \E m \in 1..n : seq[m] = out[p] /\ \A l \in 1..m : seq[l] # out[q]

(* No two reports disagree on a detail both give.                          *)
Agree(a, b) ==
    /\ \A text \in Texts : a[text] = "" \/ b[text] = "" \/ a[text] = b[text]
    /\ \A k \in DOMAIN a.meta \cap DOMAIN b.meta : a.meta[k] = b.meta[k]

Consistent(nodes) ==
    \A m, l \in DOMAIN nodes : nodes[m].id = nodes[l].id => Agree(nodes[m], nodes[l])
-----------------------------------------------------------------------------
(* What a merge is of reports that agree: it does not matter in which      *)
(* order they are given, nor who gave which.                               *)

Of(R, id) == {x \in R : x.id = id}

AnyText(R, id, text) ==
    LET given == {x[text] : x \in Of(R, id)} \ {""}
    IN  IF given = {} THEN "" ELSE CHOOSE s \in given : TRUE

AnyMeta(R, id) ==
    [k \in UNION {DOMAIN x.meta : x \in Of(R, id)} |->
        (CHOOSE x \in Of(R, id) : k \in DOMAIN x.meta).meta[k]]

Unite(R, id) ==
    [id     |-> id,
     type   |-> AnyText(R, id, "type"),
     label  |-> AnyText(R, id, "label"),
     status |-> AnyText(R, id, "status"),
     meta   |-> AnyMeta(R, id)]

United(R) == {Stamped(Unite(R, id)) : id \in {x.id : x \in R}}
=============================================================================
