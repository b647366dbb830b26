------------------------ MODULE TopologyMergeProofs ------------------------
(***************************************************************************)
(* Proofs about graph.Merge for any parts: the loop's invariant, that the  *)
(* loop computes the merge Topology defines, and that no detail is lost.   *)
(***************************************************************************)
EXTENDS TopologyMerge, TLAPS

(* The greatest of the first n + 1 positions, when it is in the set.       *)
LEMMA LastIsNew ==
    ASSUME NEW n \in Nat, NEW S, S \subseteq 1..(n + 1), n + 1 \in S
    PROVE  Latest(S) = n + 1
<1>1. \A l \in S : l <= n + 1
    OBVIOUS
<1>2. \A m \in S : (\A l \in S : l <= m) => m = n + 1
    OBVIOUS
<1> QED BY <1>1, <1>2 DEF Latest

(* The positions about an id grow by the new one or not at all.            *)
LEMMA AboutGrows ==
    ASSUME NEW ns, NEW n \in Nat, NEW id
    PROVE  /\ ns[n + 1].id = id => About(ns, n + 1, id) = About(ns, n, id) \cup {n + 1}
           /\ ns[n + 1].id # id => About(ns, n + 1, id) = About(ns, n, id)
<1>1. 1..(n + 1) = (1..n) \cup {n + 1}
    OBVIOUS
<1> QED BY <1>1 DEF About

(* One more report of an entity gives its last text or leaves it.          *)
LEMMA TextGrows ==
    ASSUME NEW ns, NEW n \in Nat, NEW id, NEW text
    PROVE  LastText(ns, n + 1, id, text) =
             IF ns[n + 1].id = id THEN OrElse(ns[n + 1][text], LastText(ns, n, id, text))
                                  ELSE LastText(ns, n, id, text)
<1>1. CASE ns[n + 1].id = id /\ ns[n + 1][text] # ""
    <2>1. Giving(ns, n + 1, id, text) \subseteq 1..(n + 1)
        BY DEF Giving, About
    <2>2. n + 1 \in Giving(ns, n + 1, id, text)
        <3>1. n + 1 \in 1..(n + 1)
            OBVIOUS
        <3> QED BY <1>1, <3>1, Zenon DEF Giving, About
    <2>3. Latest(Giving(ns, n + 1, id, text)) = n + 1
        BY <2>1, <2>2, LastIsNew
    <2> QED BY <1>1, <2>2, <2>3 DEF LastText, OrElse
<1>2. CASE ~(ns[n + 1].id = id /\ ns[n + 1][text] # "")
    <2>1. Giving(ns, n + 1, id, text) = Giving(ns, n, id, text)
        <3>1. CASE ns[n + 1].id = id
            <4>1. About(ns, n + 1, id) = About(ns, n, id) \cup {n + 1}
                BY <3>1, AboutGrows
            <4> QED BY <1>2, <3>1, <4>1 DEF Giving
        <3>2. CASE ns[n + 1].id # id
            <4>1. About(ns, n + 1, id) = About(ns, n, id)
                BY <3>2, AboutGrows
            <4> QED BY <4>1 DEF Giving
        <3> QED BY <3>1, <3>2
    <2> QED BY <1>2, <2>1 DEF LastText, OrElse
<1> QED BY <1>1, <1>2

(* Likewise for the metadata, key by key.                                  *)
LEMMA MetaGrows ==
    ASSUME NEW ns, NEW n \in Nat, NEW id
    PROVE  /\ ns[n + 1].id # id => LastMeta(ns, n + 1, id) = LastMeta(ns, n, id)
           /\ ns[n + 1].id = id =>
                LastMeta(ns, n + 1, id) = MergeMeta(LastMeta(ns, n, id), ns[n + 1].meta)
<1>1. CASE ns[n + 1].id # id
    <2>1. About(ns, n + 1, id) = About(ns, n, id)
        BY <1>1, AboutGrows
    <2>2. \A k : Knowing(ns, n + 1, id, k) = Knowing(ns, n, id, k)
        BY <2>1 DEF Knowing
    <2> QED BY <1>1, <2>1, <2>2 DEF LastMeta
<1>2. CASE ns[n + 1].id = id
    <2> DEFINE old == LastMeta(ns, n, id)
               new == ns[n + 1].meta
    <2>1. About(ns, n + 1, id) = About(ns, n, id) \cup {n + 1}
        BY <1>2, AboutGrows
    <2>2. UNION {DOMAIN ns[m].meta : m \in About(ns, n + 1, id)} = DOMAIN old \cup DOMAIN new
        BY <2>1 DEF LastMeta
    <2>3. ASSUME NEW k, k \in DOMAIN new
          PROVE  ns[Latest(Knowing(ns, n + 1, id, k))].meta[k] = new[k]
        <3>1. Knowing(ns, n + 1, id, k) \subseteq 1..(n + 1)
            BY DEF Knowing, About
        <3>2. n + 1 \in Knowing(ns, n + 1, id, k)
            BY <2>1, <2>3 DEF Knowing
        <3> QED BY <3>1, <3>2, LastIsNew
    <2>4. ASSUME NEW k, k \in DOMAIN old, k \notin DOMAIN new
          PROVE  ns[Latest(Knowing(ns, n + 1, id, k))].meta[k] = old[k]
        <3>1. Knowing(ns, n + 1, id, k) = Knowing(ns, n, id, k)
            BY <2>1, <2>4 DEF Knowing
        <3> QED BY <2>4, <3>1 DEF LastMeta
    <2>5. LastMeta(ns, n + 1, id) =
            [k \in DOMAIN old \cup DOMAIN new |-> ns[Latest(Knowing(ns, n + 1, id, k))].meta[k]]
        BY <2>2 DEF LastMeta
    <2>6. \A k \in DOMAIN old \cup DOMAIN new :
            ns[Latest(Knowing(ns, n + 1, id, k))].meta[k] = IF k \in DOMAIN new THEN new[k] ELSE old[k]
        BY <2>3, <2>4
    <2>7. LastMeta(ns, n + 1, id) =
            [k \in DOMAIN old \cup DOMAIN new |-> IF k \in DOMAIN new THEN new[k] ELSE old[k]]
        BY <2>5, <2>6, Zenon
    <2>8. LastMeta(ns, n + 1, id) = MergeMeta(old, new)
        BY <2>7, Zenon DEF MergeMeta
    <2> QED BY <1>2, <2>8
<1> QED BY <1>1, <1>2

(* joinNodes is what one more report does to a joined node.                *)
LEMMA JoinedGrows ==
    ASSUME NEW ns, NEW n \in Nat, NEW id
    PROVE  Joined(ns, n + 1, id) =
             IF ns[n + 1].id = id THEN JoinNodes(Joined(ns, n, id), ns[n + 1])
                                  ELSE Joined(ns, n, id)
<1>1. \A text \in Texts : ns[n + 1].id = id =>
        LastText(ns, n + 1, id, text) = OrElse(ns[n + 1][text], LastText(ns, n, id, text))
    BY TextGrows
<1>2. \A text \in Texts : ns[n + 1].id # id =>
        LastText(ns, n + 1, id, text) = LastText(ns, n, id, text)
    BY TextGrows
<1> QED BY <1>1, <1>2, MetaGrows DEF Joined, JoinNodes, Texts

(* The first report of an entity is its joined node.                       *)
LEMMA FirstReport ==
    ASSUME NEW ns \in Seq(Nodes(Ids, Strings, Meta)), NEW n \in Nat,
           n + 1 \in DOMAIN ns, ns[n + 1].id \notin IdsOf(ns, n)
    PROVE  Joined(ns, n + 1, ns[n + 1].id) = ns[n + 1]
<1> DEFINE node == ns[n + 1]
           id == node.id
<1>1. node \in Nodes(Ids, Strings, Meta)
    OBVIOUS
<1>2. About(ns, n, id) = {}
    BY DEF About, IdsOf
<1>3. \A text \in Texts : LastText(ns, n, id, text) = ""
    BY <1>2 DEF LastText, Giving
<1>4. \A text \in Texts : LastText(ns, n + 1, id, text) = node[text]
    BY <1>3, TextGrows DEF OrElse
<1>5. LastMeta(ns, n + 1, id) = MergeMeta(LastMeta(ns, n, id), node.meta)
    BY MetaGrows
<1>6. DOMAIN LastMeta(ns, n, id) = {}
    BY <1>2 DEF LastMeta
<1>7. MergeMeta(LastMeta(ns, n, id), node.meta) = [k \in DOMAIN node.meta |-> node.meta[k]]
    BY <1>6 DEF MergeMeta
<1>8. LastMeta(ns, n + 1, id) = node.meta
    BY <1>1, <1>5, <1>7 DEF Nodes, Meta, Metas
<1> QED BY <1>1, <1>4, <1>8 DEF Joined, Nodes, Texts

(* A sequence of distinct elements grows by an element not seen before.    *)
LEMMA DistinctGrows ==
    ASSUME NEW S, NEW out \in Seq(S), NEW seq, NEW n \in Nat, seq[n + 1] \in S,
           IsDistinct(out, seq, n), \A p \in DOMAIN out : out[p] # seq[n + 1]
    PROVE  IsDistinct(Append(out, seq[n + 1]), seq, n + 1)
<1> DEFINE new == Append(out, seq[n + 1])
<1>1. /\ DOMAIN new = 1..(Len(out) + 1)
      /\ DOMAIN out = 1..Len(out)
      /\ Len(out) \in Nat
      /\ \A p \in DOMAIN out : new[p] = out[p]
      /\ new[Len(out) + 1] = seq[n + 1]
    OBVIOUS
<1>2. 1..(n + 1) = (1..n) \cup {n + 1}
    OBVIOUS
<1>3. ASSUME NEW p \in DOMAIN new
      PROVE  \E m \in 1..(n + 1) : seq[m] = new[p]
    <2>1. CASE p \in DOMAIN out
        <3>1. PICK m \in 1..n : seq[m] = out[p]
            BY <2>1 DEF IsDistinct
        <3>2. m \in 1..(n + 1) /\ new[p] = out[p]
            BY <1>1, <1>2, <2>1
        <3> QED BY <3>1, <3>2
    <2>2. CASE p = Len(out) + 1
        <3>1. n + 1 \in 1..(n + 1)
            BY <1>2
        <3> QED BY <1>1, <2>2, <3>1
    <2> QED BY <1>1, <2>1, <2>2
<1>4. \A m \in 1..(n + 1) : \E p \in DOMAIN new : new[p] = seq[m]
    <2>1. \A m \in 1..n : \E p \in DOMAIN out : new[p] = seq[m]
        <3>1. \A m \in 1..n : \E p \in DOMAIN out : out[p] = seq[m]
            BY DEF IsDistinct
        <3> QED BY <1>1, <3>1
    <2>2. new[Len(out) + 1] = seq[n + 1] /\ Len(out) + 1 \in DOMAIN new
        BY <1>1
    <2>3. DOMAIN out \subseteq DOMAIN new
        BY <1>1
    <2> QED BY <1>2, <2>1, <2>2, <2>3
<1>5. ASSUME NEW p \in DOMAIN new, NEW q \in DOMAIN new, p < q
      PROVE  \E m \in 1..(n + 1) : seq[m] = new[p] /\ \A l \in 1..m : seq[l] # new[q]
    <2>1. p \in DOMAIN out
        BY <1>1, <1>5
    <2>2. CASE q \in DOMAIN out
        <3>1. PICK m \in 1..n : seq[m] = out[p] /\ \A l \in 1..m : seq[l] # out[q]
            BY <1>5, <2>1, <2>2 DEF IsDistinct
        <3>2. new[p] = out[p] /\ new[q] = out[q]
            BY <1>1, <2>1, <2>2
        <3> QED BY <1>2, <3>1, <3>2
    <2>3. CASE q = Len(out) + 1
        <3>1. PICK m \in 1..n : seq[m] = out[p]
            BY <2>1 DEF IsDistinct
        <3>2. \A l \in 1..n : seq[l] # seq[n + 1]
            BY DEF IsDistinct
        <3>3. \A l \in 1..m : l \in 1..n
            BY <3>1
        <3>4. new[p] = out[p] /\ new[q] = seq[n + 1]
            BY <1>1, <2>1, <2>3
        <3> QED BY <1>2, <3>1, <3>2, <3>3, <3>4
    <2> QED BY <1>1, <2>2, <2>3
<1> QED BY <1>3, <1>4, <1>5 DEF IsDistinct

(* And stays what it is when the next element was seen.                    *)
LEMMA DistinctStays ==
    ASSUME NEW out, NEW seq, NEW n \in Nat,
           IsDistinct(out, seq, n), \E p \in DOMAIN out : out[p] = seq[n + 1]
    PROVE  IsDistinct(out, seq, n + 1)
<1>1. 1..(n + 1) = (1..n) \cup {n + 1}
    OBVIOUS
<1>2. \A p \in DOMAIN out : \E m \in 1..(n + 1) : seq[m] = out[p]
    <2>1. \A p \in DOMAIN out : \E m \in 1..n : seq[m] = out[p]
        BY DEF IsDistinct
    <2> QED BY <1>1, <2>1
<1>3. \A m \in 1..(n + 1) : \E p \in DOMAIN out : out[p] = seq[m]
    <2>1. \A m \in 1..n : \E p \in DOMAIN out : out[p] = seq[m]
        BY DEF IsDistinct
    <2> QED BY <1>1, <2>1
<1>4. \A p, q \in DOMAIN out : p < q =>
        \E m \in 1..(n + 1) : seq[m] = out[p] /\ \A l \in 1..m : seq[l] # out[q]
    <2>1. \A p, q \in DOMAIN out : p < q =>
            \E m \in 1..n : seq[m] = out[p] /\ \A l \in 1..m : seq[l] # out[q]
        BY DEF IsDistinct
    <2> QED BY <1>1, <2>1
<1> QED BY <1>2, <1>3, <1>4 DEF IsDistinct
-----------------------------------------------------------------------------
(* Joined nodes are nodes.                                                 *)
LEMMA JoinNodesType ==
    ASSUME NEW a \in Nodes(Ids, Strings, Meta), NEW b \in Nodes(Ids, Strings, Meta)
    PROVE  JoinNodes(a, b) \in Nodes(Ids, Strings, Meta)
<1>1. ASSUME NEW x \in Meta, NEW y \in Meta
      PROVE  MergeMeta(x, y) \in Meta
    <2>1. PICK K \in SUBSET Keys : x \in [K -> Values]
        BY DEF Meta, Metas
    <2>2. PICK L \in SUBSET Keys : y \in [L -> Values]
        BY DEF Meta, Metas
    <2>3. MergeMeta(x, y) \in [K \cup L -> Values]
        BY <2>1, <2>2 DEF MergeMeta
    <2>4. K \cup L \in SUBSET Keys
        OBVIOUS
    <2> QED BY <2>3, <2>4 DEF Meta, Metas
<1>2. \A x, y \in Strings : OrElse(x, y) \in Strings
    BY DEF OrElse
<1> QED BY <1>1, <1>2 DEF JoinNodes, Nodes

(* Every colour is in the table or the neutral one.                        *)
LEMMA BrandColorType ==
    ASSUME NEW type
    PROVE  BrandColorFor(type) \in Colors
BY DEF BrandColorFor, Colors

(* What the loop has when it starts.                                       *)
LEMMA InitLoopInv == Init => LoopInv
<1> SUFFICES ASSUME Init PROVE LoopInv
    OBVIOUS
<1>1. TypeOK
    <2>1. nodes \in Seq(Nodes(Ids, Strings, Meta)) /\ edges \in Seq(Edges(Ids, Strings))
        BY InputsAssumption DEF Init
    <2>2. Len(nodes) \in Nat /\ Len(edges) \in Nat
        BY <2>1
    <2>3. IdsOf(nodes, 0) = {}
        BY DEF IdsOf
    <2> QED BY <2>1, <2>2, <2>3 DEF Init, TypeOK
<1>2. IsDistinct(order, ReportedIds, i) /\ IsDistinct(kept, edges, j)
    BY DEF Init, IsDistinct
<1> QED BY <1>1, <1>2 DEF Init, LoopInv

(* Each iteration keeps the loop's invariant.                              *)
LEMMA NextLoopInv == LoopInv /\ [Next]_vars => LoopInv'
<1> SUFFICES ASSUME LoopInv, [Next]_vars PROVE LoopInv'
    OBVIOUS
<1> DEFINE node == nodes[i + 1]
<1>t. TypeOK
    BY DEF LoopInv
<1>s. ASSUME i < Len(nodes)
      PROVE  /\ i \in Nat /\ i + 1 \in DOMAIN nodes /\ i + 1 \in 0..Len(nodes)
             /\ node \in Nodes(Ids, Strings, Meta) /\ node.id \in Ids
             /\ IdsOf(nodes, i + 1) = IdsOf(nodes, i) \cup {node.id}
             /\ ReportedIds[i + 1] = node.id
             /\ merged = <<>>
    <2>1. i \in Nat /\ i + 1 \in DOMAIN nodes /\ i + 1 \in 0..Len(nodes)
        BY <1>t, <1>s DEF TypeOK
    <2>2. node \in Nodes(Ids, Strings, Meta)
        BY <1>t, <2>1 DEF TypeOK
    <2>3. 1..(i + 1) = (1..i) \cup {i + 1}
        BY <2>1
    <2>4. IdsOf(nodes, i + 1) = IdsOf(nodes, i) \cup {node.id}
        BY <2>3 DEF IdsOf
    <2>5. merged = <<>>
        BY <1>s DEF LoopInv
    <2> QED BY <2>1, <2>2, <2>4, <2>5 DEF Nodes, ReportedIds
<1>1. CASE TakeNew
    <2>1. i < Len(nodes) /\ node.id \notin IdsOf(nodes, i)
        BY <1>1, <1>t DEF TakeNew, TypeOK
    <2>2. TypeOK'
        <3>1. order' \in Seq(Ids) /\ Len(order') = Len(order) + 1
            BY <1>1, <1>s, <1>t, <2>1 DEF TakeNew, TypeOK
        <3>2. /\ DOMAIN byID' = IdsOf(nodes, i)' 
              /\ \A id \in DOMAIN byID' : byID'[id] \in Nodes(Ids, Strings, Meta)
            <4>1. byID' = With(byID, node.id, node) /\ nodes' = nodes /\ i' = i + 1
                BY <1>1 DEF TakeNew
            <4>2. DOMAIN byID = IdsOf(nodes, i) /\ DOMAIN byID' = DOMAIN byID \cup {node.id}
                BY <1>t, <4>1 DEF TypeOK, With
            <4>3. \A id \in DOMAIN byID' : byID'[id] \in Nodes(Ids, Strings, Meta)
                BY <1>s, <1>t, <2>1, <4>1 DEF TypeOK, With
            <4> QED BY <1>s, <2>1, <4>1, <4>2, <4>3
        <3>3. merged' = <<>> /\ Len(merged') <= Len(order')
            BY <1>1, <1>s, <1>t, <2>1, <3>1 DEF TakeNew, TypeOK
        <3> QED BY <1>1, <1>s, <1>t, <2>1, <3>1, <3>2, <3>3 DEF TakeNew, TypeOK
    <2>3. IsDistinct(order, ReportedIds, i)'
        <3>1. \A p \in DOMAIN order : order[p] # node.id
            <4>1. \A p \in DOMAIN order : \E m \in 1..i : ReportedIds[m] = order[p]
                BY DEF LoopInv, IsDistinct
            <4>2. \A m \in 1..i : ReportedIds[m] \in IdsOf(nodes, i)
                BY <1>t, <1>s, <2>1 DEF ReportedIds, IdsOf, TypeOK
            <4> QED BY <2>1, <4>1, <4>2
        <3>2. IsDistinct(Append(order, node.id), ReportedIds, i + 1)
            BY <1>s, <1>t, <2>1, <3>1, DistinctGrows DEF LoopInv, TypeOK
        <3> QED BY <1>1, <3>2 DEF TakeNew, ReportedIds
    <2>4. ASSUME NEW id \in DOMAIN byID'
          PROVE  byID'[id] = Joined(nodes, i + 1, id)
        <3>1. CASE id = node.id
            BY <1>1, <1>s, <1>t, <2>1, <3>1, FirstReport DEF TakeNew, With, TypeOK
        <3>2. CASE id # node.id
            BY <1>1, <1>s, <2>1, <2>4, <3>2, JoinedGrows DEF TakeNew, With, LoopInv
        <3> QED BY <3>1, <3>2
    <2> QED BY <1>1, <1>s, <2>1, <2>2, <2>3, <2>4 DEF TakeNew, LoopInv
<1>2. CASE TakeKnown
    <2>1. i < Len(nodes) /\ node.id \in DOMAIN byID
        BY <1>2 DEF TakeKnown
    <2>2. TypeOK'
        <3>1. JoinNodes(byID[node.id], node) \in Nodes(Ids, Strings, Meta)
            BY <1>s, <1>t, <2>1, JoinNodesType DEF TypeOK
        <3>2. /\ DOMAIN byID' = IdsOf(nodes, i)' 
              /\ \A id \in DOMAIN byID' : byID'[id] \in Nodes(Ids, Strings, Meta)
            BY <1>2, <1>s, <1>t, <2>1, <3>1 DEF TakeKnown, TypeOK, With, IdsOf
        <3> QED BY <1>2, <1>s, <1>t, <2>1, <3>2 DEF TakeKnown, TypeOK
    <2>3. IsDistinct(order, ReportedIds, i)'
        <3>1. PICK m \in 1..i : nodes[m].id = node.id
            BY <1>t, <2>1 DEF TypeOK, IdsOf
        <3>2. \E p \in DOMAIN order : order[p] = ReportedIds[m]
            BY DEF LoopInv, IsDistinct
        <3>3. ReportedIds[m] = node.id
            BY <1>t, <3>1, <2>1 DEF ReportedIds, TypeOK
        <3>4. IsDistinct(order, ReportedIds, i + 1)
            BY <1>s, <2>1, <3>2, <3>3, DistinctStays DEF LoopInv
        <3> QED BY <1>2, <3>4 DEF TakeKnown, ReportedIds
    <2>4. ASSUME NEW id \in DOMAIN byID'
          PROVE  byID'[id] = Joined(nodes, i + 1, id)
        <3>1. id \in DOMAIN byID /\ byID[id] = Joined(nodes, i, id)
            BY <1>2, <2>1, <2>4 DEF TakeKnown, With, LoopInv
        <3> QED BY <1>2, <1>s, <2>1, <3>1, JoinedGrows DEF TakeKnown, With
    <2> QED BY <1>2, <1>s, <2>1, <2>2, <2>3, <2>4 DEF TakeKnown, LoopInv
<1>3. CASE TakeEdge
    <2> DEFINE edge == edges[j + 1]
    <2>1. /\ j \in Nat /\ j + 1 \in DOMAIN edges /\ j + 1 \in 0..Len(edges)
          /\ edge \in Edges(Ids, Strings) /\ merged = <<>>
        BY <1>3, <1>t DEF TakeEdge, TypeOK, LoopInv
    <2>2. kept' \in Seq(Edges(Ids, Strings)) /\ IsDistinct(kept', edges, j + 1)
        <3>0. kept \in Seq(Edges(Ids, Strings)) /\ IsDistinct(kept, edges, j)
            BY <1>t DEF TypeOK, LoopInv
        <3>1. CASE Seen(edge)
            <4>1. kept' = kept
                BY <1>3, <3>1 DEF TakeEdge
            <4> QED BY <2>1, <3>0, <3>1, <4>1, DistinctStays DEF Seen
        <3>2. CASE ~Seen(edge)
            <4>1. kept' = Append(kept, edge)
                BY <1>3, <3>2 DEF TakeEdge
            <4>2. IsDistinct(Append(kept, edge), edges, j + 1)
                BY <2>1, <3>0, <3>2, DistinctGrows DEF Seen
            <4> QED BY <2>1, <3>0, <4>1, <4>2
        <3> QED BY <3>1, <3>2
    <2>3. TypeOK'
        BY <1>3, <1>t, <2>1, <2>2 DEF TakeEdge, TypeOK, IdsOf
    <2> QED BY <1>3, <2>1, <2>2, <2>3 DEF TakeEdge, LoopInv, ReportedIds
<1>4. CASE Stamp
    <2> DEFINE id == order[Len(merged) + 1]
    <2>0. Len(merged) \in Nat /\ Len(merged) + 1 \in DOMAIN order
        BY <1>4, <1>t DEF Stamp, TypeOK
    <2>1. id \in DOMAIN byID
        <3>1. \E m \in 1..i : ReportedIds[m] = id
            BY <2>0 DEF LoopInv, IsDistinct
        <3> QED BY <1>t, <3>1 DEF ReportedIds, TypeOK, IdsOf
    <2>2. /\ merged' = Append(merged, Stamped(Joined(nodes, i, id)))
          /\ UNCHANGED <<nodes, edges, i, order, byID, j, kept>>
        BY <1>4, <2>1 DEF Stamp, LoopInv
    <2>3. Stamped(Joined(nodes, i, id)).brandColor \in Colors
        BY BrandColorType DEF Stamped
    <2>4. TypeOK'
        <3>1. Joined(nodes, i, id) \in Nodes(Ids, Strings, Meta)
            BY <1>t, <2>1 DEF LoopInv, TypeOK
        <3>2. Stamped(Joined(nodes, i, id)) \in
                [id : Ids, type : Strings, label : Strings, status : Strings,
                 meta : Meta, brandColor : Colors]
            BY <2>3, <3>1 DEF Stamped, Nodes
        <3>3. Len(merged') = Len(merged) + 1
            BY <1>t, <2>2 DEF TypeOK
        <3>4. Len(merged') <= Len(order')
            BY <1>4, <1>t, <2>0, <2>2, <3>3 DEF TypeOK
        <3> QED BY <1>t, <2>2, <3>2, <3>4 DEF TypeOK, IdsOf
    <2>5. \A p \in DOMAIN merged' : merged'[p] = Stamped(Joined(nodes, i, order[p]))
        <3>1. merged \in Seq([id : Ids, type : Strings, label : Strings, status : Strings,
                              meta : Meta, brandColor : Colors])
            BY <1>t DEF TypeOK
        <3>2. /\ DOMAIN merged' = DOMAIN merged \cup {Len(merged) + 1}
              /\ \A p \in DOMAIN merged : merged'[p] = merged[p]
              /\ merged'[Len(merged) + 1] = Stamped(Joined(nodes, i, id))
            BY <2>2, <3>1
        <3> QED BY <3>2 DEF LoopInv
    <2>6. i = Len(nodes) /\ j = Len(edges)
        BY <1>4 DEF Stamp
    <2> QED BY <2>2, <2>4, <2>5, <2>6 DEF LoopInv, ReportedIds
<1>5. CASE UNCHANGED vars
    BY <1>5 DEF vars, LoopInv, TypeOK, IdsOf, ReportedIds
<1> QED BY <1>1, <1>2, <1>3, <1>4, <1>5 DEF Next

(* Every reachable state of the loop satisfies its invariant.              *)
THEOREM LoopInvariant == Spec => []LoopInv
BY InitLoopInv, NextLoopInv, PTL DEF Spec

-----------------------------------------------------------------------------
(* The loop computes the merge.                                            *)
LEMMA LoopMerges == LoopInv => ResultIsMerge
<1> SUFFICES ASSUME LoopInv, Done PROVE
        /\ IsDistinct([p \in DOMAIN merged |-> merged[p].id], ReportedIds, Len(nodes))
        /\ {merged[p] : p \in DOMAIN merged} = MergedNodes(nodes)
        /\ IsDistinct(kept, edges, Len(edges))
    BY DEF ResultIsMerge
<1>1. DOMAIN merged = DOMAIN order
    BY DEF LoopInv, TypeOK, Done
<1>2. \A p \in DOMAIN order : merged[p] = Stamped(Joined(nodes, Len(nodes), order[p]))
    BY <1>1 DEF LoopInv, Done
<1>3. \A p \in DOMAIN order : merged[p].id = order[p]
    <2>1. \A n, id : Stamped(Joined(nodes, n, id)).id = id
        BY DEF Stamped, Joined
    <2> QED BY <1>2, <2>1
<1>4. [p \in DOMAIN merged |-> merged[p].id] = order
    BY <1>1, <1>3 DEF LoopInv, TypeOK
<1>5. {order[p] : p \in DOMAIN order} = IdsOf(nodes, Len(nodes))
    <2>1. IsDistinct(order, ReportedIds, Len(nodes))
        BY DEF LoopInv, Done
    <2>2. \A m \in 1..Len(nodes) : ReportedIds[m] = nodes[m].id
        BY DEF LoopInv, TypeOK, ReportedIds
    <2> QED BY <2>1, <2>2 DEF IsDistinct, IdsOf
<1>6. {merged[p] : p \in DOMAIN merged} = MergedNodes(nodes)
    BY <1>1, <1>2, <1>5 DEF MergedNodes
<1> QED BY <1>4, <1>6 DEF LoopInv, Done

(* What graph.Merge returns for any parts is the merge of them.            *)
THEOREM MergeCorrect == Spec => []ResultIsMerge
BY LoopInvariant, LoopMerges, PTL

(* A view and the same view stamped show the same.                         *)
LEMMA StampShows ==
    ASSUME NEW view, NEW node, Shows(view, node)
    PROVE  Shows(Stamped(view), node)
<1>1. /\ Stamped(view).id = view.id /\ Stamped(view).meta = view.meta
      /\ \A text \in Texts : Stamped(view)[text] = view[text]
    BY DEF Stamped, Texts
<1> QED BY <1>1 DEF Shows, Agree

(* Joining keeps what the earlier view showed of a report about the same   *)
(* entity, and shows the later view.                                       *)
LEMMA JoinShows ==
    ASSUME NEW view, NEW next, view.id = next.id
    PROVE  /\ Shows(JoinNodes(view, next), next)
           /\ \A node : Shows(view, node) /\ (Consistent(nodes) => Agree(next, node))
                            => Shows(JoinNodes(view, next), node)
<1> DEFINE join == JoinNodes(view, next)
<1>1. /\ join.id = view.id
      /\ \A text \in Texts : join[text] = OrElse(next[text], view[text])
      /\ join.meta = MergeMeta(view.meta, next.meta)
    BY DEF JoinNodes, Texts
<1>2. /\ DOMAIN join.meta = DOMAIN view.meta \cup DOMAIN next.meta
      /\ \A k \in DOMAIN next.meta : join.meta[k] = next.meta[k]
      /\ \A k \in DOMAIN view.meta : k \notin DOMAIN next.meta => join.meta[k] = view.meta[k]
    BY <1>1 DEF MergeMeta
<1>3. Shows(join, next)
    BY <1>1, <1>2 DEF Shows, Agree, OrElse
<1>4. ASSUME NEW node, Shows(view, node), Consistent(nodes) => Agree(next, node)
      PROVE  Shows(join, node)
    <2>1. /\ join.id = node.id
          /\ \A text \in Texts : node[text] # "" => join[text] # ""
          /\ DOMAIN node.meta \subseteq DOMAIN join.meta
        BY <1>1, <1>2, <1>4 DEF Shows, OrElse
    <2>2. Consistent(nodes) => Agree(join, node)
        <3> SUFFICES ASSUME Consistent(nodes) PROVE Agree(join, node)
            OBVIOUS
        <3>1. Agree(next, node) /\ Agree(view, node)
            BY <1>4 DEF Shows
        <3>2. \A text \in Texts : join[text] = "" \/ node[text] = "" \/ join[text] = node[text]
            BY <1>1, <3>1 DEF Agree, OrElse
        <3>3. \A k \in DOMAIN join.meta \cap DOMAIN node.meta : join.meta[k] = node.meta[k]
            BY <1>2, <3>1 DEF Agree
        <3> QED BY <3>2, <3>3 DEF Agree
    <2> QED BY <2>1, <2>2 DEF Shows
<1> QED BY <1>3, <1>4

(* The joined node of each entity shows every report taken so far.         *)
KeptInv == \A m \in 1..i : Shows(byID[nodes[m].id], nodes[m])

LEMMA NextKeptInv == LoopInv /\ KeptInv /\ [Next]_vars => KeptInv'
<1> SUFFICES ASSUME LoopInv, KeptInv, [Next]_vars PROVE KeptInv'
    OBVIOUS
<1> DEFINE node == nodes[i + 1]
<1>t. TypeOK
    BY DEF LoopInv
<1>u. ASSUME UNCHANGED <<nodes, i, byID>> PROVE KeptInv'
    BY <1>u DEF KeptInv, Shows, Consistent
<1>s. ASSUME i < Len(nodes)
      PROVE  i \in Nat /\ i + 1 \in DOMAIN nodes /\ 1..(i + 1) = (1..i) \cup {i + 1}
             /\ 1..i \subseteq DOMAIN nodes /\ \A m \in 1..i : nodes[m].id \in DOMAIN byID
    BY <1>t, <1>s DEF TypeOK, IdsOf
<1>1. CASE TakeNew
    <2>1. /\ nodes' = nodes /\ i' = i + 1 /\ i < Len(nodes)
          /\ byID' = With(byID, node.id, node) /\ node.id \notin DOMAIN byID
        BY <1>1 DEF TakeNew
    <2>2. \A m \in 1..i : byID'[nodes[m].id] = byID[nodes[m].id]
        BY <1>s, <2>1 DEF With
    <2>3. byID'[node.id] = node
        BY <2>1 DEF With
    <2>4. Shows(node, node)
        BY DEF Shows, Agree
    <2>5. \A m \in 1..(i + 1) : Shows(byID'[nodes[m].id], nodes[m])
        BY <1>s, <2>1, <2>2, <2>3, <2>4 DEF KeptInv
    <2> QED BY <2>1, <2>5 DEF KeptInv, Shows, Consistent
<1>2. CASE TakeKnown
    <2>1. /\ nodes' = nodes /\ i' = i + 1 /\ i < Len(nodes) /\ node.id \in DOMAIN byID
          /\ byID' = With(byID, node.id, JoinNodes(byID[node.id], node))
        BY <1>2 DEF TakeKnown
    <2>2. byID[node.id].id = node.id
        BY <2>1 DEF LoopInv, Joined
    <2>3. byID'[node.id] = JoinNodes(byID[node.id], node)
        BY <2>1 DEF With
    <2>4. ASSUME NEW m \in 1..i PROVE Shows(byID'[nodes[m].id], nodes[m])
        <3>1. CASE nodes[m].id = node.id
            <4>1. Consistent(nodes) => Agree(node, nodes[m])
                BY <1>s, <2>1, <3>1 DEF Consistent
            <4>2. Shows(byID[node.id], nodes[m])
                BY <3>1 DEF KeptInv
            <4> QED BY <2>2, <2>3, <3>1, <4>1, <4>2, JoinShows
        <3>2. CASE nodes[m].id # node.id
            BY <1>s, <2>1, <3>2 DEF With, KeptInv
        <3> QED BY <3>1, <3>2
    <2>5. Shows(byID'[node.id], node)
        BY <2>2, <2>3, JoinShows
    <2>6. \A m \in 1..(i + 1) : Shows(byID'[nodes[m].id], nodes[m])
        BY <1>s, <2>1, <2>4, <2>5
    <2> QED BY <2>1, <2>6 DEF KeptInv, Shows, Consistent
<1>3. CASE TakeEdge
    BY <1>3, <1>u DEF TakeEdge
<1>4. CASE Stamp
    BY <1>4, <1>u DEF Stamp
<1>5. CASE UNCHANGED vars
    BY <1>5, <1>u DEF vars
<1> QED BY <1>1, <1>2, <1>3, <1>4, <1>5 DEF Next

(* At the end the same holds of the nodes returned.                        *)
LEMMA KeptAtEnd == LoopInv /\ KeptInv => DetailsKept
<1> SUFFICES ASSUME LoopInv, KeptInv, Done, NEW m \in DOMAIN nodes
             PROVE  \E p \in DOMAIN merged : Shows(merged[p], nodes[m])
    BY DEF DetailsKept
<1>1. m \in 1..i /\ DOMAIN merged = DOMAIN order
    BY DEF LoopInv, TypeOK, Done
<1>2. PICK p \in DOMAIN order : order[p] = nodes[m].id
    BY <1>1 DEF LoopInv, IsDistinct, ReportedIds
<1>3. nodes[m].id \in DOMAIN byID
    BY <1>1 DEF LoopInv, TypeOK, IdsOf
<1>4. merged[p] = Stamped(byID[nodes[m].id])
    BY <1>1, <1>2, <1>3 DEF LoopInv
<1>5. Shows(merged[p], nodes[m])
    BY <1>1, <1>4, StampShows DEF KeptInv
<1> QED BY <1>1, <1>5

(* Whatever the engines report and in whatever order, no detail one of     *)
(* them gave is lost, and none is overridden when they agree.              *)
THEOREM NothingErased == Spec => []DetailsKept
<1>1. Init => KeptInv
    BY DEF Init, KeptInv
<1> QED BY <1>1, InitLoopInv, NextLoopInv, NextKeptInv, KeptAtEnd, PTL DEF Spec
=============================================================================
