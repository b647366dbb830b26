------------------------ MODULE DiscoveryNodesProofs ------------------------
(***************************************************************************)
(* Lemmas about the merge of a list of nodes and about the nodes that the  *)
(* engines make of what they read: which ids and details there are, that   *)
(* there are finitely many, and that no two of them contradict each other. *)
(***************************************************************************)
EXTENDS DiscoveryNodes, SequencesExt, FiniteSetTheorems, TLAPS

(* A set of positions has a last one: of the sets of those after one of    *)
(* them, a least is empty.                                                 *)
LEMMA LatestIsLast ==
    ASSUME NEW n \in Nat, NEW S, S \subseteq 1..n, S # {}
    PROVE  Latest(S) \in S /\ \A l \in S : l <= Latest(S)
<1> DEFINE After(m) == {l \in S : l > m}
           T == {After(m) : m \in S}
<1>0. S \subseteq Int
  OBVIOUS
<1>1. IsFiniteSet(S)
  <2>1. IsFiniteSet(1..n)
    BY FS_Interval
  <2> QED BY <2>1, FS_Subset
<1>2. T \subseteq FiniteSubsetsOf(S) /\ T # {}
  <2>1. ASSUME NEW m \in S PROVE After(m) \in FiniteSubsetsOf(S)
    <3>1. After(m) \in SUBSET S
      OBVIOUS
    <3> QED BY <1>1, <3>1, FS_Subset DEF FiniteSubsetsOf
  <2> HIDE DEF After
  <2> QED BY <2>1
<1>3. PICK x \in T : \A y \in T : ~(<<y, x>> \in StrictSubsetOrdering(S))
  <2> HIDE DEF T
  <2> QED BY <1>2, FS_StrictSubsetOrderingWellFounded, WFMin, Zenon
<1>4. PICK m \in S : x = After(m)
  OBVIOUS
<1>5. ASSUME NEW l \in S, l > m PROVE FALSE
  <2>1. \A k \in S : k > l => k > m
    BY <1>0, <1>5
  <2>2. After(l) \subseteq After(m) /\ l \in After(m)
    BY <1>5, <2>1
  <2>3. l \notin After(l)
    BY <1>0
  <2>4. After(l) \in T /\ After(l) \in SUBSET S /\ After(m) \in SUBSET S
    OBVIOUS
  <2> HIDE DEF After, T
  <2>5. <<After(l), x>> \in StrictSubsetOrdering(S)
    BY <1>4, <2>2, <2>3, <2>4 DEF StrictSubsetOrdering
  <2> QED BY <1>3, <2>4, <2>5
<1>6. \A l \in S : l <= m
  BY <1>0, <1>5
<1> QED BY <1>6, Zenon DEF Latest

(* What a function makes of a finite set is finite.                        *)
LEMMA FiniteImage ==
    ASSUME NEW f, IsFiniteSet(DOMAIN f)
    PROVE  IsFiniteSet({f[x] : x \in DOMAIN f})
<1> DEFINE T == {f[x] : x \in DOMAIN f}
           g == [x \in DOMAIN f |-> f[x]]
<1>1. g \in Surjection(DOMAIN f, T)
  BY DEF Surjection
<1> HIDE DEF g, T
<1>2. IsFiniteSet(T)
  BY <1>1, FS_Surjection
<1> QED BY <1>2 DEF T

(* seq has the elements of S, in some order, and no others.                *)
Lists(seq, S) == seq \in Seq(S) /\ \A x \in S : \E m \in DOMAIN seq : seq[m] = x

(* A finite set is listed by its sequence.                                 *)
LEMMA ListOfSet ==
    ASSUME NEW S, IsFiniteSet(S)
    PROVE  Lists(SetToSeq(S), S)
<1> DEFINE n == Cardinality(S)
           f == SetToSeq(S)
<1>1. n \in Nat /\ ExistsBijection(1..n, S)
  BY FS_CardinalityType
<1>2. \E g \in [1..n -> S] : IsInjective(g)
  BY <1>1 DEF ExistsBijection, Bijection, Injection
<1>3. f \in [1..n -> S] /\ IsInjective(f)
  BY <1>2 DEF SetToSeq
<1>4. f \in Injection(1..n, S)
  BY <1>3 DEF Injection
<1>5. IsFiniteSet(1..n) /\ Cardinality(1..n) = n
  BY <1>1, FS_Interval
<1>6. f \in Surjection(1..n, S)
  BY <1>4, <1>5, FS_Injection
<1> HIDE DEF n, f
<1>7. f \in Seq(S) /\ DOMAIN f = 1..n
  BY <1>1, <1>3
<1>8. \A x \in S : \E m \in DOMAIN f : f[m] = x
  BY <1>6, <1>7 DEF Surjection
<1> QED BY <1>7, <1>8 DEF f, Lists

(* Two lists after one another.                                            *)
LEMMA ListsTogether ==
    ASSUME NEW s, NEW S, Lists(s, S), NEW t, NEW T, Lists(t, T)
    PROVE  Lists(s \o t, S \cup T)
<1> DEFINE st == s \o t
<1>1. s \in Seq(S \cup T) /\ t \in Seq(S \cup T)
  BY DEF Lists
<1>2. st \in Seq(S \cup T)
  BY <1>1
<1>3. /\ DOMAIN s = 1..Len(s) /\ Len(s) \in Nat
      /\ DOMAIN t = 1..Len(t) /\ Len(t) \in Nat
      /\ DOMAIN st = 1..(Len(s) + Len(t))
      /\ \A m \in 1..Len(s) : st[m] = s[m]
      /\ \A m \in 1..Len(t) : st[m + Len(s)] = t[m]
  BY <1>1
<1> HIDE DEF st
<1>4. ASSUME NEW x \in S PROVE \E m \in DOMAIN st : st[m] = x
  <2>1. PICK m \in 1..Len(s) : s[m] = x
    BY <1>3 DEF Lists
  <2>2. m \in DOMAIN st
    BY <1>3
  <2> QED BY <1>3, <2>1, <2>2
<1>5. ASSUME NEW x \in T PROVE \E m \in DOMAIN st : st[m] = x
  <2>1. PICK m \in 1..Len(t) : t[m] = x
    BY <1>3 DEF Lists
  <2>2. m + Len(s) \in DOMAIN st
    BY <1>3
  <2> QED BY <1>3, <2>1, <2>2
<1>6. Lists(st, S \cup T)
  BY <1>2, <1>4, <1>5 DEF Lists
<1> QED BY <1>6 DEF st
-----------------------------------------------------------------------------
(* The merge of a list of reports.                                         *)

(* A node has what the report x says of its entity: the keys, and the type *)
(* unless another of the reports R gives another one.                      *)
Shows(node, x, R) ==
    /\ node.id = x.id
    /\ DOMAIN x.meta \subseteq DOMAIN node.meta
    /\ x.type # "" /\ (\A y \in R : y.id = x.id => y.type \in {"", x.type})
          => node.type = x.type

(* What a report says of its entity, the merge says of it too.             *)
LEMMA MergedShows ==
    ASSUME NEW ns, NEW R, Lists(ns, R), NEW x \in R
    PROVE  \E node \in MergedNodes(ns) : Shows(node, x, R)
<1> DEFINE n == Len(ns)
           joined == Joined(ns, n, x.id)
<1>1. n \in Nat /\ DOMAIN ns = 1..n /\ \A m \in 1..n : ns[m] \in R
  BY DEF Lists
<1>2. PICK m \in 1..n : ns[m] = x
  BY <1>1 DEF Lists
<1> HIDE DEF n
<1>3. m \in About(ns, n, x.id)
  BY <1>2 DEF About
<1>4. Stamped(joined) \in MergedNodes(ns)
  BY <1>2 DEF MergedNodes, IdsOf, n
<1>5. DOMAIN x.meta \subseteq DOMAIN joined.meta
  <2>1. DOMAIN joined.meta = UNION {DOMAIN ns[l].meta : l \in About(ns, n, x.id)}
    BY DEF Joined, LastMeta
  <2> HIDE DEF joined
  <2> QED BY <1>2, <1>3, <2>1
<1>6. ASSUME x.type # "", \A y \in R : y.id = x.id => y.type \in {"", x.type}
      PROVE  joined.type = x.type
  <2> DEFINE G == Giving(ns, n, x.id, "type")
  <2>1. m \in G /\ G \subseteq 1..n
    BY <1>2, <1>3, <1>6, Zenon DEF Giving, About
  <2>2. Latest(G) \in G
    <3> HIDE DEF G
    <3> QED BY <1>1, <2>1, LatestIsLast
  <2>3. ns[Latest(G)].id = x.id /\ ns[Latest(G)].type # "" /\ ns[Latest(G)] \in R
    BY <1>1, <2>1, <2>2 DEF Giving, About
  <2>4. joined.type = ns[Latest(G)].type
    BY <2>1 DEF Joined, LastText
  <2> QED BY <1>6, <2>3, <2>4
<1>7. Stamped(joined).id = x.id /\ Stamped(joined).meta = joined.meta
      /\ Stamped(joined).type = joined.type
  BY DEF Stamped, Joined
<1>8. Shows(Stamped(joined), x, R)
  BY <1>5, <1>6, <1>7 DEF Shows
<1> QED BY <1>4, <1>8

(* What the merge says, a report has said.                                 *)
LEMMA MergedIsSaid ==
    ASSUME NEW ns, NEW R, Lists(ns, R), NEW node \in MergedNodes(ns)
    PROVE  /\ \E x \in R : x.id = node.id
           /\ \A key \in DOMAIN node.meta :
                 \E x \in R : /\ x.id = node.id
                             /\ key \in DOMAIN x.meta
                             /\ x.meta[key] = node.meta[key]
<1> DEFINE n == Len(ns)
<1>1. n \in Nat /\ DOMAIN ns = 1..n /\ \A m \in 1..n : ns[m] \in R
  BY DEF Lists
<1>2. PICK l \in 1..n : node = Stamped(Joined(ns, n, ns[l].id))
  BY DEF MergedNodes, IdsOf
<1> DEFINE id == ns[l].id
<1> HIDE DEF n
<1>3. node.id = id /\ node.meta = LastMeta(ns, n, id)
  BY <1>2 DEF Stamped, Joined
<1>4. ASSUME NEW key \in DOMAIN node.meta
      PROVE  \E x \in R : x.id = id /\ key \in DOMAIN x.meta /\ x.meta[key] = node.meta[key]
  <2> DEFINE S == Knowing(ns, n, id, key)
  <2>1. S # {} /\ S \subseteq 1..n
    BY <1>3 DEF LastMeta, Knowing, About
  <2>2. Latest(S) \in S
    <3> HIDE DEF S
    <3> QED BY <1>1, <2>1, LatestIsLast
  <2>3. /\ ns[Latest(S)].id = id /\ key \in DOMAIN ns[Latest(S)].meta
        /\ ns[Latest(S)] \in R
    BY <1>1, <2>1, <2>2 DEF Knowing, About
  <2>4. node.meta[key] = ns[Latest(S)].meta[key]
    BY <1>3 DEF LastMeta
  <2> QED BY <2>3, <2>4
<1> QED BY <1>1, <1>3, <1>4

(* There is one node for each id.                                          *)
LEMMA MergedOnce ==
    ASSUME NEW ns, NEW a \in MergedNodes(ns), NEW b \in MergedNodes(ns), a.id = b.id
    PROVE  a = b
<1> DEFINE f(id) == Stamped(Joined(ns, Len(ns), id))
<1>1. \A id : f(id).id = id
  BY DEF Stamped, Joined
<1>2. \A n \in MergedNodes(ns) : \E id : n = f(id)
  BY DEF MergedNodes
<1> HIDE DEF f
<1> QED BY <1>1, <1>2

(* A list is consistent if those that it lists agree.                      *)
LEMMA ConsistentList ==
    ASSUME NEW ns, NEW R, Lists(ns, R),
           \A x, y \in R : x.id = y.id => Agree(x, y)
    PROVE  Consistent(ns)
<1>1. \A m \in DOMAIN ns : ns[m] \in R
  BY DEF Lists
<1> QED BY <1>1 DEF Consistent

(* Of reports that agree, the last text given is any text given.           *)
LEMMA LastIsAny ==
    ASSUME NEW ns, NEW R, Lists(ns, R), \A x, y \in R : x.id = y.id => Agree(x, y),
           NEW id, NEW text \in Texts
    PROVE  LastText(ns, Len(ns), id, text) = AnyText(R, id, text)
<1> DEFINE n == Len(ns)
           G == Giving(ns, n, id, text)
           given == {x[text] : x \in Of(R, id)} \ {""}
<1>1. n \in Nat /\ (\A m \in 1..n : ns[m] \in R) /\ \A x \in R : \E m \in 1..n : ns[m] = x
  BY DEF Lists
<1> HIDE DEF n
<1>2. \A m : m \in G <=> m \in 1..n /\ ns[m].id = id /\ ns[m][text] # ""
  BY DEF Giving, About
<1>3. \A s : s \in given <=> \E x \in R : x.id = id /\ x[text] = s /\ s # ""
  BY DEF Of
<1>4. /\ LastText(ns, n, id, text) = IF G = {} THEN "" ELSE ns[Latest(G)][text]
      /\ AnyText(R, id, text) = IF given = {} THEN "" ELSE CHOOSE s \in given : TRUE
  BY DEF LastText, AnyText
<1> HIDE DEF G, given
<1>5. CASE G = {}
  <2>1. ASSUME NEW s \in given PROVE FALSE
    <3>1. PICK x \in R : x.id = id /\ x[text] = s /\ s # ""
      BY <1>3
    <3>2. PICK m \in 1..n : ns[m] = x
      BY <1>1
    <3> QED BY <1>2, <1>5, <3>1, <3>2
  <2> QED BY <1>4, <1>5, <2>1 DEF n
<1>6. CASE G # {}
  <2>1. Latest(G) \in G
    <3>1. G \subseteq 1..n
      BY <1>2
    <3> QED BY <1>1, <1>6, <3>1, LatestIsLast
  <2> DEFINE last == ns[Latest(G)]
  <2>2. last \in R /\ last.id = id /\ last[text] # ""
    BY <1>1, <1>2, <2>1
  <2> HIDE DEF last
  <2>3. last[text] \in given
    BY <1>3, <2>2
  <2>4. ASSUME NEW s \in given PROVE s = last[text]
    <3>1. PICK x \in R : x.id = id /\ x[text] = s /\ s # ""
      BY <1>3
    <3>2. Agree(x, last)
      BY <2>2, <3>1
    <3> QED BY <2>2, <3>1, <3>2 DEF Agree
  <2>5. (CHOOSE s \in given : TRUE) \in given
    BY <2>3
  <2>6. (CHOOSE s \in given : TRUE) = last[text]
    BY <2>4, <2>5
  <2> QED BY <1>4, <1>6, <2>3, <2>6 DEF n, last
<1> QED BY <1>5, <1>6

(* Of reports that agree, the last value of a key is any value of it.      *)
LEMMA LastMetaIsAny ==
    ASSUME NEW ns, NEW R, Lists(ns, R), \A x, y \in R : x.id = y.id => Agree(x, y), NEW id
    PROVE  LastMeta(ns, Len(ns), id) = AnyMeta(R, id)
<1> DEFINE n == Len(ns)
           K == UNION {DOMAIN ns[m].meta : m \in About(ns, n, id)}
           L == UNION {DOMAIN x.meta : x \in Of(R, id)}
           Latter(k) == ns[Latest(Knowing(ns, n, id, k))]
           One(k) == CHOOSE x \in Of(R, id) : k \in DOMAIN x.meta
<1>1. n \in Nat /\ (\A m \in 1..n : ns[m] \in R) /\ \A x \in R : \E m \in 1..n : ns[m] = x
  BY DEF Lists
<1>2. LastMeta(ns, n, id) = [k \in K |-> Latter(k).meta[k]]
  BY DEF LastMeta
<1>3. AnyMeta(R, id) = [k \in L |-> One(k).meta[k]]
  BY DEF AnyMeta
<1> HIDE DEF n
<1>4. /\ \A m : m \in About(ns, n, id) <=> m \in 1..n /\ ns[m].id = id
      /\ \A x : x \in Of(R, id) <=> x \in R /\ x.id = id
  BY DEF About, Of
<1>5. K = L
  BY <1>1, <1>4
<1>6. ASSUME NEW k \in K PROVE Latter(k).meta[k] = One(k).meta[k]
  <2> DEFINE S == Knowing(ns, n, id, k)
  <2>1. \A m : m \in S <=> m \in 1..n /\ ns[m].id = id /\ k \in DOMAIN ns[m].meta
    BY DEF Knowing, About
  <2>2. S # {} /\ S \subseteq 1..n
    BY <1>4, <1>6, <2>1
  <2>3. Latest(S) \in S
    <3> HIDE DEF S
    <3> QED BY <1>1, <2>2, LatestIsLast
  <2>4. Latter(k) \in R /\ Latter(k).id = id /\ k \in DOMAIN Latter(k).meta
    BY <1>1, <2>1, <2>3
  <2>5. \E x \in Of(R, id) : k \in DOMAIN x.meta
    BY <1>4, <2>4
  <2>6. One(k) \in Of(R, id) /\ k \in DOMAIN One(k).meta
    BY <2>5
  <2> HIDE DEF Latter, One
  <2>7. Agree(Latter(k), One(k))
    BY <1>4, <2>4, <2>6
  <2> QED BY <2>4, <2>6, <2>7 DEF Agree
<1> HIDE DEF K, L, Latter, One
<1>7. [k \in K |-> Latter(k).meta[k]] = [k \in L |-> One(k).meta[k]]
  BY <1>5, <1>6
<1> QED BY <1>2, <1>3, <1>7 DEF n

(* The merge of reports that agree depends on what is said of each entity, *)
(* and not on who says it or when.                                         *)
LEMMA MergeIsUnion ==
    ASSUME NEW ns, NEW R, Lists(ns, R), \A x, y \in R : x.id = y.id => Agree(x, y)
    PROVE  MergedNodes(ns) = United(R)
<1>1. ASSUME NEW id PROVE Joined(ns, Len(ns), id) = Unite(R, id)
  <2>1. \A text \in Texts : LastText(ns, Len(ns), id, text) = AnyText(R, id, text)
    BY LastIsAny
  <2>2. LastMeta(ns, Len(ns), id) = AnyMeta(R, id)
    BY LastMetaIsAny
  <2> QED BY <2>1, <2>2 DEF Joined, Unite, Texts
<1>2. IdsOf(ns, Len(ns)) = {x.id : x \in R}
  <2>1. (\A m \in 1..Len(ns) : ns[m] \in R) /\ \A x \in R : \E m \in 1..Len(ns) : ns[m] = x
    BY DEF Lists
  <2> QED BY <2>1 DEF IdsOf
<1> QED BY <1>1, <1>2 DEF MergedNodes, United
-----------------------------------------------------------------------------
(* The engines' nodes are finitely many.                                   *)

FiniteReading(read) ==
    /\ \A c \in DOMAIN read : IsFiniteSet(read[c])
    /\ \A vs \in Got(read, "virtualservices") : IsFiniteSet(DOMAIN vs.routes)
    /\ \A report \in Got(read, "policyreports") \cup Got(read, "clusterpolicyreports") :
          IsFiniteSet(DOMAIN report.results)

LEMMA GotIsFinite ==
    ASSUME NEW read, FiniteReading(read), NEW c
    PROVE  IsFiniteSet(Got(read, c))
BY FS_EmptySet DEF Got, FiniteReading

(* Finitely many things with finitely many positions each.                 *)
LEMMA FinitePairs ==
    ASSUME NEW f, IsFiniteSet(DOMAIN f), \A x \in DOMAIN f : IsFiniteSet(f[x])
    PROVE  IsFiniteSet(UNION {{<<x, n>> : n \in f[x]} : x \in DOMAIN f})
<1> DEFINE Pairs(x) == {<<x, n>> : n \in f[x]}
           g == [x \in DOMAIN f |-> Pairs(x)]
<1>1. ASSUME NEW x \in DOMAIN f PROVE IsFiniteSet(Pairs(x))
  <2> DEFINE h == [n \in f[x] |-> <<x, n>>]
  <2>1. IsFiniteSet({h[n] : n \in DOMAIN h})
    <3>1. IsFiniteSet(DOMAIN h)
      OBVIOUS
    <3> HIDE DEF h
    <3> QED BY <3>1, FiniteImage
  <2>2. {h[n] : n \in DOMAIN h} = Pairs(x)
    OBVIOUS
  <2> QED BY <2>1, <2>2
<1> HIDE DEF Pairs
<1>2. DOMAIN g = DOMAIN f /\ \A x \in DOMAIN f : g[x] = Pairs(x)
  OBVIOUS
<1> HIDE DEF g
<1>3. IsFiniteSet({g[x] : x \in DOMAIN g})
  BY <1>2, FiniteImage
<1>4. {g[x] : x \in DOMAIN g} = {Pairs(x) : x \in DOMAIN f}
  BY <1>2
<1>5. IsFiniteSet(UNION {Pairs(x) : x \in DOMAIN f})
  BY <1>1, <1>3, <1>4, FS_UNION
<1> QED BY <1>5 DEF Pairs

LEMMA K8sNodesFinite ==
    ASSUME NEW read, FiniteReading(read)
    PROVE  IsFiniteSet(K8sNodes(read))
<1> DEFINE f == [dep \in Got(read, "deployments") |-> deploymentNode(dep)]
           g == [svc \in Got(read, "services") |-> serviceNode(svc)]
<1>1. IsFiniteSet(DOMAIN f) /\ IsFiniteSet(DOMAIN g)
  BY GotIsFinite
<1>2. K8sNodes(read) = {f[x] : x \in DOMAIN f} \cup {g[x] : x \in DOMAIN g}
  BY DEF K8sNodes
<1> HIDE DEF f, g
<1>3. IsFiniteSet({f[x] : x \in DOMAIN f}) /\ IsFiniteSet({g[x] : x \in DOMAIN g})
  BY <1>1, FiniteImage
<1> QED BY <1>2, <1>3, FS_Union

LEMMA ArgoCDNodesFinite ==
    ASSUME NEW read, FiniteReading(read), NEW namespace
    PROVE  IsFiniteSet(ArgoCDNodes(read, namespace))
<1> DEFINE apps == {a \in Got(read, "applications") : a.dest = namespace}
           f == [app \in apps |-> argoCDApplicationNode(app)]
<1>1. IsFiniteSet(DOMAIN f)
  <2>1. apps \subseteq Got(read, "applications")
    OBVIOUS
  <2>2. IsFiniteSet(apps)
    BY <2>1, GotIsFinite, FS_Subset
  <2> QED BY <2>2
<1>2. ArgoCDNodes(read, namespace) = {f[x] : x \in DOMAIN f}
  BY DEF ArgoCDNodes
<1> HIDE DEF f
<1> QED BY <1>1, <1>2, FiniteImage

LEMMA WeightedFinite ==
    ASSUME NEW read, FiniteReading(read)
    PROVE  IsFiniteSet(Weighted(read))
<1> DEFINE f == [vs \in Got(read, "virtualservices") |-> DOMAIN vs.routes]
           all == UNION {{<<vs, n>> : n \in DOMAIN vs.routes} : vs \in Got(read, "virtualservices")}
<1>1. IsFiniteSet(DOMAIN f) /\ \A x \in DOMAIN f : IsFiniteSet(f[x])
  BY GotIsFinite DEF FiniteReading
<1>2. all = UNION {{<<x, n>> : n \in f[x]} : x \in DOMAIN f}
  OBVIOUS
<1>3. Weighted(read) \subseteq all
  BY DEF Weighted
<1> HIDE DEF f, all
<1>4. IsFiniteSet(all)
  BY <1>1, <1>2, FinitePairs
<1> QED BY <1>3, <1>4, FS_Subset

LEMMA IstioNodesFinite ==
    ASSUME NEW read, FiniteReading(read), NEW namespace
    PROVE  IsFiniteSet(IstioNodes(read, namespace))
<1> DEFINE f == [vs \in Got(read, "virtualservices") |-> virtualServiceNode(vs)]
           g == [r \in Weighted(read) |->
                    Enrichment(serviceNodeID(namespace, r[1].routes[r[2]].host),
                               [istioTrafficWeights |->
                                   collectTrafficWeights(read, r[1].routes[r[2]].host)])]
           h == [dr \in Got(read, "destinationrules") |-> destinationRuleNode(dr)]
<1>1. IsFiniteSet(DOMAIN f) /\ IsFiniteSet(DOMAIN g) /\ IsFiniteSet(DOMAIN h)
  BY GotIsFinite, WeightedFinite
<1>2. IstioNodes(read, namespace) =
         {f[x] : x \in DOMAIN f} \cup {g[x] : x \in DOMAIN g} \cup {h[x] : x \in DOMAIN h}
  BY Zenon DEF IstioNodes
<1> HIDE DEF f, g, h
<1>3. /\ IsFiniteSet({f[x] : x \in DOMAIN f})
      /\ IsFiniteSet({g[x] : x \in DOMAIN g})
      /\ IsFiniteSet({h[x] : x \in DOMAIN h})
  BY <1>1, FiniteImage
<1> QED BY <1>2, <1>3, FS_Union

LEMMA ViolationsFinite ==
    ASSUME NEW reports, IsFiniteSet(reports), \A r \in reports : IsFiniteSet(DOMAIN r.results)
    PROVE  IsFiniteSet(accumulateViolations(reports))
<1> DEFINE f == [r \in reports |-> DOMAIN r.results]
           all == UNION {{<<report, n>> : n \in DOMAIN report.results} : report \in reports}
<1>1. IsFiniteSet(DOMAIN f) /\ \A x \in DOMAIN f : IsFiniteSet(f[x])
  OBVIOUS
<1>2. all = UNION {{<<x, n>> : n \in f[x]} : x \in DOMAIN f}
  OBVIOUS
<1>3. accumulateViolations(reports) \subseteq all
  BY DEF accumulateViolations
<1> HIDE DEF f, all
<1>4. IsFiniteSet(all)
  BY <1>1, <1>2, FinitePairs
<1> QED BY <1>3, <1>4, FS_Subset

LEMMA KyvernoNodesFinite ==
    ASSUME NEW read, FiniteReading(read)
    PROVE  IsFiniteSet(KyvernoNodes(read))
<1> DEFINE both == Got(read, "policyreports") \cup Got(read, "clusterpolicyreports")
           violations == accumulateViolations(both)
           f == [r \in Got(read, "policyreports") |-> policyReportNode(r, "kyverno-policyreport")]
           g == [r \in Got(read, "clusterpolicyreports") |->
                    policyReportNode(r, "kyverno-clusterpolicyreport")]
           h == [r \in violations |-> Enrichment(TargetOf(r), TallyMeta(violations, TargetOf(r)))]
<1>1. IsFiniteSet(both) /\ \A r \in both : IsFiniteSet(DOMAIN r.results)
  BY GotIsFinite, FS_Union DEF FiniteReading
<1>2. IsFiniteSet(violations)
  <2> HIDE DEF both
  <2> QED BY <1>1, ViolationsFinite
<1>3. IsFiniteSet(DOMAIN f) /\ IsFiniteSet(DOMAIN g) /\ IsFiniteSet(DOMAIN h)
  BY <1>2, GotIsFinite
<1>4. /\ {policyReportNode(r, "kyverno-policyreport") : r \in Got(read, "policyreports")}
            = {f[x] : x \in DOMAIN f}
      /\ {policyReportNode(r, "kyverno-clusterpolicyreport") :
             r \in Got(read, "clusterpolicyreports")} = {g[x] : x \in DOMAIN g}
  OBVIOUS
<1>5. Tallies(read) = {h[x] : x \in DOMAIN h}
  BY Zenon DEF Tallies
<1> HIDE DEF f, g, h, violations
<1>6. /\ IsFiniteSet({f[x] : x \in DOMAIN f})
      /\ IsFiniteSet({g[x] : x \in DOMAIN g})
      /\ IsFiniteSet({h[x] : x \in DOMAIN h})
  BY <1>3, FiniteImage
<1>7. IsFiniteSet(IF "clusterpolicyreports" \in DOMAIN read THEN Tallies(read) ELSE {})
  BY <1>5, <1>6, FS_EmptySet
<1> QED BY <1>4, <1>6, <1>7, FS_Union DEF KyvernoNodes

LEMMA GitHubNodesFinite ==
    ASSUME NEW read, FiniteReading(read), NEW repo
    PROVE  IsFiniteSet(GitHubNodes(read, repo))
<1> DEFINE own == IF "secret" \in DOMAIN read THEN {githubRepositoryNode(repo)} ELSE {}
           f == [wf \in Got(read, "workflows") |->
                    githubWorkflowNode(repo, wf, {r \in Got(read, "runs") : r.workflow = wf.id})]
<1>1. IsFiniteSet(own)
  BY FS_EmptySet, FS_Singleton
<1>2. IsFiniteSet(DOMAIN f)
  BY GotIsFinite
<1>3. GitHubNodes(read, repo) = own \cup {f[x] : x \in DOMAIN f}
  BY Zenon DEF GitHubNodes
<1> HIDE DEF f, own
<1>4. IsFiniteSet({f[x] : x \in DOMAIN f})
  BY <1>2, FiniteImage
<1> QED BY <1>1, <1>3, <1>4, FS_Union

LEMMA PrometheusNodesFinite ==
    ASSUME NEW read, FiniteReading(read), NEW namespace
    PROVE  IsFiniteSet(PrometheusNodes(read, namespace))
<1> DEFINE samples == UNION {Got(read, metric) : metric \in Metrics}
           g == [s \in samples |-> s.service]
           f == [service \in Measured(read) |->
                    Enrichment(serviceNodeID(namespace, service), Measures(read, service))]
<1>1. samples = Got(read, "errorRatePct") \cup Got(read, "latencyP99Ms")
                  \cup Got(read, "cpuUsageM") \cup Got(read, "memoryUsageMi")
  <2>1. Metrics = {"errorRatePct", "latencyP99Ms", "cpuUsageM", "memoryUsageMi"}
    BY DEF Metrics, Queries
  <2> QED BY <2>1
<1>2. IsFiniteSet(samples)
  <2> HIDE DEF samples
  <2> QED BY <1>1, GotIsFinite, FS_Union
<1>3. IsFiniteSet(Measured(read))
  <2>1. DOMAIN g = samples /\ Measured(read) \subseteq {g[s] : s \in DOMAIN g}
    BY DEF Measured
  <2> HIDE DEF g, samples
  <2>2. IsFiniteSet({g[s] : s \in DOMAIN g})
    BY <1>2, <2>1, FiniteImage
  <2> QED BY <2>1, <2>2, FS_Subset
<1>4. DOMAIN f = Measured(read) /\ PrometheusNodes(read, namespace) = {f[x] : x \in DOMAIN f}
  BY Zenon DEF PrometheusNodes
<1> HIDE DEF f
<1> QED BY <1>3, <1>4, FiniteImage
-----------------------------------------------------------------------------
(* Whose nodes are whose: an engine describes things of its own, and may   *)
(* add details to a Deployment or a Service, without a word on what it is. *)

Engine == {"K8s", "ArgoCD", "Istio", "Kyverno", "GitHub", "Prometheus"}

Workloads == {"deployment", "service"}

Tallied ==
    {"policyViolations", "policyViolationsFail", "policyViolationsError", "policyViolationsWarn"}

Own ==
    [K8s        |-> Workloads,
     ArgoCD     |-> {"argocd-application"},
     Istio      |-> {"istio-virtualservice", "istio-destinationrule"},
     Kyverno    |-> {"kyverno-policyreport", "kyverno-clusterpolicyreport"},
     GitHub     |-> {"github-repository", "github-actions-workflow"},
     Prometheus |-> {}]

Added ==
    [K8s |-> {}, ArgoCD |-> {}, Istio |-> {"istioTrafficWeights"},
     Kyverno |-> Tallied, GitHub |-> {}, Prometheus |-> Metrics]

Described == {"resourceKind", "replicasReady", "lastRunStatus"}

Silent(n) == n.type = "" /\ n.label = "" /\ n.status = ""

Describes(e, n) == n.id[1] \in Own[e] /\ DOMAIN n.meta \subseteq Described

Enriches(e, n) ==
    e # "K8s" /\ n.id[1] \in Workloads /\ Silent(n) /\ DOMAIN n.meta \subseteq Added[e]

LEMMA EnrichmentIs ==
    ASSUME NEW id, NEW meta
    PROVE  /\ Enrichment(id, meta).id = id
           /\ Enrichment(id, meta).meta = meta
           /\ Silent(Enrichment(id, meta))
BY DEF Enrichment, Node, Silent

LEMMA WorkflowIdIs ==
    ASSUME NEW repo, NEW wf, NEW runs
    PROVE  githubWorkflowNode(repo, wf, runs).id = <<"github-actions-workflow", repo, wf.id>>
BY DEF githubWorkflowNode, Node

LEMMA IdsAre ==
    /\ \A x : deploymentNode(x).id = <<"deployment", x.ns, x.name>>
    /\ \A x : serviceNode(x).id = <<"service", x.ns, x.name>>
    /\ \A x : argoCDApplicationNode(x).id = <<"argocd-application", x.ns, x.name>>
    /\ \A x : virtualServiceNode(x).id = <<"istio-virtualservice", x.ns, x.name>>
    /\ \A x : destinationRuleNode(x).id = <<"istio-destinationrule", x.ns, x.name>>
    /\ \A x, type : policyReportNode(x, type).id = <<type, x.ns, x.name>>
    /\ \A repo : githubRepositoryNode(repo).id = <<"github-repository", repo>>
<1>1. \A id, type, label, status, meta : Node(id, type, label, status, meta).id = id
  BY DEF Node
<1>2. \A x : /\ deploymentNode(x).id = <<"deployment", x.ns, x.name>>
             /\ serviceNode(x).id = <<"service", x.ns, x.name>>
  BY <1>1 DEF deploymentNode, deploymentNodeID, serviceNode, serviceNodeID
<1>3. \A x : /\ argoCDApplicationNode(x).id = <<"argocd-application", x.ns, x.name>>
             /\ virtualServiceNode(x).id = <<"istio-virtualservice", x.ns, x.name>>
             /\ destinationRuleNode(x).id = <<"istio-destinationrule", x.ns, x.name>>
  BY <1>1 DEF argoCDApplicationNode, virtualServiceNode, destinationRuleNode
<1>4. \A x, type : policyReportNode(x, type).id = <<type, x.ns, x.name>>
  BY <1>1 DEF policyReportNode
<1>5. \A repo : githubRepositoryNode(repo).id = <<"github-repository", repo>>
  BY <1>1 DEF githubRepositoryNode
<1> QED BY <1>2, <1>3, <1>4, <1>5

LEMMA TallyKeys ==
    ASSUME NEW violations, NEW id
    PROVE  DOMAIN TallyMeta(violations, id) = Tallied
BY DEF TallyMeta, Tallied

(* More reports have more results, and a tally of more results is no less. *)
LEMMA ViolationsGrow ==
    ASSUME NEW R, NEW Q, R \subseteq Q
    PROVE  accumulateViolations(R) \subseteq accumulateViolations(Q)
<1> DEFINE All(S) == UNION {{<<report, n>> : n \in DOMAIN report.results} : report \in S}
           Kept(r) == LET result == r[1].results[r[2]]
                      IN  /\ result.outcome \in {"fail", "error", "warn"}
                          /\ result.kind = "Deployment"
                          /\ result.name # ""
<1>1. All(R) \subseteq All(Q)
  BY Zenon
<1>2. \A S : accumulateViolations(S) = {r \in All(S) : Kept(r)}
  BY DEF accumulateViolations
<1> HIDE DEF All, Kept
<1> QED BY <1>1, <1>2

LEMMA TallyGrows ==
    ASSUME NEW V, NEW W, V \subseteq W, IsFiniteSet(W), NEW id
    PROVE  \A key \in Tallied : TallyMeta(V, id)[key] <= TallyMeta(W, id)[key]
<1> DEFINE Counted(U, outcomes) ==
               {r \in U : TargetOf(r) = id /\ r[1].results[r[2]].outcome \in outcomes}
<1>1. ASSUME NEW outcomes PROVE Cardinality(Counted(V, outcomes)) <= Cardinality(Counted(W, outcomes))
  <2>1. Counted(V, outcomes) \subseteq Counted(W, outcomes) /\ Counted(W, outcomes) \subseteq W
    OBVIOUS
  <2> HIDE DEF Counted
  <2>2. IsFiniteSet(Counted(W, outcomes))
    BY <2>1, FS_Subset
  <2> QED BY <2>1, <2>2, FS_Subset
<1>2. ASSUME NEW U
      PROVE  TallyMeta(U, id) =
               [policyViolations      |-> Cardinality(Counted(U, {"fail", "error"})),
                policyViolationsFail  |-> Cardinality(Counted(U, {"fail"})),
                policyViolationsError |-> Cardinality(Counted(U, {"error"})),
                policyViolationsWarn  |-> Cardinality(Counted(U, {"warn"}))]
  BY DEF TallyMeta
<1> HIDE DEF Counted
<1> QED BY <1>1, <1>2 DEF Tallied

LEMMA K8sProfile ==
    ASSUME NEW read, NEW n \in K8sNodes(read)
    PROVE  /\ Describes("K8s", n)
           /\ n.id[1] = "deployment" => n.type = "k8s-deployment"
           /\ n.id[1] = "service" => n.type = "k8s-service"
<1>1. CASE \E dep \in Got(read, "deployments") : n = deploymentNode(dep)
  BY <1>1 DEF deploymentNode, deploymentNodeID, Node, Describes, Own, Workloads, Described
<1>2. CASE \E svc \in Got(read, "services") : n = serviceNode(svc)
  BY <1>2 DEF serviceNode, serviceNodeID, Node, Describes, Own, Workloads, Described
<1> QED BY <1>1, <1>2 DEF K8sNodes

LEMMA ArgoCDProfile ==
    ASSUME NEW read, NEW namespace, NEW n \in ArgoCDNodes(read, namespace)
    PROVE  Describes("ArgoCD", n)
BY DEF ArgoCDNodes, argoCDApplicationNode, Node, Describes, Own, Described

LEMMA IstioProfile ==
    ASSUME NEW read, NEW namespace, NEW n \in IstioNodes(read, namespace)
    PROVE  Describes("Istio", n) \/ Enriches("Istio", n)
<1>1. CASE \E vs \in Got(read, "virtualservices") : n = virtualServiceNode(vs)
  BY <1>1 DEF virtualServiceNode, Node, Describes, Own, Described
<1>2. CASE \E dr \in Got(read, "destinationrules") : n = destinationRuleNode(dr)
  BY <1>2 DEF destinationRuleNode, Node, Describes, Own, Described
<1>3. CASE \E host \in {r[1].routes[r[2]].host : r \in Weighted(read)} :
              n = Enrichment(serviceNodeID(namespace, host),
                             [istioTrafficWeights |-> collectTrafficWeights(read, host)])
  <2>1. PICK host : n = Enrichment(serviceNodeID(namespace, host),
                                   [istioTrafficWeights |-> collectTrafficWeights(read, host)])
    BY <1>3
  <2>2. /\ n.id = serviceNodeID(namespace, host) /\ Silent(n)
        /\ n.meta = [istioTrafficWeights |-> collectTrafficWeights(read, host)]
    BY <2>1, EnrichmentIs
  <2>3. DOMAIN n.meta = {"istioTrafficWeights"}
    BY <2>2
  <2> QED BY <2>2, <2>3 DEF serviceNodeID, Enriches, Workloads, Added
<1> QED BY <1>1, <1>2, <1>3, Zenon DEF IstioNodes

LEMMA KyvernoProfile ==
    ASSUME NEW read, NEW n \in KyvernoNodes(read)
    PROVE  \/ Describes("Kyverno", n)
           \/ /\ Enriches("Kyverno", n) /\ n \in Tallies(read)
              /\ "clusterpolicyreports" \in DOMAIN read
<1>1. ASSUME NEW r, NEW type \in {"kyverno-policyreport", "kyverno-clusterpolicyreport"},
             n = policyReportNode(r, type)
      PROVE  Describes("Kyverno", n)
  <2>1. n.id = <<type, r.ns, r.name>> /\ n.meta = [resourceKind |-> type]
    BY <1>1 DEF policyReportNode, Node
  <2> QED BY <2>1 DEF Describes, Own, Described
<1>2. CASE n \in Tallies(read) /\ "clusterpolicyreports" \in DOMAIN read
  <2>1. PICK violations, id : n = Enrichment(id, TallyMeta(violations, id))
                              /\ \E r : id = TargetOf(r)
    BY <1>2, Zenon DEF Tallies
  <2>2. n.id[1] = "deployment"
    <3>1. PICK r : id = TargetOf(r)
      BY <2>1
    <3>2. \E namespace, name : id = <<"deployment", namespace, name>>
      BY <3>1, Zenon DEF TargetOf, deploymentNodeID
    <3> QED BY <2>1, <3>2, EnrichmentIs
  <2>3. Silent(n) /\ DOMAIN n.meta = Tallied
    BY <2>1, EnrichmentIs, TallyKeys
  <2> QED BY <1>2, <2>2, <2>3 DEF Enriches, Workloads, Added
<1> QED BY <1>1, <1>2 DEF KyvernoNodes

LEMMA GitHubProfile ==
    ASSUME NEW read, NEW repo, NEW n \in GitHubNodes(read, repo)
    PROVE  Describes("GitHub", n)
<1>1. CASE n = githubRepositoryNode(repo)
  BY <1>1 DEF githubRepositoryNode, Node, Describes, Own, Described
<1>2. CASE \E wf, runs : n = githubWorkflowNode(repo, wf, runs)
  BY <1>2 DEF githubWorkflowNode, Node, Describes, Own, Described
<1>3. n = githubRepositoryNode(repo) \/ \E wf, runs : n = githubWorkflowNode(repo, wf, runs)
  BY Zenon DEF GitHubNodes
<1> QED BY <1>1, <1>2, <1>3

LEMMA PrometheusProfile ==
    ASSUME NEW read, NEW namespace, NEW n \in PrometheusNodes(read, namespace)
    PROVE  Enriches("Prometheus", n)
<1>1. PICK service : n = Enrichment(serviceNodeID(namespace, service), Measures(read, service))
  BY Zenon DEF PrometheusNodes
<1>2. DOMAIN Measures(read, service) \subseteq Metrics
  BY DEF Measures
<1> QED BY <1>1, <1>2 DEF Enrichment, serviceNodeID, Node, Enriches, Silent, Workloads, Added

(* What two engines say of one entity never contradicts.                   *)
LEMMA EnginesAgree ==
    ASSUME NEW e \in Engine, NEW n, Describes(e, n) \/ Enriches(e, n),
           NEW f \in Engine, NEW m, Describes(f, m) \/ Enriches(f, m),
           e # f, n.id = m.id
    PROVE  Agree(n, m)
<1>1. /\ \A k \in Metrics : k \notin Described /\ k \notin Tallied /\ k # "istioTrafficWeights"
      /\ \A k \in Tallied : k \notin Described /\ k # "istioTrafficWeights"
      /\ "istioTrafficWeights" \notin Described
  BY DEF Metrics, Queries, Tallied, Described
<1>2. Added[e] \cap Added[f] = {} /\ Added[e] \cap Described = {} /\ Added[f] \cap Described = {}
  BY <1>1 DEF Added, Engine
<1>3. ~(Describes(e, n) /\ Describes(f, m))
  <2>1. Own[e] \cap Own[f] = {}
    BY DEF Own, Engine, Workloads
  <2> QED BY <2>1 DEF Describes
<1>4. DOMAIN n.meta \cap DOMAIN m.meta = {}
  BY <1>2, <1>3 DEF Describes, Enriches
<1>5. Silent(n) \/ Silent(m)
  BY <1>3 DEF Enriches
<1> QED BY <1>4, <1>5 DEF Silent, Agree, Texts
-----------------------------------------------------------------------------
(* An engine has one node for one id, if what it read has no object twice. *)

Named(S) == \A x, y \in S : x.ns = y.ns /\ x.name = y.name => x = y

LEMMA K8sUnique ==
    ASSUME NEW read, Named(Got(read, "deployments")), Named(Got(read, "services")),
           NEW n \in K8sNodes(read), NEW m \in K8sNodes(read), n.id = m.id
    PROVE  n = m
<1>1. ASSUME NEW x \in K8sNodes(read)
      PROVE  \/ \E dep \in Got(read, "deployments") :
                   x = deploymentNode(dep) /\ x.id = <<"deployment", dep.ns, dep.name>>
             \/ \E svc \in Got(read, "services") :
                   x = serviceNode(svc) /\ x.id = <<"service", svc.ns, svc.name>>
  BY DEF K8sNodes, deploymentNode, deploymentNodeID, serviceNode, serviceNodeID, Node
<1>2. CASE \E dep \in Got(read, "deployments") :
              n = deploymentNode(dep) /\ n.id = <<"deployment", dep.ns, dep.name>>
  <2>1. PICK d \in Got(read, "deployments") :
               n = deploymentNode(d) /\ n.id = <<"deployment", d.ns, d.name>>
    BY <1>2
  <2>2. PICK dep \in Got(read, "deployments") :
               m = deploymentNode(dep) /\ m.id = <<"deployment", dep.ns, dep.name>>
    BY <1>1, <2>1
  <2> QED BY <2>1, <2>2 DEF Named
<1>3. CASE \E svc \in Got(read, "services") :
              n = serviceNode(svc) /\ n.id = <<"service", svc.ns, svc.name>>
  <2>1. PICK s \in Got(read, "services") :
               n = serviceNode(s) /\ n.id = <<"service", s.ns, s.name>>
    BY <1>3
  <2>2. PICK svc \in Got(read, "services") :
               m = serviceNode(svc) /\ m.id = <<"service", svc.ns, svc.name>>
    BY <1>1, <2>1
  <2> QED BY <2>1, <2>2 DEF Named
<1> QED BY <1>1, <1>2, <1>3

LEMMA ArgoCDUnique ==
    ASSUME NEW read, NEW namespace, Named(Got(read, "applications")),
           NEW n \in ArgoCDNodes(read, namespace), NEW m \in ArgoCDNodes(read, namespace),
           n.id = m.id
    PROVE  n = m
<1>1. ASSUME NEW x \in ArgoCDNodes(read, namespace)
      PROVE  \E app \in Got(read, "applications") :
                /\ x = argoCDApplicationNode(app)
                /\ x.id = <<"argocd-application", app.ns, app.name>>
  BY DEF ArgoCDNodes, argoCDApplicationNode, Node
<1>2. PICK a \in Got(read, "applications") :
             n = argoCDApplicationNode(a) /\ n.id = <<"argocd-application", a.ns, a.name>>
  BY <1>1
<1>3. PICK b \in Got(read, "applications") :
             m = argoCDApplicationNode(b) /\ m.id = <<"argocd-application", b.ns, b.name>>
  BY <1>1
<1> QED BY <1>2, <1>3 DEF Named

LEMMA IstioUnique ==
    ASSUME NEW read, NEW namespace,
           Named(Got(read, "virtualservices")), Named(Got(read, "destinationrules")),
           NEW n \in IstioNodes(read, namespace), NEW m \in IstioNodes(read, namespace),
           n.id = m.id
    PROVE  n = m
<1> DEFINE IsVS(x, vs) == x = virtualServiceNode(vs)
                          /\ x.id = <<"istio-virtualservice", vs.ns, vs.name>>
           IsDR(x, dr) == x = destinationRuleNode(dr)
                          /\ x.id = <<"istio-destinationrule", dr.ns, dr.name>>
           Weights(host) == Enrichment(serviceNodeID(namespace, host),
                               [istioTrafficWeights |-> collectTrafficWeights(read, host)])
           IsHost(x, host) == x = Weights(host) /\ x.id = <<"service", namespace, host>>
<1>1. ASSUME NEW x \in IstioNodes(read, namespace)
      PROVE  \/ \E vs \in Got(read, "virtualservices") : IsVS(x, vs)
             \/ \E dr \in Got(read, "destinationrules") : IsDR(x, dr)
             \/ \E host : IsHost(x, host)
  <2>1. \A vs : IsVS(virtualServiceNode(vs), vs)
    BY IdsAre
  <2>2. \A dr : IsDR(destinationRuleNode(dr), dr)
    BY IdsAre
  <2>3. \A host : IsHost(Weights(host), host)
    BY EnrichmentIs DEF serviceNodeID
  <2>4. \/ \E vs \in Got(read, "virtualservices") : x = virtualServiceNode(vs)
        \/ \E dr \in Got(read, "destinationrules") : x = destinationRuleNode(dr)
        \/ \E host : x = Weights(host)
    BY Zenon DEF IstioNodes
  <2> HIDE DEF IsVS, IsDR, IsHost
  <2> QED BY <2>1, <2>2, <2>3, <2>4, Zenon
<1> HIDE DEF Weights
<1>2. CASE \E vs \in Got(read, "virtualservices") : IsVS(n, vs)
  <2>1. \E vs \in Got(read, "virtualservices") : IsVS(m, vs)
    BY <1>1, <1>2
  <2> QED BY <1>2, <2>1 DEF Named
<1>3. CASE \E dr \in Got(read, "destinationrules") : IsDR(n, dr)
  <2>1. \E dr \in Got(read, "destinationrules") : IsDR(m, dr)
    BY <1>1, <1>3
  <2> QED BY <1>3, <2>1 DEF Named
<1>4. CASE \E host : IsHost(n, host)
  <2>1. \E host : IsHost(m, host)
    BY <1>1, <1>4
  <2> QED BY <1>4, <2>1
<1> QED BY <1>1, <1>2, <1>3, <1>4

LEMMA KyvernoUnique ==
    ASSUME NEW read,
           Named(Got(read, "policyreports")), Named(Got(read, "clusterpolicyreports")),
           NEW n \in KyvernoNodes(read), NEW m \in KyvernoNodes(read), n.id = m.id
    PROVE  n = m
<1> DEFINE violations == accumulateViolations(Got(read, "policyreports")
                                                  \cup Got(read, "clusterpolicyreports"))
           Is(x, r, type) == x = policyReportNode(r, type) /\ x.id = <<type, r.ns, r.name>>
           Tally(id) == Enrichment(id, TallyMeta(violations, id))
           IsTally(x) == x = Tally(x.id) /\ \E ns, name : x.id = <<"deployment", ns, name>>
<1>1. ASSUME NEW x \in KyvernoNodes(read)
      PROVE  \/ \E r \in Got(read, "policyreports") : Is(x, r, "kyverno-policyreport")
             \/ \E r \in Got(read, "clusterpolicyreports") :
                   Is(x, r, "kyverno-clusterpolicyreport")
             \/ IsTally(x)
  <2>1. \A r, type : Is(policyReportNode(r, type), r, type)
    BY IdsAre
  <2>2. CASE x \in Tallies(read)
    <3>1. PICK id : x = Tally(id) /\ \E r : id = TargetOf(r)
      BY <2>2, Zenon DEF Tallies
    <3>2. x.id = id
      BY <3>1, EnrichmentIs
    <3>3. \E ns, name : id = <<"deployment", ns, name>>
      <4>1. PICK r : id = TargetOf(r)
        BY <3>1
      <4> QED BY <4>1, Zenon DEF TargetOf, deploymentNodeID
    <3> QED BY <3>1, <3>2, <3>3
  <2>3. \/ \E r \in Got(read, "policyreports") : x = policyReportNode(r, "kyverno-policyreport")
        \/ \E r \in Got(read, "clusterpolicyreports") :
              x = policyReportNode(r, "kyverno-clusterpolicyreport")
        \/ x \in Tallies(read)
    BY DEF KyvernoNodes
  <2> HIDE DEF Is, IsTally
  <2> QED BY <2>1, <2>2, <2>3, Zenon
<1> HIDE DEF Tally
<1>2. CASE \E r \in Got(read, "policyreports") : Is(n, r, "kyverno-policyreport")
  <2>1. \E r \in Got(read, "policyreports") : Is(m, r, "kyverno-policyreport")
    BY <1>1, <1>2
  <2> QED BY <1>2, <2>1 DEF Named
<1>3. CASE \E r \in Got(read, "clusterpolicyreports") : Is(n, r, "kyverno-clusterpolicyreport")
  <2>1. \E r \in Got(read, "clusterpolicyreports") : Is(m, r, "kyverno-clusterpolicyreport")
    BY <1>1, <1>3
  <2> QED BY <1>3, <2>1 DEF Named
<1>4. CASE IsTally(n)
  <2>1. PICK ns, name : n.id = <<"deployment", ns, name>>
    BY <1>4
  <2>2. \A type, a, c : <<type, a, c>> = <<"deployment", ns, name>> => type = "deployment"
    OBVIOUS
  <2>3. \A r, type : Is(m, r, type) => type = "deployment"
    BY <2>1, <2>2
  <2>4. IsTally(m)
    BY <1>1, <2>3
  <2> QED BY <1>4, <2>4
<1> QED BY <1>1, <1>2, <1>3, <1>4

LEMMA GitHubUnique ==
    ASSUME NEW read, NEW repo,
           \A x, y \in Got(read, "workflows") : x.id = y.id => x = y,
           NEW n \in GitHubNodes(read, repo), NEW m \in GitHubNodes(read, repo), n.id = m.id
    PROVE  n = m
<1> DEFINE Made(wf) == githubWorkflowNode(repo, wf, {r \in Got(read, "runs") : r.workflow = wf.id})
           Is(x, wf) == x = Made(wf) /\ x.id = <<"github-actions-workflow", repo, wf.id>>
           IsRepo(x) == x = githubRepositoryNode(repo) /\ x.id = <<"github-repository", repo>>
<1>1. ASSUME NEW x \in GitHubNodes(read, repo)
      PROVE  IsRepo(x) \/ \E wf \in Got(read, "workflows") : Is(x, wf)
  <2>1. x = githubRepositoryNode(repo) \/ \E wf \in Got(read, "workflows") : x = Made(wf)
    BY Zenon DEF GitHubNodes
  <2>2. IsRepo(githubRepositoryNode(repo))
    BY IdsAre
  <2>3. \A wf : Is(Made(wf), wf)
    <3>1. \A wf : Made(wf).id = <<"github-actions-workflow", repo, wf.id>>
      <4> TAKE wf
      <4> DEFINE runs == {r \in Got(read, "runs") : r.workflow = wf.id}
      <4> HIDE DEF runs
      <4>1. githubWorkflowNode(repo, wf, runs).id = <<"github-actions-workflow", repo, wf.id>>
        BY WorkflowIdIs
      <4> QED BY <4>1 DEF runs
    <3> HIDE DEF Made
    <3> QED BY <3>1
  <2> HIDE DEF Is, IsRepo
  <2> QED BY <2>1, <2>2, <2>3, Zenon
<1> HIDE DEF Made
<1>2. \A wf : <<"github-actions-workflow", repo, wf.id>> # <<"github-repository", repo>>
  OBVIOUS
<1>3. CASE IsRepo(n)
  BY <1>1, <1>2, <1>3
<1>4. CASE \E wf \in Got(read, "workflows") : Is(n, wf)
  <2>1. \E wf \in Got(read, "workflows") : Is(m, wf)
    BY <1>1, <1>2, <1>4
  <2> QED BY <1>4, <2>1
<1> QED BY <1>1, <1>3, <1>4

LEMMA PrometheusUnique ==
    ASSUME NEW read, NEW namespace,
           NEW n \in PrometheusNodes(read, namespace), NEW m \in PrometheusNodes(read, namespace),
           n.id = m.id
    PROVE  n = m
<1>1. PICK s : n = Enrichment(serviceNodeID(namespace, s), Measures(read, s))
  BY Zenon DEF PrometheusNodes
<1>2. PICK t : m = Enrichment(serviceNodeID(namespace, t), Measures(read, t))
  BY Zenon DEF PrometheusNodes
<1>3. n.id = <<"service", namespace, s>> /\ m.id = <<"service", namespace, t>>
  BY <1>1, <1>2, EnrichmentIs DEF serviceNodeID
<1> QED BY <1>1, <1>2, <1>3
-----------------------------------------------------------------------------
(* Each engine makes its nodes of what it read itself.                     *)

Inputs ==
    [K8s        |-> {"deployments", "services"},
     ArgoCD     |-> {"applications"},
     Istio      |-> {"virtualservices", "destinationrules"},
     Kyverno    |-> {"policyreports", "clusterpolicyreports"},
     GitHub     |-> {"secret", "workflows", "runs"},
     Prometheus |-> Metrics]

SameAnswers(r1, r2, S) ==
    \A c \in S : (c \in DOMAIN r1 <=> c \in DOMAIN r2) /\ Got(r1, c) = Got(r2, c)

(* No engine reads the answers to another one's calls.                     *)
LEMMA InputsApart ==
    ASSUME NEW e \in Engine, NEW f \in Engine, e # f
    PROVE  Inputs[e] \cap Inputs[f] = {}
<1>1. Metrics = {"errorRatePct", "latencyP99Ms", "cpuUsageM", "memoryUsageMi"}
  BY DEF Metrics, Queries
<1> QED BY <1>1 DEF Inputs, Engine

LEMMA K8sReads ==
    ASSUME NEW r1, NEW r2, SameAnswers(r1, r2, Inputs["K8s"])
    PROVE  K8sNodes(r1) = K8sNodes(r2) /\ K8sEdges(r1) = K8sEdges(r2)
<1>1. Got(r1, "deployments") = Got(r2, "deployments") /\ Got(r1, "services") = Got(r2, "services")
  BY DEF SameAnswers, Inputs
<1> QED BY <1>1 DEF K8sNodes, K8sEdges

LEMMA ArgoCDReads ==
    ASSUME NEW r1, NEW r2, SameAnswers(r1, r2, Inputs["ArgoCD"]), NEW ns
    PROVE  ArgoCDNodes(r1, ns) = ArgoCDNodes(r2, ns)
<1>1. Got(r1, "applications") = Got(r2, "applications")
  BY DEF SameAnswers, Inputs
<1> QED BY <1>1 DEF ArgoCDNodes

LEMMA IstioReads ==
    ASSUME NEW r1, NEW r2, SameAnswers(r1, r2, Inputs["Istio"]), NEW ns
    PROVE  IstioNodes(r1, ns) = IstioNodes(r2, ns)
<1>1. /\ Got(r1, "virtualservices") = Got(r2, "virtualservices")
      /\ Got(r1, "destinationrules") = Got(r2, "destinationrules")
  BY DEF SameAnswers, Inputs
<1>2. Weighted(r1) = Weighted(r2)
  BY <1>1 DEF Weighted
<1>3. ASSUME NEW host PROVE collectTrafficWeights(r1, host) = collectTrafficWeights(r2, host)
  BY <1>2 DEF collectTrafficWeights
<1> QED BY <1>1, <1>2, <1>3 DEF IstioNodes

LEMMA KyvernoReads ==
    ASSUME NEW r1, NEW r2, SameAnswers(r1, r2, Inputs["Kyverno"])
    PROVE  KyvernoNodes(r1) = KyvernoNodes(r2)
<1>1. /\ Got(r1, "policyreports") = Got(r2, "policyreports")
      /\ Got(r1, "clusterpolicyreports") = Got(r2, "clusterpolicyreports")
      /\ "clusterpolicyreports" \in DOMAIN r1 <=> "clusterpolicyreports" \in DOMAIN r2
  BY DEF SameAnswers, Inputs
<1>2. Tallies(r1) = Tallies(r2)
  BY <1>1 DEF Tallies
<1> QED BY <1>1, <1>2 DEF KyvernoNodes

LEMMA GitHubReads ==
    ASSUME NEW r1, NEW r2, SameAnswers(r1, r2, Inputs["GitHub"]), NEW repo
    PROVE  GitHubNodes(r1, repo) = GitHubNodes(r2, repo)
<1>1. /\ Got(r1, "workflows") = Got(r2, "workflows")
      /\ Got(r1, "runs") = Got(r2, "runs")
      /\ "secret" \in DOMAIN r1 <=> "secret" \in DOMAIN r2
  BY DEF SameAnswers, Inputs
<1> QED BY <1>1 DEF GitHubNodes

LEMMA PrometheusReads ==
    ASSUME NEW r1, NEW r2, SameAnswers(r1, r2, Inputs["Prometheus"]), NEW ns
    PROVE  PrometheusNodes(r1, ns) = PrometheusNodes(r2, ns)
<1>1. \A metric \in Metrics : Got(r1, metric) = Got(r2, metric)
  BY DEF SameAnswers, Inputs
<1>2. Measured(r1) = Measured(r2)
  BY <1>1 DEF Measured
<1>3. \A metric \in Metrics : \A service :
         queryByService(r1, metric, service) = queryByService(r2, metric, service)
  BY <1>1 DEF queryByService
<1>4. ASSUME NEW service PROVE Measures(r1, service) = Measures(r2, service)
  <2> DEFINE M(r) == {m \in Metrics : queryByService(r, m, service) # {}}
             V(r, m) == (CHOOSE s \in queryByService(r, m, service) : TRUE).value
  <2>1. /\ Measures(r1, service) = [m \in M(r1) |-> V(r1, m)]
        /\ Measures(r2, service) = [m \in M(r2) |-> V(r2, m)]
    BY DEF Measures
  <2>2. M(r1) = M(r2) /\ M(r1) \subseteq Metrics
    BY <1>3
  <2>3. \A m \in Metrics : V(r1, m) = V(r2, m)
    BY <1>3
  <2> HIDE DEF M, V
  <2> QED BY <2>1, <2>2, <2>3
<1> QED BY <1>2, <1>4 DEF PrometheusNodes
=============================================================================
