------------------------- MODULE CanvasLayoutProofs -------------------------
(***************************************************************************)
(* Proofs about the layout, for every graph: cycles, missing ends and any  *)
(* number of nodes.                                                        *)
(***************************************************************************)
EXTENDS CanvasLayout, FiniteSetTheorems, TLAPS

(* The rows handed out so far are below the counter of their column.       *)
RowsCounted ==
    \A v \in DOMAIN positions : positions[v][2] < rowsUsed[positions[v][1]]

(* A node that has a target no further right than itself waits in the      *)
(* queue: its edges are followed again before the loop can end.            *)
Waiting ==
    \A v \in Ids : \A w \in Targets(v) :
        depth[v] # -1 =>
            depth[v] < depth[w] \/ \E i \in DOMAIN queue : queue[i] = v

(* Some edge asks for the column of a node.                                *)
Earned ==
    \A v \in Ids : depth[v] > 0 =>
        \E u \in Ids : v \in Targets(u) /\ depth[v] <= depth[u] + 1

(* The loop starts with all the roots.                                     *)
RootsReached == \A v \in Roots : depth[v] >= 0

(* Nothing is placed before the loop is over, and everything at its depth. *)
PlacedAtDepth ==
    /\ positions # <<>> => ~Looping
    /\ \A v \in DOMAIN positions : positions[v][1] = Column(v)

IInv == TypeOK /\ RowsCounted /\ PlacedApart /\ Waiting /\ Earned /\ RootsReached /\ PlacedAtDepth

(* Listing some of the ids gives a sequence of ids.                        *)
LEMMA ListedIsSeq ==
    ASSUME NEW S \in SUBSET Ids, NEW rank, NEW s \in Listed(S, rank)
    PROVE  s \in Seq(Ids)
<1>1. IsFiniteSet(Ids)
  BY FS_Interval, InputAssumption DEF Ids
<1>2. IsFiniteSet(S)
  BY <1>1, FS_Subset
<1>3. Cardinality(S) \in Nat
  BY <1>2, FS_CardinalityType
<1>4. s \in [1..Cardinality(S) -> Ids]
  BY DEF Listed
<1> QED
  BY <1>3, <1>4

(* A set of positions in a list has a first one: of the sets of those      *)
(* before one of them, a least is empty.                                   *)
LEMMA FirstOfAll ==
    ASSUME NEW k \in Nat, NEW S, S \subseteq 1..k, S # {}
    PROVE  \E m \in S : \A l \in S : m <= l
<1> DEFINE Before(m) == {l \in S : l < m}
           T == {Before(m) : m \in S}
<1>1. IsFiniteSet(S)
  <2>1. IsFiniteSet(1..k)
    BY FS_Interval
  <2> QED BY <2>1, FS_Subset
<1>2. T \subseteq FiniteSubsetsOf(S) /\ T # {}
  <2>1. ASSUME NEW m \in S PROVE Before(m) \in FiniteSubsetsOf(S)
    <3>1. Before(m) \in SUBSET S
      OBVIOUS
    <3> QED BY <1>1, <3>1, FS_Subset DEF FiniteSubsetsOf
  <2> HIDE DEF Before
  <2> QED BY <2>1
<1>3. PICK x \in T : \A y \in T : ~(<<y, x>> \in StrictSubsetOrdering(S))
  <2> HIDE DEF T
  <2> QED BY <1>2, FS_StrictSubsetOrderingWellFounded, WFMin, Zenon
<1>4. PICK m \in S : x = Before(m)
  OBVIOUS
<1>5. S \subseteq Int
  OBVIOUS
<1>6. ASSUME NEW l \in S, l < m PROVE FALSE
  <2>1. \A i \in S : i < l => i < m
    BY <1>5, <1>6
  <2>2. Before(l) \subseteq Before(m) /\ l \in Before(m)
    BY <1>6, <2>1
  <2>3. l \notin Before(l)
    BY <1>5
  <2>4. Before(l) \in T /\ Before(l) \in SUBSET S /\ Before(m) \in SUBSET S
    OBVIOUS
  <2> HIDE DEF Before, T
  <2>5. <<Before(l), x>> \in StrictSubsetOrdering(S)
    BY <1>4, <2>2, <2>3, <2>4 DEF StrictSubsetOrdering
  <2> QED BY <1>3, <2>4, <2>5
<1> QED BY <1>5, <1>6

(* Every target of a node has a place in its adjacency list.               *)
LEMMA TargetHasPlace ==
    ASSUME edges \in Seq(Ids \X Ids), NEW v \in Ids, NEW w \in Targets(v)
    PROVE  EdgeOrder(v)[w] \in Int
<1> DEFINE S == {e \in DOMAIN edges : edges[e] = <<v, w>>}
           First(i) == edges[i] = <<v, w>> /\ \A j \in 1..(i - 1) : edges[j] # <<v, w>>
<1>1. Len(edges) \in Nat /\ DOMAIN edges = 1..Len(edges)
  OBVIOUS
<1>2. S \subseteq 1..Len(edges) /\ S # {}
  BY <1>1 DEF Targets
<1>3. PICK m \in S : \A l \in S : m <= l
  <2> HIDE DEF S
  <2> QED BY <1>1, <1>2, FirstOfAll
<1>4. ASSUME NEW j \in 1..(m - 1) PROVE edges[j] # <<v, w>>
  <2>1. j \in DOMAIN edges /\ ~(m <= j)
    BY <1>1, <1>2, <1>4
  <2> QED BY <1>3, <2>1
<1>5. m \in DOMAIN edges /\ First(m)
  BY <1>3, <1>4
<1>6. EdgeOrder(v)[w] = CHOOSE i \in DOMAIN edges : First(i)
  BY DEF EdgeOrder
<1> HIDE DEF First
<1>7. EdgeOrder(v)[w] \in DOMAIN edges
  BY <1>5, <1>6
<1> QED BY <1>1, <1>7

(* Listing some of the ids leaves none of them out.                        *)
LEMMA ListedIsWhole ==
    ASSUME NEW S \in SUBSET Ids, NEW rank, \A x \in S : rank[x] \in Int,
           NEW s \in Listed(S, rank), NEW x \in S
    PROVE  \E i \in DOMAIN s : s[i] = x
<1> DEFINE k == Cardinality(S)
<1>1. IsFiniteSet(S)
  <2>1. IsFiniteSet(Ids)
    BY FS_Interval, InputAssumption DEF Ids
  <2> QED BY <2>1, FS_Subset
<1>2. k \in Nat
  BY <1>1, FS_CardinalityType
<1>3. s \in [1..k -> S] /\ \A i, j \in 1..k : i < j => rank[s[i]] < rank[s[j]]
  BY DEF Listed
<1> HIDE DEF k
<1>4. ASSUME NEW i \in 1..k, NEW j \in 1..k, s[i] = s[j] PROVE i = j
  <2>1. rank[s[i]] \in Int /\ ~(rank[s[i]] < rank[s[i]])
    BY <1>3
  <2>2. ~(i < j) /\ ~(j < i)
    BY <1>3, <1>4, <2>1
  <2> QED BY <1>2, <2>2
<1>5. s \in Injection(1..k, S)
  BY <1>3, <1>4 DEF Injection, IsInjective
<1>6. Cardinality(1..k) = k
  BY <1>2, FS_Interval
<1>7. s \in Surjection(1..k, S)
  BY <1>1, <1>5, <1>6, FS_Injection DEF k
<1> QED BY <1>3, <1>7 DEF Surjection

(* A longer run of the loop leaves more room for the columns.              *)
LEMMA ColumnInRange ==
    ASSUME TypeOK, NEW v \in Nodes
    PROVE  Column(v) \in Columns /\ Column(v) \in Int
<1>1. v \in Ids /\ n \in Nat /\ maxIterations \in Nat
  BY InputAssumption DEF TypeOK, Nodes, Ids, maxIterations
<1>2. depth[v] \in -1..iterations /\ iterations \in 0..maxIterations
  BY <1>1 DEF TypeOK, Columns
<1> QED
  BY <1>1, <1>2 DEF Column, Columns

LEMMA InitIInv == ASSUME Init PROVE IInv
<1>1. n \in 0..MaxId /\ edges \in Seq(Ids \X Ids)
  BY InputAssumption DEF Init
<1>2. Roots \in SUBSET Ids
  BY <1>1, InputAssumption DEF Roots, Nodes, Ids
<1>3. queue \in Seq(Ids)
  BY <1>2, ListedIsSeq DEF Init
<1>4. maxIterations \in Nat /\ iterations = 0 /\ 0 \in Columns
  BY <1>1, InputAssumption DEF Init, maxIterations, Columns
<1>5. depth \in [Ids -> -1..iterations]
  BY <1>4 DEF Init
<1>6. rowsUsed \in [Columns -> Nat]
  BY DEF Init
<1>7. positions = <<>>
  BY DEF Init
<1>8. positions \in Seq(Columns \X Nat) /\ Len(positions) <= n /\ DOMAIN positions = {}
  BY <1>1, <1>7, InputAssumption
<1>9. Waiting
  <2> SUFFICES ASSUME NEW v \in Ids, depth[v] # -1
               PROVE  \E i \in DOMAIN queue : queue[i] = v
    BY DEF Waiting
  <2>1. v \in Roots
    BY DEF Init
  <2>2. \A r \in Roots : NodeOrder[r] \in Int
    BY <1>2, InputAssumption DEF NodeOrder, Ids
  <2>3. queue \in Listed(Roots, NodeOrder)
    BY DEF Init
  <2> QED
    BY <1>2, <2>1, <2>2, <2>3, ListedIsWhole
<1>10. PlacedAtDepth
  BY <1>7, <1>8 DEF PlacedAtDepth
<1>11. Earned /\ RootsReached
  BY <1>2 DEF Init, Earned, RootsReached
<1> QED
  BY <1>1, <1>3, <1>4, <1>5, <1>6, <1>8, <1>9, <1>10, <1>11
  DEF IInv, TypeOK, RowsCounted, PlacedApart

LEMMA DequeueTyped == ASSUME TypeOK, Dequeue PROVE TypeOK'
<1> DEFINE v == Head(queue)
           moved == {w \in Targets(v) : Deeper(v, w)}
<1>1. queue \in Seq(Ids) /\ queue # <<>>
  BY DEF TypeOK, Dequeue, Looping
<1>2. v \in Ids /\ Tail(queue) \in Seq(Ids)
  BY <1>1
<1>3. maxIterations \in Nat /\ iterations \in 0..maxIterations /\ iterations < maxIterations
  BY InputAssumption DEF TypeOK, Dequeue, Looping, maxIterations, Columns
<1>4. iterations' \in Columns /\ iterations' = iterations + 1
  BY <1>3 DEF Dequeue, Columns
<1>5. depth' \in [Ids -> -1..iterations']
  <2>1. depth' = [w \in Ids |-> IF w \in moved THEN depth[v] + 1 ELSE depth[w]]
    BY DEF Dequeue
  <2>2. \A w \in Ids : depth[w] \in -1..iterations
    BY DEF TypeOK
  <2> QED
    BY <1>2, <1>3, <1>4, <2>1, <2>2
<1>6. queue' \in Seq(Ids)
  <2>1. moved \in SUBSET Ids
    BY DEF Targets
  <2>2. PICK s \in Listed(moved, EdgeOrder(v)) : queue' = Tail(queue) \o s
    BY DEF Dequeue
  <2>3. s \in Seq(Ids)
    BY <2>1, <2>2, ListedIsSeq
  <2> QED
    BY <1>2, <2>2, <2>3
<1>7. UNCHANGED <<n, edges, rowsUsed, positions>> /\ Columns' = Columns
  BY DEF Dequeue, graph, Columns, maxIterations
<1> QED
  BY <1>4, <1>5, <1>6, <1>7 DEF TypeOK

(* A node that moves is queued, and so are all that move with it; no node  *)
(* moves to the left, so that the others keep what they had.               *)
LEMMA DequeueWaits ==
    ASSUME TypeOK, Waiting, Earned, RootsReached, Dequeue
    PROVE  Waiting' /\ Earned' /\ RootsReached'
<1> DEFINE v == Head(queue)
           moved == {w \in Targets(v) : Deeper(v, w)}
<1>1. queue \in Seq(Ids) /\ queue # <<>>
  BY DEF TypeOK, Dequeue, Looping
<1>2. v \in Ids /\ Tail(queue) \in Seq(Ids)
  BY <1>1
<1>3. moved \in SUBSET Ids /\ moved \subseteq Targets(v) /\ edges \in Seq(Ids \X Ids)
  BY DEF Targets, TypeOK
<1>4. /\ \A w \in Ids : depth[w] \in Int
      /\ depth' = [w \in Ids |-> IF w \in moved THEN depth[v] + 1 ELSE depth[w]]
  <2>1. iterations \in Int
    BY InputAssumption DEF TypeOK, Columns, maxIterations
  <2> QED BY <2>1 DEF Dequeue, TypeOK
<1>5. \A w \in moved : depth[w] < depth[v] + 1
  BY DEF Deeper
<1>6. \A w \in Ids : depth'[w] \in Int /\ depth[w] <= depth'[w]
  BY <1>2, <1>3, <1>4, <1>5
<1>7. PICK s \in Listed(moved, EdgeOrder(v)) : queue' = Tail(queue) \o s
  BY DEF Dequeue
<1>8. s \in Seq(Ids)
  BY <1>3, <1>7, ListedIsSeq
<1>9. \A w \in moved : \E i \in DOMAIN s : s[i] = w
  <2>1. \A w \in moved : EdgeOrder(v)[w] \in Int
    BY <1>2, <1>3, TargetHasPlace
  <2> HIDE DEF moved, v
  <2> QED BY <1>3, <1>7, <2>1, ListedIsWhole
<1>10. \A i \in DOMAIN s : \E j \in DOMAIN queue' : queue'[j] = s[i]
  <2> HIDE DEF v, moved
  <2> TAKE i \in DOMAIN s
  <2>1. Len(Tail(queue)) \in Nat /\ i \in 1..Len(s) /\ Len(s) \in Nat
    BY <1>2, <1>8
  <2>2. Len(Tail(queue)) + i \in DOMAIN queue' /\ queue'[Len(Tail(queue)) + i] = s[i]
    BY <1>2, <1>7, <1>8, <2>1
  <2> QED BY <2>2
<1>11. \A i \in DOMAIN queue : queue[i] = v \/ \E j \in DOMAIN queue' : queue'[j] = queue[i]
  <2> SUFFICES ASSUME NEW i \in DOMAIN queue, queue[i] # v
               PROVE  \E j \in DOMAIN queue' : queue'[j] = queue[i]
    OBVIOUS
  <2>1. i \in 1..Len(queue) /\ i # 1 /\ Len(queue) \in Nat
    BY <1>1
  <2>2. i - 1 \in 1..Len(Tail(queue)) /\ Tail(queue)[i - 1] = queue[i]
    BY <1>1, <2>1
  <2> HIDE DEF v, moved
  <2>3. i - 1 \in DOMAIN queue' /\ queue'[i - 1] = queue[i]
    BY <1>2, <1>7, <1>8, <2>2
  <2> QED BY <2>3
<1>12. \A u : Targets(u)' = Targets(u)
  BY DEF Dequeue, graph, Targets
<1>13. Earned'
  <2> SUFFICES ASSUME NEW w \in Ids, depth'[w] > 0
               PROVE  \E u \in Ids : w \in Targets(u) /\ depth'[w] <= depth'[u] + 1
    BY <1>12 DEF Earned
  <2>1. CASE w \in moved
    <3>1. w \in Targets(v) /\ depth'[w] = depth[v] + 1 /\ depth[v] <= depth'[v]
          /\ depth[v] \in Int /\ depth'[v] \in Int
      BY <1>2, <1>3, <1>4, <1>6, <2>1
    <3> HIDE DEF v, moved
    <3> QED BY <1>2, <3>1
  <2>2. CASE w \notin moved
    <3>1. depth'[w] = depth[w]
      BY <1>4, <2>2
    <3>2. PICK u \in Ids : w \in Targets(u) /\ depth[w] <= depth[u] + 1
      BY <3>1 DEF Earned
    <3> HIDE DEF v, moved
    <3> QED BY <1>4, <1>6, <3>1, <3>2
  <2> QED BY <2>1, <2>2
<1>14. RootsReached'
  <2>1. Roots' = Roots
    BY <1>12 DEF Roots, Nodes, Dequeue, graph
  <2>2. Roots \subseteq Ids
    BY InputAssumption DEF Roots, Nodes, Ids, TypeOK
  <2> HIDE DEF v, moved
  <2> QED BY <1>4, <1>6, <2>1, <2>2 DEF RootsReached
<1> SUFFICES ASSUME NEW u \in Ids, NEW w \in Targets(u), depth'[u] # -1
             PROVE  depth'[u] < depth'[w] \/ \E i \in DOMAIN queue' : queue'[i] = u
  BY <1>12, <1>13, <1>14 DEF Waiting
<1>15. w \in Ids
  BY DEF Targets
<1>16. CASE u \in moved
  BY <1>9, <1>10, <1>16
<1>17. CASE u \notin moved /\ u = v
  <2>1. depth'[u] = depth[v]
    BY <1>4, <1>17
  <2>2. CASE w \in moved
    <3>1. depth'[w] = depth[v] + 1
      BY <1>4, <1>15, <2>2
    <3> HIDE DEF v, moved
    <3> QED BY <1>2, <1>4, <2>1, <3>1
  <2>3. CASE w \notin moved
    <3>1. ~(depth[w] < depth[v] + 1) /\ depth'[w] = depth[w]
      BY <1>4, <1>15, <1>17, <2>3 DEF Deeper
    <3> HIDE DEF v, moved
    <3> QED BY <1>2, <1>4, <1>15, <2>1, <3>1
  <2> QED BY <2>2, <2>3
<1>18. CASE u \notin moved /\ u # v
  <2>1. depth'[u] = depth[u]
    BY <1>4, <1>18
  <2>2. depth[u] < depth[w] \/ \E i \in DOMAIN queue : queue[i] = u
    BY <2>1 DEF Waiting
  <2>3. CASE depth[u] < depth[w]
    <3> HIDE DEF v, moved
    <3> QED BY <1>4, <1>6, <1>15, <2>1, <2>3
  <2>4. CASE \E i \in DOMAIN queue : queue[i] = u
    BY <1>11, <1>18, <2>4
  <2> QED BY <2>2, <2>3, <2>4
<1> QED BY <1>16, <1>17, <1>18

(* The row a node gets is above every row given out in its column.         *)
LEMMA PlaceKeeps == ASSUME IInv, Place PROVE IInv'
<1> DEFINE v == Len(positions) + 1
           c == Column(v)
           at == <<c, rowsUsed[c]>>
<1>1. positions \in Seq(Columns \X Nat) /\ Len(positions) \in Nat /\ n \in Nat /\ n <= MaxId
  BY InputAssumption DEF IInv, TypeOK
<1>2. v \in Nodes
  BY <1>1 DEF Place, Nodes
<1>3. c \in Columns
  BY <1>2, ColumnInRange DEF IInv
<1>4. rowsUsed \in [Columns -> Nat] /\ rowsUsed[c] \in Nat
  BY <1>3 DEF IInv, TypeOK
<1>5. positions' = Append(positions, at)
  BY DEF Place
<1>6. rowsUsed' = [rowsUsed EXCEPT ![c] = @ + 1]
  BY DEF Place, UseRow
<1>7. UNCHANGED <<n, edges, depth, queue, iterations>> /\ Columns' = Columns
  BY DEF Place, graph, Columns, maxIterations
<1>8. at \in Columns \X Nat
  BY <1>3, <1>4
<1>9. /\ DOMAIN positions' = 1..v
      /\ positions'[v] = at
      /\ \A u \in 1..(v - 1) : positions'[u] = positions[u] /\ positions[u] \in Columns \X Nat
  BY <1>1, <1>5, <1>8
<1>10. DOMAIN positions = 1..(v - 1)
  BY <1>1
<1>11. \A u \in 1..(v - 1) : positions[u][2] < rowsUsed[positions[u][1]]
  BY <1>10 DEF IInv, RowsCounted
<1>12. TypeOK'
  <2>1. rowsUsed' \in [Columns -> Nat]
    BY <1>3, <1>4, <1>6
  <2>2. positions' \in Seq(Columns \X Nat) /\ Len(positions') <= n
    BY <1>1, <1>2, <1>5, <1>8 DEF Nodes
  <2> QED
    BY <1>7, <2>1, <2>2 DEF IInv, TypeOK
<1>13. RowsCounted'
  <2> SUFFICES ASSUME NEW u \in 1..v
               PROVE  positions'[u][2] < rowsUsed'[positions'[u][1]]
    BY <1>9 DEF RowsCounted
  <2>1. CASE u = v
    BY <2>1, <1>3, <1>4, <1>6, <1>9
  <2>2. CASE u # v
    <3>1. u \in 1..(v - 1)
      BY <2>2, <1>1
    <3>2. positions[u][1] \in Columns /\ positions[u][2] \in Nat
      BY <3>1, <1>9
    <3>3. positions[u][2] < rowsUsed[positions[u][1]]
      BY <3>1, <1>11
    <3>4. rowsUsed[positions[u][1]] \in Nat /\ rowsUsed'[positions[u][1]] >= rowsUsed[positions[u][1]]
      BY <3>2, <1>4, <1>6
    <3>5. rowsUsed'[positions[u][1]] \in Nat
      BY <3>2, <1>4, <1>6
    <3> QED
      BY <3>1, <3>2, <3>3, <3>4, <3>5, <1>9
  <2> QED
    BY <2>1, <2>2
<1>14. PlacedApart'
  <2>1. \A u \in 1..(v - 1) : positions[u] # at
    BY <1>4, <1>11
  <2>2. \A u, w \in 1..(v - 1) : u # w => positions[u] # positions[w]
    BY <1>10 DEF IInv, PlacedApart
  <2>3. \A u \in 1..v : u = v \/ u \in 1..(v - 1)
    BY <1>1
  <2> QED
    BY <1>9, <2>1, <2>2, <2>3 DEF PlacedApart
<1>15. Waiting' /\ Earned' /\ RootsReached'
  BY <1>7 DEF IInv, Waiting, Earned, RootsReached, Roots, Nodes, Targets
<1>16. PlacedAtDepth'
  <2>1. ~Looping' /\ \A u : Column(u)' = Column(u)
    BY <1>7 DEF Place, Looping, Column, maxIterations
  <2>2. \A u \in 1..(v - 1) : positions[u][1] = Column(u)
    BY <1>10 DEF IInv, PlacedAtDepth
  <2>3. \A u \in 1..v : u = v \/ u \in 1..(v - 1)
    BY <1>1
  <2>4. \A u \in 1..v : positions'[u][1] = Column(u)
    <3> HIDE DEF v
    <3> QED BY <1>9, <2>2, <2>3
  <2> QED
    BY <1>9, <2>1, <2>4 DEF PlacedAtDepth
<1> QED
  BY <1>12, <1>13, <1>14, <1>15, <1>16 DEF IInv

LEMMA NextIInv == ASSUME IInv, [Next]_vars PROVE IInv'
<1>1. CASE Dequeue
  <2>1. UNCHANGED <<rowsUsed, positions>>
    BY <1>1 DEF Dequeue
  <2>2. TypeOK' /\ Waiting' /\ Earned' /\ RootsReached'
    BY <1>1, DequeueTyped, DequeueWaits DEF IInv
  <2>3. positions = <<>>
    BY <1>1 DEF Dequeue, IInv, PlacedAtDepth
  <2>4. PlacedAtDepth'
    <3>1. DOMAIN positions = {}
      BY <2>3
    <3> QED BY <2>1, <2>3, <3>1 DEF PlacedAtDepth
  <2> QED
    BY <2>1, <2>2, <2>4 DEF IInv, RowsCounted, PlacedApart
<1>2. CASE Place
  BY <1>2, PlaceKeeps
<1>3. CASE Returned \/ UNCHANGED vars
  <2>1. UNCHANGED <<n, edges, depth, queue, iterations, rowsUsed, positions>>
    BY <1>3 DEF Returned, vars
  <2> QED
    BY <2>1 DEF IInv, TypeOK, RowsCounted, PlacedApart, Waiting, Earned, RootsReached,
                PlacedAtDepth, Roots, Nodes,
                Columns, maxIterations, Looping, Targets, Column
<1> QED
  BY <1>1, <1>2, <1>3 DEF Next

LEMMA Invariant == Spec => []IInv
<1>1. Init => IInv
  BY InitIInv
<1>2. IInv /\ [Next]_vars => IInv'
  BY NextIInv
<1> QED
  BY <1>1, <1>2, PTL DEF Spec

(* No column is further right than the passes of the loop, of which there  *)
(* are at most four per node, for every graph: a cycle cannot keep the     *)
(* dashboard busy (layout.ts:57-59).                                       *)
THEOREM TypeCorrect == Spec => []TypeOK
<1>1. IInv => TypeOK
  BY DEF IInv
<1> QED
  BY <1>1, Invariant, PTL

(* For every graph no node is drawn on top of another (layout.ts:70-81).   *)
THEOREM NoOverlap == Spec => []PlacedApart
<1>1. IInv => PlacedApart
  BY DEF IInv
<1> QED
  BY <1>1, Invariant, PTL

(* Unless the loop was cut short, on every graph, a node is exactly one    *)
(* column to the right of the last of the reached nodes that lead to it:   *)
(* when the queue is empty no node is waiting (layout.ts:57-69).           *)
THEOREM ColumnsRight == Spec => []ColumnsFollowEdges
<1>1. ASSUME IInv PROVE ColumnsFollowEdges
  <2> SUFFICES ASSUME Placed, queue = <<>>, NEW v \in Nodes
               PROVE  /\ \A w \in Nodes \cap Targets(v) :
                            depth[v] # -1 => positions[v][1] < positions[w][1]
                      /\ positions[v][1] > 0 =>
                            \E u \in Ids : v \in Targets(u) /\ positions[v][1] = depth[u] + 1
    BY DEF ColumnsFollowEdges
  <2>1. Nodes \subseteq Ids
    BY <1>1, InputAssumption DEF IInv, TypeOK, Nodes, Ids
  <2>2. \A u \in Nodes : positions[u][1] = Column(u)
    <3>1. positions \in Seq(Columns \X Nat) /\ Len(positions) = n
      BY <1>1 DEF IInv, TypeOK, Placed
    <3>2. DOMAIN positions = Nodes
      BY <3>1 DEF Nodes
    <3> QED BY <1>1, <3>2 DEF IInv, PlacedAtDepth
  <2>3. \A u \in Ids : depth[u] \in Int /\ depth[u] >= -1
    <3>1. iterations \in Int /\ \A u \in Ids : depth[u] \in -1..iterations
      BY <1>1, InputAssumption DEF IInv, TypeOK, Columns, maxIterations
    <3> QED BY <3>1
  <2>4. \A u \in Ids : \A w \in Targets(u) : depth[u] # -1 => depth[u] < depth[w]
    <3>1. DOMAIN queue = {}
      OBVIOUS
    <3> QED BY <1>1, <3>1 DEF IInv, Waiting
  <2>5. ASSUME NEW w \in Nodes \cap Targets(v), depth[v] # -1
        PROVE  positions[v][1] < positions[w][1]
    <3>1. depth[v] < depth[w] /\ depth[v] \in Int /\ depth[w] \in Int /\ depth[v] >= -1
      BY <2>1, <2>3, <2>4, <2>5
    <3>2. Column(v) = depth[v] /\ Column(w) = depth[w]
      BY <2>5, <3>1 DEF Column
    <3> QED
      BY <2>2, <3>1, <3>2
  <2>6. ASSUME positions[v][1] > 0
        PROVE  \E u \in Ids : v \in Targets(u) /\ positions[v][1] = depth[u] + 1
    <3>1. depth[v] > 0 /\ positions[v][1] = depth[v] /\ v \in Ids /\ depth[v] \in Int
      BY <2>1, <2>2, <2>3, <2>6 DEF Column
    <3>2. PICK u \in Ids : v \in Targets(u) /\ depth[v] <= depth[u] + 1
      BY <1>1, <3>1 DEF IInv, Earned
    <3>3. depth[u] < depth[v]
      BY <2>3, <2>4, <3>1, <3>2
    <3> QED
      BY <2>3, <3>1, <3>2, <3>3
  <2> QED
    BY <2>5, <2>6
<1> QED
  BY <1>1, Invariant, PTL
-----------------------------------------------------------------------------
(* The paths of a graph.                                                   *)

(* What holds of 0 and of each next number holds up to k.                  *)
LEMMA CountUp ==
    ASSUME NEW k \in Nat, NEW S, 0 \in S, \A i \in 0..(k - 1) : i \in S => i + 1 \in S
    PROVE  \A i \in 0..k : i \in S
<1> DEFINE T == {i \in 1..k : i \notin S}
<1>1. CASE T = {}
  BY <1>1
<1>2. CASE T # {}
  <2>1. PICK m \in T : \A l \in T : m <= l
    <3>1. T \subseteq 1..k
      OBVIOUS
    <3> HIDE DEF T
    <3> QED BY <1>2, <3>1, FirstOfAll
  <2>2. m - 1 \in 0..(k - 1) /\ m - 1 \notin T
    BY <2>1
  <2>3. m - 1 \in S
    BY <2>2
  <2> QED BY <2>1, <2>2, <2>3
<1> QED BY <1>1, <1>2

(* The recursion of PathEnds has a solution, made from the shorter ones.   *)
LEMMA PathEndsIs ==
    ASSUME n \in Nat
    PROVE  PathEnds = [k \in 0..n |->
               IF k = 0 THEN Nodes ELSE UNION {Targets(v) : v \in PathEnds[k - 1]}]
<1> DEFINE Onward(S) == UNION {Targets(v) : v \in S}
           Solves(f, m) == f = [k \in 0..m |-> IF k = 0 THEN Nodes ELSE Onward(f[k - 1])]
           S == {m \in 0..n : \E f : Solves(f, m)}
<1> HIDE DEF Onward
<1>1. 0 \in S
  <2>1. Solves([k \in 0..0 |-> Nodes], 0)
    OBVIOUS
  <2>2. 0 \in 0..n
    OBVIOUS
  <2> HIDE DEF Solves
  <2> QED BY <2>1, <2>2
<1>2. ASSUME NEW m \in 0..(n - 1), m \in S PROVE m + 1 \in S
  <2>1. PICK f : Solves(f, m)
    BY <1>2
  <2> DEFINE g == [k \in 0..(m + 1) |-> IF k <= m THEN f[k] ELSE Onward(f[m])]
             h == [k \in 0..(m + 1) |-> IF k = 0 THEN Nodes ELSE Onward(g[k - 1])]
  <2>2. ASSUME NEW k \in 0..(m + 1) PROVE g[k] = h[k]
    <3>1. CASE k = 0
      <4>1. f[0] = Nodes
        BY <2>1, <1>2
      <4> QED BY <3>1, <4>1, <1>2
    <3>2. CASE k # 0 /\ k <= m
      <4>1. f[k] = Onward(f[k - 1])
        BY <2>1, <3>2, <1>2
      <4>2. g[k - 1] = f[k - 1]
        BY <3>2, <1>2
      <4> QED BY <3>2, <4>1, <4>2
    <3>3. CASE k = m + 1
      <4>1. g[k - 1] = f[m] /\ g[k] = Onward(f[m])
        BY <3>3, <1>2
      <4>2. h[k] = Onward(g[k - 1])
        BY <3>3, <1>2
      <4> HIDE DEF g, h
      <4> QED BY <4>1, <4>2
    <3> QED BY <3>1, <3>2, <3>3, <1>2
  <2>3. g = h
    BY <2>2
  <2>4. Solves(g, m + 1)
    BY <2>3
  <2> HIDE DEF Solves, g
  <2> QED BY <1>2, <2>4
<1>3. n \in S
  <2>1. \A i \in 0..n : i \in S
    <3> HIDE DEF S
    <3> QED BY <1>1, <1>2, CountUp
  <2> QED BY <2>1
<1>4. PICK f : Solves(f, n)
  BY <1>3
<1>5. PathEnds = CHOOSE f1 : Solves(f1, n)
  BY DEF PathEnds, Onward
<1>6. Solves(PathEnds, n)
  <2> HIDE DEF Solves
  <2> QED BY <1>4, <1>5
<1> QED BY <1>6 DEF Onward

(* When the loop has run to its end on a graph without cycles or missing   *)
(* ends, each node is reached, and it is at the end of a path of k edges   *)
(* exactly if it is at least k deep.                                       *)
LEMMA DepthIsPath ==
    ASSUME IInv, queue = <<>>, Whole, Acyclic
    PROVE  \A k \in 0..n : \A v \in Nodes : v \in PathEnds[k] <=> depth[v] >= k
<1>1. n \in Nat /\ Nodes \subseteq Ids
  BY InputAssumption DEF IInv, TypeOK, Nodes, Ids
<1>2. \A u \in Ids : depth[u] \in Int /\ depth[u] >= -1
  <2>1. iterations \in Int /\ \A u \in Ids : depth[u] \in -1..iterations
    BY <1>1, InputAssumption DEF IInv, TypeOK, Columns, maxIterations
  <2> QED BY <2>1
<1>3. \A u \in Ids : \A w \in Targets(u) : depth[u] # -1 => depth[u] < depth[w]
  <2>1. DOMAIN queue = {}
    OBVIOUS
  <2> QED BY <2>1 DEF IInv, Waiting
<1>4. \A u \in Ids : \A w \in Targets(u) : u \in Nodes /\ w \in Nodes
  BY DEF Whole, Targets
<1>5. /\ PathEnds[0] = Nodes
      /\ \A k \in 0..(n - 1) : \A w : w \in PathEnds[k + 1] <=> \E v \in PathEnds[k] : w \in Targets(v)
  <2>1. PathEnds[0] = Nodes
    BY <1>1, PathEndsIs
  <2>2. ASSUME NEW k \in 0..(n - 1)
        PROVE  PathEnds[k + 1] = UNION {Targets(v) : v \in PathEnds[k]}
    <3>1. k + 1 \in 0..n /\ k + 1 # 0 /\ (k + 1) - 1 = k
      BY <1>1
    <3> DEFINE F(i) == IF i = 0 THEN Nodes ELSE UNION {Targets(v) : v \in PathEnds[i - 1]}
    <3>2. PathEnds = [i \in 0..n |-> F(i)]
      BY <1>1, PathEndsIs
    <3>3. F(k + 1) = UNION {Targets(v) : v \in PathEnds[k]}
      BY <3>1
    <3> HIDE DEF F
    <3>4. PathEnds[k + 1] = F(k + 1)
      BY <3>1, <3>2
    <3> QED BY <3>3, <3>4
  <2> QED BY <2>1, <2>2
<1>6. \A v \in Nodes : depth[v] >= 0
  <2> DEFINE U == {v \in Nodes : depth[v] = -1}
             S == {k \in 0..n : U \subseteq PathEnds[k]}
  <2>1. \A w \in U : \E v \in U : w \in Targets(v)
    <3> TAKE w \in U
    <3>1. w \in Nodes /\ w \in Ids /\ ~(depth[w] >= 0)
      BY <1>1
    <3>2. PICK v \in Ids : w \in Targets(v)
      BY <3>1 DEF IInv, RootsReached, Roots
    <3>3. v \in Nodes /\ (depth[v] # -1 => depth[v] < -1)
      BY <1>3, <1>4, <3>2
    <3>4. depth[v] = -1
      BY <1>2, <3>3
    <3> QED BY <3>2, <3>3, <3>4
  <2>2. 0 \in S
    BY <1>1, <1>5
  <2>3. ASSUME NEW k \in 0..(n - 1), k \in S PROVE k + 1 \in S
    <3>1. k + 1 \in 0..n /\ U \subseteq PathEnds[k]
      BY <1>1, <2>3
    <3>2. U \subseteq PathEnds[k + 1]
      <4> HIDE DEF U
      <4> QED BY <1>5, <2>1, <3>1
    <3> QED BY <3>1, <3>2
  <2>4. \A k \in 0..n : k \in S
    <3> HIDE DEF S
    <3> QED BY <1>1, <2>2, <2>3, CountUp
  <2>5. U = {}
    <3>1. n \in S
      BY <1>1, <2>4
    <3> QED BY <3>1 DEF Acyclic
  <2> QED BY <1>1, <1>2, <2>5
<1>7. \A k \in 0..n : \A v \in PathEnds[k] : v \in Nodes /\ depth[v] >= k
  <2> DEFINE S == {k \in 0..n : \A v \in PathEnds[k] : v \in Nodes /\ depth[v] >= k}
  <2>1. 0 \in S
    BY <1>1, <1>5, <1>6
  <2>2. ASSUME NEW k \in 0..(n - 1), k \in S PROVE k + 1 \in S
    <3>1. k + 1 \in 0..n /\ k \in Int /\ k >= 0
      BY <1>1
    <3>2. ASSUME NEW w \in PathEnds[k + 1] PROVE w \in Nodes /\ depth[w] >= k + 1
      <4>1. PICK v \in PathEnds[k] : w \in Targets(v)
        BY <1>5, <3>2
      <4>2. v \in Ids /\ w \in Nodes /\ w \in Ids /\ depth[v] >= k
        BY <1>1, <1>4, <2>2, <4>1
      <4>3. depth[v] \in Int /\ depth[w] \in Int
        BY <1>2, <4>2
      <4>4. depth[v] < depth[w]
        BY <1>3, <3>1, <4>1, <4>2, <4>3
      <4> QED BY <3>1, <4>2, <4>3, <4>4
    <3> QED BY <3>1, <3>2
  <2>3. \A k \in 0..n : k \in S
    <3> HIDE DEF S
    <3> QED BY <1>1, <2>1, <2>2, CountUp
  <2> QED BY <2>3
<1>8. \A k \in 0..n : \A v \in Nodes : depth[v] >= k => v \in PathEnds[k]
  <2> DEFINE S == {k \in 0..n : \A v \in Nodes : depth[v] >= k => v \in PathEnds[k]}
  <2>1. 0 \in S
    BY <1>1, <1>5
  <2>2. ASSUME NEW k \in 0..(n - 1), k \in S PROVE k + 1 \in S
    <3>1. k + 1 \in 0..n /\ k \in Int /\ k >= 0
      BY <1>1
    <3>2. ASSUME NEW w \in Nodes, depth[w] >= k + 1 PROVE w \in PathEnds[k + 1]
      <4>1. w \in Ids /\ depth[w] \in Int /\ depth[w] > 0
        BY <1>1, <1>2, <3>1, <3>2
      <4>2. PICK v \in Ids : w \in Targets(v) /\ depth[w] <= depth[v] + 1
        BY <4>1 DEF IInv, Earned
      <4>3. depth[v] \in Int /\ v \in Nodes
        BY <1>2, <1>4, <4>2
      <4>4. depth[v] >= k
        BY <3>1, <3>2, <4>1, <4>2, <4>3
      <4>5. v \in PathEnds[k]
        BY <2>2, <4>3, <4>4
      <4> QED BY <1>5, <4>2, <4>5
    <3> QED BY <3>1, <3>2
  <2>3. \A k \in 0..n : k \in S
    <3> HIDE DEF S
    <3> QED BY <1>1, <2>1, <2>2, CountUp
  <2> QED BY <2>3
<1> QED BY <1>7, <1>8

(* Where every edge has both its ends and there is no cycle, on a graph of *)
(* any size and whatever order its edges come in, the columns are the      *)
(* lengths of the longest paths, unless the loop was cut short             *)
(* (layout.ts:57-69).                                                      *)
THEOREM ColumnsAreLongest == Spec => [](queue = <<>> => ColumnsAreLongestPaths)
<1>1. ASSUME IInv, queue = <<>> PROVE ColumnsAreLongestPaths
  <2> SUFFICES ASSUME Placed, Whole, Acyclic, NEW v \in Nodes, NEW k \in 0..n
               PROVE  positions[v][1] = k <=> /\ v \in PathEnds[k]
                                              /\ \A j \in (k + 1)..n : v \notin PathEnds[j]
    BY <1>1 DEF ColumnsAreLongestPaths
  <2>1. n \in Nat /\ v \in Ids
    BY <1>1, InputAssumption DEF IInv, TypeOK, Nodes, Ids
  <2>2. depth[v] \in Int
    <3>1. iterations \in Int /\ depth[v] \in -1..iterations
      BY <1>1, <2>1, InputAssumption DEF IInv, TypeOK, Columns, maxIterations
    <3> QED BY <3>1
  <2>3. \A j \in 0..n : v \in PathEnds[j] <=> depth[v] >= j
    BY <1>1, DepthIsPath
  <2>4. depth[v] >= 0 /\ depth[v] < n
    <3>1. v \in PathEnds[0]
      BY <2>1, PathEndsIs
    <3>2. v \notin PathEnds[n]
      BY DEF Acyclic
    <3> QED BY <2>1, <2>2, <2>3, <3>1, <3>2
  <2>5. positions[v][1] = depth[v]
    <3>1. positions \in Seq(Columns \X Nat) /\ Len(positions) = n
      BY <1>1 DEF IInv, TypeOK, Placed
    <3>2. v \in DOMAIN positions
      BY <3>1 DEF Nodes
    <3>3. depth[v] # -1
      BY <2>4
    <3> QED BY <1>1, <3>2, <3>3 DEF IInv, PlacedAtDepth, Column
  <2>6. CASE depth[v] = k
    BY <2>1, <2>2, <2>3, <2>5, <2>6
  <2>7. CASE depth[v] < k
    BY <2>1, <2>2, <2>3, <2>5, <2>7
  <2>8. CASE depth[v] > k
    <3>1. k + 1 \in (k + 1)..n /\ k + 1 \in 0..n /\ depth[v] >= k + 1
      BY <2>1, <2>2, <2>4, <2>8
    <3>2. v \in PathEnds[k + 1]
      BY <2>3, <3>1
    <3> QED BY <2>2, <2>5, <2>8, <3>1, <3>2
  <2> QED BY <2>2, <2>6, <2>7, <2>8
<1> QED
  BY <1>1, Invariant, PTL
=============================================================================
