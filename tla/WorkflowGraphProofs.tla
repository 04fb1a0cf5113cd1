------------------------- MODULE WorkflowGraphProofs --------------------------
(***************************************************************************)
(* Proofs about the graph of the visual editor, for every set of keys and  *)
(* configurations and every sequence of edits: what is shown is a set of   *)
(* paths, one of which may begin at Start; it is valid exactly if it is    *)
(* one chain of all steps, and compiles to that chain.                     *)
(*                                                                         *)
(* Branches, joins and self-connections are not enough to exclude: a cycle *)
(* apart from Start has none of them, and the walk that validates never    *)
(* meets it. The invariant asks for ranks that rise along every edge. A    *)
(* step that the walk has missed then has one of lower rank before it that *)
(* it has missed too, and the least of these has no incoming edge: so the  *)
(* edges can be counted.                                                   *)
(***************************************************************************)
EXTENDS WorkflowGraph, SequenceTheorems, FiniteSetTheorems, TLAPS

-------------------------------------------------------------------------------
(* The recursive functions of the model are opened in the same way: a      *)
(* function that follows the recursion (IsWalk, IsKept, IsAfter) has the   *)
(* values its steps say, there is one, and so it is the one of the model;  *)
(* what it has to satisfy is shown by the least place where it would not.  *)

Below == {pair \in Nat \X Nat : pair[1] < pair[2]}

(* A set of natural numbers has a least one.                               *)
LEMMA LeastNatural ==
  ASSUME NEW T, T \subseteq Nat, T # {}
  PROVE \E x \in T : \A y \in T : x <= y
<1>1. Below = OpToRel(<, Nat)
  BY DEF OpToRel, Below
<1>2. IsWellFoundedOn(Below, Nat)
  BY <1>1, NatLessThanWellFounded, Zenon
<1>3. PICK x \in T : \A y \in T : <<y, x>> \notin Below
  BY <1>2, WFMin
<1>4. \A y \in T : ~(y < x)
  BY <1>3 DEF Below
<1>. QED BY <1>3, <1>4

(* The node before the i-th of a walk from Start.                          *)
Before(order, i) == IF i = 1 THEN Start ELSE order[i - 1]

Distinct(order) == \A i, j \in 1..Len(order) : order[i] = order[j] => i = j

(* order follows the edges from Start on.                                  *)
IsPath(edges, order) ==
  /\ Distinct(order)
  /\ \A i \in 1..Len(order) : <<Before(order, i), order[i]>> \in edges

(* There is no next node, or one that has been visited.                    *)
Ended(edges, order) ==
  Following(edges, order) = {} \/ Following(edges, order) \cap ToSet(order) # {}

-------------------------------------------------------------------------------
(* The walk                                                                *)

IsWalk(walk, edges, m) ==
  walk = [n \in 0..m |-> IF n = 0 THEN <<>> ELSE Walk(edges, walk[n - 1])]

(* The values of a walk.                                                   *)
LEMMA WalkStep ==
  ASSUME NEW walk, NEW edges, NEW m \in Nat, IsWalk(walk, edges, m)
  PROVE  /\ walk[0] = <<>>
         /\ \A n \in 1..m : walk[n] = Walk(edges, walk[n - 1])
<1> DEFINE V == [n \in 0..m |-> IF n = 0 THEN <<>> ELSE Walk(edges, walk[n - 1])]
<1>1. V[0] = <<>> /\ \A n \in 1..m : V[n] = Walk(edges, walk[n - 1])
  OBVIOUS
<1>2. walk = V
  BY DEF IsWalk
<1> HIDE DEF V
<1>. QED BY <1>1, <1>2

(* There is a walk of every length.                                        *)
LEMMA WalkExists ==
  ASSUME NEW edges, NEW m \in Nat
  PROVE  \E walk : IsWalk(walk, edges, m)
<1> DEFINE T == {n \in Nat : ~ \E walk : IsWalk(walk, edges, n)}
<1>1. SUFFICES ASSUME T # {} PROVE FALSE
  OBVIOUS
<1>2. PICK x \in T : \A y \in T : x <= y
  BY <1>1, LeastNatural
<1>3. CASE x = 0
  <2> DEFINE v == [n \in 0..0 |-> <<>>]
  <2>1. v = [n \in 0..0 |-> IF n = 0 THEN <<>> ELSE Walk(edges, v[n - 1])]
    OBVIOUS
  <2> HIDE DEF v
  <2>. QED BY <2>1, <1>2, <1>3 DEF IsWalk
<1>4. CASE x # 0
  <2> DEFINE p == x - 1
  <2>1. p \in Nat /\ p \notin T /\ x = p + 1
    BY <1>2, <1>4
  <2> HIDE DEF p
  <2>2. PICK walk : IsWalk(walk, edges, p)
    BY <2>1
  <2> DEFINE v == [n \in 0..x |-> IF n = x THEN Walk(edges, walk[p]) ELSE walk[n]]
  <2>3. \A n \in 1..p : walk[n] = Walk(edges, walk[n - 1])
    BY <2>2, <2>1, WalkStep
  <2>4. walk[0] = <<>>
    BY <2>2, <2>1, WalkStep
  <2>5. v = [n \in 0..x |-> IF n = 0 THEN <<>> ELSE Walk(edges, v[n - 1])]
    <3>1. \A n \in 0..x : v[n] = IF n = 0 THEN <<>> ELSE Walk(edges, v[n - 1])
      <4> SUFFICES ASSUME NEW n \in 0..x
                   PROVE v[n] = IF n = 0 THEN <<>> ELSE Walk(edges, v[n - 1])
        OBVIOUS
      <4>1. CASE n = 0
        BY <4>1, <2>4, <2>1
      <4>2. CASE n = x
        BY <4>2, <2>1
      <4>3. CASE n # 0 /\ n # x
        <5>1. n \in 1..p /\ n - 1 \in 0..x /\ n - 1 # x
          BY <4>3, <2>1
        <5>. QED BY <5>1, <4>3, <2>3
      <4>. QED BY <4>1, <4>2, <4>3
    <3>. QED BY <3>1
  <2> HIDE DEF v
  <2>. QED BY <2>5, <1>2 DEF IsWalk
<1>. QED BY <1>3, <1>4

(* The model's walk takes as many iterations as there are edges.           *)
LEMMA ConnectedIsWalk ==
  ASSUME NEW edges, IsFiniteSet(edges)
  PROVE  \E walk : /\ IsWalk(walk, edges, Cardinality(edges))
                   /\ ConnectedStepIds(edges) = walk[Cardinality(edges)]
<1> DEFINE m == Cardinality(edges)
<1>1. m \in Nat
  BY FS_CardinalityType
<1> DEFINE w == CHOOSE w : w = [n \in 0..m |-> IF n = 0 THEN <<>> ELSE Walk(edges, w[n - 1])]
<1>2. \E other : other = [n \in 0..m |-> IF n = 0 THEN <<>> ELSE Walk(edges, other[n - 1])]
  BY <1>1, WalkExists DEF IsWalk
<1>3. w = [n \in 0..m |-> IF n = 0 THEN <<>> ELSE Walk(edges, w[n - 1])]
  BY <1>2, Zenon
<1>4. ConnectedStepIds(edges) = w[m]
  BY DEF ConnectedStepIds
<1> HIDE DEF w, m
<1>5. IsWalk(w, edges, m)
  BY <1>3 DEF IsWalk
<1>. QED BY <1>4, <1>5 DEF m

(* One more node that is next and has not been visited.                    *)
LEMMA WalkGoesOn ==
  ASSUME NEW Id, Start \notin Id, NEW edges, edges \subseteq (Id \cup {Start}) \X Id,
         NEW visited \in Seq(Id), IsPath(edges, visited), ~Ended(edges, visited)
  PROVE  /\ Walk(edges, visited) \in Seq(Id)
         /\ IsPath(edges, Walk(edges, visited))
         /\ Len(Walk(edges, visited)) = Len(visited) + 1
<1> DEFINE next == Following(edges, visited)
<1>1. next # {} /\ next \cap ToSet(visited) = {}
  BY DEF Ended
<1> DEFINE id == CHOOSE id \in next : TRUE
<1>2. id \in next
  BY <1>1
<1>3. Walk(edges, visited) = Append(visited, id)
  BY <1>1 DEF Walk
<1> HIDE DEF id
<1> DEFINE last == IF visited = <<>> THEN Start ELSE Last(visited)
<1>4. <<last, id>> \in edges
  BY <1>2 DEF Following, Targets
<1>5. id \in Id /\ id \notin ToSet(visited)
  BY <1>1, <1>2, <1>4
<1>6. last = Before(Append(visited, id), Len(visited) + 1)
  BY <1>5 DEF Before, Last
<1> HIDE DEF last, next
<1>7. Append(visited, id) \in Seq(Id) /\ Len(Append(visited, id)) = Len(visited) + 1
  BY <1>5
<1>8. \A i \in 1..Len(visited) : Append(visited, id)[i] = visited[i] /\ visited[i] # id
  BY <1>5 DEF ToSet
<1>9. Append(visited, id)[Len(visited) + 1] = id
  BY <1>5
<1>10. Distinct(Append(visited, id))
  BY <1>7, <1>8, <1>9 DEF IsPath, Distinct
<1>11. \A i \in 1..Len(visited) : Before(Append(visited, id), i) = Before(visited, i)
  BY <1>8 DEF Before
<1>12. \A i \in 1..Len(visited) + 1 :
          <<Before(Append(visited, id), i), Append(visited, id)[i]>> \in edges
  BY <1>4, <1>6, <1>8, <1>9, <1>11 DEF IsPath
<1>. QED BY <1>3, <1>7, <1>10, <1>12 DEF IsPath

(* A walk that has ended stays where it is.                                *)
LEMMA WalkEnds ==
  ASSUME NEW edges, NEW visited, Ended(edges, visited)
  PROVE  Walk(edges, visited) = visited
BY DEF Ended, Walk

(* A walk follows a path, and is shorter than its iterations only if it    *)
(* has ended.                                                              *)
LEMMA WalkIsPath ==
  ASSUME NEW Id, Start \notin Id, NEW edges, edges \subseteq (Id \cup {Start}) \X Id,
         NEW m \in Nat, NEW walk, IsWalk(walk, edges, m), NEW n \in 0..m
  PROVE  /\ walk[n] \in Seq(Id)
         /\ IsPath(edges, walk[n])
         /\ Ended(edges, walk[n]) \/ Len(walk[n]) = n
<1> DEFINE Good(i) == /\ walk[i] \in Seq(Id)
                      /\ IsPath(edges, walk[i])
                      /\ Ended(edges, walk[i]) \/ Len(walk[i]) = i
           T == {i \in 0..m : ~Good(i)}
<1>1. SUFFICES ASSUME T # {} PROVE FALSE
  OBVIOUS
<1>2. PICK x \in T : \A y \in T : x <= y
  <2>1. T \subseteq Nat
    OBVIOUS
  <2> HIDE DEF T
  <2>. QED BY <2>1, <1>1, LeastNatural
<1>3. walk[0] = <<>> /\ \A i \in 1..m : walk[i] = Walk(edges, walk[i - 1])
  BY WalkStep
<1>4. CASE x = 0
  <2>1. <<>> \in Seq(Id) /\ IsPath(edges, <<>>) /\ Len(<<>>) = 0
    BY DEF IsPath, Distinct
  <2>. QED BY <1>2, <1>3, <1>4, <2>1
<1>5. CASE x # 0
  <2> DEFINE p == x - 1
  <2>1. x \in 1..m /\ p \in 0..m /\ x = p + 1 /\ p \notin T
    BY <1>2, <1>5
  <2>2. walk[x] = Walk(edges, walk[p])
    BY <2>1, <1>3
  <2> HIDE DEF p
  <2>3. Good(p)
    BY <2>1
  <2>4. CASE Ended(edges, walk[p])
    <3>1. walk[x] = walk[p]
      BY <2>2, <2>4, WalkEnds
    <3>. QED BY <3>1, <2>3, <2>4, <1>2
  <2>5. CASE ~Ended(edges, walk[p])
    <3>1. Len(walk[p]) = p
      BY <2>3, <2>5
    <3>2. walk[x] \in Seq(Id) /\ IsPath(edges, walk[x]) /\ Len(walk[x]) = x
      BY <3>1, <2>1, <2>2, <2>3, <2>5, WalkGoesOn
    <3>. QED BY <3>2, <1>2
  <2>. QED BY <2>4, <2>5
<1>. QED BY <1>4, <1>5

(* The edges of a path are different ones.                                 *)
LEMMA PathInjective ==
  ASSUME NEW Id, Start \notin Id, NEW edges, NEW order \in Seq(Id), IsPath(edges, order)
  PROVE  [i \in 1..Len(order) |-> <<Before(order, i), order[i]>>]
           \in Injection(1..Len(order), edges)
<1> DEFINE f == [i \in 1..Len(order) |-> <<Before(order, i), order[i]>>]
<1>1. f \in [1..Len(order) -> edges]
  BY DEF IsPath
<1>2. \A i, j \in 1..Len(order) : f[i] = f[j] => i = j
  BY DEF IsPath, Distinct
<1>. QED BY <1>1, <1>2 DEF Injection, IsInjective

(* The walk of as many iterations as there are edges ends at a node from   *)
(* which it cannot go on.                                                  *)
LEMMA ConnectedEnds ==
  ASSUME NEW Id, Start \notin Id, NEW edges, edges \subseteq (Id \cup {Start}) \X Id,
         IsFiniteSet(edges)
  PROVE  /\ ConnectedStepIds(edges) \in Seq(Id)
         /\ IsPath(edges, ConnectedStepIds(edges))
         /\ Ended(edges, ConnectedStepIds(edges))
<1> DEFINE order == ConnectedStepIds(edges)
           m == Cardinality(edges)
<1>1. m \in Nat
  BY FS_CardinalityType
<1>2. PICK walk : IsWalk(walk, edges, m) /\ order = walk[m]
  BY ConnectedIsWalk
<1> HIDE DEF order
<1>3. order \in Seq(Id) /\ IsPath(edges, order) /\ (Ended(edges, order) \/ Len(order) = m)
  BY <1>1, <1>2, WalkIsPath
<1>4. ASSUME Len(order) = m PROVE Ended(edges, order)
  <2> DEFINE f == [i \in 1..m |-> <<Before(order, i), order[i]>>]
  <2>1. f \in Injection(1..m, edges)
    BY <1>3, <1>4, PathInjective
  <2>2. Cardinality(1..m) = m
    BY <1>1, FS_Interval
  <2>3. f \in Surjection(1..m, edges)
    BY <2>1, <2>2, FS_Injection
  <2>4. \A edge \in edges : \E i \in 1..m : f[i] = edge
    BY <2>3 DEF Surjection
  <2>5. \A edge \in edges : edge[2] \in ToSet(order)
    BY <2>4, <1>3, <1>4 DEF ToSet
  <2> HIDE DEF f
  <2>6. Following(edges, order) \subseteq ToSet(order)
    BY <2>5 DEF Following, Targets
  <2>. QED BY <2>6 DEF Ended
<1>. QED BY <1>3, <1>4 DEF order

-------------------------------------------------------------------------------
(* Chains                                                                  *)

(* The edges of a chain: every node with the one before it.                *)
LEMMA OrderedEdges ==
  ASSUME NEW ids
  PROVE  BuildOrderedEdges(ids) = {<<Before(ids, i), ids[i]>> : i \in DOMAIN ids}
BY DEF BuildOrderedEdges, Before

(* The same, edge by edge.                                                 *)
LEMMA OrderedEdge ==
  ASSUME NEW Id, NEW ids \in Seq(Id)
  PROVE  /\ \A i \in 1..Len(ids) : <<Before(ids, i), ids[i]>> \in BuildOrderedEdges(ids)
         /\ \A e \in BuildOrderedEdges(ids) :
              \E i \in 1..Len(ids) : e = <<Before(ids, i), ids[i]>>
BY OrderedEdges

(* The first n numbers are n.                                              *)
LEMMA IntervalFinite ==
  ASSUME NEW n \in Nat
  PROVE  IsFiniteSet(1..n) /\ Cardinality(1..n) = n
BY FS_Interval

(* A chain has as many edges as nodes.                                     *)
LEMMA OrderedEdgesFinite ==
  ASSUME NEW Id, NEW ids \in Seq(Id), Distinct(ids), Start \notin Id
  PROVE  /\ BuildOrderedEdges(ids) \subseteq (Id \cup {Start}) \X Id
         /\ IsFiniteSet(BuildOrderedEdges(ids))
         /\ Cardinality(BuildOrderedEdges(ids)) = Len(ids)
         /\ IsPath(BuildOrderedEdges(ids), ids)
<1>1. \A i \in 1..Len(ids) : <<Before(ids, i), ids[i]>> \in (Id \cup {Start}) \X Id
  BY DEF Before
<1>2. BuildOrderedEdges(ids) \subseteq (Id \cup {Start}) \X Id
  BY <1>1, OrderedEdges
<1>3. IsPath(BuildOrderedEdges(ids), ids)
  BY OrderedEdges DEF IsPath
<1> DEFINE f == [i \in 1..Len(ids) |-> <<Before(ids, i), ids[i]>>]
<1>4. f \in Injection(1..Len(ids), BuildOrderedEdges(ids))
  BY <1>3, PathInjective
<1>5. \A edge \in BuildOrderedEdges(ids) : \E i \in 1..Len(ids) : f[i] = edge
  BY OrderedEdges
<1>6. f \in [1..Len(ids) -> BuildOrderedEdges(ids)]
  BY <1>4 DEF Injection
<1> HIDE DEF f
<1>7. f \in Surjection(1..Len(ids), BuildOrderedEdges(ids))
  BY <1>5, <1>6 DEF Surjection
<1>10. Len(ids) \in Nat
  OBVIOUS
<1>8. IsFiniteSet(1..Len(ids)) /\ Cardinality(1..Len(ids)) = Len(ids)
  BY <1>10, FS_Interval
<1>9. /\ IsFiniteSet(BuildOrderedEdges(ids))
      /\ Cardinality(BuildOrderedEdges(ids)) = Len(ids)
  BY <1>4, <1>7, <1>8, FS_Surjection
<1>. QED BY <1>2, <1>3, <1>9

(* An edge of a chain leads to the node that follows its source.           *)
LEMMA ChainEdge ==
  ASSUME NEW Id, Start \notin Id, NEW ids \in Seq(Id), Distinct(ids),
         NEW edge \in BuildOrderedEdges(ids), NEW i \in 0..Len(ids),
         edge[1] = Before(ids, i + 1)
  PROVE  i + 1 \in 1..Len(ids) /\ edge[2] = ids[i + 1]
<1>1. PICK j \in 1..Len(ids) : edge = <<Before(ids, j), ids[j]>>
  BY OrderedEdges
<1>2. j = i + 1
  BY <1>1 DEF Before, Distinct
<1>. QED BY <1>1, <1>2

(* The walk of a chain visits its nodes in its order.                      *)
LEMMA WalkOfChain ==
  ASSUME NEW Id, Start \notin Id, NEW ids \in Seq(Id), Distinct(ids)
  PROVE  ConnectedStepIds(BuildOrderedEdges(ids)) = ids
<1> DEFINE edges == BuildOrderedEdges(ids)
           order == ConnectedStepIds(edges)
<1>1. edges \subseteq (Id \cup {Start}) \X Id /\ IsFiniteSet(edges) /\ IsPath(edges, ids)
  BY OrderedEdgesFinite
<1>2. order \in Seq(Id) /\ IsPath(edges, order) /\ Ended(edges, order)
  <2> HIDE DEF edges
  <2>. QED BY <1>1, ConnectedEnds
<1> HIDE DEF order
<1> DEFINE T == {i \in Nat : i \in 1..Len(order) /\ ~(i <= Len(ids) /\ order[i] = ids[i])}
<1>3. T = {}
  <2> SUFFICES ASSUME T # {} PROVE FALSE
    OBVIOUS
  <2>1. T \subseteq Nat
    OBVIOUS
  <2>2. PICK x \in T : \A y \in T : x <= y
    <3> HIDE DEF T
    <3>. QED BY <2>1, LeastNatural
  <2>3. x \in 1..Len(order) /\ ~(x <= Len(ids) /\ order[x] = ids[x])
    OBVIOUS
  <2>4. <<Before(order, x), order[x]>> \in edges
    BY <2>3, <1>2 DEF IsPath
  <2>5. x - 1 \in 0..Len(ids) /\ Before(order, x) = Before(ids, (x - 1) + 1)
    <3>1. CASE x = 1
      BY <3>1, <2>3 DEF Before
    <3>2. CASE x # 1
      <4>1. x - 1 \in Nat /\ x - 1 \in 1..Len(order) /\ x - 1 \notin T
        BY <3>2, <2>2, <2>3
      <4>2. x - 1 <= Len(ids) /\ order[x - 1] = ids[x - 1]
        BY <4>1
      <4>. QED BY <4>1, <4>2, <3>2 DEF Before
    <3>. QED BY <3>1, <3>2
  <2>6. (x - 1) + 1 \in 1..Len(ids) /\ <<Before(order, x), order[x]>>[2] = ids[(x - 1) + 1]
    <3> DEFINE e == <<Before(order, x), order[x]>>
               n == x - 1
    <3>1. e[1] = Before(ids, n + 1) /\ e \in edges /\ n \in 0..Len(ids)
      BY <2>4, <2>5
    <3>. HIDE DEF e, n
    <3>2. n + 1 \in 1..Len(ids) /\ e[2] = ids[n + 1]
      BY <3>1, ChainEdge
    <3>. QED BY <3>2 DEF e, n
  <2>. QED BY <2>3, <2>6
<1>4. Len(order) <= Len(ids) /\ \A i \in 1..Len(order) : order[i] = ids[i]
  <2>1. \A i \in 1..Len(order) : i <= Len(ids) /\ order[i] = ids[i]
    BY <1>2, <1>3
  <2>. QED BY <2>1, <1>2
<1>5. ASSUME Len(order) < Len(ids) PROVE FALSE
  <2> DEFINE n == Len(order) + 1
  <2>1. n \in 1..Len(ids) /\ n - 1 = Len(order)
    BY <1>5, <1>2
  <2>2. <<Before(ids, n), ids[n]>> \in edges
    BY <2>1, <1>1 DEF IsPath
  <2>3. Before(ids, n) = IF order = <<>> THEN Start ELSE Last(order)
    BY <1>2, <1>4, <2>1 DEF Before, Last
  <2> HIDE DEF n
  <2>4. ids[n] \in Following(edges, order)
    BY <2>2, <2>3 DEF Following, Targets
  <2>5. \A id \in Following(edges, order) : id = ids[n]
    <3> SUFFICES ASSUME NEW id \in Following(edges, order) PROVE id = ids[n]
      OBVIOUS
    <3>1. PICK e \in edges : e[1] = Before(ids, n) /\ e[2] = id
      BY <2>3 DEF Following, Targets
    <3>2. n = (n - 1) + 1 /\ n - 1 \in 0..Len(ids)
      BY <2>1
    <3>3. e[2] = ids[(n - 1) + 1]
      <4> DEFINE k == n - 1
      <4>1. e[1] = Before(ids, k + 1) /\ k \in 0..Len(ids)
        BY <3>1, <3>2
      <4> HIDE DEF k
      <4>2. e[2] = ids[k + 1]
        BY <4>1, ChainEdge
      <4>. QED BY <4>2 DEF k
    <3>. QED BY <3>1, <3>2, <3>3
  <2>6. ids[n] \notin ToSet(order)
    BY <1>2, <1>4, <2>1 DEF ToSet, Distinct
  <2>. QED BY <2>4, <2>5, <2>6, <1>2 DEF Ended
<1>6. Len(order) = Len(ids)
  BY <1>4, <1>5, <1>2
<1>7. order = ids
  BY <1>2, <1>4, <1>6, SeqEqual
<1>. QED BY <1>7 DEF order

-------------------------------------------------------------------------------
(* What validation finds                                                   *)

Node == [id : Keys, config : Configs]

(* Steps with keys of their own, and edges between them or from Start.     *)
Wellformed(g) ==
  /\ g.nodes \in Seq(Node)
  /\ \A i, j \in 1..Len(g.nodes) : g.nodes[i].id = g.nodes[j].id => i = j
  /\ g.edges \subseteq (Nodes(g) \cup {Start}) \X Nodes(g)

(* No edge branches off or joins another.                                  *)
Single(edges) == \A e, f \in edges : e[1] = f[1] \/ e[2] = f[2] => e = f

NoLoop(edges) == \A e \in edges : e[1] # e[2]

(* The keys of a graph whose steps have different ones.                    *)
LEMMA NodesAre ==
  ASSUME NEW g, Wellformed(g)
  PROVE  /\ Ids(g.nodes) \in Seq(Nodes(g))
         /\ Distinct(Ids(g.nodes))
         /\ Len(Ids(g.nodes)) = Len(g.nodes)
         /\ Len(g.nodes) \in Nat
         /\ ToSet(Ids(g.nodes)) = Nodes(g)
         /\ Nodes(g) \subseteq Keys
         /\ Start \notin Nodes(g)
         /\ IsFiniteSet(Nodes(g))
         /\ Cardinality(Nodes(g)) = Len(g.nodes)
         /\ IsFiniteSet(g.edges)
<1> DEFINE ids == Ids(g.nodes)
           n == Len(g.nodes)
<1>1. n \in Nat /\ DOMAIN g.nodes = 1..n
  BY DEF Wellformed
<1>13. \A i \in 1..n : g.nodes[i] \in Node
  BY <1>1 DEF Wellformed
<1>14. \A i \in 1..n : g.nodes[i].id \in Keys
  BY <1>13 DEF Node
<1>2. /\ DOMAIN ids = 1..n
      /\ \A i \in 1..n : ids[i] = g.nodes[i].id /\ ids[i] \in Keys
  BY <1>1, <1>14 DEF Ids
<1>3. Nodes(g) = {ids[i] : i \in 1..n}
  BY <1>2 DEF Nodes, ToSet
<1>4. ids = [i \in 1..n |-> ids[i]]
  BY <1>1 DEF Ids
<1> HIDE DEF ids
<1>5. ids \in Seq(Nodes(g)) /\ Len(ids) = n
  BY <1>1, <1>3, <1>4
<1>6. Distinct(ids)
  BY <1>1, <1>2, <1>5 DEF Distinct, Wellformed
<1>7. Nodes(g) \subseteq Keys /\ Start \notin Nodes(g)
  BY <1>2, <1>3, GraphAssumption
<1>8. ids \in Injection(1..n, Nodes(g)) /\ ids \in Surjection(1..n, Nodes(g))
  BY <1>3, <1>4, <1>5, <1>6 DEF Injection, IsInjective, Surjection, Distinct
<1>9. IsFiniteSet(1..n) /\ Cardinality(1..n) = n
  BY <1>1, FS_Interval
<1>10. IsFiniteSet(Nodes(g)) /\ Cardinality(Nodes(g)) = n
  BY <1>8, <1>9, FS_Surjection
<1>11. IsFiniteSet((Nodes(g) \cup {Start}) \X Nodes(g))
  BY <1>10, FS_AddElement, FS_Product
<1>12. IsFiniteSet(g.edges)
  BY <1>11, FS_Subset DEF Wellformed
<1>. QED BY <1>1, <1>3, <1>5, <1>6, <1>7, <1>10, <1>12 DEF ids, Nodes

(* The elements of a set of at most one are equal.                         *)
LEMMA AtMostOne ==
  ASSUME NEW S, IsFiniteSet(S)
  PROVE  /\ ~(Cardinality(S) > 1) <=> \A x, y \in S : x = y
         /\ Cardinality(S) # 1 => S = {} \/ ~ \A x, y \in S : x = y
         /\ Cardinality(S) = 1 => S # {} /\ \A x, y \in S : x = y
<1>1. Cardinality(S) \in Nat
  BY FS_CardinalityType
<1>2. Cardinality(S) = 0 <=> S = {}
  BY FS_EmptySet
<1>3. Cardinality(S) = 1 <=> \E x : S = {x}
  BY FS_Singleton
<1>4. ASSUME S # {}, \A x, y \in S : x = y PROVE \E x : S = {x}
  <2>1. PICK x : x \in S
    BY <1>4
  <2>2. S = {x}
    BY <1>4, <2>1
  <2>. QED BY <2>2
<1>5. (\E x : S = {x}) => S # {} /\ \A x, y \in S : x = y
  OBVIOUS
<1>6. CASE S = {}
  BY <1>1, <1>2, <1>6
<1>7. CASE S # {}
  BY <1>1, <1>2, <1>3, <1>4, <1>5, <1>7
<1>. QED BY <1>6, <1>7

(* Finitely many edges have finitely many sources and targets.             *)
LEMMA SidesFinite ==
  ASSUME NEW g, Wellformed(g), NEW x
  PROVE  IsFiniteSet(Sources(g.edges, x)) /\ IsFiniteSet(Targets(g.edges, x))
<1>1. IsFiniteSet(Nodes(g)) /\ IsFiniteSet(Nodes(g) \cup {Start})
  BY NodesAre, FS_AddElement
<1>2. Sources(g.edges, x) \subseteq Nodes(g) \cup {Start} /\ Targets(g.edges, x) \subseteq Nodes(g)
  BY DEF Sources, Targets, Wellformed
<1>. QED BY <1>1, <1>2, FS_Subset

(* The walk of a graph without branches and joins cannot come back.        *)
LEMMA WalkDoesNotTurn ==
  ASSUME NEW g, Wellformed(g), Single(g.edges)
  PROVE  /\ Following(g.edges, ConnectedStepIds(g.edges)) = {}
         /\ ConnectedStepIds(g.edges) # <<>> =>
              Targets(g.edges, Last(ConnectedStepIds(g.edges)))
                \cap ToSet(ConnectedStepIds(g.edges)) = {}
<1> DEFINE order == ConnectedStepIds(g.edges)
           edges == g.edges
<1>1. /\ edges \subseteq (Nodes(g) \cup {Start}) \X Nodes(g) /\ IsFiniteSet(edges)
      /\ Start \notin Nodes(g)
  BY NodesAre DEF Wellformed
<1>2. order \in Seq(Nodes(g)) /\ IsPath(edges, order) /\ Ended(edges, order)
  <2> HIDE DEF edges
  <2>1. order = ConnectedStepIds(edges)
    BY DEF edges
  <2>. QED BY <1>1, <2>1, ConnectedEnds
<1> HIDE DEF order
<1>3. CASE order = <<>>
  <2>1. ToSet(order) = {}
    BY <1>3 DEF ToSet
  <2>2. Following(edges, order) = {}
    BY <1>2, <2>1 DEF Ended
  <2>. QED BY <2>2, <1>3 DEF order
<1>4. CASE order # <<>>
  <2>1. Len(order) \in Nat /\ Len(order) # 0 /\ Last(order) = order[Len(order)]
    BY <1>2, <1>4 DEF Last
  <2>2. Following(edges, order) = Targets(edges, Last(order))
    BY <1>4 DEF Following
  <2>3. ASSUME NEW y \in Targets(edges, Last(order)), y \in ToSet(order) PROVE FALSE
    <3>1. <<Last(order), y>> \in edges
      BY <1>1, <2>3 DEF Targets
    <3>2. PICK i \in 1..Len(order) : y = order[i]
      BY <1>2, <2>3 DEF ToSet
    <3>3. <<Before(order, i), y>> \in edges
      BY <1>2, <3>2 DEF IsPath
    <3>4. Before(order, i) = Last(order)
      <4>1. \A e, f \in edges : e[1] = f[1] \/ e[2] = f[2] => e = f
        BY DEF Single
      <4> HIDE DEF edges
      <4>. QED BY <3>1, <3>3, <4>1
    <3>5. order[Len(order)] \in Nodes(g)
      BY <1>2, <2>1
    <3>6. Distinct(order)
      BY <1>2 DEF IsPath
    <3>. QED BY <3>4, <3>5, <3>6, <2>1, <1>1 DEF Before, Distinct
  <2>4. Following(edges, order) = {}
    BY <1>2, <2>2, <2>3 DEF Ended
  <2>. QED BY <2>2, <2>3, <2>4 DEF order
<1>. QED BY <1>3, <1>4

(* What the issues of a graph without loops, branches and joins can be.    *)
LEMMA IssuesOfSingle ==
  ASSUME NEW g, Wellformed(g), Single(g.edges), NoLoop(g.edges)
  PROVE  /\ WorkflowGraphIssues(g) \subseteq {"EMPTY_WORKFLOW", "INVALID_START", "DISCONNECTED_NODE"}
         /\ Valid(g) <=> /\ g.nodes # <<>>
                         /\ Targets(g.edges, Start) # {}
                         /\ Nodes(g) \subseteq Visited(g.edges)
<1> DEFINE ids == Nodes(g)
           edges == {edge \in g.edges : edge[1] # edge[2]}
           order == ConnectedStepIds(g.edges)
<1>1. edges = g.edges
  BY DEF NoLoop
<1>2. Cardinality(ids) = Len(g.nodes) /\ Start \notin ids
  BY NodesAre
<1>3. edges \subseteq (ids \cup {Start}) \X ids
  BY <1>1 DEF Wellformed
<1>4. Sources(edges, Start) = {}
  BY <1>2, <1>3 DEF Sources
<1>5. \A x : ~(Cardinality(Sources(g.edges, x)) > 1)
  <2> SUFFICES ASSUME NEW x PROVE ~(Cardinality(Sources(g.edges, x)) > 1)
    OBVIOUS
  <2>1. \A y, z \in Sources(g.edges, x) : y = z
    BY DEF Sources, Single
  <2>. QED BY <2>1, SidesFinite, AtMostOne
<1>6. \A x : \A y, z \in Targets(g.edges, x) : y = z
  BY DEF Targets, Single
<1>7. \A x : ~(Cardinality(Targets(g.edges, x)) > 1)
  BY <1>6, SidesFinite, AtMostOne
<1>8. Cardinality(Targets(edges, Start)) # 1 <=> Targets(g.edges, Start) = {}
  BY <1>1, <1>6, SidesFinite, AtMostOne
<1>9. ~(order # <<>> /\ Targets(edges, Last(order)) \cap ToSet(order) # {})
  BY <1>1, WalkDoesNotTurn
<1>10. CASE g.nodes = <<>>
  <2>1. WorkflowGraphIssues(g) = {"EMPTY_WORKFLOW"}
    BY <1>10 DEF WorkflowGraphIssues
  <2>. QED BY <2>1, <1>10 DEF Valid
<1>11. CASE g.nodes # <<>>
  <2> DEFINE Duplicate == Issue("DUPLICATE_KEY", Cardinality(ids) # Len(g.nodes))
             Reserved == Issue("RESERVED_KEY", Start \in ids)
             Loop == Issue("SELF_CONNECTION", edges # g.edges)
             Unknown == Issue("UNKNOWN_NODE", ~(edges \subseteq (ids \cup {Start}) \X ids))
             Begin == Issue("INVALID_START",
                        Sources(edges, Start) # {} \/ Cardinality(Targets(edges, Start)) # 1)
             Inputs == Issue("MULTIPLE_INPUTS", \E id \in ids : Cardinality(Sources(edges, id)) > 1)
             Outputs == Issue("MULTIPLE_OUTPUTS", \E id \in ids : Cardinality(Targets(edges, id)) > 1)
             Cycle == Issue("CYCLE", order # <<>> /\ Targets(edges, Last(order)) \cap ToSet(order) # {})
             Lost == Issue("DISCONNECTED_NODE", ids \ Visited(edges) # {})
  <2>1. WorkflowGraphIssues(g) =
          UNION {Duplicate, Reserved, Loop, Unknown, Begin, Inputs, Outputs, Cycle, Lost}
    BY <1>11, <1>1 DEF WorkflowGraphIssues
  <2>2. WorkflowGraphIssues(g) =
          Issue("INVALID_START", Targets(g.edges, Start) = {})
            \cup Issue("DISCONNECTED_NODE", ids \ Visited(g.edges) # {})
    <3>1. Duplicate = {} /\ Reserved = {}
      BY <1>2 DEF Issue
    <3>2. Loop = {} /\ Unknown = {}
      BY <1>1, <1>3 DEF Issue
    <3>3. Inputs = {}
      BY <1>1, <1>5 DEF Issue
    <3>4. Outputs = {}
      BY <1>1, <1>7 DEF Issue
    <3>5. Cycle = {}
      BY <1>9 DEF Issue
    <3>6. Begin = Issue("INVALID_START", Targets(g.edges, Start) = {})
      BY <1>4, <1>8 DEF Issue
    <3>7. Lost = Issue("DISCONNECTED_NODE", ids \ Visited(g.edges) # {})
      BY <1>1 DEF Issue
    <3> HIDE DEF Duplicate, Reserved, Loop, Unknown, Begin, Inputs, Outputs, Cycle, Lost
    <3>8. WorkflowGraphIssues(g) = Begin \cup Lost
      BY <2>1, <3>1, <3>2, <3>3, <3>4, <3>5
    <3>. QED BY <3>6, <3>7, <3>8
  <2>3. WorkflowGraphIssues(g) \subseteq {"INVALID_START", "DISCONNECTED_NODE"}
    BY <2>2 DEF Issue
  <2>4. WorkflowGraphIssues(g) = {} <=> ~(Targets(g.edges, Start) = {}) /\ ~(ids \ Visited(g.edges) # {})
    BY <2>2 DEF Issue
  <2>. QED BY <2>3, <2>4, <1>11 DEF Valid
<1>. QED BY <1>10, <1>11

(* A graph without issues branches, joins and loops nowhere.               *)
LEMMA ValidIsSingle ==
  ASSUME NEW g, Wellformed(g), Valid(g)
  PROVE  Single(g.edges) /\ NoLoop(g.edges)
<1> DEFINE ids == Nodes(g)
           edges == {edge \in g.edges : edge[1] # edge[2]}
           order == ConnectedStepIds(edges)
<1>1. g.nodes # <<>>
  BY DEF Valid, WorkflowGraphIssues
<1>2. WorkflowGraphIssues(g) =
          UNION {
            Issue("DUPLICATE_KEY", Cardinality(ids) # Len(g.nodes)),
            Issue("RESERVED_KEY", Start \in ids),
            Issue("SELF_CONNECTION", edges # g.edges),
            Issue("UNKNOWN_NODE", ~(edges \subseteq (ids \cup {Start}) \X ids)),
            Issue("INVALID_START", Sources(edges, Start) # {} \/ Cardinality(Targets(edges, Start)) # 1),
            Issue("MULTIPLE_INPUTS", \E id \in ids : Cardinality(Sources(edges, id)) > 1),
            Issue("MULTIPLE_OUTPUTS", \E id \in ids : Cardinality(Targets(edges, id)) > 1),
            Issue("CYCLE", order # <<>> /\ Targets(edges, Last(order)) \cap ToSet(order) # {}),
            Issue("DISCONNECTED_NODE", ids \ Visited(edges) # {})}
  BY <1>1 DEF WorkflowGraphIssues
<1>3. /\ Issue("SELF_CONNECTION", edges # g.edges) = {}
      /\ Issue("INVALID_START", Sources(edges, Start) # {} \/ Cardinality(Targets(edges, Start)) # 1) = {}
      /\ Issue("MULTIPLE_INPUTS", \E id \in ids : Cardinality(Sources(edges, id)) > 1) = {}
      /\ Issue("MULTIPLE_OUTPUTS", \E id \in ids : Cardinality(Targets(edges, id)) > 1) = {}
  <2> HIDE DEF ids, edges, order
  <2>. QED BY <1>2 DEF Valid
<1>4. edges = g.edges
  BY <1>3 DEF Issue
<1>5. Cardinality(Targets(g.edges, Start)) = 1
  BY <1>3, <1>4 DEF Issue
<1>6. \A x \in ids : ~(Cardinality(Sources(g.edges, x)) > 1) /\ ~(Cardinality(Targets(g.edges, x)) > 1)
  BY <1>3, <1>4 DEF Issue
<1>7. \A x \in ids : \A y, z \in Sources(g.edges, x) : y = z
  BY <1>6, SidesFinite, AtMostOne
<1>8. \A x \in ids \cup {Start} : \A y, z \in Targets(g.edges, x) : y = z
  BY <1>5, <1>6, SidesFinite, AtMostOne
<1>11. \A e \in g.edges : e = <<e[1], e[2]>> /\ e[1] \in ids \cup {Start} /\ e[2] \in ids
  BY DEF Wellformed
<1>13. \A e \in g.edges : e[1] \in Sources(g.edges, e[2]) /\ e[2] \in Targets(g.edges, e[1])
  BY DEF Sources, Targets
<1> HIDE DEF ids, edges, order
<1>9. ASSUME NEW e \in g.edges, NEW f \in g.edges, e[2] = f[2] PROVE e[1] = f[1]
  <2>1. e[1] \in Sources(g.edges, e[2]) /\ f[1] \in Sources(g.edges, e[2]) /\ e[2] \in ids
    BY <1>9, <1>11, <1>13
  <2>. QED BY <2>1, <1>7
<1>10. ASSUME NEW e \in g.edges, NEW f \in g.edges, e[1] = f[1] PROVE e[2] = f[2]
  <2>1. /\ e[2] \in Targets(g.edges, e[1]) /\ f[2] \in Targets(g.edges, e[1])
        /\ e[1] \in ids \cup {Start}
    BY <1>10, <1>11, <1>13
  <2>. QED BY <2>1, <1>8
<1>12. Single(g.edges)
  BY <1>9, <1>10, <1>11 DEF Single
<1>. QED BY <1>4, <1>12 DEF NoLoop, edges

-------------------------------------------------------------------------------
(* Chains are what is valid and compiles                                   *)

(* The edges of a chain branch, join and loop nowhere.                     *)
LEMMA ChainIsSingle ==
  ASSUME NEW Id, Start \notin Id, NEW order \in Seq(Id), Distinct(order)
  PROVE  Single(BuildOrderedEdges(order)) /\ NoLoop(BuildOrderedEdges(order))
<1>1. \A i \in 1..Len(order) : order[i] \in Id /\ Before(order, i) # order[i]
  BY DEF Before, Distinct
<1>2. \A i, j \in 1..Len(order) : order[i] = order[j] \/ Before(order, i) = Before(order, j) => i = j
  BY DEF Before, Distinct
<1>3. \A e \in BuildOrderedEdges(order) :
        \E i \in 1..Len(order) : e = <<Before(order, i), order[i]>>
  BY OrderedEdges
<1>4. ASSUME NEW e \in BuildOrderedEdges(order), NEW f \in BuildOrderedEdges(order),
             e[1] = f[1] \/ e[2] = f[2]
      PROVE  e = f
  <2>1. PICK i \in 1..Len(order) : e = <<Before(order, i), order[i]>>
    BY <1>3
  <2>2. PICK j \in 1..Len(order) : f = <<Before(order, j), order[j]>>
    BY <1>3
  <2>3. i = j
    BY <1>2, <1>4, <2>1, <2>2
  <2>. QED BY <2>1, <2>2, <2>3
<1>5. NoLoop(BuildOrderedEdges(order))
  BY <1>1, <1>3 DEF NoLoop
<1>. QED BY <1>4, <1>5 DEF Single

(* A graph that is a chain is valid, and the walk finds the chain.         *)
LEMMA ChainIsValid ==
  ASSUME NEW g, Wellformed(g), g.nodes # <<>>,
         NEW order \in Seq(Nodes(g)), Distinct(order), IsChain(g, order)
  PROVE  Valid(g) /\ ConnectedStepIds(g.edges) = order
<1>1. Start \notin Nodes(g) /\ Len(g.nodes) \in Nat /\ g.edges = BuildOrderedEdges(order)
  BY NodesAre DEF IsChain
<1>2. ConnectedStepIds(g.edges) = order
  BY <1>1, WalkOfChain
<1>3. Single(g.edges) /\ NoLoop(g.edges)
  BY <1>1, ChainIsSingle
<1>4. Nodes(g) \subseteq Visited(g.edges)
  BY <1>2 DEF IsChain, Visited
<1>5. Targets(g.edges, Start) # {}
  <2>1. 1 \in 1..Len(order)
    BY <1>1 DEF IsChain, Wellformed
  <2>2. <<Start, order[1]>> \in g.edges
    <3>1. <<Before(order, 1), order[1]>> \in g.edges
      BY <1>1, <2>1, OrderedEdge
    <3>. QED BY <3>1 DEF Before
  <2>3. order[1] \in Targets(g.edges, Start)
    BY <2>2 DEF Targets
  <2>. QED BY <2>3
<1>. QED BY <1>2, <1>3, <1>4, <1>5, IssuesOfSingle

(* A valid graph is a chain, in the order of the walk.                     *)
LEMMA ValidIsChain ==
  ASSUME NEW g, Wellformed(g), Valid(g)
  PROVE  /\ g.nodes # <<>>
         /\ ConnectedStepIds(g.edges) \in Seq(Nodes(g))
         /\ Distinct(ConnectedStepIds(g.edges))
         /\ IsChain(g, ConnectedStepIds(g.edges))
<1> DEFINE order == ConnectedStepIds(g.edges)
<1>1. /\ g.edges \subseteq (Nodes(g) \cup {Start}) \X Nodes(g) /\ IsFiniteSet(g.edges)
      /\ Start \notin Nodes(g) /\ Cardinality(Nodes(g)) = Len(g.nodes)
  BY NodesAre DEF Wellformed
<1>2. order \in Seq(Nodes(g)) /\ IsPath(g.edges, order)
  <2>1. PICK E : E = g.edges
    OBVIOUS
  <2>2. ConnectedStepIds(E) \in Seq(Nodes(g)) /\ IsPath(E, ConnectedStepIds(E))
    BY <1>1, <2>1, ConnectedEnds
  <2>. QED BY <2>1, <2>2
<1>3. Single(g.edges) /\ g.nodes # <<>> /\ Nodes(g) \subseteq ToSet(order)
  BY ValidIsSingle, IssuesOfSingle DEF Visited
<1> HIDE DEF order
<1>4. Distinct(order)
  BY <1>2 DEF IsPath
<1>5. ToSet(order) = Nodes(g)
  BY <1>2, <1>3 DEF ToSet
<1>6. Len(order) = Len(g.nodes)
  <2>1. Len(order) \in Nat
    BY <1>2
  <2>2. IsFiniteSet(1..Len(order)) /\ Cardinality(1..Len(order)) = Len(order)
    BY <2>1, IntervalFinite
  <2>3. order \in Injection(1..Len(order), Nodes(g)) /\ order \in Surjection(1..Len(order), Nodes(g))
    BY <1>2, <1>4, <1>5 DEF Injection, IsInjective, Surjection, Distinct, ToSet
  <2>4. Cardinality(Nodes(g)) = Len(order)
    BY <2>2, <2>3, FS_Surjection
  <2>. QED BY <1>1, <2>4
<1>7. g.edges = BuildOrderedEdges(order)
  <2>1. \A i \in 1..Len(order) : <<Before(order, i), order[i]>> \in g.edges
    BY <1>2 DEF IsPath
  <2>2. ASSUME NEW e \in g.edges PROVE e \in BuildOrderedEdges(order)
    <3>1. e[2] \in ToSet(order)
      BY <1>1, <1>5
    <3>2. PICK i \in 1..Len(order) : e[2] = order[i]
      BY <3>1, <1>2 DEF ToSet
    <3>3. e = <<Before(order, i), order[i]>>
      BY <1>3, <2>1, <3>2 DEF Single
    <3>. QED BY <3>3, <1>2, OrderedEdge
  <2>3. \A e \in BuildOrderedEdges(order) : e \in g.edges
    BY <2>1, <1>2, OrderedEdge
  <2>. QED BY <2>2, <2>3
<1>. QED BY <1>2, <1>3, <1>4, <1>5, <1>6, <1>7 DEF IsChain, order

(* The step of a key.                                                      *)
LEMMA NodeOfId ==
  ASSUME NEW g, Wellformed(g), NEW i \in 1..Len(g.nodes)
  PROVE  NodeOf(g, g.nodes[i].id) = g.nodes[i]
<1> DEFINE I == {j \in 1..Len(g.nodes) : g.nodes[j].id = g.nodes[i].id}
<1>1. I = {i}
  BY DEF Wellformed
<1>2. Min(I) = i
  BY <1>1 DEF Min
<1>3. SelectInSeq(g.nodes, LAMBDA node : node.id = g.nodes[i].id) = i
  BY <1>1, <1>2 DEF SelectInSeq
<1>. QED BY <1>3 DEF NodeOf

(* The graph of a definition is the chain of its steps.                    *)
LEMMA LoadedIsWellformed ==
  ASSUME NEW steps \in Seq(Node), \A i, j \in 1..Len(steps) : steps[i].id = steps[j].id => i = j
  PROVE  /\ Wellformed(DefinitionToWorkflowGraph(steps))
         /\ Nodes(DefinitionToWorkflowGraph(steps)) = ToSet(Ids(steps))
         /\ Ids(steps) \in Seq(ToSet(Ids(steps)))
         /\ Distinct(Ids(steps))
         /\ IsChain(DefinitionToWorkflowGraph(steps), Ids(steps))
<1> DEFINE g == DefinitionToWorkflowGraph(steps)
           ids == Ids(steps)
<1>1. g.nodes = steps /\ g.edges = BuildOrderedEdges(ids) /\ Nodes(g) = ToSet(ids)
  BY DEF DefinitionToWorkflowGraph, Nodes
<1> HIDE DEF g
<1>2. /\ ids \in Seq(ToSet(ids)) /\ Len(ids) = Len(steps)
      /\ \A i \in 1..Len(ids) : ids[i] = steps[i].id
  <2>1. DOMAIN steps = 1..Len(steps) /\ Len(steps) \in Nat
    OBVIOUS
  <2>2. ids = [i \in 1..Len(steps) |-> steps[i].id]
    BY <2>1 DEF Ids
  <2> HIDE DEF ids
  <2>3. \A i \in 1..Len(steps) : ids[i] \in ToSet(ids)
    BY <2>2 DEF ToSet
  <2>4. ids \in Seq(ToSet(ids)) /\ Len(ids) = Len(steps)
    BY <2>1, <2>2, <2>3
  <2>. QED BY <2>2, <2>4
<1>3. \A i \in 1..Len(steps) : steps[i] \in Node
  OBVIOUS
<1>4. Start \notin ToSet(ids)
  BY <1>2, <1>3, GraphAssumption DEF ToSet, Node
<1> HIDE DEF ids
<1>5. Distinct(ids)
  BY <1>2 DEF Distinct
<1>6. BuildOrderedEdges(ids) \subseteq (ToSet(ids) \cup {Start}) \X ToSet(ids)
  BY <1>2, <1>4, <1>5, OrderedEdgesFinite
<1>. QED BY <1>1, <1>2, <1>5, <1>6 DEF Wellformed, IsChain, g, ids

(* A definition that has been loaded compiles to itself.                   *)
LEMMA LoadCompiles ==
  ASSUME NEW steps \in Seq(Node), \A i, j \in 1..Len(steps) : steps[i].id = steps[j].id => i = j
  PROVE  CompileWorkflowGraph(DefinitionToWorkflowGraph(steps)) = steps
<1> DEFINE g == DefinitionToWorkflowGraph(steps)
           ids == Ids(steps)
<1>1. g.nodes = steps /\ Wellformed(g) /\ ids \in Seq(Nodes(g)) /\ Distinct(ids) /\ IsChain(g, ids)
  BY LoadedIsWellformed DEF DefinitionToWorkflowGraph
<1>2. Len(steps) \in Nat /\ DOMAIN steps = 1..Len(steps)
  OBVIOUS
<1>3. DOMAIN ids = 1..Len(steps) /\ \A i \in 1..Len(steps) : ids[i] = steps[i].id
  BY <1>2 DEF Ids
<1> HIDE DEF g, ids
<1>4. CASE steps = <<>>
  <2>1. ~Valid(g)
    BY <1>1, <1>4 DEF Valid, WorkflowGraphIssues
  <2>. QED BY <2>1, <1>4 DEF CompileWorkflowGraph, g
<1>5. CASE steps # <<>>
  <2>1. Valid(g) /\ ConnectedStepIds(g.edges) = ids
    BY <1>1, <1>5, ChainIsValid
  <2>2. CompileWorkflowGraph(g) = [i \in DOMAIN ids |-> NodeOf(g, ids[i])]
    BY <2>1 DEF CompileWorkflowGraph
  <2>3. \A i \in 1..Len(steps) : NodeOf(g, ids[i]) = steps[i]
    BY <1>1, <1>3, NodeOfId
  <2>4. CompileWorkflowGraph(g) = [i \in 1..Len(steps) |-> steps[i]]
    BY <2>2, <2>3, <1>3
  <2>5. [i \in 1..Len(steps) |-> steps[i]] = steps
    BY <1>2
  <2>. QED BY <2>4, <2>5 DEF g
<1>. QED BY <1>4, <1>5

(* What a valid graph compiles to: its steps, in the order of the chain.   *)
LEMMA ValidCompiles ==
  ASSUME NEW g, Wellformed(g), Valid(g)
  PROVE  /\ CompileWorkflowGraph(g) \in Seq(Node)
         /\ CompileWorkflowGraph(g) # <<>>
         /\ Ids(CompileWorkflowGraph(g)) = ConnectedStepIds(g.edges)
         /\ ToSet(CompileWorkflowGraph(g)) = ToSet(g.nodes)
         /\ \A i, j \in 1..Len(CompileWorkflowGraph(g)) :
              CompileWorkflowGraph(g)[i].id = CompileWorkflowGraph(g)[j].id => i = j
<1> DEFINE order == ConnectedStepIds(g.edges)
           steps == CompileWorkflowGraph(g)
           n == Len(g.nodes)
<1>1. /\ g.nodes # <<>> /\ order \in Seq(Nodes(g)) /\ Distinct(order)
      /\ IsChain(g, order)
  BY ValidIsChain
<1>2. n \in Nat /\ DOMAIN g.nodes = 1..n /\ n # 0 /\ Nodes(g) = ToSet(Ids(g.nodes))
  BY <1>1, NodesAre DEF Wellformed
<1>3. Nodes(g) = {g.nodes[i].id : i \in 1..n}
  <2>1. Ids(g.nodes) = [i \in 1..n |-> g.nodes[i].id]
    BY <1>2 DEF Ids
  <2>2. ToSet(Ids(g.nodes)) = {g.nodes[i].id : i \in 1..n}
    BY <2>1 DEF ToSet
  <2>. QED BY <1>2, <2>2
<1>4. steps = [i \in DOMAIN order |-> NodeOf(g, order[i])]
  BY DEF CompileWorkflowGraph
<1> HIDE DEF order, steps
<1>5. Len(order) = n /\ DOMAIN order = 1..n /\ ToSet(order) = Nodes(g)
  BY <1>1, <1>2 DEF IsChain
<1>6. \A i \in 1..n : order[i] \in Nodes(g)
  BY <1>1, <1>5
<1>7. \A i \in 1..n : \E j \in 1..n : order[i] = g.nodes[j].id /\ steps[i] = g.nodes[j]
  <2> SUFFICES ASSUME NEW i \in 1..n
               PROVE \E j \in 1..n : order[i] = g.nodes[j].id /\ steps[i] = g.nodes[j]
    OBVIOUS
  <2>1. PICK j \in 1..n : order[i] = g.nodes[j].id
    BY <1>3, <1>6
  <2>2. steps[i] = NodeOf(g, order[i])
    BY <1>4, <1>5
  <2>. QED BY <2>1, <2>2, NodeOfId
<1>8. \A j \in 1..n : g.nodes[j] \in Node
  BY <1>2 DEF Wellformed
<1>9. steps \in Seq(Node) /\ Len(steps) = n
  <2>1. \A i \in 1..n : steps[i] \in Node
    BY <1>7, <1>8
  <2>2. steps \in [1..n -> Node]
    BY <1>4, <1>5, <2>1
  <2>. QED BY <2>2, <1>2
<1>10. Ids(steps) = order
  <2>1. \A i \in 1..n : steps[i].id = order[i]
    BY <1>7
  <2>2. Ids(steps) = [i \in 1..n |-> steps[i].id]
    BY <1>9 DEF Ids
  <2>3. order = [i \in 1..n |-> order[i]]
    BY <1>1, <1>5
  <2>. QED BY <2>1, <2>2, <2>3
<1>11. \A i, j \in 1..n : steps[i].id = steps[j].id => i = j
  <2>1. \A i \in 1..n : steps[i].id = order[i]
    BY <1>7
  <2>. QED BY <1>1, <1>5, <2>1 DEF Distinct
<1>12. ToSet(steps) = ToSet(g.nodes)
  <2>1. \A i \in 1..n : steps[i] \in ToSet(g.nodes)
    BY <1>2, <1>7 DEF ToSet
  <2>2. ASSUME NEW j \in 1..n PROVE \E i \in 1..n : steps[i] = g.nodes[j]
    <3>1. g.nodes[j].id \in ToSet(order)
      BY <1>3, <1>5
    <3>2. PICK i \in 1..n : order[i] = g.nodes[j].id
      BY <3>1, <1>5 DEF ToSet
    <3>3. PICK k \in 1..n : order[i] = g.nodes[k].id /\ steps[i] = g.nodes[k]
      BY <1>7
    <3>4. k = j
      BY <3>2, <3>3 DEF Wellformed
    <3>. QED BY <3>3, <3>4
  <2>3. \A j \in 1..n : g.nodes[j] \in ToSet(steps)
    BY <2>2, <1>9 DEF ToSet
  <2>4. ToSet(steps) = {steps[i] : i \in 1..n} /\ ToSet(g.nodes) = {g.nodes[j] : j \in 1..n}
    BY <1>2, <1>9 DEF ToSet
  <2>. QED BY <2>1, <2>3, <2>4
<1>13. steps # <<>>
  BY <1>2, <1>9
<1>. QED BY <1>9, <1>10, <1>11, <1>12, <1>13 DEF order, steps

(* The chains are what compiles.                                           *)
LEMMA WellformedCompiles ==
  ASSUME NEW g, Wellformed(g)
  PROVE  CompilesTheChain(g)
<1> DEFINE steps == CompileWorkflowGraph(g)
           order == ConnectedStepIds(g.edges)
<1>1. CASE Valid(g)
  <2>1. g.nodes # <<>> /\ order \in Seq(Nodes(g)) /\ Distinct(order) /\ IsChain(g, order)
    BY <1>1, ValidIsChain
  <2>2. /\ steps \in Seq(Node) /\ steps # <<>> /\ Ids(steps) = order
        /\ ToSet(steps) = ToSet(g.nodes)
        /\ \A i, j \in 1..Len(steps) : steps[i].id = steps[j].id => i = j
    BY <1>1, ValidCompiles
  <2>3. order \in SetToSeqs(Nodes(g))
    <3>1. Len(order) = Cardinality(Nodes(g))
      BY <2>1, NodesAre DEF IsChain
    <3>2. order \in [1..Len(order) -> Nodes(g)]
      BY <2>1
    <3>. QED BY <2>1, <3>1, <3>2 DEF SetToSeqs, Distinct
  <2>4. CompileWorkflowGraph(DefinitionToWorkflowGraph(steps)) = steps
    <3> HIDE DEF steps
    <3>. QED BY <2>2, LoadCompiles
  <2>. QED BY <2>1, <2>2, <2>3, <2>4 DEF CompilesTheChain
<1>2. CASE ~Valid(g)
  <2>1. steps = <<>>
    BY <1>2 DEF CompileWorkflowGraph
  <2>2. ASSUME g.nodes # <<>>, NEW ids \in SetToSeqs(Nodes(g)), IsChain(g, ids) PROVE FALSE
    <3>1. Cardinality(Nodes(g)) \in Nat
      BY NodesAre
    <3>2. ids \in Seq(Nodes(g)) /\ Distinct(ids)
      BY <3>1 DEF SetToSeqs, Distinct
    <3>. QED BY <1>2, <2>2, <3>2, ChainIsValid
  <2>. QED BY <2>1, <2>2 DEF CompilesTheChain
<1>. QED BY <1>1, <1>2

-------------------------------------------------------------------------------
(* Paths                                                                   *)

(* Along the edges the ranks rise: there is no cycle, not even apart from  *)
(* Start.                                                                  *)
Ranked(g) ==
  \E rank \in [Nodes(g) \cup {Start} -> Nat] : \A e \in g.edges : rank[e[1]] < rank[e[2]]

(* A set of paths, and a walk from Start along one of them.                *)
Paths(g) == Wellformed(g) /\ Single(g.edges) /\ Ranked(g)

(* No step is connected with itself where the ranks rise.                  *)
LEMMA RankedHasNoLoop ==
  ASSUME NEW g, Wellformed(g), Ranked(g)
  PROVE  NoLoop(g.edges)
<1>1. PICK rank \in [Nodes(g) \cup {Start} -> Nat] : \A e \in g.edges : rank[e[1]] < rank[e[2]]
  BY DEF Ranked
<1>2. \A e \in g.edges : rank[e[1]] \in Nat
  BY DEF Wellformed
<1>3. ASSUME NEW e \in g.edges PROVE e[1] # e[2]
  <2>1. rank[e[1]] < rank[e[2]] /\ rank[e[1]] \in Nat
    BY <1>1, <1>2
  <2>. QED BY <2>1
<1>. QED BY <1>3 DEF NoLoop

(* The places in a chain are ranks.                                        *)
LEMMA ChainIsRanked ==
  ASSUME NEW g, Wellformed(g), NEW order \in Seq(Nodes(g)), Distinct(order), IsChain(g, order)
  PROVE  Paths(g)
<1> DEFINE PlaceOf(x) == CHOOSE i \in 1..Len(order) : order[i] = x
           rank == [x \in Nodes(g) \cup {Start} |-> IF x = Start THEN 0 ELSE PlaceOf(x)]
<1>1. Start \notin Nodes(g) /\ g.edges = BuildOrderedEdges(order) /\ ToSet(order) = Nodes(g)
  BY NodesAre DEF IsChain
<1>2. \A i \in 1..Len(order) : PlaceOf(order[i]) = i
  BY DEF Distinct
<1>3. \A x \in Nodes(g) : \E i \in 1..Len(order) : order[i] = x
  BY <1>1 DEF ToSet
<1> HIDE DEF PlaceOf
<1>4. \A x \in Nodes(g) : PlaceOf(x) \in Nat
  BY <1>2, <1>3
<1>5. rank \in [Nodes(g) \cup {Start} -> Nat]
  BY <1>4
<1>6. \A i \in 1..Len(order) : order[i] \in Nodes(g) /\ order[i] # Start
  BY <1>1
<1>7. \A i \in 1..Len(order) : rank[order[i]] = i
  BY <1>2, <1>6
<1>8. rank[Start] = 0
  OBVIOUS
<1> HIDE DEF rank
<1>9. \A i \in 1..Len(order) : rank[Before(order, i)] = i - 1
  BY <1>7, <1>8 DEF Before
<1>10. ASSUME NEW e \in g.edges PROVE rank[e[1]] < rank[e[2]]
  <2>1. PICK i \in 1..Len(order) : e = <<Before(order, i), order[i]>>
    BY <1>1, OrderedEdge
  <2>2. rank[e[1]] = i - 1 /\ rank[e[2]] = i
    BY <2>1, <1>7, <1>9
  <2>. QED BY <2>2
<1>11. Ranked(g)
  BY <1>5, <1>10 DEF Ranked
<1>. QED BY <1>1, <1>11, ChainIsSingle DEF Paths

(* A valid graph is a chain, so a set of paths.                            *)
LEMMA ValidIsPaths ==
  ASSUME NEW g, Wellformed(g), Valid(g)
  PROVE  Paths(g)
BY ValidIsChain, ChainIsRanked

-------------------------------------------------------------------------------
(* What the walk has visited                                               *)

(* The walk of a set of paths visits different nodes, and has taken every  *)
(* edge that leaves one of them.                                           *)
LEMMA PathsWalk ==
  ASSUME NEW g, Wellformed(g), Single(g.edges)
  PROVE  LET order == ConnectedStepIds(g.edges)
             last == IF order = <<>> THEN Start ELSE Last(order) IN
           /\ order \in Seq(Nodes(g))
           /\ last \in Nodes(g) \cup {Start}
           /\ last = Start \/ last \in ToSet(order)
           /\ Targets(g.edges, last) = {}
           /\ \A e \in g.edges : e[2] \in ToSet(order) <=> e[1] \in ToSet(order) \cup {Start}
           /\ \A id \in ToSet(order) : \E e \in g.edges : e[2] = id
           /\ order # <<>> => Targets(g.edges, Start) # {}
<1> DEFINE order == ConnectedStepIds(g.edges)
           last == IF order = <<>> THEN Start ELSE Last(order)
           edges == g.edges
<1>1. /\ edges \subseteq (Nodes(g) \cup {Start}) \X Nodes(g) /\ IsFiniteSet(edges)
      /\ Start \notin Nodes(g)
  BY NodesAre DEF Wellformed
<1>2. order \in Seq(Nodes(g)) /\ IsPath(edges, order)
  <2> HIDE DEF edges
  <2>1. order = ConnectedStepIds(edges)
    BY DEF edges
  <2>. QED BY <1>1, <2>1, ConnectedEnds
<1>3. Targets(edges, last) = {}
  BY WalkDoesNotTurn DEF Following
<1>4. \A e, f \in edges : e[1] = f[1] \/ e[2] = f[2] => e = f
  BY DEF Single
<1> HIDE DEF order, edges
<1>5. last \in Nodes(g) \cup {Start} /\ (last = Start \/ last \in ToSet(order))
  <2>1. CASE order = <<>>
    BY <2>1
  <2>2. CASE order # <<>>
    <3>1. Len(order) \in 1..Len(order) /\ last = order[Len(order)]
      BY <2>2, <1>2 DEF Last
    <3>. QED BY <3>1, <1>2 DEF ToSet
  <2>. QED BY <2>1, <2>2
<1>6. \A i \in 1..Len(order) : <<Before(order, i), order[i]>> \in edges
  BY <1>2 DEF IsPath
<1>7. ToSet(order) = {order[i] : i \in 1..Len(order)}
  BY <1>2 DEF ToSet
<1>8. \A i \in 1..Len(order) : Before(order, i) \in ToSet(order) \cup {Start}
  BY <1>2, <1>7 DEF Before
<1>9. ASSUME NEW e \in edges, e[2] \in ToSet(order) PROVE e[1] \in ToSet(order) \cup {Start}
  <2>1. PICK i \in 1..Len(order) : e[2] = order[i]
    BY <1>7, <1>9
  <2>2. e = <<Before(order, i), order[i]>>
    BY <2>1, <1>4, <1>6
  <2>3. e[1] = Before(order, i)
    BY <2>2
  <2>. QED BY <2>3, <1>8
<1>10. ASSUME NEW e \in edges, e[1] \in ToSet(order) \cup {Start} PROVE e[2] \in ToSet(order)
  <2>1. e[2] \in Targets(edges, e[1])
    BY DEF Targets
  <2>2. e[1] # last
    BY <2>1, <1>3
  <2>3. \E i \in 1..Len(order) : e[1] = Before(order, i)
    <3>1. CASE e[1] = Start
      <4>1. order # <<>>
        BY <3>1, <2>2
      <4>2. 1 \in 1..Len(order)
        BY <4>1, <1>2
      <4>. QED BY <4>2, <3>1 DEF Before
    <3>2. CASE e[1] \in ToSet(order)
      <4>1. PICK j \in 1..Len(order) : e[1] = order[j]
        BY <3>2, <1>7
      <4>2. order # <<>> /\ Len(order) \in Nat
        BY <4>1, <1>2
      <4>3. j # Len(order)
        BY <4>1, <4>2, <2>2 DEF Last
      <4>4. j + 1 \in 1..Len(order) /\ Before(order, j + 1) = order[j]
        BY <4>1, <4>2, <4>3 DEF Before
      <4>. QED BY <4>1, <4>4
    <3>. QED BY <3>1, <3>2, <1>10
  <2>4. PICK i \in 1..Len(order) : e[1] = Before(order, i)
    BY <2>3
  <2>5. e = <<Before(order, i), order[i]>>
    BY <2>4, <1>4, <1>6
  <2>6. e[2] = order[i]
    BY <2>5
  <2>. QED BY <2>6, <1>7
<1>11. ASSUME NEW id \in ToSet(order) PROVE \E e \in edges : e[2] = id
  <2>1. PICK i \in 1..Len(order) : id = order[i]
    BY <1>7
  <2>2. <<Before(order, i), order[i]>> \in edges /\ <<Before(order, i), order[i]>>[2] = id
    BY <2>1, <1>6
  <2>. QED BY <2>2
<1>12. ASSUME order # <<>> PROVE Targets(edges, Start) # {}
  <2>1. 1 \in 1..Len(order)
    BY <1>2, <1>12
  <2>2. <<Start, order[1]>> \in edges
    BY <2>1, <1>6 DEF Before
  <2>3. order[1] \in Targets(edges, Start)
    BY <2>2 DEF Targets
  <2>. QED BY <2>3
<1>13. \A e \in edges : e[2] \in ToSet(order) <=> e[1] \in ToSet(order) \cup {Start}
  BY <1>9, <1>10
<1>. QED BY <1>2, <1>3, <1>5, <1>11, <1>12, <1>13 DEF order, edges

(* Every edge is known by its target.                                      *)
LEMMA EdgesByTarget ==
  ASSUME NEW g, Wellformed(g), Single(g.edges)
  PROVE  /\ Cardinality(g.edges) \in Nat
         /\ Cardinality(g.edges) <= Len(g.nodes)
         /\ Cardinality(g.edges) = Len(g.nodes) <=> \A id \in Nodes(g) : \E e \in g.edges : e[2] = id
<1> DEFINE f == [e \in g.edges |-> e[2]]
<1>1. f \in Injection(g.edges, Nodes(g))
  BY DEF Injection, IsInjective, Wellformed, Single
<1>2. IsFiniteSet(Nodes(g)) /\ Cardinality(Nodes(g)) = Len(g.nodes) /\ IsFiniteSet(g.edges)
  BY NodesAre
<1>3. f \in Surjection(g.edges, Nodes(g)) <=> \A id \in Nodes(g) : \E e \in g.edges : e[2] = id
  <2>1. f \in [g.edges -> Nodes(g)] /\ \A e \in g.edges : f[e] = e[2]
    BY DEF Wellformed
  <2> HIDE DEF f
  <2>. QED BY <2>1 DEF Surjection
<1> HIDE DEF f
<1>4. Cardinality(g.edges) <= Len(g.nodes)
  BY <1>1, <1>2, FS_Injection
<1>5. Cardinality(g.edges) = Cardinality(Nodes(g)) <=> f \in Surjection(g.edges, Nodes(g))
  BY <1>1, <1>2, FS_Injection
<1>6. Cardinality(g.edges) \in Nat
  BY <1>2, FS_CardinalityType
<1>. QED BY <1>2, <1>3, <1>4, <1>5, <1>6

(* Paths with an edge to every node are one path: a node that the walk has *)
(* missed would have one of lower rank before it that it has missed too.   *)
LEMMA FullIsValid ==
  ASSUME NEW g, Paths(g), g.nodes # <<>>, \A id \in Nodes(g) : \E e \in g.edges : e[2] = id
  PROVE  Valid(g)
<1> DEFINE order == ConnectedStepIds(g.edges)
           Missed == Nodes(g) \ ToSet(order)
<1>1. Wellformed(g) /\ Single(g.edges) /\ NoLoop(g.edges)
  BY RankedHasNoLoop DEF Paths
<1>2. PICK rank \in [Nodes(g) \cup {Start} -> Nat] : \A e \in g.edges : rank[e[1]] < rank[e[2]]
  BY DEF Paths, Ranked
<1>3. /\ \A e \in g.edges : e[2] \in ToSet(order) <=> e[1] \in ToSet(order) \cup {Start}
      /\ order # <<>> => Targets(g.edges, Start) # {}
  BY <1>1, PathsWalk
<1>4. \A e \in g.edges : e[1] \in Nodes(g) \cup {Start}
  BY <1>1 DEF Wellformed
<1> HIDE DEF order
<1>5. Missed = {}
  <2> SUFFICES ASSUME Missed # {} PROVE FALSE
    OBVIOUS
  <2> DEFINE T == {rank[id] : id \in Missed}
  <2>1. T \subseteq Nat /\ T # {}
    OBVIOUS
  <2>2. PICK x \in T : \A y \in T : x <= y
    <3> HIDE DEF T
    <3>. QED BY <2>1, LeastNatural
  <2>3. PICK id \in Missed : x = rank[id]
    OBVIOUS
  <2>4. \A other \in Missed : rank[id] <= rank[other]
    BY <2>2, <2>3
  <2>5. PICK e \in g.edges : e[2] = id
    OBVIOUS
  <2>6. rank[e[1]] < rank[id] /\ rank[e[1]] \in Nat /\ rank[id] \in Nat
    BY <2>5, <1>2, <1>4
  <2>7. e[1] \notin Missed
    BY <2>4, <2>6
  <2>8. e[1] \in ToSet(order) \cup {Start}
    BY <2>7, <1>4
  <2>. QED BY <2>5, <2>8, <1>3
<1>6. order # <<>>
  <2>1. Nodes(g) # {}
    <3>1. Len(g.nodes) \in Nat /\ Len(g.nodes) # 0 /\ IsFiniteSet(Nodes(g))
          /\ Cardinality(Nodes(g)) = Len(g.nodes)
      BY <1>1, NodesAre DEF Wellformed
    <3>. QED BY <3>1, FS_EmptySet
  <2>2. ToSet(<<>>) = {}
    BY DEF ToSet
  <2>. QED BY <2>1, <2>2, <1>5
<1>. QED BY <1>1, <1>3, <1>5, <1>6, IssuesOfSingle DEF Visited, order

(* Paths stay paths without some of their edges.                           *)
LEMMA FewerEdges ==
  ASSUME NEW g, NEW h, Paths(g), h.nodes = g.nodes, h.edges \subseteq g.edges
  PROVE  Paths(h)
<1>1. Nodes(h) = Nodes(g)
  BY DEF Nodes
<1>2. Wellformed(h) /\ Single(h.edges) /\ Ranked(h)
  BY <1>1 DEF Paths, Wellformed, Single, Ranked
<1>. QED BY <1>2 DEF Paths

(* A node without sources has no incoming edge.                            *)
LEMMA NoSources ==
  ASSUME NEW edges, NEW x
  PROVE  /\ Sources(edges, x) = {} => \A e \in edges : e[2] # x
         /\ Targets(edges, x) = {} => \A e \in edges : e[1] # x
<1>1. \A e \in edges : e[2] = x => e[1] \in Sources(edges, x)
  BY DEF Sources
<1>2. \A e \in edges : e[1] = x => e[2] \in Targets(edges, x)
  BY DEF Targets
<1>. QED BY <1>1, <1>2

(* Paths stay paths when the end of what the walk visits is connected with *)
(* the begin of another path.                                              *)
LEMMA JoinPaths ==
  ASSUME NEW g, NEW h, Paths(g), NEW last, NEW first \in Nodes(g),
         last = (IF ConnectedStepIds(g.edges) = <<>> THEN Start ELSE Last(ConnectedStepIds(g.edges))),
         Sources(g.edges, first) = {},
         h.nodes = g.nodes, h.edges = g.edges \cup {<<last, first>>}
  PROVE  Paths(h) /\ last # first
<1> DEFINE order == ConnectedStepIds(g.edges)
<1>1. Wellformed(g) /\ Single(g.edges)
  BY DEF Paths
<1>2. /\ last \in Nodes(g) \cup {Start} /\ (last = Start \/ last \in ToSet(order))
      /\ Targets(g.edges, last) = {}
      /\ \A e \in g.edges : e[2] \in ToSet(order) <=> e[1] \in ToSet(order) \cup {Start}
      /\ \A id \in ToSet(order) : \E e \in g.edges : e[2] = id
  BY <1>1, PathsWalk
<1>3. PICK rank \in [Nodes(g) \cup {Start} -> Nat] : \A e \in g.edges : rank[e[1]] < rank[e[2]]
  BY DEF Paths, Ranked
<1>4. Start \notin Nodes(g)
  BY <1>1, NodesAre
<1>5. Nodes(h) = Nodes(g)
  BY DEF Nodes
<1> HIDE DEF order
<1>16. \A e \in g.edges : e[2] # first
  BY NoSources
<1>6. first \notin ToSet(order) \cup {Start}
  BY <1>2, <1>4, <1>16
<1>7. Wellformed(h)
  BY <1>1, <1>2, <1>5 DEF Wellformed
<1>8. \A e \in g.edges : e[1] # last /\ e[2] # first
  BY <1>2, <1>16, NoSources
<1>9. Single(h.edges)
  BY <1>1, <1>8 DEF Single
<1> DEFINE Visits == ToSet(order) \cup {Start}
           higher == [id \in Nodes(g) \cup {Start} |->
                        IF id \in Visits THEN rank[id] ELSE rank[id] + rank[last] + 1]
<1>10. higher \in [Nodes(g) \cup {Start} -> Nat]
  BY <1>2, <1>3
<1>11. ASSUME NEW e \in g.edges PROVE higher[e[1]] < higher[e[2]]
  <2>1. e[1] \in Nodes(g) \cup {Start} /\ e[2] \in Nodes(g) /\ e[2] # Start
    BY <1>1, <1>4 DEF Wellformed
  <2>2. e[2] \in Visits <=> e[1] \in Visits
    BY <1>2, <2>1
  <2>3. rank[e[1]] \in Nat /\ rank[e[2]] \in Nat /\ rank[last] \in Nat /\ rank[e[1]] < rank[e[2]]
    BY <1>2, <1>3, <2>1
  <2> HIDE DEF Visits
  <2>. QED BY <2>1, <2>2, <2>3
<1>12. higher[last] < higher[first]
  <2>1. rank[last] \in Nat /\ rank[first] \in Nat
    BY <1>2, <1>3
  <2>2. last \in Visits /\ first \notin Visits
    BY <1>2, <1>6
  <2> HIDE DEF Visits
  <2>. QED BY <1>2, <2>1, <2>2
<1> HIDE DEF higher
<1>13. \A e \in h.edges : higher[e[1]] < higher[e[2]]
  BY <1>11, <1>12
<1>14. Ranked(h)
  BY <1>5, <1>10, <1>13 DEF Ranked
<1>15. last # first
  BY <1>2, <1>6
<1>. QED BY <1>7, <1>9, <1>14, <1>15 DEF Paths

(* A connection is accepted for a disconnected graph exactly if it is the  *)
(* only one that is missing.                                               *)
LEMMA OneConnectionMissing ==
  ASSUME NEW g, Paths(g), g.nodes # <<>>, ~Valid(g)
  PROVE  Cardinality(g.edges) = Len(g.nodes) - 1
           <=> \E source \in Nodes(g) \cup {Start}, target \in Nodes(g) :
                  source # target /\ Valid(Proposal(g, source, target))
<1>1. Wellformed(g) /\ Single(g.edges)
  BY DEF Paths
<1>2. /\ Cardinality(g.edges) \in Nat /\ Cardinality(g.edges) <= Len(g.nodes)
      /\ Cardinality(g.edges) = Len(g.nodes) <=> \A id \in Nodes(g) : \E e \in g.edges : e[2] = id
      /\ Len(g.nodes) \in Nat /\ IsFiniteSet(g.edges)
  BY <1>1, EdgesByTarget, NodesAre
<1>3. Cardinality(g.edges) # Len(g.nodes)
  BY <1>2, FullIsValid
<1>4. \A source, target : Proposal(g, source, target) = ReplaceConnection(g, source, target)
  BY DEF Proposal
<1>5. ASSUME Cardinality(g.edges) = Len(g.nodes) - 1
      PROVE  \E source \in Nodes(g) \cup {Start}, target \in Nodes(g) :
               source # target /\ Valid(Proposal(g, source, target))
  <2>1. PICK first \in Nodes(g) : ~ \E e \in g.edges : e[2] = first
    BY <1>2, <1>3
  <2> DEFINE last == IF ConnectedStepIds(g.edges) = <<>> THEN Start ELSE Last(ConnectedStepIds(g.edges))
             h == ReplaceConnection(g, last, first)
  <2>2. Sources(g.edges, first) = {}
    BY <2>1 DEF Sources
  <2>3. Targets(g.edges, last) = {} /\ last \in Nodes(g) \cup {Start}
    BY <1>1, PathsWalk
  <2>4. last = (IF ConnectedStepIds(g.edges) = <<>> THEN Start ELSE Last(ConnectedStepIds(g.edges)))
    OBVIOUS
  <2> HIDE DEF last
  <2>5. \A e \in g.edges : e[1] # last /\ e[2] # first
    BY <2>1, <2>3 DEF Targets
  <2>6. h.nodes = g.nodes /\ h.edges = g.edges \cup {<<last, first>>}
    BY <2>5 DEF ReplaceConnection
  <2> HIDE DEF h
  <2>7. Paths(h) /\ last # first
    BY <2>2, <2>4, <2>6, JoinPaths
  <2>8. Cardinality(h.edges) = Len(h.nodes)
    <3>1. <<last, first>> \notin g.edges
      BY <2>5
    <3>2. Cardinality(g.edges \cup {<<last, first>>}) = Cardinality(g.edges) + 1
      BY <1>2, <3>1, FS_AddElement
    <3>. QED BY <1>2, <1>5, <2>6, <3>2
  <2>9. \A id \in Nodes(h) : \E e \in h.edges : e[2] = id
    BY <2>7, <2>8, EdgesByTarget DEF Paths
  <2>10. Valid(h)
    BY <2>6, <2>7, <2>9, FullIsValid
  <2>11. Valid(Proposal(g, last, first))
    BY <2>10, <1>4 DEF h
  <2>. QED BY <2>3, <2>7, <2>11
<1>6. ASSUME NEW source \in Nodes(g) \cup {Start}, NEW target \in Nodes(g), source # target,
             Valid(Proposal(g, source, target))
      PROVE  Cardinality(g.edges) = Len(g.nodes) - 1
  <2> DEFINE h == ReplaceConnection(g, source, target)
             others == {e \in g.edges : e[1] # source /\ e[2] # target}
  <2>1. h.nodes = g.nodes /\ h.edges = others \cup {<<source, target>>} /\ Nodes(h) = Nodes(g)
    BY DEF ReplaceConnection, Nodes
  <2>2. Valid(h)
    BY <1>4, <1>6
  <2> HIDE DEF h
  <2>3. Wellformed(h)
    BY <1>1, <2>1 DEF Wellformed
  <2>4. Cardinality(h.edges) = Len(h.nodes)
    <3> DEFINE order == ConnectedStepIds(h.edges)
    <3>1. order \in Seq(Nodes(h)) /\ Distinct(order) /\ IsChain(h, order) /\ Start \notin Nodes(h)
      BY <2>2, <2>3, ValidIsChain, NodesAre
    <3> HIDE DEF order
    <3>2. Cardinality(BuildOrderedEdges(order)) = Len(order)
      BY <3>1, OrderedEdgesFinite
    <3>. QED BY <3>1, <3>2 DEF IsChain
  <2>5. others \subseteq g.edges /\ <<source, target>> \notin others
    OBVIOUS
  <2> HIDE DEF others
  <2>6. IsFiniteSet(others) /\ Cardinality(others) <= Cardinality(g.edges)
    BY <1>2, <2>5, FS_Subset
  <2>7. Cardinality(others \cup {<<source, target>>}) = Cardinality(others) + 1
        /\ Cardinality(others) \in Nat
    BY <2>5, <2>6, FS_AddElement, FS_CardinalityType
  <2>8. Cardinality(others) = Len(g.nodes) - 1
    BY <2>1, <2>4, <2>7
  <2>. QED BY <1>2, <1>3, <2>6, <2>8
<1>. QED BY <1>5, <1>6

-------------------------------------------------------------------------------
(* What Kept returns                                                       *)

(* Kept: the recursion is well defined.                                    *)
IsKept(kept, seq, set, m) ==
  kept = [i \in 0..m |-> IF i = 0 THEN <<>> ELSE Keep(kept[i - 1], seq[i], set)]

(* The values of the recursion.                                            *)
LEMMA KeptStep ==
  ASSUME NEW kept, NEW seq, NEW set, NEW m \in Nat, IsKept(kept, seq, set, m)
  PROVE  /\ kept[0] = <<>>
         /\ \A i \in 1..m :
              kept[i] = Keep(kept[i - 1], seq[i], set)
<1> DEFINE V == [i \in 0..m |-> IF i = 0 THEN <<>> ELSE Keep(kept[i - 1], seq[i], set)]
<1>1. /\ V[0] = <<>>
      /\ \A i \in 1..m :
           V[i] = Keep(kept[i - 1], seq[i], set)
  OBVIOUS
<1>2. kept = V
  BY DEF IsKept
<1> HIDE DEF V
<1>. QED BY <1>1, <1>2

(* There are such values.                                                  *)
LEMMA KeptExists ==
  ASSUME NEW seq, NEW set, NEW m \in Nat
  PROVE  \E kept : IsKept(kept, seq, set, m)
<1> DEFINE T == {n \in Nat : ~ \E kept : IsKept(kept, seq, set, n)}
<1>1. SUFFICES ASSUME T # {} PROVE FALSE
  OBVIOUS
<1>2. PICK x \in T : \A y \in T : x <= y
  BY <1>1, LeastNatural
<1>3. CASE x = 0
  <2> DEFINE v == [i \in 0..0 |-> <<>>]
  <2>1. v = [i \in 0..0 |-> IF i = 0 THEN <<>> ELSE Keep(v[i - 1], seq[i], set)]
    OBVIOUS
  <2> HIDE DEF v
  <2>. QED BY <2>1, <1>2, <1>3 DEF IsKept
<1>4. CASE x # 0
  <2> DEFINE p == x - 1
  <2>1. p \in Nat /\ p \notin T /\ x = p + 1
    BY <1>2, <1>4
  <2> HIDE DEF p
  <2>2. PICK kept : IsKept(kept, seq, set, p)
    BY <2>1
  <2> DEFINE v == [i \in 0..x |->
                     IF i = x THEN Keep(kept[p], seq[x], set)
                     ELSE kept[i]]
  <2>3. \A i \in 1..p :
          kept[i] = Keep(kept[i - 1], seq[i], set)
    BY <2>2, <2>1, KeptStep
  <2>4. kept[0] = <<>>
    BY <2>2, <2>1, KeptStep
  <2>5. \A i \in 0..x :
          v[i] = IF i = 0 THEN <<>>
                 ELSE Keep(v[i - 1], seq[i], set)
    <3> SUFFICES ASSUME NEW i \in 0..x
                 PROVE v[i] = IF i = 0 THEN <<>>
                              ELSE Keep(v[i - 1], seq[i], set)
      OBVIOUS
    <3>1. CASE i = 0
      BY <3>1, <2>4, <2>1
    <3>2. CASE i = x
      BY <3>2, <2>1
    <3>3. CASE i # 0 /\ i # x
      <4>1. i \in 1..p /\ i - 1 \in 0..x /\ i - 1 # x
        BY <3>3, <2>1
      <4>. QED BY <4>1, <3>3, <2>3
    <3>. QED BY <3>1, <3>2, <3>3
  <2>6. v = [i \in 0..x |-> IF i = 0 THEN <<>> ELSE Keep(v[i - 1], seq[i], set)]
    BY <2>5
  <2> HIDE DEF v
  <2>. QED BY <2>6, <1>2 DEF IsKept
<1>. QED BY <1>3, <1>4

(* Kept is the last of them.                                               *)
LEMMA KeptIsLast ==
  ASSUME NEW S, NEW seq \in Seq(S), NEW set
  PROVE  \E kept : IsKept(kept, seq, set, Len(seq)) /\ Kept(seq, set) = kept[Len(seq)]
<1> DEFINE m == Len(seq)
<1>1. m \in Nat
  OBVIOUS
<1> HIDE DEF m
<1> DEFINE w == CHOOSE w : w = [i \in 0..m |-> IF i = 0 THEN <<>> ELSE Keep(w[i - 1], seq[i], set)]
<1>2. \E other : other = [i \in 0..m |-> IF i = 0 THEN <<>> ELSE Keep(other[i - 1], seq[i], set)]
  <2>1. PICK k : IsKept(k, seq, set, m)
    BY <1>1, KeptExists
  <2>2. k = [i \in 0..m |-> IF i = 0 THEN <<>> ELSE Keep(k[i - 1], seq[i], set)]
    BY <2>1 DEF IsKept
  <2>. QED BY <2>2
<1>3. w = [i \in 0..m |-> IF i = 0 THEN <<>> ELSE Keep(w[i - 1], seq[i], set)]
  BY <1>2, Zenon
<1>4. Kept(seq, set) = w[m]
  BY DEF Kept, m
<1> HIDE DEF w
<1>5. IsKept(w, seq, set, m)
  BY <1>3 DEF IsKept
<1>. QED BY <1>4, <1>5 DEF m

(* kept has the elements of seq[1], ..., seq[n] that are in set, the i-th  *)
(* of them from the position place[i].                                     *)
Picks(place, kept, seq, set, n) ==
  /\ kept \in Seq(ToSet(seq))
  /\ place \in [1..Len(kept) -> 1..n]
  /\ \A i, j \in 1..Len(kept) : i < j => place[i] < place[j]
  /\ \A i \in 1..Len(kept) : kept[i] = seq[place[i]] /\ kept[i] \in set
  /\ \A j \in 1..n : seq[j] \in set => \E i \in 1..Len(kept) : place[i] = j

(* A selection goes on with the next element.                              *)
LEMMA PickAnother ==
  ASSUME NEW S, NEW seq \in Seq(S), NEW set, NEW n \in Nat, n + 1 <= Len(seq),
         NEW kept, NEW place, Picks(place, kept, seq, set, n), seq[n + 1] \in set
  PROVE  \E other : Picks(other, Append(kept, seq[n + 1]), seq, set, n + 1)
<1> DEFINE more == Append(kept, seq[n + 1])
           other == [i \in 1..Len(kept) + 1 |-> IF i = Len(kept) + 1 THEN n + 1 ELSE place[i]]
<1>1. /\ kept \in Seq(ToSet(seq)) /\ place \in [1..Len(kept) -> 1..n]
      /\ \A i, j \in 1..Len(kept) : i < j => place[i] < place[j]
      /\ \A i \in 1..Len(kept) : kept[i] = seq[place[i]] /\ kept[i] \in set
      /\ \A j \in 1..n : seq[j] \in set => \E i \in 1..Len(kept) : place[i] = j
  BY DEF Picks
<1>2. seq[n + 1] \in ToSet(seq) /\ Len(kept) \in Nat
  BY <1>1 DEF ToSet
<1>3. /\ more \in Seq(ToSet(seq)) /\ Len(more) = Len(kept) + 1
      /\ \A i \in 1..Len(kept) : more[i] = kept[i]
      /\ more[Len(kept) + 1] = seq[n + 1]
  BY <1>1, <1>2
<1>9. \A i \in 1..Len(kept) : place[i] \in 1..n /\ i # Len(kept) + 1
  BY <1>1, <1>2
<1>10. \A i \in 1..Len(kept) + 1 : i \in 1..Len(kept) \/ i = Len(kept) + 1
  BY <1>2
<1>4. /\ other \in [1..Len(kept) + 1 -> 1..n + 1]
      /\ \A i \in 1..Len(kept) : other[i] = place[i] /\ other[i] \in 1..n
      /\ other[Len(kept) + 1] = n + 1
  <2>1. \A i \in 1..Len(kept) + 1 :
          (IF i = Len(kept) + 1 THEN n + 1 ELSE place[i]) \in 1..n + 1
    BY <1>9, <1>10
  <2>2. other \in [1..Len(kept) + 1 -> 1..n + 1]
    BY <2>1
  <2>3. other[Len(kept) + 1] = n + 1
    BY <1>2
  <2>4. \A i \in 1..Len(kept) : other[i] = place[i]
    BY <1>9, <1>2
  <2>. QED BY <2>2, <2>3, <2>4, <1>9
<1> HIDE DEF more, other
<1>5. ASSUME NEW i \in 1..Len(more), NEW j \in 1..Len(more), i < j PROVE other[i] < other[j]
  <2>1. i \in 1..Len(kept)
    BY <1>2, <1>3, <1>5
  <2>2. CASE j = Len(kept) + 1
    BY <2>1, <2>2, <1>4
  <2>3. CASE j \in 1..Len(kept)
    BY <2>1, <2>3, <1>1, <1>4, <1>5
  <2>. QED BY <2>2, <2>3, <1>3, <1>10
<1>6. ASSUME NEW i \in 1..Len(more) PROVE more[i] = seq[other[i]] /\ more[i] \in set
  <2>1. CASE i = Len(kept) + 1
    BY <2>1, <1>3, <1>4
  <2>2. CASE i \in 1..Len(kept)
    BY <2>2, <1>1, <1>3, <1>4
  <2>. QED BY <2>1, <2>2, <1>3, <1>10
<1>7. ASSUME NEW j \in 1..n + 1, seq[j] \in set PROVE \E i \in 1..Len(more) : other[i] = j
  <2>1. CASE j = n + 1
    BY <2>1, <1>2, <1>3, <1>4
  <2>2. CASE j # n + 1
    <3>1. PICK i \in 1..Len(kept) : place[i] = j
      BY <2>2, <1>1, <1>7
    <3>2. i \in 1..Len(more) /\ other[i] = j
      BY <3>1, <1>2, <1>3, <1>4
    <3>. QED BY <3>2
  <2>. QED BY <2>1, <2>2
<1>8. Picks(other, more, seq, set, n + 1)
  BY <1>3, <1>4, <1>5, <1>6, <1>7 DEF Picks
<1>. QED BY <1>8 DEF more

(* What Kept returns.                                                      *)
LEMMA KeptPicks ==
  ASSUME NEW S, NEW seq \in Seq(S), NEW set
  PROVE  \E place : Picks(place, Kept(seq, set), seq, set, Len(seq))
<1>1. PICK kept : IsKept(kept, seq, set, Len(seq)) /\ Kept(seq, set) = kept[Len(seq)]
  BY KeptIsLast
<1> DEFINE T == {n \in 0..Len(seq) : ~ \E place : Picks(place, kept[n], seq, set, n)}
<1>2. Len(seq) \in Nat
  OBVIOUS
<1>3. SUFFICES ASSUME T # {} PROVE FALSE
  BY <1>1, <1>2
<1>4. PICK x \in T : \A y \in T : x <= y
  <2>1. T \subseteq Nat
    OBVIOUS
  <2> HIDE DEF T
  <2>. QED BY <2>1, <1>3, LeastNatural
<1>5. /\ kept[0] = <<>>
      /\ \A i \in 1..Len(seq) :
           kept[i] = Keep(kept[i - 1], seq[i], set)
  BY <1>1, <1>2, KeptStep
<1>6. CASE x = 0
  <2> DEFINE none == [i \in 1..0 |-> 0]
  <2>1. Picks(none, <<>>, seq, set, 0)
    BY DEF Picks
  <2>. QED BY <2>1, <1>4, <1>5, <1>6
<1>7. CASE x # 0
  <2> DEFINE p == x - 1
  <2>1. x \in 1..Len(seq) /\ p \in Nat /\ p \in 0..Len(seq) /\ x = p + 1 /\ p \notin T
        /\ p + 1 <= Len(seq)
    BY <1>4, <1>7
  <2>2. kept[x] = Keep(kept[p], seq[x], set)
    BY <2>1, <1>5
  <2> HIDE DEF p
  <2>6. kept[x] = IF seq[x] \in set THEN Append(kept[p], seq[x]) ELSE kept[p]
    BY <2>2 DEF Keep
  <2>3. PICK place : Picks(place, kept[p], seq, set, p)
    BY <2>1
  <2>4. CASE seq[x] \in set
    <3>1. \E other : Picks(other, Append(kept[p], seq[p + 1]), seq, set, p + 1)
      BY <2>1, <2>3, <2>4, PickAnother
    <3>. QED BY <3>1, <2>1, <2>6, <2>4, <1>4
  <2>5. CASE seq[x] \notin set
    <3>1. place \in [1..Len(kept[p]) -> 1..x]
      BY <2>1, <2>3 DEF Picks
    <3>2. \A j \in 1..x : seq[j] \in set => j \in 1..p
      BY <2>1, <2>5
    <3>3. Picks(place, kept[p], seq, set, x)
      BY <3>1, <3>2, <2>3 DEF Picks
    <3>. QED BY <3>3, <2>6, <2>5, <1>4
  <2>. QED BY <2>4, <2>5
<1>. QED BY <1>6, <1>7

(* The parts of it that most uses need.                                    *)
LEMMA KeptIs ==
  ASSUME NEW S, NEW seq \in Seq(S), NEW set
  PROVE  /\ Kept(seq, set) \in Seq(S)
         /\ ToSet(Kept(seq, set)) = ToSet(seq) \cap set
         /\ Distinct(seq) => Distinct(Kept(seq, set))
<1>1. PICK place : Picks(place, Kept(seq, set), seq, set, Len(seq))
  BY KeptPicks
<1> DEFINE kept == Kept(seq, set)
           n == Len(seq)
<1>2. /\ kept \in Seq(ToSet(seq)) /\ place \in [1..Len(kept) -> 1..n]
      /\ \A i, j \in 1..Len(kept) : i < j => place[i] < place[j]
      /\ \A i \in 1..Len(kept) : kept[i] = seq[place[i]] /\ kept[i] \in set
      /\ \A j \in 1..n : seq[j] \in set => \E i \in 1..Len(kept) : place[i] = j
  BY <1>1 DEF Picks
<1> HIDE DEF kept
<1>3. n \in Nat /\ DOMAIN seq = 1..n /\ ToSet(seq) \subseteq S
  BY DEF ToSet
<1> HIDE DEF n
<1>4. kept \in Seq(S)
  <2>1. \A i \in 1..Len(kept) : kept[i] \in S
    BY <1>2, <1>3
  <2>2. kept \in [1..Len(kept) -> S] /\ Len(kept) \in Nat
    BY <1>2, <2>1
  <2>. QED BY <2>2
<1>5. ToSet(kept) = {kept[i] : i \in 1..Len(kept)} /\ ToSet(seq) = {seq[i] : i \in 1..n}
  BY <1>3, <1>4 DEF ToSet
<1>6. \A x \in ToSet(kept) : x \in ToSet(seq) \cap set
  BY <1>2, <1>5
<1>7. ASSUME NEW x \in ToSet(seq), x \in set PROVE x \in ToSet(kept)
  <2>1. PICK j \in 1..n : x = seq[j]
    BY <1>5
  <2>2. PICK i \in 1..Len(kept) : place[i] = j
    BY <1>2, <1>7, <2>1
  <2>. QED BY <1>2, <1>5, <2>1, <2>2
<1>8. ASSUME Distinct(seq) PROVE Distinct(kept)
  <2> SUFFICES ASSUME NEW i \in 1..Len(kept), NEW j \in 1..Len(kept), kept[i] = kept[j]
               PROVE i = j
    BY DEF Distinct
  <2>1. place[i] \in 1..n /\ place[j] \in 1..n /\ seq[place[i]] = seq[place[j]]
    BY <1>2
  <2>2. place[i] = place[j]
    BY <2>1, <1>8 DEF Distinct, n
  <2>3. ~(i < j) /\ ~(j < i)
    BY <1>2, <2>1, <2>2
  <2>4. Len(kept) \in Nat
    BY <1>4
  <2>. QED BY <2>3, <2>4
<1>. QED BY <1>4, <1>6, <1>7, <1>8 DEF kept

-------------------------------------------------------------------------------
(* What the edits make of the paths                                        *)

(* Where a new step is appended: there are more places than edges can      *)
(* leave.                                                                  *)
LEMMA NodesAreIds ==
  ASSUME NEW g, g.nodes \in Seq(Node)
  PROVE  /\ Nodes(g) = {g.nodes[i].id : i \in 1..Len(g.nodes)}
         /\ Nodes(g) = {node.id : node \in ToSet(g.nodes)}
<1> DEFINE n == Len(g.nodes)
<1>1. DOMAIN g.nodes = 1..n /\ Nodes(g) = ToSet(Ids(g.nodes))
  BY DEF Nodes
<1>2. Ids(g.nodes) = [i \in 1..n |-> g.nodes[i].id]
  BY <1>1 DEF Ids
<1> HIDE DEF n
<1>3. ToSet(Ids(g.nodes)) = {g.nodes[i].id : i \in 1..n}
  BY <1>2 DEF ToSet
<1>4. {g.nodes[i].id : i \in 1..n} = {node.id : node \in ToSet(g.nodes)}
  BY <1>1 DEF ToSet
<1>. QED BY <1>1, <1>3, <1>4 DEF n

(* The tail is a node that no edge leaves.                                 *)
LEMMA TailHasNoTarget ==
  ASSUME NEW g, Wellformed(g), Single(g.edges)
  PROVE  FindTailNodeId(g) \in Nodes(g) \cup {Start} /\ Targets(g.edges, FindTailNodeId(g)) = {}
<1> DEFINE n == Len(g.nodes)
           I == {i \in 1..n : Targets(g.edges, g.nodes[i].id) = {}}
           tail == IF I # {} THEN Min(I) ELSE 0
<1>1. n \in Nat /\ DOMAIN g.nodes = 1..n /\ Nodes(g) = ToSet(Ids(g.nodes))
  BY NodesAre DEF Wellformed
<1>2. Nodes(g) = {g.nodes[i].id : i \in 1..n}
  BY NodesAreIds DEF Wellformed
<1>3. SelectInSeq(g.nodes, LAMBDA node : Targets(g.edges, node.id) = {}) = tail
  BY DEF SelectInSeq
<1>4. FindTailNodeId(g) = IF tail = 0 THEN Start ELSE g.nodes[tail].id
  BY <1>3 DEF FindTailNodeId
<1>5. CASE I # {}
  <2>1. \E x \in I : \A y \in I : x <= y
    <3>1. I \subseteq Nat
      OBVIOUS
    <3> HIDE DEF I
    <3>. QED BY <3>1, <1>5, LeastNatural
  <2>2. Min(I) \in I
    <3> HIDE DEF I
    <3>. QED BY <2>1 DEF Min
  <2>3. tail = Min(I)
    BY <1>5
  <2>4. Min(I) \in 1..n /\ Targets(g.edges, g.nodes[Min(I)].id) = {}
    BY <2>2
  <2> HIDE DEF tail, I
  <2>5. FindTailNodeId(g) = g.nodes[Min(I)].id
    BY <2>3, <2>4, <1>4
  <2>. QED BY <2>4, <2>5, <1>2
<1>6. CASE I = {}
  <2>1. FindTailNodeId(g) = Start
    BY <1>4, <1>6
  <2>2. \A id \in Nodes(g) : Targets(g.edges, id) # {}
    BY <1>2, <1>6
  <2>3. ASSUME Targets(g.edges, Start) # {} PROVE FALSE
    <3> DEFINE f == [x \in Nodes(g) \cup {Start} |-> CHOOSE y : y \in Targets(g.edges, x)]
    <3>1. \A x \in Nodes(g) \cup {Start} : \E y : y \in Targets(g.edges, x)
      BY <2>2, <2>3
    <3>2. \A x \in Nodes(g) \cup {Start} : f[x] \in Targets(g.edges, x)
      BY <3>1
    <3>3. \A x : Targets(g.edges, x) \subseteq Nodes(g)
      BY DEF Targets, Wellformed
    <3>4. f \in [Nodes(g) \cup {Start} -> Nodes(g)]
      BY <3>2, <3>3
    <3> HIDE DEF f
    <3>5. /\ IsFiniteSet(Nodes(g)) /\ IsFiniteSet(Nodes(g) \cup {Start})
          /\ Cardinality(Nodes(g)) < Cardinality(Nodes(g) \cup {Start})
      <4>1. IsFiniteSet(Nodes(g)) /\ Start \notin Nodes(g)
        BY NodesAre
      <4>2. Cardinality(Nodes(g)) \in Nat
        BY <4>1, FS_CardinalityType
      <4>3. PICK N : N = Nodes(g)
        OBVIOUS
      <4>4. IsFiniteSet(N \cup {Start}) /\ Cardinality(N \cup {Start}) = Cardinality(N) + 1
        BY <4>1, <4>3, FS_AddElement
      <4>. QED BY <4>1, <4>2, <4>3, <4>4
    <3>6. PICK x \in Nodes(g) \cup {Start}, y \in Nodes(g) \cup {Start} : x # y /\ f[x] = f[y]
      BY <3>4, <3>5, FS_PigeonHole
    <3>7. <<x, f[x]>> \in g.edges /\ <<y, f[y]>> \in g.edges
      <4>1. \A e \in g.edges : e = <<e[1], e[2]>>
        BY DEF Wellformed
      <4>. QED BY <3>2, <4>1 DEF Targets
    <3>. QED BY <3>6, <3>7 DEF Single
  <2>. QED BY <2>1, <2>3
<1>. QED BY <1>5, <1>6

(* A new step after the tail prolongs a path, or begins the one from       *)
(* Start.                                                                  *)
LEMMA AppendKeepsPaths ==
  ASSUME NEW g, Paths(g), NEW step \in Node, step.id \notin Nodes(g)
  PROVE  Paths(AppendStepToGraph(g, step))
<1> DEFINE h == AppendStepToGraph(g, step)
           tail == FindTailNodeId(g)
           n == Len(g.nodes)
           id == step.id
<1>1. Wellformed(g) /\ Single(g.edges)
  BY DEF Paths
<1>2. tail \in Nodes(g) \cup {Start} /\ \A e \in g.edges : e[1] # tail
  BY <1>1, TailHasNoTarget, NoSources
<1>3. /\ g.nodes \in Seq(Node) /\ n \in Nat /\ id # Start
      /\ g.edges \subseteq (Nodes(g) \cup {Start}) \X Nodes(g)
      /\ \A i, j \in 1..n : g.nodes[i].id = g.nodes[j].id => i = j
      /\ Start \notin Nodes(g)
  BY <1>1, GraphAssumption, NodesAre DEF Wellformed, Node
<1>4. Nodes(g) = {g.nodes[i].id : i \in 1..n}
  BY <1>3, NodesAreIds
<1>5. h.nodes = Append(g.nodes, step) /\ h.edges = g.edges \cup {<<tail, id>>}
  BY DEF AppendStepToGraph
<1> HIDE DEF h, tail
<1>6. /\ h.nodes \in Seq(Node) /\ Len(h.nodes) = n + 1 /\ h.nodes[n + 1].id = id
      /\ \A i \in 1..n : h.nodes[i] = g.nodes[i]
  BY <1>3, <1>5
<1>7. \A i \in 1..n + 1 : i \in 1..n \/ i = n + 1
  BY <1>3
<1>8. Nodes(h) = Nodes(g) \cup {id}
  <2>2. Nodes(h) = {h.nodes[i].id : i \in 1..n + 1}
    BY <1>6, NodesAreIds
  <2>3. \A i \in 1..n + 1 : h.nodes[i].id \in Nodes(g) \cup {id}
    BY <1>4, <1>6, <1>7
  <2>4. \A i \in 1..n : g.nodes[i].id = h.nodes[i].id /\ i \in 1..n + 1
    BY <1>3, <1>6
  <2>5. n + 1 \in 1..n + 1
    BY <1>3
  <2>. QED BY <2>2, <2>3, <2>4, <2>5, <1>4, <1>6
<1>9. \A i \in 1..n : h.nodes[i].id \in Nodes(g)
  BY <1>4, <1>6
<1>10. ASSUME NEW i \in 1..n + 1, NEW j \in 1..n + 1, h.nodes[i].id = h.nodes[j].id PROVE i = j
  BY <1>3, <1>6, <1>7, <1>9, <1>10
<1>11. Wellformed(h)
  <2>1. h.edges \subseteq (Nodes(h) \cup {Start}) \X Nodes(h)
    BY <1>2, <1>3, <1>5, <1>8
  <2>. QED BY <1>6, <1>10, <2>1 DEF Wellformed
<1>12. \A e \in g.edges : e[2] # id
  BY <1>3
<1>13. Single(h.edges)
  BY <1>1, <1>2, <1>5, <1>12 DEF Single
<1>14. PICK rank \in [Nodes(g) \cup {Start} -> Nat] : \A e \in g.edges : rank[e[1]] < rank[e[2]]
  BY DEF Paths, Ranked
<1> DEFINE more == [x \in Nodes(g) \cup {id} \cup {Start} |-> IF x = id THEN rank[tail] + 1 ELSE rank[x]]
<1>15. more \in [Nodes(h) \cup {Start} -> Nat]
  BY <1>2, <1>8, <1>14
<1>16. \A x \in Nodes(g) \cup {Start} : more[x] = rank[x]
  BY <1>3
<1>17. more[id] = rank[tail] + 1
  BY <1>8
<1> HIDE DEF more
<1>18. \A e \in h.edges : more[e[1]] < more[e[2]]
  <2>1. ASSUME NEW e \in g.edges PROVE more[e[1]] < more[e[2]]
    <3>1. e[1] \in Nodes(g) \cup {Start} /\ e[2] \in Nodes(g) \cup {Start}
      BY <1>3
    <3>. QED BY <3>1, <1>14, <1>16
  <2>2. more[tail] < more[id]
    BY <1>2, <1>14, <1>16, <1>17
  <2>. QED BY <2>1, <2>2, <1>5
<1>19. Ranked(h)
  BY <1>15, <1>18 DEF Ranked
<1>. QED BY <1>11, <1>13, <1>19 DEF Paths, h

(* The configuration of a step is not a part of any path.                  *)
LEMMA UpdateKeepsPaths ==
  ASSUME NEW g, Paths(g), NEW id \in Keys, NEW config \in Configs
  PROVE  Paths(UpdateStep(g, id, config)) /\ UpdateStep(g, id, config).edges = g.edges
         /\ Nodes(UpdateStep(g, id, config)) = Nodes(g)
<1> DEFINE h == UpdateStep(g, id, config)
           n == Len(g.nodes)
<1>1. /\ g.nodes \in Seq(Node) /\ n \in Nat
      /\ g.edges \subseteq (Nodes(g) \cup {Start}) \X Nodes(g)
      /\ \A i, j \in 1..n : g.nodes[i].id = g.nodes[j].id => i = j
  BY DEF Paths, Wellformed
<1>2. \A i \in 1..n : g.nodes[i] \in Node
  BY <1>1
<1>3. [id |-> id, config |-> config] \in Node /\ [id |-> id, config |-> config].id = id
  BY DEF Node
<1>4. /\ h.nodes = [i \in 1..n |-> IF g.nodes[i].id = id THEN [id |-> id, config |-> config] ELSE g.nodes[i]]
      /\ h.edges = g.edges
  BY <1>1 DEF UpdateStep
<1> HIDE DEF h
<1>5. \A i \in 1..n : h.nodes[i] \in Node /\ h.nodes[i].id = g.nodes[i].id
  BY <1>2, <1>3, <1>4
<1>6. h.nodes \in Seq(Node) /\ Len(h.nodes) = n
  <2>1. h.nodes \in [1..n -> Node]
    BY <1>4, <1>5
  <2>. QED BY <2>1, <1>1
<1>7. Ids(h.nodes) = Ids(g.nodes)
  BY <1>1, <1>5, <1>6 DEF Ids
<1>8. Nodes(h) = Nodes(g)
  BY <1>7 DEF Nodes
<1>9. Wellformed(h)
  BY <1>1, <1>4, <1>5, <1>6, <1>8 DEF Wellformed
<1>10. Ranked(h) /\ Single(h.edges)
  BY <1>4, <1>8 DEF Ranked, Paths
<1>. QED BY <1>4, <1>8, <1>9, <1>10 DEF Paths, h

(* The neighbours of a removed step are joined; no step becomes its own    *)
(* neighbour, as it would in a cycle of two.                               *)
LEMMA RemoveKeepsPaths ==
  ASSUME NEW g, Paths(g), NEW id \in Nodes(g)
  PROVE  /\ Paths(RemoveStepFromGraph(g, id))
         /\ Nodes(RemoveStepFromGraph(g, id)) = Nodes(g) \ {id}
<1> DEFINE h == RemoveStepFromGraph(g, id)
           n == Len(g.nodes)
           others == {node \in ToSet(g.nodes) : node.id # id}
           kept == {e \in g.edges : e[1] # id /\ e[2] # id}
           joined == Sources(g.edges, id) \X Targets(g.edges, id)
<1>1. Wellformed(g) /\ Single(g.edges) /\ NoLoop(g.edges)
  BY RankedHasNoLoop DEF Paths
<1>2. /\ g.nodes \in Seq(Node) /\ n \in Nat /\ DOMAIN g.nodes = 1..n
      /\ g.edges \subseteq (Nodes(g) \cup {Start}) \X Nodes(g)
      /\ \A i, j \in 1..n : g.nodes[i].id = g.nodes[j].id => i = j
      /\ Start \notin Nodes(g)
  BY <1>1, NodesAre DEF Wellformed
<1>4. h.nodes = Kept(g.nodes, others) /\ h.edges = kept \cup joined
  BY DEF RemoveStepFromGraph
<1> HIDE DEF h
<1>5. h.nodes \in Seq(Node) /\ ToSet(h.nodes) = others
  <2>1. others \subseteq ToSet(g.nodes)
    OBVIOUS
  <2> HIDE DEF others
  <2>2. h.nodes \in Seq(Node) /\ ToSet(h.nodes) = ToSet(g.nodes) \cap others
    BY <1>2, <1>4, KeptIs
  <2>. QED BY <2>1, <2>2
<1>6. Nodes(h) = Nodes(g) \ {id}
  <2>1. Nodes(h) = {node.id : node \in ToSet(h.nodes)}
    BY <1>5, NodesAreIds
  <2>2. Nodes(g) = {node.id : node \in ToSet(g.nodes)}
    BY <1>2, NodesAreIds
  <2>. QED BY <2>1, <2>2, <1>5
<1>7. \A i, j \in 1..Len(h.nodes) : h.nodes[i].id = h.nodes[j].id => i = j
  <2>1. PICK place : Picks(place, h.nodes, g.nodes, others, n)
    <3> HIDE DEF others
    <3>1. \E place : Picks(place, Kept(g.nodes, others), g.nodes, others, Len(g.nodes))
      BY <1>2, KeptPicks
    <3>. QED BY <3>1, <1>4
  <2>2. /\ h.nodes \in Seq(Node) /\ Len(h.nodes) \in Nat
        /\ place \in [1..Len(h.nodes) -> 1..n]
        /\ \A i, j \in 1..Len(h.nodes) : i < j => place[i] < place[j]
        /\ \A i \in 1..Len(h.nodes) : h.nodes[i] = g.nodes[place[i]]
    <3>1. h.nodes \in Seq(Node)
      BY <1>5
    <3>2. Len(h.nodes) \in Nat
      BY <3>1
    <3>3. place \in [1..Len(h.nodes) -> 1..n]
      BY <2>1 DEF Picks
    <3>4. \A i, j \in 1..Len(h.nodes) : i < j => place[i] < place[j]
      BY <2>1 DEF Picks
    <3>5. \A i \in 1..Len(h.nodes) : h.nodes[i] = g.nodes[place[i]]
      BY <2>1 DEF Picks
    <3>. QED BY <3>1, <3>2, <3>3, <3>4, <3>5
  <2> SUFFICES ASSUME NEW i \in 1..Len(h.nodes), NEW j \in 1..Len(h.nodes),
                      h.nodes[i].id = h.nodes[j].id
               PROVE  i = j
    OBVIOUS
  <2>3. place[i] \in 1..n /\ place[j] \in 1..n /\ g.nodes[place[i]].id = g.nodes[place[j]].id
    BY <2>2
  <2>4. place[i] = place[j]
    BY <2>3, <1>2
  <2>5. ~(i < j) /\ ~(j < i)
    BY <2>2, <2>3, <2>4
  <2>. QED BY <2>2, <2>5
<1>8. \A s \in Sources(g.edges, id) : <<s, id>> \in g.edges /\ s \in Nodes(g) \cup {Start}
  BY <1>2 DEF Sources
<1>9. \A t \in Targets(g.edges, id) : <<id, t>> \in g.edges /\ t \in Nodes(g)
  BY <1>2 DEF Targets
<1>10. \A s \in Sources(g.edges, id) : s # id
  BY <1>1, <1>8 DEF NoLoop
<1>11. \A t \in Targets(g.edges, id) : t # id
  BY <1>1, <1>9 DEF NoLoop
<1>12. h.edges \subseteq (Nodes(h) \cup {Start}) \X Nodes(h)
  <2>1. joined \subseteq (Nodes(h) \cup {Start}) \X Nodes(h)
    BY <1>6, <1>8, <1>9, <1>10, <1>11
  <2>2. kept \subseteq (Nodes(h) \cup {Start}) \X Nodes(h)
    BY <1>2, <1>6
  <2>. QED BY <1>4, <2>1, <2>2
<1>13. Wellformed(h)
  BY <1>5, <1>7, <1>12 DEF Wellformed
<1>14. \A e, f \in g.edges : e[1] = f[1] \/ e[2] = f[2] => e = f
  BY <1>1 DEF Single
<1>15. \A e \in joined : e = <<e[1], e[2]>> /\ <<e[1], id>> \in g.edges /\ <<id, e[2]>> \in g.edges
  BY <1>8, <1>9
<1>16. ASSUME NEW e \in joined, NEW f \in joined PROVE e = f
  <2>1. e[1] = f[1] /\ e[2] = f[2]
    BY <1>14, <1>15
  <2>. QED BY <2>1, <1>15
<1>17. ASSUME NEW e \in joined, NEW f \in kept PROVE e[1] # f[1] /\ e[2] # f[2]
  <2>1. <<e[1], id>> \in g.edges /\ <<id, e[2]>> \in g.edges
    BY <1>15
  <2>2. f \in g.edges /\ f[1] # id /\ f[2] # id
    OBVIOUS
  <2>3. e[1] # f[1]
    BY <2>1, <2>2, <1>14
  <2>4. e[2] # f[2]
    BY <2>1, <2>2, <1>14
  <2>. QED BY <2>3, <2>4
<1>18. \A e \in kept : e \in g.edges
  OBVIOUS
<1>22. \A e, f \in kept : e[1] = f[1] \/ e[2] = f[2] => e = f
  BY <1>14
<1> HIDE DEF joined, kept
<1>19. Single(h.edges)
  BY <1>4, <1>22, <1>16, <1>17 DEF Single
<1>20. PICK rank \in [Nodes(g) \cup {Start} -> Nat] : \A e \in g.edges : rank[e[1]] < rank[e[2]]
  BY DEF Paths, Ranked
<1>21. Ranked(h)
  <2> DEFINE less == [x \in Nodes(h) \cup {Start} |-> rank[x]]
  <2>1. less \in [Nodes(h) \cup {Start} -> Nat]
    BY <1>6, <1>20
  <2>2. \A x \in Nodes(h) \cup {Start} : less[x] = rank[x]
    OBVIOUS
  <2> HIDE DEF less
  <2>3. \A e \in h.edges : less[e[1]] = rank[e[1]] /\ less[e[2]] = rank[e[2]]
    BY <2>2, <1>12
  <2>4. ASSUME NEW e \in joined PROVE rank[e[1]] < rank[e[2]]
    <3>1. <<e[1], id>> \in g.edges /\ <<id, e[2]>> \in g.edges
      BY <1>15
    <3>2. rank[e[1]] < rank[id] /\ rank[id] < rank[e[2]]
      BY <3>1, <1>20
    <3>3. rank[e[1]] \in Nat /\ rank[id] \in Nat /\ rank[e[2]] \in Nat
      BY <3>1, <1>2, <1>20
    <3>. QED BY <3>2, <3>3
  <2>5. \A e \in h.edges : less[e[1]] < less[e[2]]
    BY <2>3, <2>4, <1>4, <1>18, <1>20
  <2>. QED BY <2>1, <2>5 DEF Ranked
<1>. QED BY <1>6, <1>13, <1>19, <1>21 DEF Paths, h

-------------------------------------------------------------------------------
(* Removing several steps                                                  *)

(* Several steps are removed one after the other.                          *)
IsAfter(after, g, deleted, m) ==
  after = [n \in 0..m |-> IF n = 0 THEN g ELSE RemoveStepFromGraph(after[n - 1], deleted[n])]

(* The values of the recursion.                                            *)
LEMMA AfterStep ==
  ASSUME NEW after, NEW g, NEW deleted, NEW m \in Nat, IsAfter(after, g, deleted, m)
  PROVE  /\ after[0] = g
         /\ \A n \in 1..m : after[n] = RemoveStepFromGraph(after[n - 1], deleted[n])
<1> DEFINE V == [n \in 0..m |-> IF n = 0 THEN g ELSE RemoveStepFromGraph(after[n - 1], deleted[n])]
<1>1. V[0] = g /\ \A n \in 1..m : V[n] = RemoveStepFromGraph(after[n - 1], deleted[n])
  OBVIOUS
<1>2. after = V
  BY DEF IsAfter
<1> HIDE DEF V
<1>. QED BY <1>1, <1>2

(* There are such values.                                                  *)
LEMMA AfterExists ==
  ASSUME NEW g, NEW deleted, NEW m \in Nat
  PROVE  \E after : IsAfter(after, g, deleted, m)
<1> DEFINE T == {n \in Nat : ~ \E after : IsAfter(after, g, deleted, n)}
<1>1. SUFFICES ASSUME T # {} PROVE FALSE
  OBVIOUS
<1>2. PICK x \in T : \A y \in T : x <= y
  BY <1>1, LeastNatural
<1>3. CASE x = 0
  <2> DEFINE v == [n \in 0..0 |-> g]
  <2>1. v = [n \in 0..0 |-> IF n = 0 THEN g ELSE RemoveStepFromGraph(v[n - 1], deleted[n])]
    OBVIOUS
  <2> HIDE DEF v
  <2>. QED BY <2>1, <1>2, <1>3 DEF IsAfter
<1>4. CASE x # 0
  <2> DEFINE p == x - 1
  <2>1. p \in Nat /\ p \notin T /\ x = p + 1
    BY <1>2, <1>4
  <2> HIDE DEF p
  <2>2. PICK after : IsAfter(after, g, deleted, p)
    BY <2>1
  <2> DEFINE v == [n \in 0..x |-> IF n = x THEN RemoveStepFromGraph(after[p], deleted[x]) ELSE after[n]]
  <2>3. after[0] = g /\ \A n \in 1..p : after[n] = RemoveStepFromGraph(after[n - 1], deleted[n])
    BY <2>2, <2>1, AfterStep
  <2>4. \A n \in 0..x : v[n] = IF n = 0 THEN g ELSE RemoveStepFromGraph(v[n - 1], deleted[n])
    <3> SUFFICES ASSUME NEW n \in 0..x
                 PROVE v[n] = IF n = 0 THEN g ELSE RemoveStepFromGraph(v[n - 1], deleted[n])
      OBVIOUS
    <3>1. CASE n = 0
      BY <3>1, <2>3, <2>1
    <3>2. CASE n = x
      BY <3>2, <2>1
    <3>3. CASE n # 0 /\ n # x
      <4>1. n \in 1..p /\ n - 1 \in 0..x /\ n - 1 # x
        BY <3>3, <2>1
      <4>. QED BY <4>1, <3>3, <2>3
    <3>. QED BY <3>1, <3>2, <3>3
  <2>5. v = [n \in 0..x |-> IF n = 0 THEN g ELSE RemoveStepFromGraph(v[n - 1], deleted[n])]
    BY <2>4
  <2> HIDE DEF v
  <2>. QED BY <2>5, <1>2 DEF IsAfter
<1>. QED BY <1>3, <1>4

(* deleted lists the selected steps, which WithoutSteps removes in turn.   *)
LEMMA WithoutStepsIsLast ==
  ASSUME NEW ids, Paths(graph)
  PROVE  \E after :
           /\ IsAfter(after, graph, Kept(Ids(graph.nodes), ids), Len(Kept(Ids(graph.nodes), ids)))
           /\ WithoutSteps(ids) = after[Len(Kept(Ids(graph.nodes), ids))]
<1> DEFINE deleted == Kept(Ids(graph.nodes), ids)
           m == Len(deleted)
<1>1. m \in Nat
  <2>1. Ids(graph.nodes) \in Seq(Nodes(graph))
    BY NodesAre DEF Paths
  <2>2. deleted \in Seq(Nodes(graph))
    BY <2>1, KeptIs
  <2>. QED BY <2>2
<1>0. deleted = Kept(Ids(graph.nodes), ids) /\ m = Len(deleted)
  OBVIOUS
<1>4. WithoutSteps(ids) =
        (LET after[n \in 0..m] ==
               IF n = 0 THEN graph ELSE RemoveStepFromGraph(after[n - 1], deleted[n])
         IN after[m])
  BY DEF WithoutSteps
<1> HIDE DEF deleted, m
<1> DEFINE w == CHOOSE w : w = [n \in 0..m |-> IF n = 0 THEN graph ELSE RemoveStepFromGraph(w[n - 1], deleted[n])]
<1>2. \E other : other = [n \in 0..m |-> IF n = 0 THEN graph ELSE RemoveStepFromGraph(other[n - 1], deleted[n])]
  <2>1. PICK k : IsAfter(k, graph, deleted, m)
    BY <1>1, AfterExists
  <2>2. k = [n \in 0..m |-> IF n = 0 THEN graph ELSE RemoveStepFromGraph(k[n - 1], deleted[n])]
    BY <2>1 DEF IsAfter
  <2>. QED BY <2>2
<1>3. w = [n \in 0..m |-> IF n = 0 THEN graph ELSE RemoveStepFromGraph(w[n - 1], deleted[n])]
  BY <1>2, Zenon
<1>6. WithoutSteps(ids) = w[m]
  BY <1>4
<1> HIDE DEF w
<1>5. IsAfter(w, graph, deleted, m)
  BY <1>3 DEF IsAfter
<1>. QED BY <1>0, <1>5, <1>6

(* The steps that are left after n removals, and the order of theirs.      *)
LEMMA RemovalsKeepPaths ==
  ASSUME NEW g, Paths(g), NEW deleted \in Seq(Nodes(g)), Distinct(deleted),
         NEW after, IsAfter(after, g, deleted, Len(deleted)), NEW n \in 0..Len(deleted)
  PROVE  /\ Paths(after[n])
         /\ Nodes(after[n]) = {id \in Nodes(g) : \A i \in 1..n : deleted[i] # id}
<1> DEFINE Left(i) == {id \in Nodes(g) : \A j \in 1..i : deleted[j] # id}
           Good(i) == Paths(after[i]) /\ Nodes(after[i]) = Left(i)
           T == {i \in 0..Len(deleted) : ~Good(i)}
<1>1. SUFFICES ASSUME T # {} PROVE FALSE
  OBVIOUS
<1>2. PICK x \in T : \A y \in T : x <= y
  <2>1. T \subseteq Nat
    OBVIOUS
  <2> HIDE DEF T
  <2>. QED BY <2>1, <1>1, LeastNatural
<1>3. /\ after[0] = g
      /\ \A i \in 1..Len(deleted) : after[i] = RemoveStepFromGraph(after[i - 1], deleted[i])
  BY AfterStep
<1>4. CASE x = 0
  BY <1>2, <1>3, <1>4
<1>5. CASE x # 0
  <2> DEFINE p == x - 1
  <2>1. x \in 1..Len(deleted) /\ p \in 0..Len(deleted) /\ x = p + 1 /\ p \notin T
    BY <1>2, <1>5
  <2>2. after[x] = RemoveStepFromGraph(after[p], deleted[x])
    BY <2>1, <1>3
  <2> HIDE DEF p
  <2>3. Good(p)
    BY <2>1
  <2>4. deleted[x] \in Nodes(after[p])
    <3>1. \A j \in 1..p : deleted[j] # deleted[x]
      BY <2>1 DEF Distinct
    <3>. QED BY <2>1, <2>3, <3>1
  <2>5. Paths(after[x]) /\ Nodes(after[x]) = Nodes(after[p]) \ {deleted[x]}
    BY <2>2, <2>3, <2>4, RemoveKeepsPaths
  <2>6. Left(x) = Left(p) \ {deleted[x]}
    BY <2>1
  <2>. QED BY <2>3, <2>5, <2>6, <1>2
<1>. QED BY <1>4, <1>5

(* The selected steps are gone and their paths closed.                     *)
LEMMA WithoutStepsKeepsPaths ==
  ASSUME Paths(graph), NEW ids \in SUBSET Nodes(graph)
  PROVE  Paths(WithoutSteps(ids)) /\ Nodes(WithoutSteps(ids)) = Nodes(graph) \ ids
<1> DEFINE deleted == Kept(Ids(graph.nodes), ids)
<1>1. PICK after : /\ IsAfter(after, graph, deleted, Len(deleted))
                   /\ WithoutSteps(ids) = after[Len(deleted)]
  BY WithoutStepsIsLast
<1>2. /\ Ids(graph.nodes) \in Seq(Nodes(graph)) /\ Distinct(Ids(graph.nodes))
      /\ ToSet(Ids(graph.nodes)) = Nodes(graph)
  BY NodesAre DEF Paths
<1>3. /\ deleted \in Seq(Nodes(graph)) /\ Distinct(deleted)
      /\ ToSet(deleted) = Nodes(graph) \cap ids
  BY <1>2, KeptIs
<1> HIDE DEF deleted
<1>4. Len(deleted) \in 0..Len(deleted)
  BY <1>3
<1>5. /\ Paths(after[Len(deleted)])
      /\ Nodes(after[Len(deleted)]) =
           {id \in Nodes(graph) : \A i \in 1..Len(deleted) : deleted[i] # id}
  BY <1>1, <1>3, <1>4, RemovalsKeepPaths
<1>6. \A id : id \in ids <=> \E i \in 1..Len(deleted) : deleted[i] = id
  BY <1>3 DEF ToSet
<1>. QED BY <1>1, <1>5, <1>6

-------------------------------------------------------------------------------
(* The canvas                                                              *)

CanvasInv == Paths(graph)

(* A proposal that passes validation.                                      *)
LEMMA ProposalIsPaths ==
  ASSUME Paths(graph), NEW source, NEW target, Valid(Proposal(graph, source, target))
  PROVE  Paths(Proposal(graph, source, target))
<1> DEFINE h == Proposal(graph, source, target)
<1>1. h.nodes = graph.nodes
  BY DEF Proposal, ReorderStepAfter, ReplaceConnection
<1>2. Valid(h)
  OBVIOUS
<1> HIDE DEF h
<1>3. h.edges \subseteq (Nodes(h) \cup {Start}) \X Nodes(h)
  <2> DEFINE ids == Nodes(h)
             edges == {edge \in h.edges : edge[1] # edge[2]}
             Loop == Issue("SELF_CONNECTION", edges # h.edges)
             Unknown == Issue("UNKNOWN_NODE", ~(edges \subseteq (ids \cup {Start}) \X ids))
  <2>1. Loop \subseteq WorkflowGraphIssues(h) /\ Unknown \subseteq WorkflowGraphIssues(h)
    <3>1. h.nodes # <<>>
      BY <1>2 DEF Valid, WorkflowGraphIssues
    <3>. QED BY <3>1 DEF WorkflowGraphIssues
  <2>2. Loop = {} /\ Unknown = {}
    <3> HIDE DEF Loop, Unknown
    <3>. QED BY <1>2, <2>1 DEF Valid
  <2>3. edges = h.edges
    BY <2>2 DEF Issue
  <2>4. edges \subseteq (ids \cup {Start}) \X ids
    BY <2>2 DEF Issue
  <2>. QED BY <2>3, <2>4
<1>4. Wellformed(h)
  BY <1>1, <1>3 DEF Wellformed, Paths
<1>5. Paths(h)
  BY <1>2, <1>4, ValidIsPaths
<1>. QED BY <1>5 DEF h

(* A loaded definition is one path.                                        *)
LEMMA LoadedIsPaths ==
  ASSUME NEW steps \in Seq(Node), \A i, j \in 1..Len(steps) : steps[i].id = steps[j].id => i = j
  PROVE  Paths(DefinitionToWorkflowGraph(steps))
<1> DEFINE g == DefinitionToWorkflowGraph(steps)
<1>1. Wellformed(g) /\ Ids(steps) \in Seq(Nodes(g)) /\ Distinct(Ids(steps)) /\ IsChain(g, Ids(steps))
  BY LoadedIsWellformed
<1> HIDE DEF g
<1>2. Paths(g)
  BY <1>1, ChainIsRanked
<1>. QED BY <1>2 DEF g

(* A definition is shown as one path, which compiles to it.                *)
LEMMA DefinitionIsShown ==
  ASSUME NEW steps, IsDefinition(steps)
  PROVE  /\ Paths(DefinitionToWorkflowGraph(steps))
         /\ CompileWorkflowGraph(DefinitionToWorkflowGraph(steps)) = steps
<1>1. steps \in Seq(Node) /\ \A i, j \in DOMAIN steps : steps[i].id = steps[j].id => i = j
  BY Zenon DEF Node, IsDefinition
<1>2. DOMAIN steps = 1..Len(steps)
  BY <1>1
<1>. QED BY <1>1, <1>2, LoadedIsPaths, LoadCompiles

(* What is compiled is a definition.                                       *)
LEMMA CompiledIsDefinition ==
  ASSUME NEW g, Paths(g), CompileWorkflowGraph(g) # <<>>
  PROVE  IsDefinition(CompileWorkflowGraph(g))
<1> DEFINE steps == CompileWorkflowGraph(g)
<1>1. Wellformed(g) /\ Valid(g)
  BY DEF Paths, CompileWorkflowGraph
<1>2. steps \in Seq(Node) /\ \A i, j \in 1..Len(steps) : steps[i].id = steps[j].id => i = j
  BY <1>1, ValidCompiles
<1> HIDE DEF steps
<1>3. DOMAIN steps = 1..Len(steps)
  BY <1>2
<1>4. IsDefinition(steps)
  BY <1>2, <1>3, Zenon DEF IsDefinition, Node
<1>. QED BY <1>4 DEF steps

(* So are the templates.                                                   *)
LEMMA TemplateIsPaths ==
  ASSUME NEW steps \in Templates
  PROVE  Paths(DefinitionToWorkflowGraph(steps))
BY GraphAssumption, DefinitionIsShown

(* The handlers of the canvas and of the inspector.                        *)
LEMMA AddStepKeepsPaths ==
  ASSUME Paths(graph), NEW id \in Keys, NEW config \in Configs, AddStep(id, config)
  PROVE  Paths(graph')
<1> DEFINE step == [id |-> id, config |-> config]
<1>1. step \in Node /\ step.id \notin Nodes(graph) /\ graph' = AppendStepToGraph(graph, step)
  BY DEF AddStep, Show, Node
<1> HIDE DEF step
<1>. QED BY <1>1, AppendKeepsPaths

(* A connection that is made has been validated; a refused one changes     *)
(* nothing.                                                                *)
LEMMA ConnectKeepsPaths ==
  ASSUME Paths(graph), NEW source, NEW target, Connect(source, target)
  PROVE  Paths(graph')
BY ProposalIsPaths DEF Connect, Show

(* The Delete key removes edges or steps.                                  *)
LEMMA DeleteSelectionKeepsPaths ==
  ASSUME Paths(graph), NEW ids \in SUBSET Nodes(graph), NEW others, DeleteSelection(ids, others)
  PROVE  Paths(graph')
<1>1. PICK edges : graph' = AfterDeletion(ids, edges)
  BY DEF DeleteSelection, Show
<1>2. CASE ids = {}
  <2>1. graph' = WithoutEdges(edges)
    BY <1>1, <1>2 DEF AfterDeletion
  <2>2. graph'.nodes = graph.nodes /\ graph'.edges \subseteq graph.edges
    BY <2>1 DEF WithoutEdges
  <2>. QED BY <2>2, FewerEdges
<1>3. CASE ids # {}
  BY <1>1, <1>3, WithoutStepsKeepsPaths DEF AfterDeletion
<1>. QED BY <1>2, <1>3

(* The edits of a step from the inspector and by dragging.                 *)
LEMMA StepEditsKeepPaths ==
  ASSUME Paths(graph), NEW id,
         \/ DeleteNode(id)
         \/ \E config \in Configs : DragNode(id, config) \/ EditStep(id, config)
  PROVE  Paths(graph')
<1>1. id \in Nodes(graph)
  BY DEF DeleteNode, DragNode, EditStep
<1>2. id \in Keys
  BY <1>1, NodesAre DEF Paths
<1>3. CASE DeleteNode(id)
  BY <1>1, <1>3, RemoveKeepsPaths DEF DeleteNode
<1>4. CASE \E config \in Configs : DragNode(id, config) \/ EditStep(id, config)
  <2>1. PICK config \in Configs : graph' = UpdateStep(graph, id, config)
    BY <1>4 DEF DragNode, EditStep, Show
  <2>. QED BY <2>1, <1>2, UpdateKeepsPaths
<1>. QED BY <1>3, <1>4

(* The invariant holds of every template.                                  *)
LEMMA CanvasInit == GraphInit => CanvasInv
BY TemplateIsPaths DEF GraphInit, CanvasInv

(* Every handler preserves the invariant.                                  *)
LEMMA CanvasStep == CanvasInv /\ [GraphNext]_canvas => CanvasInv'
<1> SUFFICES ASSUME Paths(graph), [GraphNext]_canvas PROVE Paths(graph')
  BY DEF CanvasInv
<1>1. CASE \E id \in Keys, config \in Configs : AddStep(id, config)
  BY <1>1, AddStepKeepsPaths
<1>2. CASE \E id \in Keys, config \in Configs : DragNode(id, config) \/ EditStep(id, config)
  BY <1>2, StepEditsKeepPaths
<1>3. CASE \E source \in Nodes(graph) \cup {Start}, target \in Nodes(graph) : Connect(source, target)
  BY <1>3, ConnectKeepsPaths
<1>4. CASE \E ids \in SUBSET Nodes(graph), others \in SUBSET graph.edges : DeleteSelection(ids, others)
  BY <1>4, DeleteSelectionKeepsPaths
<1>5. CASE \E id \in Keys : DeleteNode(id)
  BY <1>5, StepEditsKeepPaths
<1>6. CASE \E steps \in Templates : Load(steps)
  BY <1>6, TemplateIsPaths DEF Load, Show
<1>7. CASE UNCHANGED canvas
  BY <1>7 DEF canvas
<1>. QED BY <1>1, <1>2, <1>3, <1>4, <1>5, <1>6, <1>7 DEF GraphNext

(* The inductive invariant: what the canvas shows is a set of paths,       *)
(* whatever is added, connected, dragged, edited, deleted or loaded.       *)
THEOREM CanvasShowsPaths == GraphSpec => []CanvasInv
<1> QED
  BY CanvasInit, CanvasStep, PTL DEF GraphSpec

(* All that validateWorkflowGraph ever finds in what is shown is that it   *)
(* is empty, does not begin at Start or is disconnected: no edit makes a   *)
(* branch, a join, a cycle or a connection of a step with itself.          *)
THEOREM NeverBranches == GraphSpec => []GraphIsPaths
<1>1. CanvasInv => GraphIsPaths
  BY IssuesOfSingle, RankedHasNoLoop DEF CanvasInv, GraphIsPaths, Paths
<1> QED
  BY <1>1, CanvasShowsPaths, PTL

(* What is shown, and what one more connection of any two nodes would make *)
(* of it, compiles exactly if it is one chain of all steps; the definition *)
(* has its steps in the order of the chain, and loading it shows the same  *)
(* chain again.                                                            *)
THEOREM CompilesChains == GraphSpec => []CompiledIsTheChain
<1>1. CanvasInv => CompiledIsTheChain
  <2> SUFFICES ASSUME Paths(graph) PROVE CompiledIsTheChain
    BY DEF CanvasInv
  <2>1. CompilesTheChain(graph)
    BY WellformedCompiles DEF Paths
  <2>2. ASSUME NEW source \in Nodes(graph) \cup {Start}, NEW target \in Nodes(graph)
        PROVE  CompilesTheChain([nodes |-> graph.nodes, edges |-> graph.edges \cup {<<source, target>>}])
    <3> DEFINE h == [nodes |-> graph.nodes, edges |-> graph.edges \cup {<<source, target>>}]
    <3>1. h.nodes = graph.nodes /\ h.edges = graph.edges \cup {<<source, target>>}
          /\ Nodes(h) = Nodes(graph)
      BY DEF Nodes
    <3> HIDE DEF h
    <3>2. Wellformed(h)
      BY <3>1 DEF Paths, Wellformed
    <3>3. CompilesTheChain(h)
      BY <3>2, WellformedCompiles
    <3>. QED BY <3>3 DEF h
  <2>. QED BY <2>1, <2>2 DEF CompiledIsTheChain
<1> QED
  BY <1>1, CanvasShowsPaths, PTL

(* A connection between two nodes of a disconnected graph is accepted      *)
(* exactly if it is the only one missing.                                  *)
THEOREM RepairsOneConnection == GraphSpec => []RepairNeedsOneConnection
<1>1. CanvasInv => RepairNeedsOneConnection
  BY OneConnectionMissing DEF CanvasInv, RepairNeedsOneConnection
<1> QED
  BY <1>1, CanvasShowsPaths, PTL

-------------------------------------------------------------------------------
(* Deletions and the order                                                 *)

(* place lists the positions up to n of elements of set, in order.         *)
Places(place, m, seq, set, n) ==
  /\ m \in Nat
  /\ \A i \in 1..m : place[i] \in 1..n /\ seq[place[i]] \in set
  /\ \A i, j \in 1..m : i < j => place[i] < place[j]
  /\ \A j \in 1..n : seq[j] \in set => \E i \in 1..m : place[i] = j

(* The places of a selection.                                              *)
LEMMA PicksPlaces ==
  ASSUME NEW S, NEW seq \in Seq(S), NEW set, NEW n \in Nat, NEW kept, NEW place,
         Picks(place, kept, seq, set, n)
  PROVE  Places(place, Len(kept), seq, set, n)
<1>1. \A i \in 1..Len(kept) : kept[i] = seq[place[i]] /\ kept[i] \in set
  BY DEF Picks
<1>2. \A i \in 1..Len(kept) : seq[place[i]] \in set
  BY <1>1
<1>. QED BY <1>2 DEF Picks, Places

(* Two selections of the same elements of a sequence are the same.         *)
LEMMA PicksAgree ==
  ASSUME NEW S, NEW seq \in Seq(S), NEW set, NEW n \in Nat,
         NEW a, NEW f, Picks(f, a, seq, set, n), NEW b, NEW h, Picks(h, b, seq, set, n),
         Len(a) <= Len(b)
  PROVE  \A i \in 1..Len(a) : f[i] = h[i]
<1> DEFINE T == {i \in Nat : i \in 1..Len(a) /\ f[i] # h[i]}
<1>1. SUFFICES ASSUME T # {} PROVE FALSE
  <2>1. \A i \in 1..Len(a) : i \in Nat
    BY DEF Picks
  <2>. QED BY <2>1
<1>2. PICK x \in T : \A y \in T : x <= y
  <2>1. T \subseteq Nat
    OBVIOUS
  <2> HIDE DEF T
  <2>. QED BY <2>1, <1>1, LeastNatural
<1>12. /\ Len(a) \in Nat
       /\ \A i \in 1..Len(a) : f[i] \in 1..n /\ seq[f[i]] \in set
       /\ \A i, j \in 1..Len(a) : i < j => f[i] < f[j]
       /\ \A j \in 1..n : seq[j] \in set => \E i \in 1..Len(a) : f[i] = j
  <2>1. Places(f, Len(a), seq, set, n)
    BY PicksPlaces
  <2>. QED BY <2>1 DEF Places
<1>3. /\ Len(b) \in Nat
      /\ \A i \in 1..Len(b) : h[i] \in 1..n /\ seq[h[i]] \in set
      /\ \A i, j \in 1..Len(b) : i < j => h[i] < h[j]
      /\ \A j \in 1..n : seq[j] \in set => \E i \in 1..Len(b) : h[i] = j
  <2>1. Places(h, Len(b), seq, set, n)
    BY PicksPlaces
  <2>. QED BY <2>1 DEF Places
<1>4. x \in 1..Len(a) /\ x \in 1..Len(b) /\ f[x] # h[x] /\ f[x] \in 1..n /\ h[x] \in 1..n
  <2>1. x \in 1..Len(a) /\ f[x] # h[x]
    OBVIOUS
  <2>2. x \in 1..Len(b)
    BY <2>1, <1>3, <1>12
  <2>. QED BY <2>1, <2>2, <1>3, <1>12
<1>5. \A i \in 1..Len(a) : i < x => f[i] = h[i]
  BY <1>2, <1>3, <1>12
<1>6. PICK i \in 1..Len(b) : h[i] = f[x]
  BY <1>3, <1>12, <1>4
<1>7. PICK j \in 1..Len(a) : f[j] = h[x]
  BY <1>3, <1>12, <1>4
<1>8. ~(i < x)
  <2>1. i < x => i \in 1..Len(a) /\ f[i] < f[x]
    BY <1>3, <1>12, <1>4
  <2>2. i < x => f[i] = f[x]
    BY <2>1, <1>5, <1>6
  <2>. QED BY <2>1, <2>2, <1>4
<1>9. ~(j < x)
  <2>1. j < x => j \in 1..Len(b) /\ h[j] < h[x]
    BY <1>3, <1>12, <1>4
  <2>2. j < x => h[j] = h[x]
    BY <1>5, <1>7
  <2>. QED BY <2>1, <2>2, <1>4
<1>10. h[x] < h[i]
  BY <1>3, <1>12, <1>4, <1>6, <1>8
<1>11. f[x] < f[j]
  BY <1>3, <1>12, <1>4, <1>7, <1>9
<1>. QED BY <1>4, <1>6, <1>7, <1>10, <1>11

(* A selection is determined by its set.                                   *)
LEMMA PicksUnique ==
  ASSUME NEW S, NEW seq \in Seq(S), NEW set, NEW n \in Nat,
         NEW a, NEW f, Picks(f, a, seq, set, n), NEW b, NEW h, Picks(h, b, seq, set, n)
  PROVE  a = b
<1>1. ASSUME NEW c, NEW p, Picks(p, c, seq, set, n), NEW d, NEW q, Picks(q, d, seq, set, n),
             Len(c) <= Len(d)
      PROVE  c = d
  <2>1. \A i \in 1..Len(c) : p[i] = q[i]
    BY <1>1, PicksAgree
  <2>2. /\ c \in Seq(ToSet(seq)) /\ d \in Seq(ToSet(seq)) /\ Len(c) \in Nat /\ Len(d) \in Nat
        /\ p \in [1..Len(c) -> 1..n] /\ q \in [1..Len(d) -> 1..n]
        /\ \A i, j \in 1..Len(d) : i < j => q[i] < q[j]
        /\ \A i \in 1..Len(c) : c[i] = seq[p[i]] /\ c[i] \in set
        /\ \A i \in 1..Len(d) : d[i] = seq[q[i]] /\ d[i] \in set
        /\ \A j \in 1..n : seq[j] \in set => \E i \in 1..Len(c) : p[i] = j
    BY <1>1 DEF Picks
  <2>3. ASSUME Len(c) < Len(d) PROVE FALSE
    <3> DEFINE k == Len(c) + 1
    <3>1. k \in 1..Len(d) /\ \A i \in 1..Len(c) : i < k /\ i \in 1..Len(d)
      BY <2>2, <2>3
    <3> HIDE DEF k
    <3>2. q[k] \in 1..n /\ seq[q[k]] \in set
      BY <2>2, <3>1
    <3>3. PICK i \in 1..Len(c) : p[i] = q[k]
      BY <2>2, <3>2
    <3>4. q[i] < q[k] /\ q[i] = q[k]
      BY <2>1, <2>2, <3>1, <3>3
    <3>. QED BY <3>2, <3>4
  <2>4. Len(c) = Len(d)
    BY <1>1, <2>2, <2>3
  <2>5. \A i \in 1..Len(c) : c[i] = d[i]
    BY <2>1, <2>2, <2>4
  <2>. QED BY <2>2, <2>4, <2>5, SeqEqual
<1>2. Len(a) \in Nat /\ Len(b) \in Nat
  BY DEF Picks
<1>3. CASE Len(a) <= Len(b)
  BY <1>1, <1>3
<1>4. CASE Len(b) <= Len(a)
  BY <1>1, <1>4
<1>. QED BY <1>2, <1>3, <1>4

(* order without its p-th node.                                            *)
Skip(order, p) == [i \in 1..Len(order) - 1 |-> IF i < p THEN order[i] ELSE order[i + 1]]

(* A sequence without its p-th element.                                    *)
LEMMA SkipIs ==
  ASSUME NEW Id, NEW order \in Seq(Id), NEW p \in 1..Len(order)
  PROVE  /\ Skip(order, p) \in Seq(Id)
         /\ Len(Skip(order, p)) = Len(order) - 1
         /\ \A i \in 1..Len(order) - 1 :
              Skip(order, p)[i] = IF i < p THEN order[i] ELSE order[i + 1]
<1> DEFINE n == Len(order)
<1>1. n \in Nat /\ n - 1 \in Nat
  OBVIOUS
<1>2. \A i \in 1..n - 1 : (IF i < p THEN order[i] ELSE order[i + 1]) \in Id
  <2>1. \A i \in 1..n - 1 : i \in 1..n /\ i + 1 \in 1..n
    BY <1>1
  <2>. QED BY <2>1
<1>3. Skip(order, p) \in [1..n - 1 -> Id]
  BY <1>2 DEF Skip
<1>4. Skip(order, p) \in Seq(Id) /\ Len(Skip(order, p)) = n - 1
  <2> HIDE DEF n
  <2>. QED BY <1>1, <1>3
<1>. QED BY <1>4 DEF Skip

(* Of a chain of nodes, the chain of the others is left.                   *)
LEMMA ChainWithoutNode ==
  ASSUME NEW Id, Start \notin Id, NEW order \in Seq(Id), Distinct(order), NEW p \in 1..Len(order),
         NEW g, g.edges = BuildOrderedEdges(order)
  PROVE  RemoveStepFromGraph(g, order[p]).edges = BuildOrderedEdges(Skip(order, p))
<1> DEFINE n == Len(order)
           id == order[p]
           less == Skip(order, p)
           edges == g.edges
           E(i) == <<Before(order, i), order[i]>>
           kept == {e \in edges : e[1] # id /\ e[2] # id}
           joined == Sources(edges, id) \X Targets(edges, id)
<1>1. n \in Nat /\ p \in 1..n
  OBVIOUS
<1>2. /\ less \in Seq(Id) /\ Len(less) = n - 1
      /\ \A i \in 1..n - 1 : less[i] = IF i < p THEN order[i] ELSE order[i + 1]
  BY SkipIs
<1>3. edges = {E(i) : i \in 1..n}
  BY OrderedEdges
<1>4. \A i \in 1..n : order[i] \in Id /\ order[i] # Start
  OBVIOUS
<1>5. \A i \in 1..n : E(i)[2] = id <=> i = p
  BY DEF Distinct
<1>6. \A i \in 1..n : E(i)[1] = id <=> i = p + 1
  BY <1>1, <1>4 DEF Distinct, Before
<1>7. \A i \in 1..n : E(i)[1] = Before(order, i) /\ E(i)[2] = order[i]
  OBVIOUS
<1>8. RemoveStepFromGraph(g, id).edges = kept \cup joined
  BY DEF RemoveStepFromGraph
<1>9. BuildOrderedEdges(less) = {<<Before(less, i), less[i]>> : i \in 1..n - 1}
  BY <1>2, OrderedEdges
<1> HIDE DEF E, less, edges, id, n
<1>10. kept = {E(i) : i \in {j \in 1..n : j # p /\ j # p + 1}}
  BY <1>3, <1>5, <1>6
<1>11. \A x : x \in Sources(edges, id) <=> x = Before(order, p)
  <2>1. \A x \in Sources(edges, id) : \E i \in 1..n : E(i)[2] = id /\ x = E(i)[1]
    BY <1>3 DEF Sources
  <2>2. \A x \in Sources(edges, id) : x = Before(order, p)
    BY <2>1, <1>5, <1>7
  <2>3. E(p) \in edges /\ E(p)[2] = id /\ E(p)[1] = Before(order, p)
    BY <1>1, <1>3, <1>5, <1>7
  <2>4. Before(order, p) \in Sources(edges, id)
    BY <2>3 DEF Sources
  <2>. QED BY <2>2, <2>4
<1>12. \A x : x \in Targets(edges, id) <=> p + 1 \in 1..n /\ x = order[p + 1]
  <2>1. \A x \in Targets(edges, id) : \E i \in 1..n : E(i)[1] = id /\ x = E(i)[2]
    BY <1>3 DEF Targets
  <2>2. \A x \in Targets(edges, id) : p + 1 \in 1..n /\ x = order[p + 1]
    BY <2>1, <1>6, <1>7
  <2>3. ASSUME p + 1 \in 1..n PROVE order[p + 1] \in Targets(edges, id)
    <3>1. E(p + 1) \in edges /\ E(p + 1)[1] = id /\ E(p + 1)[2] = order[p + 1]
      BY <2>3, <1>3, <1>6, <1>7
    <3>. QED BY <3>1 DEF Targets
  <2>. QED BY <2>2, <2>3
<1>13. joined = IF p + 1 \in 1..n THEN {<<Before(order, p), order[p + 1]>>} ELSE {}
  BY <1>11, <1>12
<1>14. ASSUME NEW i \in 1..n - 1, i < p PROVE <<Before(less, i), less[i]>> = E(i) /\ i \in 1..n
  <2>1. less[i] = order[i] /\ i \in 1..n
    BY <1>1, <1>2, <1>14
  <2>2. i # 1 => i - 1 \in 1..n - 1 /\ i - 1 < p
    BY <1>1, <1>14
  <2>3. Before(less, i) = Before(order, i)
    BY <1>2, <2>2 DEF Before
  <2>. QED BY <2>1, <2>3 DEF E
<1>15. ASSUME NEW i \in 1..n - 1, i = p
       PROVE  p + 1 \in 1..n /\ <<Before(less, i), less[i]>> = <<Before(order, p), order[p + 1]>>
  <2>1. less[i] = order[p + 1] /\ p + 1 \in 1..n
    BY <1>1, <1>2, <1>15
  <2>2. i # 1 => i - 1 \in 1..n - 1 /\ i - 1 < p
    BY <1>1, <1>15
  <2>3. Before(less, i) = Before(order, p)
    BY <1>2, <1>15, <2>2 DEF Before
  <2>. QED BY <2>1, <2>3
<1>16. ASSUME NEW i \in 1..n - 1, i > p
       PROVE  <<Before(less, i), less[i]>> = E(i + 1) /\ i + 1 \in 1..n
  <2>1. less[i] = order[i + 1] /\ i + 1 \in 1..n /\ ~(i < p)
    BY <1>1, <1>2, <1>16
  <2>2. i # 1 /\ i - 1 \in 1..n - 1 /\ ~(i - 1 < p) /\ (i - 1) + 1 = i /\ (i + 1) - 1 = i /\ i + 1 # 1
    BY <1>1, <1>16
  <2>3. Before(less, i) = order[i]
    BY <1>2, <2>2 DEF Before
  <2>4. Before(order, i + 1) = order[i]
    BY <2>2 DEF Before
  <2>. QED BY <2>1, <2>3, <2>4 DEF E
<1>17. ASSUME NEW i \in 1..n - 1 PROVE <<Before(less, i), less[i]>> \in kept \cup joined
  <2>1. CASE i < p
    <3>1. i # p /\ i # p + 1 /\ i \in 1..n
      BY <2>1, <1>1
    <3>2. E(i) \in kept
      BY <3>1, <1>10
    <3>. QED BY <3>2, <1>14, <2>1
  <2>2. CASE i = p
    <3>1. <<Before(order, p), order[p + 1]>> \in joined
      BY <2>2, <1>13, <1>15
    <3>. QED BY <3>1, <1>15, <2>2
  <2>3. CASE i > p
    <3>1. i + 1 # p /\ i + 1 # p + 1 /\ i + 1 \in 1..n
      BY <2>3, <1>1
    <3>2. E(i + 1) \in kept
      BY <3>1, <1>10
    <3>. QED BY <3>2, <1>16, <2>3
  <2>. QED BY <2>1, <2>2, <2>3, <1>1
<1>18. ASSUME NEW e \in kept \cup joined
       PROVE  \E i \in 1..n - 1 : e = <<Before(less, i), less[i]>>
  <2>1. CASE e \in joined
    <3>1. p + 1 \in 1..n /\ e = <<Before(order, p), order[p + 1]>>
      BY <2>1, <1>13
    <3>2. p \in 1..n - 1
      BY <3>1, <1>1
    <3>. QED BY <3>1, <3>2, <1>15
  <2>2. CASE e \in kept
    <3>1. PICK i \in 1..n : e = E(i) /\ i # p /\ i # p + 1
      BY <2>2, <1>10
    <3>2. CASE i < p
      <4>1. i \in 1..n - 1
        BY <3>2, <1>1
      <4>. QED BY <4>1, <3>1, <3>2, <1>14
    <3>3. CASE i > p
      <4>1. i - 1 \in 1..n - 1 /\ i - 1 > p /\ (i - 1) + 1 = i
        BY <3>1, <3>3, <1>1
      <4> DEFINE k == i - 1
      <4>2. k \in 1..n - 1 /\ k > p /\ k + 1 = i
        BY <4>1
      <4> HIDE DEF k
      <4>3. <<Before(less, k), less[k]>> = E(k + 1)
        BY <4>2, <1>16
      <4>. QED BY <4>2, <4>3, <3>1
    <3>. QED BY <3>1, <3>2, <3>3, <1>1
  <2>. QED BY <2>1, <2>2
<1>19. kept \cup joined = BuildOrderedEdges(less)
  BY <1>9, <1>17, <1>18
<1>. QED BY <1>8, <1>19 DEF less, id

(* A selection without one of its elements is a selection too.             *)
LEMMA PicksSkip ==
  ASSUME NEW S, NEW seq \in Seq(S), Distinct(seq), NEW set, NEW n \in Nat, n = Len(seq),
         NEW kept, NEW place, Picks(place, kept, seq, set, n),
         NEW p \in 1..Len(kept), NEW x, x = kept[p]
  PROVE  \E other : Picks(other, Skip(kept, p), seq, set \ {x}, n)
<1> DEFINE m == Len(kept)
           less == Skip(kept, p)
           other == [i \in 1..m - 1 |-> IF i < p THEN place[i] ELSE place[i + 1]]
<1>1. /\ kept \in Seq(ToSet(seq)) /\ m \in Nat /\ p \in 1..m
      /\ place \in [1..m -> 1..n]
      /\ \A i, j \in 1..m : i < j => place[i] < place[j]
      /\ \A i \in 1..m : kept[i] = seq[place[i]] /\ kept[i] \in set
      /\ \A j \in 1..n : seq[j] \in set => \E i \in 1..m : place[i] = j
  <2>1. kept \in Seq(ToSet(seq)) /\ m = Len(kept) /\ p \in 1..m
    BY DEF Picks
  <2>2. m \in Nat
    BY <2>1
  <2>3. place \in [1..m -> 1..n]
    BY DEF Picks
  <2>4. \A i, j \in 1..m : i < j => place[i] < place[j]
    BY DEF Picks
  <2>5. \A i \in 1..m : kept[i] = seq[place[i]] /\ kept[i] \in set
    BY DEF Picks
  <2>6. \A j \in 1..n : seq[j] \in set => \E i \in 1..m : place[i] = j
    BY DEF Picks
  <2>. QED BY <2>1, <2>2, <2>3, <2>4, <2>5, <2>6
<1>2. /\ less \in Seq(ToSet(seq)) /\ Len(less) = m - 1
      /\ \A i \in 1..m - 1 : less[i] = IF i < p THEN kept[i] ELSE kept[i + 1]
  <2>1. kept \in Seq(ToSet(seq)) /\ m = Len(kept) /\ p \in 1..Len(kept)
    BY <1>1
  <2> HIDE DEF m
  <2>. QED BY <2>1, SkipIs
<1>3. \A i \in 1..m - 1 : /\ other[i] = IF i < p THEN place[i] ELSE place[i + 1]
                          /\ i \in 1..m /\ i + 1 \in 1..m
  BY <1>1
<1>4. other \in [1..m - 1 -> 1..n]
  <2>1. \A i \in 1..m - 1 : (IF i < p THEN place[i] ELSE place[i + 1]) \in 1..n
    BY <1>1, <1>3
  <2>. QED BY <2>1
<1> HIDE DEF less, other, m
<1>5. ASSUME NEW i \in 1..m - 1, NEW j \in 1..m - 1, i < j PROVE other[i] < other[j]
  <2>1. /\ i \in 1..m /\ i + 1 \in 1..m /\ j \in 1..m /\ j + 1 \in 1..m
        /\ i < j + 1 /\ i + 1 < j + 1
    BY <1>1, <1>3, <1>5
  <2>2. place[i] < place[j] /\ place[i] < place[j + 1] /\ place[i + 1] < place[j + 1]
    BY <1>1, <1>5, <2>1
  <2>. QED BY <1>1, <1>3, <1>5, <2>2
<1>6. \A i, j \in 1..m : kept[i] = kept[j] => i = j
  <2> SUFFICES ASSUME NEW i \in 1..m, NEW j \in 1..m, kept[i] = kept[j] PROVE i = j
    OBVIOUS
  <2>1. place[i] \in 1..n /\ place[j] \in 1..n /\ seq[place[i]] = seq[place[j]]
    BY <1>1
  <2>2. place[i] = place[j]
    BY <2>1 DEF Distinct
  <2>3. ~(i < j) /\ ~(j < i)
    BY <1>1, <2>1, <2>2
  <2>. QED BY <1>1, <2>3
<1>7. ASSUME NEW i \in 1..m - 1 PROVE less[i] = seq[other[i]] /\ less[i] \in set \ {x}
  <2>1. CASE i < p
    <3>1. less[i] = kept[i] /\ other[i] = place[i] /\ i \in 1..m /\ i # p
      BY <2>1, <1>1, <1>2, <1>3
    <3>. QED BY <3>1, <1>1, <1>6
  <2>2. CASE ~(i < p)
    <3>1. less[i] = kept[i + 1] /\ other[i] = place[i + 1] /\ i + 1 \in 1..m /\ i + 1 # p
      BY <2>2, <1>1, <1>2, <1>3
    <3>. QED BY <3>1, <1>1, <1>6
  <2>. QED BY <2>1, <2>2
<1>8. ASSUME NEW j \in 1..n, seq[j] \in set \ {x} PROVE \E i \in 1..m - 1 : other[i] = j
  <2>1. PICK i \in 1..m : place[i] = j
    BY <1>1, <1>8
  <2>2. i # p
    BY <1>1, <1>8, <2>1
  <2>3. CASE i < p
    <3>1. i \in 1..m - 1
      BY <2>3, <1>1
    <3>. QED BY <3>1, <2>1, <2>3, <1>3
  <2>4. CASE i > p
    <3> DEFINE k == i - 1
    <3>1. k \in 1..m - 1 /\ ~(k < p) /\ k + 1 = i
      BY <2>4, <1>1
    <3> HIDE DEF k
    <3>2. other[k] = place[i]
      BY <3>1, <1>3
    <3>. QED BY <3>1, <3>2, <2>1
  <2>. QED BY <2>2, <2>3, <2>4, <1>1
<1>9. Picks(other, less, seq, set \ {x}, n)
  BY <1>2, <1>4, <1>5, <1>7, <1>8 DEF Picks
<1>. QED BY <1>9 DEF less

(* The chain g was is left with the steps h has, in their order.           *)
KeepsOrder(h, order) ==
  \E less, place :
    /\ h.edges = BuildOrderedEdges(less)
    /\ Picks(place, less, order, Nodes(h), Len(order))

(* Removing one more step leaves the others in their order.                *)
LEMMA RemovalKeepsOrder ==
  ASSUME NEW Id, Start \notin Id, NEW order \in Seq(Id), Distinct(order),
         NEW g, Paths(g), Nodes(g) \subseteq ToSet(order), KeepsOrder(g, order), NEW id \in Nodes(g)
  PROVE  KeepsOrder(RemoveStepFromGraph(g, id), order)
<1>1. PICK less, place : /\ g.edges = BuildOrderedEdges(less)
                         /\ Picks(place, less, order, Nodes(g), Len(order))
  BY DEF KeepsOrder
<1>2. /\ less \in Seq(ToSet(order)) /\ place \in [1..Len(less) -> 1..Len(order)]
      /\ \A i, j \in 1..Len(less) : i < j => place[i] < place[j]
      /\ \A i \in 1..Len(less) : less[i] = order[place[i]]
      /\ \A j \in 1..Len(order) : order[j] \in Nodes(g) => \E i \in 1..Len(less) : place[i] = j
  BY <1>1 DEF Picks
<1>3. PICK j \in 1..Len(order) : id = order[j]
  BY DEF ToSet
<1>4. PICK p \in 1..Len(less) : place[p] = j
  BY <1>2, <1>3
<1>5. id = less[p]
  BY <1>2, <1>3, <1>4
<1>6. ToSet(order) \subseteq Id
  BY DEF ToSet
<1>7. Distinct(less)
  <2> SUFFICES ASSUME NEW i \in 1..Len(less), NEW k \in 1..Len(less), less[i] = less[k] PROVE i = k
    BY DEF Distinct
  <2>1. place[i] \in 1..Len(order) /\ place[k] \in 1..Len(order) /\ order[place[i]] = order[place[k]]
    BY <1>2
  <2>2. place[i] = place[k]
    BY <2>1 DEF Distinct
  <2>3. ~(i < k) /\ ~(k < i)
    BY <1>2, <2>1, <2>2
  <2>4. Len(less) \in Nat
    BY <1>2
  <2>. QED BY <2>3, <2>4
<1>8. RemoveStepFromGraph(g, id).edges = BuildOrderedEdges(Skip(less, p))
  <2>1. less \in Seq(Id)
    <3>1. \A i \in 1..Len(less) : less[i] \in Id
      BY <1>2, <1>6
    <3>2. less \in [1..Len(less) -> Id] /\ Len(less) \in Nat
      BY <1>2, <3>1
    <3>. QED BY <3>2
  <2>. QED BY <2>1, <1>1, <1>5, <1>7, ChainWithoutNode
<1>9. \E other : Picks(other, Skip(less, p), order, Nodes(g) \ {id}, Len(order))
  <2>1. Len(order) \in Nat
    OBVIOUS
  <2>. QED BY <2>1, <1>1, <1>5, PicksSkip
<1>10. Nodes(RemoveStepFromGraph(g, id)) = Nodes(g) \ {id}
  BY RemoveKeepsPaths
<1>. QED BY <1>8, <1>9, <1>10 DEF KeepsOrder

(* So does removing several of them in turn.                               *)
LEMMA RemovalsKeepOrder ==
  ASSUME NEW g, Paths(g), NEW order \in Seq(Nodes(g)), Distinct(order), IsChain(g, order),
         NEW deleted \in Seq(Nodes(g)), Distinct(deleted),
         NEW after, IsAfter(after, g, deleted, Len(deleted)), NEW n \in 0..Len(deleted)
  PROVE  KeepsOrder(after[n], order)
<1> DEFINE T == {i \in 0..Len(deleted) : ~KeepsOrder(after[i], order)}
<1>1. SUFFICES ASSUME T # {} PROVE FALSE
  OBVIOUS
<1>2. PICK x \in T : \A y \in T : x <= y
  <2>1. T \subseteq Nat
    OBVIOUS
  <2> HIDE DEF T
  <2>. QED BY <2>1, <1>1, LeastNatural
<1>3. /\ after[0] = g
      /\ \A i \in 1..Len(deleted) : after[i] = RemoveStepFromGraph(after[i - 1], deleted[i])
  BY AfterStep
<1>4. \A i \in 0..Len(deleted) :
        /\ Paths(after[i])
        /\ Nodes(after[i]) = {id \in Nodes(g) : \A j \in 1..i : deleted[j] # id}
  BY RemovalsKeepPaths
<1>5. Start \notin Nodes(g) /\ ToSet(order) = Nodes(g)
  BY NodesAre DEF IsChain, Paths
<1>6. CASE x = 0
  <2> DEFINE self == [i \in 1..Len(order) |-> i]
  <2>1. order \in Seq(ToSet(order)) /\ \A i \in 1..Len(order) : order[i] \in Nodes(g)
    BY <1>5
  <2>2. Picks(self, order, order, Nodes(g), Len(order))
    BY <2>1 DEF Picks
  <2>3. KeepsOrder(g, order)
    BY <2>2 DEF KeepsOrder, IsChain
  <2>. QED BY <2>3, <1>2, <1>3, <1>6
<1>7. CASE x # 0
  <2> DEFINE p == x - 1
  <2>1. x \in 1..Len(deleted) /\ p \in 0..Len(deleted) /\ x = p + 1 /\ p \notin T
    BY <1>2, <1>7
  <2>2. after[x] = RemoveStepFromGraph(after[p], deleted[x])
    BY <2>1, <1>3
  <2> HIDE DEF p
  <2>3. KeepsOrder(after[p], order)
    BY <2>1
  <2>4. deleted[x] \in Nodes(after[p])
    <3>1. \A j \in 1..p : deleted[j] # deleted[x]
      BY <2>1 DEF Distinct
    <3>. QED BY <2>1, <3>1, <1>4
  <2>5. Paths(after[p]) /\ Nodes(after[p]) \subseteq ToSet(order)
    BY <2>1, <1>4, <1>5
  <2>6. KeepsOrder(RemoveStepFromGraph(after[p], deleted[x]), order)
    BY <1>5, <2>3, <2>4, <2>5, RemovalKeepsOrder
  <2>. QED BY <2>2, <2>6, <1>2
<1>. QED BY <1>6, <1>7

(* The walk of what is left.                                               *)
LEMMA OrderIsKept ==
  ASSUME NEW Id, Start \notin Id, NEW order \in Seq(Id), Distinct(order),
         NEW h, KeepsOrder(h, order)
  PROVE  ConnectedStepIds(h.edges) = Kept(order, Nodes(h))
<1>1. PICK less, place : /\ h.edges = BuildOrderedEdges(less)
                         /\ Picks(place, less, order, Nodes(h), Len(order))
  BY DEF KeepsOrder
<1>2. PICK other : Picks(other, Kept(order, Nodes(h)), order, Nodes(h), Len(order))
  BY KeptPicks
<1>3. Len(order) \in Nat
  OBVIOUS
<1>4. less = Kept(order, Nodes(h))
  BY <1>1, <1>2, <1>3, PicksUnique
<1>5. less \in Seq(Id) /\ Distinct(less)
  BY <1>4, KeptIs
<1>. QED BY <1>1, <1>4, <1>5, WalkOfChain

(* Deleting steps keeps the order of the others.                           *)
THEOREM DeletionsKeepOrder == GraphSpec => DeletionKeepsOrder
<1>1. ASSUME Paths(graph), Valid(graph), DeletesSteps
      PROVE  ConnectedStepIds(graph'.edges) = Kept(ConnectedStepIds(graph.edges), Nodes(graph'))
  <2> DEFINE order == ConnectedStepIds(graph.edges)
  <2>1. /\ order \in Seq(Nodes(graph)) /\ Distinct(order) /\ IsChain(graph, order)
        /\ Start \notin Nodes(graph)
    BY <1>1, ValidIsChain, NodesAre DEF Paths
  <2> HIDE DEF order
  <2>2. ASSUME NEW deleted \in Seq(Nodes(graph)), Distinct(deleted),
               NEW after, IsAfter(after, graph, deleted, Len(deleted)), graph' = after[Len(deleted)]
        PROVE  KeepsOrder(graph', order)
    <3>1. Len(deleted) \in 0..Len(deleted)
      OBVIOUS
    <3>. QED BY <1>1, <2>1, <2>2, <3>1, RemovalsKeepOrder
  <2>3. ASSUME NEW id \in Keys, DeleteNode(id) PROVE KeepsOrder(graph', order)
    <3> DEFINE deleted == <<id>>
    <3>1. id \in Nodes(graph) /\ graph' = RemoveStepFromGraph(graph, id)
      BY <2>3 DEF DeleteNode
    <3>2. PICK after : IsAfter(after, graph, deleted, 1)
      BY AfterExists
    <3>3. after[0] = graph /\ after[1] = RemoveStepFromGraph(after[0], deleted[1])
      <4>1. after[0] = graph /\ \A n \in 1..1 : after[n] = RemoveStepFromGraph(after[n - 1], deleted[n])
        BY <3>2, AfterStep
      <4>. QED BY <4>1
    <3>4. deleted \in Seq(Nodes(graph)) /\ Len(deleted) = 1 /\ Distinct(deleted) /\ deleted[1] = id
      BY <3>1 DEF Distinct
    <3>. QED BY <3>1, <3>2, <3>3, <3>4, <2>2
  <2>4. ASSUME NEW ids \in (SUBSET Nodes(graph)) \ {{}}, NEW others, DeleteSelection(ids, others)
        PROVE  KeepsOrder(graph', order)
    <3> DEFINE deleted == Kept(Ids(graph.nodes), ids)
    <3>1. graph' = WithoutSteps(ids)
      BY <2>4 DEF DeleteSelection, Show, AfterDeletion
    <3>2. PICK after : /\ IsAfter(after, graph, deleted, Len(deleted))
                       /\ WithoutSteps(ids) = after[Len(deleted)]
      BY <1>1, WithoutStepsIsLast
    <3>3. deleted \in Seq(Nodes(graph)) /\ Distinct(deleted)
      <4>1. Ids(graph.nodes) \in Seq(Nodes(graph)) /\ Distinct(Ids(graph.nodes))
        BY <1>1, NodesAre DEF Paths
      <4>. QED BY <4>1, KeptIs
    <3> HIDE DEF deleted
    <3>. QED BY <3>1, <3>2, <3>3, <2>2
  <2>5. KeepsOrder(graph', order)
    BY <1>1, <2>3, <2>4 DEF DeletesSteps
  <2>6. ConnectedStepIds(graph'.edges) = Kept(order, Nodes(graph'))
    BY <2>1, <2>5, OrderIsKept
  <2>. QED BY <2>6 DEF order
<1>2. CanvasInv /\ [GraphNext]_canvas =>
        [Valid(graph) /\ DeletesSteps
           => ConnectedStepIds(graph'.edges) = Kept(ConnectedStepIds(graph.edges), Nodes(graph'))]_canvas
  BY <1>1 DEF CanvasInv
<1> QED
  BY <1>2, CanvasShowsPaths, PTL DEF GraphSpec, DeletionKeepsOrder
===============================================================================
