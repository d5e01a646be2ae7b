----------------------- MODULE ReverseClosure_proofs -----------------------
(***************************************************************************)
(* The graph's mutations and the reverse closure, for graphs of any size:  *)
(* the result of reverse_closure is the least set that holds the seeds and *)
(* all that depends on a member of it.                                     *)
(***************************************************************************)
EXTENDS ReverseClosure, FiniteSetTheorems, FunctionTheorems, SequenceTheorems, TLAPS

-----------------------------------------------------------------------------
(***************************************************************************)
(* What the mutations of the graph keep: the types of its fields, one node *)
(* of a name and one edge of a kind between two nodes.                     *)
(***************************************************************************)

\* put_node keeps the ids and the edges of the graph.
LEMMA PutNodeType ==
    ASSUME GraphTypeOK, NEW name \in Names, NEW command \in Commands, PutNode(name, command)
    PROVE  /\ GraphTypeOK'
           /\ NodeIds \subseteq NodeIds'
<1> DEFINE node == [name |-> name, command |-> command, generation |-> generation + 1]
<1>1. node \in BuildNode
  BY DEF GraphTypeOK, BuildNode
<1>2. nodes \in Seq(BuildNode) /\ Len(nodes) \in Nat
  BY DEF GraphTypeOK
<1>3. nodes' \in Seq(BuildNode) /\ Len(nodes') >= Len(nodes)
  <2>1. CASE Named(name) = {}
    <3>1. nodes' = Append(nodes, node)
      BY <2>1 DEF PutNode
    <3>2. QED  BY <1>1, <1>2, <3>1, AppendProperties
  <2>2. CASE Named(name) # {}
    <3>1. nodes' = [n \in 1..Len(nodes) |-> IF n \in Named(name) THEN node ELSE nodes[n]]
      BY <2>2 DEF PutNode, NodeIds
    <3>2. \A n \in 1..Len(nodes) : nodes[n] \in BuildNode
      BY <1>2
    <3>3. nodes' \in [1..Len(nodes) -> BuildNode]
      BY <1>1, <3>1, <3>2
    <3>4. QED  BY <1>2, <3>3
  <2>3. QED  BY <2>1, <2>2
<1>4. NodeIds \subseteq NodeIds'
  BY <1>2, <1>3 DEF NodeIds
<1>5. edges' = edges /\ next_edge' = next_edge /\ generation' = generation + 1
  BY DEF PutNode, Publish
<1>6. DependencyEdge \subseteq DependencyEdge'
  BY <1>4 DEF DependencyEdge
<1>7. edges' \in [EdgeIds' -> DependencyEdge']
  <2>1. edges \in [EdgeIds -> DependencyEdge]
    BY DEF GraphTypeOK
  <2>2. EdgeIds' = EdgeIds
    BY <1>5 DEF EdgeIds
  <2>3. QED  BY <1>5, <1>6, <2>1, <2>2
<1>8. QED  BY <1>3, <1>4, <1>5, <1>7 DEF GraphTypeOK, EdgeIds

\* put_edge puts one more edge, with an id that was never given.
LEMMA PutEdgeType ==
    ASSUME GraphTypeOK, NEW from \in NodeIds, NEW to \in NodeIds, NEW kind \in Kinds,
           PutEdge(from, to, kind)
    PROVE  /\ GraphTypeOK'
           /\ NodeIds \subseteq NodeIds'
<1> DEFINE edge == [from |-> from, to |-> to, kind |-> kind, generation |-> generation + 1]
<1>1. edge \in DependencyEdge
  BY DEF GraphTypeOK, DependencyEdge
<1>2. edges' = [e \in EdgeIds \cup {next_edge} |-> IF e = next_edge THEN edge ELSE edges[e]]
  BY DEF PutEdge
<1>3. nodes' = nodes /\ next_edge' = next_edge + 1 /\ generation' = generation + 1
  BY DEF PutEdge, Publish
<1>4. NodeIds' = NodeIds /\ DependencyEdge' = DependencyEdge
  BY <1>3 DEF NodeIds, DependencyEdge
<1>5. EdgeIds' = EdgeIds \cup {next_edge}
  BY <1>2 DEF EdgeIds
<1>6. edges' \in [EdgeIds' -> DependencyEdge']
  <2>1. \A e \in EdgeIds : edges[e] \in DependencyEdge
    BY DEF GraphTypeOK
  <2>2. \A e \in EdgeIds \cup {next_edge} :
           (IF e = next_edge THEN edge ELSE edges[e]) \in DependencyEdge
    BY <1>1, <2>1
  <2>3. QED  BY <1>2, <1>4, <1>5, <2>2
<1>7. EdgeIds' \subseteq 1..(next_edge' - 1)
  <2>1. next_edge \in Nat \ {0} /\ EdgeIds \subseteq 1..(next_edge - 1)
    BY DEF GraphTypeOK
  <2>2. QED  BY <1>3, <1>5, <2>1
<1>8. nodes' \in Seq(BuildNode') /\ generation' \in Nat /\ next_edge' \in Nat \ {0}
  BY <1>3 DEF GraphTypeOK, BuildNode
<1>9. QED  BY <1>4, <1>6, <1>7, <1>8 DEF GraphTypeOK

LEMMA RemoveDiscoveredType ==
    ASSUME GraphTypeOK, NEW from, RemoveDiscoveredFrom(from)
    PROVE  /\ GraphTypeOK'
           /\ NodeIds \subseteq NodeIds'
<1> DEFINE kept == {d \in EdgeIds : ~(edges[d].from = from /\ edges[d].kind = "discovered")}
<1>1. edges' = [e \in kept |-> edges[e]]
  BY DEF RemoveDiscoveredFrom
<1>2. nodes' = nodes /\ next_edge' = next_edge /\ generation' = generation + 1
  BY DEF RemoveDiscoveredFrom, Publish
<1>3. NodeIds' = NodeIds /\ DependencyEdge' = DependencyEdge
  BY <1>2 DEF NodeIds, DependencyEdge
<1>4. EdgeIds' = kept
  BY <1>1 DEF EdgeIds
<1>5. edges' \in [EdgeIds' -> DependencyEdge']
  BY <1>1, <1>3, <1>4 DEF GraphTypeOK
<1>6. EdgeIds' \subseteq 1..(next_edge' - 1)
  BY <1>2, <1>4 DEF GraphTypeOK
<1>7. nodes' \in Seq(BuildNode') /\ generation' \in Nat /\ next_edge' \in Nat \ {0}
  BY <1>2 DEF GraphTypeOK, BuildNode
<1>8. QED  BY <1>3, <1>5, <1>6, <1>7 DEF GraphTypeOK

LEMMA MutateType ==
    ASSUME GraphTypeOK, Mutate
    PROVE  GraphTypeOK' /\ NodeIds \subseteq NodeIds'
  BY PutNodeType, PutEdgeType, RemoveDiscoveredType DEF Mutate

\* The ids of nodes are finitely many.
LEMMA SomeNodesFinite ==
    ASSUME GraphTypeOK, NEW S \in SUBSET NodeIds
    PROVE  IsFiniteSet(S)
<1>1. Len(nodes) \in Nat
  BY DEF GraphTypeOK
<1>2. IsFiniteSet(NodeIds)
  BY <1>1, FS_Interval DEF NodeIds
<1>3. QED  BY <1>2, FS_Subset

\* The ends of an edge are nodes.
LEMMA EdgeEnds ==
    ASSUME GraphTypeOK, NEW e \in EdgeIds
    PROVE  edges[e].from \in NodeIds /\ edges[e].to \in NodeIds
<1>1. edges[e] \in DependencyEdge
  BY DEF GraphTypeOK
<1>2. QED  BY <1>1 DEF DependencyEdge

\* put_node makes no twins.
LEMMA PutNodeUnique ==
    ASSUME GraphTypeOK, Unique, NEW name \in Names, NEW command \in Commands, PutNode(name, command)
    PROVE  Unique'
<1> DEFINE node == [name |-> name, command |-> command, generation |-> generation + 1]
<1>1. edges' = edges /\ EdgeIds' = EdgeIds
  BY DEF PutNode, EdgeIds
<1>2. nodes \in Seq(BuildNode) /\ Len(nodes) \in Nat
  BY DEF GraphTypeOK
<1>3. node \in BuildNode
  BY DEF GraphTypeOK, BuildNode
<1>4. CASE Named(name) = {}
  <2>1. nodes' = Append(nodes, node)
    BY <1>4 DEF PutNode
  <2>2. /\ Len(nodes') = Len(nodes) + 1
        /\ \A n \in 1..Len(nodes) : nodes'[n] = nodes[n]
        /\ nodes'[Len(nodes) + 1] = node
    BY <1>2, <1>3, <2>1, AppendProperties
  <2>3. \A n \in 1..Len(nodes) : nodes[n].name # name
    BY <1>4 DEF Named, NodeIds
  <2>4. \A n \in 1..Len(nodes') : n \in 1..Len(nodes) \/ n = Len(nodes) + 1
    BY <1>2, <2>2
  <2>5. node.name = name
    OBVIOUS
  <2>6. \A m, n \in 1..Len(nodes') : nodes'[m].name = nodes'[n].name => m = n
    BY <2>2, <2>3, <2>4, <2>5 DEF Unique, NodeIds
  <2>7. QED  BY <1>1, <2>6 DEF Unique, NodeIds
<1>5. CASE Named(name) # {}
  <2>1. nodes' = [n \in 1..Len(nodes) |-> IF n \in Named(name) THEN node ELSE nodes[n]]
    BY <1>5 DEF PutNode, NodeIds
  <2>2. Len(nodes') = Len(nodes)
    BY <1>2, <2>1
  <2>3. \A n \in 1..Len(nodes) : nodes'[n].name = nodes[n].name
    BY <2>1 DEF Named, NodeIds
  <2>4. QED  BY <1>1, <2>2, <2>3 DEF Unique, NodeIds
<1>6. QED  BY <1>4, <1>5

\* put_edge makes no twins.
LEMMA PutEdgeUnique ==
    ASSUME GraphTypeOK, Unique, NEW from \in NodeIds, NEW to \in NodeIds, NEW kind \in Kinds,
           PutEdge(from, to, kind)
    PROVE  Unique'
<1> DEFINE edge == [from |-> from, to |-> to, kind |-> kind, generation |-> generation + 1]
<1>1. nodes' = nodes
  BY DEF PutEdge
<1>2. edges' = [e \in EdgeIds \cup {next_edge} |-> IF e = next_edge THEN edge ELSE edges[e]]
  BY DEF PutEdge
<1>3. EdgeIds' = EdgeIds \cup {next_edge}
  BY <1>2 DEF EdgeIds
<1>4. next_edge \notin EdgeIds
  <2>1. next_edge \in Nat /\ EdgeIds \subseteq 1..(next_edge - 1)
    BY DEF GraphTypeOK
  <2>2. QED  BY <2>1
<1>5. \A e \in EdgeIds : edges'[e] = edges[e]
  BY <1>2, <1>4
<1>6. edges'[next_edge].from = from /\ edges'[next_edge].to = to
      /\ edges'[next_edge].kind = kind
  BY <1>2
<1>7. \A e \in EdgeIds : ~(edges[e].from = from /\ edges[e].to = to /\ edges[e].kind = kind)
  BY DEF PutEdge, Present
<1>8. QED  BY <1>1, <1>3, <1>5, <1>6, <1>7 DEF Unique, NodeIds

LEMMA UniqueInductive ==
    ASSUME GraphTypeOK, Unique, Mutate
    PROVE  Unique'
<1>1. ASSUME NEW from, RemoveDiscoveredFrom(from)
      PROVE  Unique'
  BY <1>1 DEF RemoveDiscoveredFrom, Unique, NodeIds, EdgeIds
<1>2. QED  BY PutNodeUnique, PutEdgeUnique, <1>1 DEF Mutate

\* There are no more nodes than names.
LEMMA FewNodes ==
    ASSUME GraphTypeOK, Unique
    PROVE  /\ Len(nodes) \in Nat /\ Cardinality(Names) \in Nat
           /\ Len(nodes) <= Cardinality(Names)
           /\ NodeIds \subseteq 1..Cardinality(Names)
<1> DEFINE f == [n \in NodeIds |-> nodes[n].name]
<1>1. nodes \in Seq(BuildNode) /\ Len(nodes) \in Nat
  BY DEF GraphTypeOK
<1>2. \A n \in NodeIds : nodes[n].name \in Names
  <2>1. \A n \in NodeIds : nodes[n] \in BuildNode
    BY <1>1 DEF NodeIds
  <2> QED  BY <2>1 DEF BuildNode
<1>3. f \in Injection(NodeIds, Names)
  BY <1>2 DEF Injection, IsInjective, Unique
<1>4. IsFiniteSet(Names)
  BY GraphAssumption
<1>5. Cardinality(NodeIds) <= Cardinality(Names) /\ Cardinality(Names) \in Nat
  <2>1. Cardinality(NodeIds) <= Cardinality(Names)
    BY <1>3, <1>4, FS_Injection
  <2> QED  BY <2>1, <1>4, FS_CardinalityType
<1>6. Cardinality(NodeIds) = Len(nodes)
  <2>1. Cardinality(1..Len(nodes)) = IF 1 > Len(nodes) THEN 0 ELSE Len(nodes) - 1 + 1
    BY <1>1, FS_Interval
  <2> QED  BY <2>1, <1>1 DEF NodeIds
<1> QED  BY <1>1, <1>5, <1>6 DEF NodeIds

-----------------------------------------------------------------------------
\* A list of a finite set is a sequence of its members, and of all of them.
LEMMA ListingIsSequence ==
    ASSUME NEW S, IsFiniteSet(S), NEW s \in Listings(S)
    PROVE  /\ s \in Seq(S)
           /\ \A x \in S : \E i \in 1..Len(s) : s[i] = x
<1>1. Cardinality(S) \in Nat
  BY FS_CardinalityType
<1>2. s \in [1..Cardinality(S) -> S]
  BY DEF Listings
<1>3. s \in Seq(S) /\ Len(s) = Cardinality(S)
  BY <1>1, <1>2
<1>4. QED  BY <1>3 DEF Listings

-----------------------------------------------------------------------------
(***************************************************************************)
(* The loop.                                                               *)
(***************************************************************************)

\* The work of an iteration: the last node is gone, the found ones are there.
LEMMA TakenWork ==
    ASSUME LoopInvariant, Take
    PROVE  LET node == work[Len(work)]
           IN  /\ node \in NodeIds /\ node \in reached
               /\ reached' = reached \cup Found(node)
               /\ Found(node) \subseteq NodeIds
               /\ work' \in Seq(NodeIds)
               /\ \A n \in NodeIds : InWork(n) /\ n # node => InWork(n)'
               /\ \A n \in Found(node) : InWork(n)'
               /\ \A n \in NodeIds : InWork(n)' => InWork(n) \/ n \in Found(node)
<1> DEFINE node == work[Len(work)]
<1> DEFINE rest == SubSeq(work, 1, Len(work) - 1)
<1>1. work \in Seq(NodeIds) /\ work # <<>>
  BY DEF LoopInvariant, ClosureTypeOK, Take
<1>2. Len(work) \in Nat \ {0}
  BY <1>1, EmptySeq
<1>3. node \in NodeIds
  BY <1>1, <1>2
<1>4. node \in reached
  BY <1>2, <1>3 DEF LoopInvariant, InWork
<1>5. Found(node) \subseteq NodeIds
  BY EdgeEnds DEF Found, ReverseDependencies, LoopInvariant, ClosureTypeOK
<1>6. PICK pushed \in Listings(Found(node)) : work' = rest \o pushed
  BY DEF Take
<1>7. /\ pushed \in Seq(Found(node))
      /\ \A x \in Found(node) : \E i \in 1..Len(pushed) : pushed[i] = x
  <2>1. IsFiniteSet(Found(node))
    BY <1>5, SomeNodesFinite DEF LoopInvariant, ClosureTypeOK
  <2>2. QED  BY <1>6, <2>1, ListingIsSequence
<1>8. /\ rest \in Seq(NodeIds)
      /\ Len(rest) = Len(work) - 1
      /\ \A i \in 1..(Len(work) - 1) : rest[i] = work[i]
  <2>1. 1 \in Int /\ Len(work) - 1 \in Int
    BY <1>2
  <2>2. \A i \in 1..(Len(work) - 1) : work[i] \in NodeIds
    BY <1>1, <1>2
  <2>3. /\ rest \in Seq(NodeIds)
        /\ Len(rest) = IF 1 <= Len(work) - 1 THEN Len(work) - 1 - 1 + 1 ELSE 0
        /\ \A i \in 1..(Len(work) - 1 - 1 + 1) : rest[i] = work[1 + i - 1]
    BY <2>1, <2>2, SubSeqProperties
  <2>4. \A i \in 1..(Len(work) - 1) : rest[i] = work[i]
    <3> SUFFICES ASSUME NEW i \in 1..(Len(work) - 1)
                 PROVE  rest[i] = work[i]
      OBVIOUS
    <3>1. i \in 1..(Len(work) - 1 - 1 + 1) /\ 1 + i - 1 = i
      BY <1>2
    <3>2. QED  BY <2>3, <3>1
  <2>5. Len(rest) = Len(work) - 1
    <3> HIDE DEF rest
    <3>1. CASE Len(work) = 1
      BY <2>3, <3>1
    <3>2. CASE Len(work) > 1
      BY <1>2, <2>3, <3>2
    <3>3. QED  BY <1>2, <3>1, <3>2
  <2>6. QED  BY <2>3, <2>4, <2>5
<1>9. pushed \in Seq(NodeIds) /\ \A i \in 1..Len(pushed) : pushed[i] \in Found(node)
  BY <1>5, <1>7
<1>10. /\ work' \in Seq(NodeIds)
       /\ Len(work') = Len(rest) + Len(pushed)
       /\ \A i \in 1..(Len(rest) + Len(pushed)) :
             work'[i] = IF i <= Len(rest) THEN rest[i] ELSE pushed[i - Len(rest)]
  BY <1>6, <1>8, <1>9, ConcatProperties
<1>11. \A n \in NodeIds : InWork(n) /\ n # node => InWork(n)'
  <2> SUFFICES ASSUME NEW n \in NodeIds, InWork(n), n # node
               PROVE  InWork(n)'
    OBVIOUS
  <2>1. PICK i \in 1..Len(work) : work[i] = n
    BY DEF InWork
  <2>2. i \in 1..(Len(work) - 1) /\ Len(pushed) \in Nat
    BY <1>2, <1>9, <2>1
  <2>3. i \in 1..Len(work') /\ work'[i] = n
    <3>1. i <= Len(rest) /\ i \in 1..(Len(rest) + Len(pushed))
      BY <1>2, <1>8, <2>2
    <3>2. work'[i] = rest[i] /\ rest[i] = work[i]
      BY <1>8, <1>10, <2>2, <3>1
    <3>3. QED  BY <1>10, <2>1, <3>1, <3>2
  <2>4. QED  BY <2>3 DEF InWork
<1>12. \A n \in Found(node) : InWork(n)'
  <2> SUFFICES ASSUME NEW n \in Found(node)
               PROVE  InWork(n)'
    OBVIOUS
  <2>1. PICK i \in 1..Len(pushed) : pushed[i] = n
    BY <1>7
  <2>2. Len(rest) \in Nat /\ Len(pushed) \in Nat
    BY <1>8, <1>9
  <2>3. Len(rest) + i \in 1..Len(work') /\ work'[Len(rest) + i] = n
    BY <1>10, <2>1, <2>2
  <2>4. QED  BY <2>3 DEF InWork
<1>13. \A n \in NodeIds : InWork(n)' => InWork(n) \/ n \in Found(node)
  <2> SUFFICES ASSUME NEW n \in NodeIds, InWork(n)'
               PROVE  InWork(n) \/ n \in Found(node)
    OBVIOUS
  <2>1. PICK i \in 1..Len(work') : work'[i] = n
    BY DEF InWork
  <2>2. Len(rest) \in Nat /\ Len(pushed) \in Nat
    BY <1>8, <1>9
  <2>3. CASE i <= Len(rest)
    <3>1. i \in 1..Len(work) /\ work[i] = n
      BY <1>2, <1>8, <1>10, <2>1, <2>2, <2>3
    <3>2. QED  BY <3>1 DEF InWork
  <2>4. CASE i > Len(rest)
    <3>1. i - Len(rest) \in 1..Len(pushed) /\ pushed[i - Len(rest)] = n
      BY <1>10, <2>1, <2>2, <2>4
    <3>2. QED  BY <1>9, <3>1
  <2>5. QED  BY <2>1, <2>2, <2>3, <2>4
<1>14. QED
  BY <1>3, <1>4, <1>5, <1>10, <1>11, <1>12, <1>13 DEF Take

\* A closed set that holds the seeds keeps holding what an iteration finds.
LEMMA TakeAffected ==
    ASSUME LoopInvariant, Take
    PROVE  ReachedAffected'
<1> DEFINE node == work[Len(work)]
<1>1. nodes' = nodes /\ edges' = edges /\ seeds' = seeds
  BY DEF Take, graph
<1>2. SUFFICES ASSUME NEW S \in SUBSET NodeIds, seeds \subseteq S, ClosedUpward(S)
               PROVE  reached' \subseteq S
  BY <1>1 DEF ReachedAffected, ClosedUpward, NodeIds, EdgeIds
<1>3. reached \subseteq S
  BY <1>2 DEF LoopInvariant, ReachedAffected
<1>4. node \in S /\ reached' = reached \cup Found(node)
  BY <1>3, TakenWork
<1>5. Found(node) \subseteq S
  BY <1>2, <1>4 DEF Found, ReverseDependencies, ClosedUpward
<1>6. QED  BY <1>3, <1>4, <1>5

LEMMA TakeInvariant ==
    ASSUME LoopInvariant, Take
    PROVE  LoopInvariant'
<1> DEFINE node == work[Len(work)]
<1>1. /\ nodes' = nodes /\ edges' = edges /\ next_edge' = next_edge
      /\ generation' = generation /\ seeds' = seeds /\ searching' = searching
      /\ searching = TRUE
  BY DEF Take, graph, LoopInvariant, ClosureTypeOK
<1>2. /\ NodeIds' = NodeIds /\ EdgeIds' = EdgeIds /\ GraphTypeOK'
  BY <1>1 DEF NodeIds, EdgeIds, GraphTypeOK, LoopInvariant, ClosureTypeOK, BuildNode, DependencyEdge
<1>3. ClosureTypeOK'
  BY <1>1, <1>2, TakenWork DEF ClosureTypeOK, LoopInvariant
<1>4. seeds' \subseteq reached'
  BY <1>1, TakenWork DEF LoopInvariant
<1>5. \A n \in NodeIds' : InWork(n)' => n \in reached'
  BY <1>2, TakenWork DEF LoopInvariant
<1>6. \A e \in EdgeIds' :
         edges'[e].to \in reached' /\ ~InWork(edges[e].to)' => edges'[e].from \in reached'
  <2> SUFFICES ASSUME NEW e \in EdgeIds, edges[e].to \in reached', ~InWork(edges[e].to)'
               PROVE  edges[e].from \in reached'
    BY <1>1, <1>2
  <2>1. PICK n \in NodeIds : n = edges[e].to
    BY EdgeEnds DEF LoopInvariant, ClosureTypeOK
  <2>2. ~InWork(n)'
    BY <1>1, <2>1 DEF InWork
  <2>3. n \in reached
    BY <2>1, <2>2, TakenWork
  <2>4. CASE n = node
    <3>1. edges[e].from \in reached \cup Found(node)
      BY <2>1, <2>4 DEF Found, ReverseDependencies
    <3>2. QED  BY <3>1, TakenWork
  <2>5. CASE n # node
    <3>1. ~InWork(n)
      BY <2>2, <2>5, TakenWork
    <3>2. edges[e].from \in reached
      BY <2>1, <2>3, <3>1 DEF LoopInvariant
    <3>3. QED  BY <3>2, TakenWork
  <2>6. QED  BY <2>4, <2>5
<1>7. ~searching' => work' = <<>>
  BY <1>1
<1>8. QED
  BY <1>3, <1>4, <1>5, <1>6, <1>7, TakeAffected DEF LoopInvariant

LEMMA BeginInvariant ==
    ASSUME LoopInvariant, NEW ns \in SUBSET NodeIds, BeginClosure(ns)
    PROVE  LoopInvariant'
<1>1. /\ nodes' = nodes /\ edges' = edges /\ next_edge' = next_edge
      /\ generation' = generation /\ seeds' = ns /\ reached' = ns /\ searching' = TRUE
  BY DEF BeginClosure, graph
<1>2. NodeIds' = NodeIds /\ EdgeIds' = EdgeIds /\ GraphTypeOK'
  BY <1>1 DEF NodeIds, EdgeIds, GraphTypeOK, LoopInvariant, ClosureTypeOK, BuildNode, DependencyEdge
<1>3. PICK s \in Listings(ns) : work' = s
  BY DEF BeginClosure
<1>4. s \in Seq(ns) /\ \A x \in ns : \E i \in 1..Len(s) : s[i] = x
  <2>1. IsFiniteSet(ns)
    BY SomeNodesFinite DEF LoopInvariant, ClosureTypeOK
  <2>2. QED  BY <1>3, <2>1, ListingIsSequence
<1>5. work' \in Seq(NodeIds')
  BY <1>2, <1>3, <1>4
<1>6. ClosureTypeOK'
  BY <1>1, <1>2, <1>5 DEF ClosureTypeOK
<1>7. ReachedAffected'
  BY <1>1 DEF ReachedAffected
<1>8. \A n \in NodeIds' : InWork(n)' => n \in reached'
  BY <1>1, <1>3, <1>4 DEF InWork
<1>9. \A e \in EdgeIds' : ~(edges'[e].to \in reached' /\ ~InWork(edges[e].to)')
  BY <1>1, <1>3, <1>4 DEF InWork
<1>10. QED
  BY <1>1, <1>6, <1>7, <1>8, <1>9 DEF LoopInvariant

\* The graph changes only while there is no search: nothing is reached.
LEMMA MutateInvariant ==
    ASSUME LoopInvariant, Idle, Mutate, UNCHANGED <<seeds, reached, work, searching>>
    PROVE  LoopInvariant'
<1>1. seeds = {} /\ ~searching /\ work = <<>>
  BY DEF Idle, LoopInvariant
<1>2. reached = {}
  <2>1. ClosedUpward({})
    BY DEF ClosedUpward
  <2>2. QED  BY <1>1, <2>1 DEF LoopInvariant, ReachedAffected
<1>3. GraphTypeOK'
  BY MutateType DEF LoopInvariant, ClosureTypeOK
<1>4. ClosureTypeOK'
  BY <1>1, <1>2, <1>3 DEF ClosureTypeOK, LoopInvariant
<1>5. ReachedAffected'
  BY <1>2 DEF ReachedAffected
<1>6. \A n : ~InWork(n)'
  BY <1>1 DEF InWork
<1>7. QED
  BY <1>1, <1>2, <1>4, <1>5, <1>6 DEF LoopInvariant

\* The set of reached nodes stays the least that can be the result, and grows
\* until it is.
LEMMA LoopInvariantInductive ==
    ASSUME LoopInvariant, [ClosureNext]_closureVars
    PROVE  LoopInvariant'
<1>1. CASE Idle /\ Mutate /\ UNCHANGED <<seeds, reached, work, searching>>
  BY <1>1, MutateInvariant
<1>2. CASE \E ns \in (SUBSET NodeIds) \ {{}} : BeginClosure(ns)
  BY <1>2, BeginInvariant
<1>3. CASE Take
  BY <1>3, TakeInvariant
<1>4. CASE ReturnClosure
  BY <1>4 DEF ReturnClosure, LoopInvariant, ClosureTypeOK, ReachedAffected, ClosedUpward, InWork, graph,
              GraphTypeOK, NodeIds, EdgeIds, BuildNode, DependencyEdge
<1>5. CASE Discard
  BY <1>5 DEF Discard, LoopInvariant, ClosureTypeOK, ReachedAffected, ClosedUpward, InWork, graph,
              GraphTypeOK, NodeIds, EdgeIds, BuildNode, DependencyEdge
<1>6. CASE UNCHANGED closureVars
  BY <1>6 DEF closureVars, LoopInvariant, ClosureTypeOK, ReachedAffected, ClosedUpward, InWork, graph,
              GraphTypeOK, NodeIds, EdgeIds, BuildNode, DependencyEdge
<1>7. QED  BY <1>1, <1>2, <1>3, <1>4, <1>5, <1>6 DEF ClosureNext

LEMMA LoopInvariantInitial ==
    ASSUME ClosureInit
    PROVE  LoopInvariant
<1>1. nodes = <<>> /\ edges = <<>> /\ next_edge = 1 /\ generation = 1
  BY DEF ClosureInit, GraphInit
<1>2. EdgeIds = {} /\ edges \in [EdgeIds -> DependencyEdge]
  BY <1>1 DEF EdgeIds
<1>3. GraphTypeOK
  <2>1. nodes \in Seq(BuildNode)
    BY <1>1
  <2>2. generation \in Nat /\ next_edge \in Nat \ {0}
    BY <1>1
  <2>3. QED  BY <1>2, <2>1, <2>2 DEF GraphTypeOK
<1>4. ClosureTypeOK
  <2>1. work \in Seq(NodeIds)
    BY DEF ClosureInit
  <2>2. seeds \subseteq NodeIds /\ reached \subseteq NodeIds /\ searching \in BOOLEAN
    BY DEF ClosureInit
  <2>3. QED  BY <1>3, <2>1, <2>2 DEF ClosureTypeOK
<1>5. QED
  BY <1>2, <1>4 DEF LoopInvariant, ClosureInit, ReachedAffected, InWork

\* Every state of reverse_closure has the loop invariant.
THEOREM LoopInvariantHolds == ClosureSpec => []LoopInvariant
  BY LoopInvariantInitial, LoopInvariantInductive, PTL DEF ClosureSpec

\* reverse_closure never reaches a node that does not depend on a seed.
THEOREM ReachedAffectedHolds == ClosureSpec => []ReachedAffected
<1>1. LoopInvariant => ReachedAffected
  BY DEF LoopInvariant
<1>2. QED  BY LoopInvariantHolds, <1>1, PTL

\* What reverse_closure returns holds the seeds and all that depends on them.
THEOREM ResultCompleteHolds == ClosureSpec => []ResultComplete
<1>1. LoopInvariant => ResultComplete
  BY DEF LoopInvariant, ResultComplete, ClosedUpward, InWork
<1>2. QED  BY LoopInvariantHolds, <1>1, PTL

-----------------------------------------------------------------------------
(***************************************************************************)
(* Names, edges, ids and generations.                                      *)
(***************************************************************************)

\* A step of the system mutates the graph or leaves it.
LEMMA GraphSteps ==
    ASSUME [ClosureNext]_closureVars
    PROVE  Mutate \/ UNCHANGED graph
  BY DEF ClosureNext, BeginClosure, Take, ReturnClosure, Discard, closureVars

\* There are no two nodes of a name and no two edges of a kind between nodes.
THEOREM UniqueHolds == ClosureSpec => []Unique
<1>1. ClosureInit => Unique
  BY DEF ClosureInit, GraphInit, Unique, NodeIds, EdgeIds
<1>2. LoopInvariant /\ Unique /\ [ClosureNext]_closureVars => Unique'
  <2> SUFFICES ASSUME LoopInvariant, Unique, [ClosureNext]_closureVars
               PROVE  Unique'
    OBVIOUS
  <2>1. CASE Mutate
    BY <2>1, UniqueInductive DEF LoopInvariant, ClosureTypeOK
  <2>2. CASE UNCHANGED graph
    BY <2>2 DEF graph, Unique, NodeIds, EdgeIds
  <2>3. QED  BY <2>1, <2>2, GraphSteps
<1>3. QED  BY LoopInvariantHolds, <1>1, <1>2, PTL DEF ClosureSpec

\* Every change of the graph publishes a generation of its own.
THEOREM GenerationTellsGraphHolds == ClosureSpec => GenerationTellsGraph
<1>1. LoopInvariant /\ [ClosureNext]_closureVars => [generation' > generation \/ UNCHANGED graph]_graph
  <2> SUFFICES ASSUME LoopInvariant, [ClosureNext]_closureVars, Mutate
               PROVE  generation' > generation
    BY GraphSteps
  <2>1. generation \in Nat
    BY DEF LoopInvariant, ClosureTypeOK, GraphTypeOK
  <2>2. generation' = generation + 1
    BY DEF Mutate, PutNode, PutEdge, RemoveDiscoveredFrom, Publish
  <2>3. QED  BY <2>1, <2>2
<1>2. QED  BY LoopInvariantHolds, <1>1, PTL DEF ClosureSpec, GenerationTellsGraph

\* An edge id names one edge for good.
THEOREM EdgeIdsNotReusedHolds == ClosureSpec => EdgeIdsNotReused
<1>1. LoopInvariant /\ [ClosureNext]_closureVars => [FreshIds]_graph
  <2> SUFFICES ASSUME LoopInvariant, [ClosureNext]_closureVars, Mutate
               PROVE  FreshIds
    BY GraphSteps
  <2>1. next_edge \in Nat /\ EdgeIds \subseteq 1..(next_edge - 1)
    BY DEF LoopInvariant, ClosureTypeOK, GraphTypeOK
  <2>2. CASE edges' = edges /\ next_edge' = next_edge
    BY <2>1, <2>2 DEF FreshIds, EdgeIds
  <2>3. ASSUME NEW from, NEW to, NEW kind, PutEdge(from, to, kind)
        PROVE  FreshIds
    <3>1. next_edge \notin EdgeIds
      BY <2>1
    <3>2. next_edge' = next_edge + 1
      BY <2>3 DEF PutEdge
    <3>3. DOMAIN edges' = EdgeIds \cup {next_edge} /\ \A e \in EdgeIds : edges'[e] = edges[e]
      BY <2>3, <3>1 DEF PutEdge
    <3>4. next_edge <= next_edge' /\ next_edge <= next_edge /\ next_edge < next_edge'
      BY <2>1, <3>2
    <3>5. \A e \in DOMAIN edges' :
             IF e \in EdgeIds THEN edges'[e] = edges[e] ELSE next_edge <= e /\ e < next_edge'
      BY <3>3, <3>4
    <3>6. QED  BY <3>4, <3>5 DEF FreshIds
  <2>4. ASSUME NEW from, RemoveDiscoveredFrom(from)
        PROVE  FreshIds
    <3>1. next_edge' = next_edge
      BY <2>4 DEF RemoveDiscoveredFrom
    <3>2. DOMAIN edges' \subseteq EdgeIds /\ \A e \in DOMAIN edges' : edges'[e] = edges[e]
      BY <2>4 DEF RemoveDiscoveredFrom
    <3>3. QED  BY <2>1, <3>1, <3>2 DEF FreshIds
  <2>5. QED  BY <2>2, <2>3, <2>4 DEF Mutate, PutNode
<1>2. QED  BY LoopInvariantHolds, <1>1, PTL DEF ClosureSpec, EdgeIdsNotReused

=============================================================================
