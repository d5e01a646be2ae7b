--------------------------- MODULE Manifest_proofs ---------------------------
(***************************************************************************)
(* The build of a workspace and the manifests applied to it, for graphs of *)
(* any size: the cycle search refuses a graph if and only if it has a      *)
(* cycle, the plan is sorted, no node runs before what it depends on, and  *)
(* both searches end.                                                      *)
(***************************************************************************)
EXTENDS Manifest, ReverseClosure_proofs, WellFoundedInduction, TLAPS

-----------------------------------------------------------------------------
(***************************************************************************)
(* Numbers, edges and dependencies.                                        *)
(***************************************************************************)

\* A set of natural numbers that is not empty has a least one.
LEMMA LeastNumber ==
    ASSUME NEW T, T \subseteq Nat, T # {}
    PROVE  \E n \in T : \A m \in T : n <= m
<1>1. IsWellFoundedOn(OpToRel(<, Nat), Nat)
  BY NatLessThanWellFounded
<1>2. PICK n \in T : \A m \in T : ~(<<m, n>> \in OpToRel(<, Nat))
  BY <1>1, WFMin
<1>3. \A m \in T : ~(m < n)
  BY <1>2 DEF OpToRel
<1> QED  BY <1>3

LEMMA LeastIsLeast ==
    ASSUME NEW S, S \subseteq Nat, S # {}
    PROVE  Least(S) \in S /\ \A y \in S : Least(S) <= y
BY LeastNumber DEF Least

LEMMA ListOfMore ==
    ASSUME NEW S, NEW T, S \subseteq T, NEW s \in Seq(S)
    PROVE  s \in Seq(T)
OBVIOUS

LEMMA ListOfLength ==
    ASSUME NEW S, NEW k \in Nat, NEW s \in [1..k -> S]
    PROVE  s \in Seq(S)
OBVIOUS

\* The ids of edges are natural numbers above 0, and so are those of nodes.
LEMMA Ids ==
    ASSUME GraphTypeOK
    PROVE  /\ EdgeIds \subseteq Nat \ {0} /\ NodeIds \subseteq Nat \ {0}
           /\ \A e \in EdgeIds : edges[e].from \in NodeIds /\ edges[e].to \in NodeIds
           /\ \A n : Dependencies(n) \subseteq NodeIds
<1>1. next_edge \in Nat /\ EdgeIds \subseteq 1..(next_edge - 1) /\ Len(nodes) \in Nat
  BY DEF GraphTypeOK
<1>2. EdgeIds \subseteq Nat \ {0} /\ NodeIds \subseteq Nat \ {0}
  BY <1>1 DEF NodeIds
<1>3. \A e \in EdgeIds : edges[e].from \in NodeIds /\ edges[e].to \in NodeIds
  BY EdgeEnds
<1> QED  BY <1>2, <1>3 DEF Dependencies

\* The dependencies of a node are the ends of its edges.
LEMMA DependencyEdges ==
    ASSUME NEW n, NEW d
    PROVE  d \in Dependencies(n) <=> \E e \in EdgeIds : edges[e].from = n /\ edges[e].to = d
BY DEF Dependencies

\* What a build in progress reads of the graph stays.
LEMMA GraphStays ==
    ASSUME UNCHANGED graph
    PROVE  /\ NodeIds' = NodeIds /\ EdgeIds' = EdgeIds /\ edges' = edges /\ nodes' = nodes
           /\ \A n : Dependencies(n)' = Dependencies(n)
           /\ GraphTypeOK' = GraphTypeOK /\ Unique' = Unique /\ Cyclic' = Cyclic
<1>1. nodes' = nodes /\ edges' = edges /\ next_edge' = next_edge /\ generation' = generation
  BY DEF graph
<1> QED  BY <1>1 DEF NodeIds, EdgeIds, Dependencies, GraphTypeOK, Unique, Cyclic, Circular, BuildNode, DependencyEdge

-----------------------------------------------------------------------------
(***************************************************************************)
(* The cycle search, with the stack of calls stk and the colors col.       *)
(***************************************************************************)

Colors == {"white", "gray", "black"}

\* The calls that have not returned are those of the gray nodes, each of them
\* once, and each was made for the edge that its caller looks at.
Calls(stk, col) ==
    /\ \A i \in 1..Len(stk) : stk[i].node \in NodeIds /\ col[stk[i].node] = "gray"
    /\ \A n \in NodeIds : col[n] = "gray" => \E i \in 1..Len(stk) : stk[i].node = n
    /\ \A i, j \in 1..Len(stk) : stk[i].node = stk[j].node => i = j
    /\ \A i \in 1..(Len(stk) - 1) :
          /\ stk[i].at \in EdgeIds
          /\ edges[stk[i].at].from = stk[i].node
          /\ edges[stk[i].at].to = stk[i + 1].node

\* An edge that was looked at leads to a black node, but for the edges of the
\* calls that wait for one they made.
LookedAtBlack(stk, col) ==
    \A i \in 1..Len(stk) : \A e \in EdgeIds :
        edges[e].from = stk[i].node /\ e <= stk[i].at =>
            col[edges[e].to] = "black" \/ (i < Len(stk) /\ e = stk[i].at)

\* What a black node depends on is black, and there is no cycle among them.
Black(col) == {n \in NodeIds : col[n] = "black"}
BlackClosed(col) == \A n \in Black(col) : Dependencies(n) \subseteq Black(col)
BlackAcyclic(col) == \A C \in SUBSET Black(col) : Circular(C) => C = {}

Searching(stk, col) ==
    /\ stk \in Seq(Frame) /\ col \in [NodeIds -> Colors]
    /\ Calls(stk, col) /\ LookedAtBlack(stk, col) /\ BlackClosed(col) /\ BlackAcyclic(col)

\* The stack with the last call at x, and with a call more.
At(stk, x) == [stk EXCEPT ![Len(stk)].at = x]

LEMMA AtProperties ==
    ASSUME NEW stk \in Seq(Frame), stk # <<>>, NEW x \in Nat
    PROVE  /\ At(stk, x) \in Seq(Frame) /\ Len(At(stk, x)) = Len(stk) /\ Len(stk) \in Nat \ {0}
           /\ \A i \in 1..(Len(stk) - 1) : At(stk, x)[i] = stk[i]
           /\ \A i \in 1..Len(stk) : At(stk, x)[i].node = stk[i].node
           /\ At(stk, x)[Len(stk)].at = x
<1>1. Len(stk) \in Nat /\ Len(stk) # 0 /\ Len(stk) \in 1..Len(stk)
  BY EmptySeq
<1>2. \A i \in 1..Len(stk) : stk[i] \in Frame
  OBVIOUS
<1>3. At(stk, x) = [i \in 1..Len(stk) |-> IF i = Len(stk) THEN [stk[i] EXCEPT !.at = x] ELSE stk[i]]
  BY DEF At
<1>4. ASSUME NEW f \in Frame
      PROVE  /\ [f EXCEPT !.at = x] \in Frame
             /\ [f EXCEPT !.at = x].node = f.node /\ [f EXCEPT !.at = x].at = x
  BY DEF Frame
<1>5. \A i \in 1..Len(stk) : At(stk, x)[i] = IF i = Len(stk) THEN [stk[i] EXCEPT !.at = x] ELSE stk[i]
  BY <1>3, Zenon
<1>6. \A i \in 1..Len(stk) : At(stk, x)[i] \in Frame
  BY <1>1, <1>2, <1>4, <1>5
<1>7. At(stk, x) \in [1..Len(stk) -> Frame]
  BY <1>3, <1>6
<1>8. At(stk, x) \in Seq(Frame) /\ Len(At(stk, x)) = Len(stk)
  BY <1>1, <1>7
<1>9. \A i \in 1..Len(stk) : At(stk, x)[i].node = stk[i].node
  BY <1>2, <1>4, <1>5
<1>10. At(stk, x)[Len(stk)].at = x
  BY <1>1, <1>2, <1>4, <1>5
<1>11. \A i \in 1..(Len(stk) - 1) : At(stk, x)[i] = stk[i]
  <2>1. \A i \in 1..(Len(stk) - 1) : i \in 1..Len(stk) /\ i # Len(stk)
    BY <1>1
  <2> QED  BY <2>1, <1>5, Zenon
<1> QED  BY <1>1, <1>8, <1>9, <1>10, <1>11

\* A call is pushed: the caller's stack is one of stk, its last call at x.
Pushes(stk, stk2, x, n) ==
    /\ stk2 \in Seq(Frame) /\ Len(stk2) = Len(stk) + 1
    /\ \A i \in 1..(Len(stk) - 1) : stk2[i] = stk[i]
    /\ \A i \in 1..Len(stk) : stk2[i].node = stk[i].node
    /\ stk # <<>> => stk2[Len(stk)].at = x
    /\ stk2[Len(stk) + 1].node = n /\ stk2[Len(stk) + 1].at = 0

LEMMA CallPushed ==
    ASSUME NEW stk \in Seq(Frame), NEW n \in Nat
    PROVE  /\ Pushes(<<>>, Append(<<>>, Call(n)), 0, n)
           /\ stk # <<>> => \A x \in Nat : Pushes(stk, Append(At(stk, x), Call(n)), x, n)
<1>1. Call(n) \in Frame /\ Call(n).node = n /\ Call(n).at = 0
  BY DEF Call, Frame
<1>2. Pushes(<<>>, Append(<<>>, Call(n)), 0, n)
  BY <1>1 DEF Pushes
<1>3. ASSUME stk # <<>>, NEW x \in Nat
      PROVE  Pushes(stk, Append(At(stk, x), Call(n)), x, n)
  <2>1. /\ At(stk, x) \in Seq(Frame) /\ Len(At(stk, x)) = Len(stk) /\ Len(stk) \in Nat \ {0}
        /\ \A i \in 1..(Len(stk) - 1) : At(stk, x)[i] = stk[i]
        /\ \A i \in 1..Len(stk) : At(stk, x)[i].node = stk[i].node
        /\ At(stk, x)[Len(stk)].at = x
    BY <1>3, AtProperties
  <2>2. PICK s : s = At(stk, x)
    OBVIOUS
  <2>3. PICK c : c = Call(n)
    OBVIOUS
  <2>4. s \in Seq(Frame) /\ c \in Frame
    BY <2>1, <2>2, <2>3, <1>1
  <2>5. /\ Append(s, c) \in Seq(Frame) /\ Len(Append(s, c)) = Len(s) + 1
        /\ \A i \in 1..Len(s) : Append(s, c)[i] = s[i]
        /\ Append(s, c)[Len(s) + 1] = c
    BY <2>4, AppendProperties
  <2>6. Len(s) = Len(stk) /\ Len(stk) \in 1..Len(s)
    BY <2>1, <2>2
  <2> QED  BY <2>1, <2>2, <2>3, <2>5, <2>6, <1>1 DEF Pushes
<1> QED  BY <1>2, <1>3

\* The first edge that the last call has not looked at.
IsNext(stk, e) ==
    /\ e \in EdgeIds /\ edges[e].from = stk[Len(stk)].node /\ e > stk[Len(stk)].at
    /\ \A d \in EdgeIds : edges[d].from = stk[Len(stk)].node /\ d > stk[Len(stk)].at => e <= d

\* visit is called for a white node.
LEMMA SearchingPush ==
    ASSUME GraphTypeOK, NEW stk, NEW col, Searching(stk, col),
           NEW n \in NodeIds, col[n] = "white", NEW x \in Nat, NEW stk2, Pushes(stk, stk2, x, n),
           stk # <<>> => IsNext(stk, x) /\ edges[x].to = n
    PROVE  Searching(stk2, [col EXCEPT ![n] = "gray"])
<1> DEFINE col2 == [col EXCEPT ![n] = "gray"]
<1>1. /\ col2 \in [NodeIds -> Colors] /\ col2[n] = "gray"
      /\ \A m \in NodeIds : m # n => col2[m] = col[m]
      /\ \A m \in NodeIds : col2[m] = "black" <=> col[m] = "black"
  BY DEF Searching, Colors
<1>2. stk \in Seq(Frame) /\ Len(stk) \in Nat /\ Len(stk2) = Len(stk) + 1 /\ stk2 \in Seq(Frame)
  BY DEF Searching, Pushes
<1>3. /\ \A i \in 1..(Len(stk) - 1) : stk2[i] = stk[i]
      /\ \A i \in 1..Len(stk) : stk2[i].node = stk[i].node
      /\ Len(stk) > 0 => stk2[Len(stk)].at = x
      /\ stk2[Len(stk) + 1].node = n /\ stk2[Len(stk) + 1].at = 0
  BY <1>2 DEF Pushes
<1>4. Len(stk) > 0 => IsNext(stk, x) /\ edges[x].to = n
  BY <1>2
<1>5. \A i \in 1..(Len(stk) + 1) : i \in 1..(Len(stk) - 1) \/ (i = Len(stk) /\ Len(stk) > 0) \/ i = Len(stk) + 1
  BY <1>2
<1>6. EdgeIds \subseteq Nat \ {0} /\ \A e \in EdgeIds : edges[e].to \in NodeIds
  BY Ids
<1>7. Black(col2) = Black(col)
  BY <1>1 DEF Black
<1>8. BlackClosed(col2) /\ BlackAcyclic(col2)
  BY <1>7 DEF Searching, BlackClosed, BlackAcyclic
<1> HIDE DEF col2
<1>9. \A i \in 1..Len(stk) : stk[i].node \in NodeIds /\ col[stk[i].node] = "gray" /\ stk[i].node # n
  BY DEF Searching, Calls
<1>10. Calls(stk2, col2)
  <2>1. \A i \in 1..Len(stk2) : stk2[i].node \in NodeIds /\ col2[stk2[i].node] = "gray"
    BY <1>1, <1>2, <1>3, <1>5, <1>9
  <2>2. ASSUME NEW m \in NodeIds, col2[m] = "gray"
        PROVE  \E i \in 1..Len(stk2) : stk2[i].node = m
    <3>1. CASE m = n
      <4>1. Len(stk) + 1 \in 1..Len(stk2)
        BY <1>2
      <4> QED  BY <4>1, <3>1, <1>3
    <3>2. CASE m # n
      <4>1. PICK i \in 1..Len(stk) : stk[i].node = m
        BY <3>2, <2>2, <1>1 DEF Searching, Calls
      <4>2. i \in 1..Len(stk2) /\ stk2[i].node = m
        BY <4>1, <1>2, <1>3
      <4> QED  BY <4>2
    <3> QED  BY <3>1, <3>2
  <2>3. \A i, j \in 1..Len(stk2) : stk2[i].node = stk2[j].node => i = j
    <3>1. \A i, j \in 1..Len(stk) : stk[i].node = stk[j].node => i = j
      BY DEF Searching, Calls
    <3>2. \A i \in 1..Len(stk2) : i \in 1..Len(stk) \/ i = Len(stk) + 1
      BY <1>2
    <3> QED  BY <3>1, <3>2, <1>3, <1>9
  <2>4. ASSUME NEW i \in 1..(Len(stk2) - 1)
        PROVE  /\ stk2[i].at \in EdgeIds
               /\ edges[stk2[i].at].from = stk2[i].node
               /\ edges[stk2[i].at].to = stk2[i + 1].node
    <3>1. CASE i \in 1..(Len(stk) - 1)
      <4>1. i \in 1..Len(stk) /\ i + 1 \in 1..Len(stk)
        BY <3>1, <1>2
      <4>2. stk2[i] = stk[i] /\ stk2[i + 1].node = stk[i + 1].node
        BY <3>1, <4>1, <1>3
      <4> QED  BY <3>1, <4>2 DEF Searching, Calls
    <3>2. CASE i = Len(stk) /\ Len(stk) > 0
      BY <3>2, <1>2, <1>3, <1>4 DEF IsNext
    <3> QED  BY <3>1, <3>2, <1>2
  <2> QED  BY <2>1, <2>2, <2>3, <2>4 DEF Calls
<1>11. LookedAtBlack(stk2, col2)
  <2> SUFFICES ASSUME NEW i \in 1..Len(stk2), NEW e \in EdgeIds,
                      edges[e].from = stk2[i].node, e <= stk2[i].at
               PROVE  col2[edges[e].to] = "black" \/ (i < Len(stk2) /\ e = stk2[i].at)
    BY DEF LookedAtBlack
  <2>1. CASE i \in 1..(Len(stk) - 1)
    BY <2>1, <1>1, <1>2, <1>3, <1>6 DEF Searching, LookedAtBlack
  <2>2. CASE i = Len(stk) /\ Len(stk) > 0
    <3>1. stk2[i].at = x /\ stk2[i].node = stk[i].node /\ i \in 1..Len(stk) /\ i < Len(stk2)
      BY <2>2, <1>2, <1>3
    <3>2. CASE e = x
      BY <3>1, <3>2
    <3>3. CASE e # x
      <4>1. stk[i] \in Frame
        BY <3>1, <1>2
      <4>2. stk[i].at \in Nat
        BY <4>1 DEF Frame
      <4>3. e <= stk[i].at
        BY <2>2, <3>1, <3>3, <4>2, <1>4, <1>6 DEF IsNext
      <4>4. col[edges[e].to] = "black"
        BY <2>2, <3>1, <4>3 DEF Searching, LookedAtBlack
      <4> QED  BY <4>4, <1>1, <1>6
    <3> QED  BY <3>2, <3>3
  <2>3. CASE i = Len(stk) + 1
    BY <2>3, <1>3, <1>6
  <2> QED  BY <2>1, <2>2, <2>3, <1>2, <1>5
<1> QED  BY <1>1, <1>2, <1>8, <1>10, <1>11 DEF Searching, col2

\* An edge to a black node is looked at.
LEMMA SearchingLook ==
    ASSUME GraphTypeOK, NEW stk, NEW col, Searching(stk, col), stk # <<>>,
           NEW x, IsNext(stk, x), col[edges[x].to] = "black"
    PROVE  Searching(At(stk, x), col)
<1>1. stk \in Seq(Frame) /\ x \in Nat
  BY Ids DEF Searching, IsNext
<1>2. PICK stk2 : stk2 = At(stk, x)
  OBVIOUS
<1>3. /\ stk2 \in Seq(Frame) /\ Len(stk2) = Len(stk) /\ Len(stk) \in Nat \ {0}
      /\ \A i \in 1..(Len(stk) - 1) : stk2[i] = stk[i]
      /\ \A i \in 1..Len(stk) : stk2[i].node = stk[i].node
      /\ stk2[Len(stk)].at = x
  BY <1>1, <1>2, AtProperties
<1>4. Calls(stk2, col)
  <2>1. Calls(stk, col)
    BY DEF Searching
  <2>2. PICK m : m = Len(stk)
    OBVIOUS
  <2>3. /\ m \in Nat \ {0} /\ Len(stk2) = m /\ Len(stk) = m
        /\ \A i \in 1..(m - 1) : stk2[i] = stk[i]
        /\ \A i \in 1..m : stk2[i].node = stk[i].node
    BY <2>2, <1>3
  <2>4. \A i \in 1..m : stk2[i].node \in NodeIds /\ col[stk2[i].node] = "gray"
    BY <2>1, <2>3 DEF Calls
  <2>5. \A n \in NodeIds : col[n] = "gray" => \E i \in 1..m : stk2[i].node = n
    BY <2>1, <2>3 DEF Calls
  <2>6. \A i, j \in 1..m : stk2[i].node = stk2[j].node => i = j
    BY <2>1, <2>3 DEF Calls
  <2>7. ASSUME NEW i \in 1..(m - 1)
        PROVE  /\ stk2[i].at \in EdgeIds /\ edges[stk2[i].at].from = stk2[i].node
               /\ edges[stk2[i].at].to = stk2[i + 1].node
    <3>1. i \in 1..m /\ i + 1 \in 1..m
      BY <2>3
    <3>2. /\ stk[i].at \in EdgeIds /\ edges[stk[i].at].from = stk[i].node
          /\ edges[stk[i].at].to = stk[i + 1].node
      BY <2>1, <2>3 DEF Calls
    <3> QED  BY <3>1, <3>2, <2>3
  <2> QED  BY <2>3, <2>4, <2>5, <2>6, <2>7 DEF Calls
<1>5. LookedAtBlack(stk2, col)
  <2> SUFFICES ASSUME NEW i \in 1..Len(stk2), NEW e \in EdgeIds,
                      edges[e].from = stk2[i].node, e <= stk2[i].at
               PROVE  col[edges[e].to] = "black" \/ (i < Len(stk2) /\ e = stk2[i].at)
    BY DEF LookedAtBlack
  <2>1. CASE i \in 1..(Len(stk) - 1)
    BY <2>1, <1>3 DEF Searching, LookedAtBlack
  <2>2. CASE i = Len(stk)
    <3>1. CASE e = x
      BY <3>1
    <3>2. CASE e # x
      <4>1. stk[i] \in Frame
        BY <2>2, <1>1, <1>3
      <4>2. stk[i].at \in Nat /\ e \in Nat
        BY <4>1, Ids DEF Frame
      <4>3. e <= stk[i].at
        BY <2>2, <3>2, <4>2, <1>1, <1>3 DEF IsNext
      <4> QED  BY <2>2, <4>3, <1>3 DEF Searching, LookedAtBlack
    <3> QED  BY <3>1, <3>2
  <2> QED  BY <2>1, <2>2, <1>3
<1> QED  BY <1>2, <1>3, <1>4, <1>5 DEF Searching

\* The stack without its last call.
LEMMA Popped ==
    ASSUME NEW stk \in Seq(Frame), stk # <<>>
    PROVE  LET rest == SubSeq(stk, 1, Len(stk) - 1)
           IN  /\ rest \in Seq(Frame) /\ Len(rest) = Len(stk) - 1 /\ Len(stk) \in Nat \ {0}
               /\ \A i \in 1..(Len(stk) - 1) : rest[i] = stk[i]
<1>1. Len(stk) \in Nat \ {0}
  BY EmptySeq
<1>2. \A i \in 1..(Len(stk) - 1) : stk[i] \in Frame
  BY <1>1
<1>3. PICK m : m = Len(stk) - 1
  OBVIOUS
<1>4. m \in Nat /\ \A i \in 1..m : stk[i] \in Frame
  BY <1>1, <1>2, <1>3
<1>5. /\ SubSeq(stk, 1, m) \in Seq(Frame) /\ Len(SubSeq(stk, 1, m)) = m
      /\ \A i \in 1..m : SubSeq(stk, 1, m)[i] = stk[i]
  BY <1>4, SubSeqProperties
<1> QED  BY <1>1, <1>3, <1>5

\* No set of black nodes and a node that depends only on black ones is circular.
LEMMA BlackWithOneMore ==
    ASSUME GraphTypeOK, NEW col, BlackClosed(col), BlackAcyclic(col),
           NEW n \in NodeIds, n \notin Black(col), Dependencies(n) \subseteq Black(col),
           NEW C, C \subseteq Black(col) \cup {n}, Circular(C)
    PROVE  C = {}
<1>1. CASE n \notin C
  BY <1>1 DEF BlackAcyclic
<1>2. CASE n \in C
  <2> DEFINE D == C \ {n}
  <2>1. D \subseteq Black(col)
    OBVIOUS
  <2>2. ASSUME NEW m \in D
        PROVE  Dependencies(m) \cap D # {}
    <3>1. PICK d \in Dependencies(m) : d \in C
      BY DEF Circular
    <3>2. d \in Black(col)
      BY <2>1, <3>1 DEF BlackClosed
    <3> QED  BY <3>1, <3>2
  <2>3. D = {}
    BY <2>1, <2>2 DEF BlackAcyclic, Circular
  <2>4. PICK d \in Dependencies(n) : d \in C
    BY <1>2 DEF Circular
  <2>5. d \in D
    BY <2>4
  <2> QED  BY <2>3, <2>5
<1> QED  BY <1>1, <1>2

\* visit returns: its loop has looked at all edges of its node.
LEMMA SearchingReturn ==
    ASSUME GraphTypeOK, NEW stk, NEW col, Searching(stk, col), stk # <<>>,
           \A e \in EdgeIds : edges[e].from = stk[Len(stk)].node => ~(e > stk[Len(stk)].at)
    PROVE  Searching(SubSeq(stk, 1, Len(stk) - 1), [col EXCEPT ![stk[Len(stk)].node] = "black"])
<1>1. stk \in Seq(Frame)
  BY DEF Searching
<1>2. PICK rest : rest = SubSeq(stk, 1, Len(stk) - 1)
  OBVIOUS
<1>3. /\ rest \in Seq(Frame) /\ Len(rest) = Len(stk) - 1 /\ Len(stk) \in Nat \ {0}
      /\ \A i \in 1..(Len(stk) - 1) : rest[i] = stk[i]
  BY <1>1, <1>2, Popped
<1>4. PICK n : n = stk[Len(stk)].node
  OBVIOUS
<1>5. n \in NodeIds /\ col[n] = "gray" /\ Len(stk) \in 1..Len(stk)
  BY <1>3, <1>4 DEF Searching, Calls
<1>6. PICK col2 : col2 = [col EXCEPT ![n] = "black"]
  OBVIOUS
<1>7. /\ col2 \in [NodeIds -> Colors] /\ col2[n] = "black"
      /\ \A m \in NodeIds : m # n => col2[m] = col[m]
  BY <1>5, <1>6 DEF Searching, Colors
<1>8. EdgeIds \subseteq Nat \ {0} /\ \A e \in EdgeIds : edges[e].to \in NodeIds
  BY Ids
<1>9. \A e \in EdgeIds : edges[e].from = n => col[edges[e].to] = "black"
  <2>1. stk[Len(stk)] \in Frame
    BY <1>1, <1>5
  <2>2. stk[Len(stk)].at \in Nat
    BY <2>1 DEF Frame
  <2>3. \A e \in EdgeIds : edges[e].from = n => e <= stk[Len(stk)].at
    BY <1>4, <1>8, <2>2
  <2>4. ASSUME NEW e \in EdgeIds, edges[e].from = n
        PROVE  col[edges[e].to] = "black" \/ (Len(stk) < Len(stk) /\ e = stk[Len(stk)].at)
    BY <2>3, <2>4, <1>4, <1>5 DEF Searching, LookedAtBlack
  <2> QED  BY <2>4, <1>3
<1>10. Dependencies(n) \subseteq Black(col)
  BY <1>8, <1>9, DependencyEdges DEF Black
<1>11. Black(col2) = Black(col) \cup {n}
  BY <1>5, <1>7 DEF Black
<1>12. BlackClosed(col2)
  BY <1>10, <1>11 DEF Searching, BlackClosed
<1>13. BlackAcyclic(col2)
  <2>1. n \notin Black(col)
    BY <1>5 DEF Black
  <2>2. \A C : C \subseteq Black(col) \cup {n} /\ Circular(C) => C = {}
    BY <2>1, <1>5, <1>10, BlackWithOneMore DEF Searching
  <2> QED  BY <2>2, <1>11 DEF BlackAcyclic
<1>14. \A i \in 1..(Len(stk) - 1) : i \in 1..Len(stk) /\ stk[i].node # n /\ stk[i].node \in NodeIds
  BY <1>3, <1>4, <1>5 DEF Searching, Calls
<1>15. Calls(rest, col2)
  <2>1. \A i \in 1..Len(rest) : rest[i].node \in NodeIds /\ col2[rest[i].node] = "gray"
    BY <1>3, <1>7, <1>14 DEF Searching, Calls
  <2>2. ASSUME NEW m \in NodeIds, col2[m] = "gray"
        PROVE  \E i \in 1..Len(rest) : rest[i].node = m
    <3>1. m # n /\ col[m] = "gray"
      BY <2>2, <1>7
    <3>2. PICK i \in 1..Len(stk) : stk[i].node = m
      BY <3>1 DEF Searching, Calls
    <3>3. i # Len(stk)
      BY <3>1, <3>2, <1>4
    <3> QED  BY <3>2, <3>3, <1>3
  <2>3. \A i, j \in 1..Len(rest) : rest[i].node = rest[j].node => i = j
    BY <1>3, <1>14 DEF Searching, Calls
  <2>4. ASSUME NEW i \in 1..(Len(rest) - 1)
        PROVE  /\ rest[i].at \in EdgeIds
               /\ edges[rest[i].at].from = rest[i].node
               /\ edges[rest[i].at].to = rest[i + 1].node
    <3>1. i \in 1..(Len(stk) - 1) /\ i + 1 \in 1..(Len(stk) - 1)
      BY <1>3
    <3> QED  BY <3>1, <1>3 DEF Searching, Calls
  <2> QED  BY <2>1, <2>2, <2>3, <2>4 DEF Calls
<1>16. LookedAtBlack(rest, col2)
  <2> SUFFICES ASSUME NEW i \in 1..Len(rest), NEW e \in EdgeIds,
                      edges[e].from = rest[i].node, e <= rest[i].at
               PROVE  col2[edges[e].to] = "black" \/ (i < Len(rest) /\ e = rest[i].at)
    BY DEF LookedAtBlack
  <2>1. i \in 1..(Len(stk) - 1) /\ rest[i] = stk[i]
    BY <1>3
  <2>2. CASE col[edges[e].to] = "black"
    BY <2>2, <1>7, <1>8
  <2>3. CASE i < Len(stk) /\ e = stk[i].at
    <3>1. edges[e].to = stk[i + 1].node
      BY <2>1, <2>3 DEF Searching, Calls
    <3>2. CASE i = Len(rest)
      BY <3>1, <3>2, <1>3, <1>4, <1>7
    <3>3. CASE i < Len(rest)
      BY <3>3, <2>1, <2>3
    <3> QED  BY <3>2, <3>3, <1>3
  <2> QED  BY <2>1, <2>2, <2>3, <1>14 DEF Searching, LookedAtBlack
<1>17. Searching(rest, col2)
  BY <1>3, <1>7, <1>12, <1>13, <1>15, <1>16 DEF Searching
<1> QED  BY <1>2, <1>4, <1>6, <1>17

\* When the search is over the graph has no cycle.
LEMMA SearchedAcyclic ==
    ASSUME GraphTypeOK, NEW col, Searching(<<>>, col), \A n \in NodeIds : col[n] # "white"
    PROVE  ~Cyclic
<1>1. \A n \in NodeIds : col[n] # "gray"
  BY DEF Searching, Calls
<1>2. Black(col) = NodeIds
  BY <1>1 DEF Searching, Colors, Black
<1> QED  BY <1>2 DEF Searching, BlackAcyclic, Cyclic

\* The walk from a call on is a cycle, when the last call has an edge to it.
LEMMA WalkIsCircular ==
    ASSUME NEW stk \in Seq(Frame), NEW start \in 1..Len(stk),
           \A i \in 1..(Len(stk) - 1) : stk[i + 1].node \in Dependencies(stk[i].node),
           stk[start].node \in Dependencies(stk[Len(stk)].node)
    PROVE  Circular({stk[i].node : i \in start..Len(stk)})
<1> DEFINE C == {stk[i].node : i \in start..Len(stk)}
<1>1. Len(stk) \in Nat /\ start \in start..Len(stk)
  OBVIOUS
<1>2. stk[start].node \in C
  BY <1>1
<1>3. ASSUME NEW n \in C
      PROVE  Dependencies(n) \cap C # {}
  <2>1. PICK i \in start..Len(stk) : n = stk[i].node
    OBVIOUS
  <2>2. CASE i = Len(stk)
    BY <2>1, <2>2, <1>2
  <2>3. CASE i # Len(stk)
    <3>1. i \in 1..(Len(stk) - 1) /\ i + 1 \in start..Len(stk)
      BY <2>3, <1>1
    <3>2. stk[i + 1].node \in C
      BY <3>1
    <3> QED  BY <2>1, <3>1, <3>2
  <2> QED  BY <2>2, <2>3
<1> QED  BY <1>3 DEF Circular

\* Each call was made for a dependency of its caller's node.
LEMMA CallsAlongEdges ==
    ASSUME NEW stk, NEW col, Calls(stk, col), NEW i \in 1..(Len(stk) - 1)
    PROVE  stk[i + 1].node \in Dependencies(stk[i].node)
BY DependencyEdges DEF Calls

\* The witness: the walk of the calls from the one of edge e's end on.
LEMMA WitnessIsReal ==
    ASSUME GraphTypeOK, Searching(stack, color), stack # <<>>,
           NEW e, IsNext(stack, e), color[edges[e].to] = "gray"
    PROVE  LET ns == ClosedAt(edges[e].to)
               w == [nodes |-> ns, edges |-> EdgesAlong(ns)]
           IN  Real(w) /\ Cyclic /\ w.nodes \in Seq(NodeIds) /\ w.edges \in Seq(EdgeIds)
<1>1. stack \in Seq(Frame) /\ Calls(stack, color)
  BY DEF Searching
<1>2. PICK L : L = Len(stack)
  OBVIOUS
<1>3. L \in Nat \ {0} /\ L \in 1..L
  BY <1>1, <1>2, EmptySeq
<1>4. PICK n : n = edges[e].to
  OBVIOUS
<1>5. e \in EdgeIds /\ n \in NodeIds /\ edges[e].from = stack[L].node
  BY <1>2, <1>4, Ids DEF IsNext
<1>6. PICK start : start = CHOOSE i \in 1..L : stack[i].node = n
  OBVIOUS
<1>7. start \in 1..L /\ stack[start].node = n
  <2>1. \E i \in 1..L : stack[i].node = n
    BY <1>1, <1>2, <1>4, <1>5 DEF Calls
  <2> QED  BY <2>1, <1>6
<1>8. PICK k : k = L - start + 2
  OBVIOUS
<1>9. PICK ns : ns = ClosedAt(n)
  OBVIOUS
<1>10. ns = [i \in 1..k |-> IF start + i - 1 <= L THEN stack[start + i - 1].node ELSE n]
  BY <1>2, <1>6, <1>8, <1>9 DEF ClosedAt
<1>11. k \in Nat /\ k > 1 /\ \A i \in 1..(k - 1) : start + i - 1 \in 1..L
  BY <1>3, <1>7, <1>8
<1>12. \A i \in 1..L : stack[i].node \in NodeIds
  BY <1>1, <1>2 DEF Calls
<1>13. \A i \in 1..(k - 1) : ns[i] = stack[start + i - 1].node
  BY <1>10, <1>11, <1>3
<1>14. ns[k] = n
  BY <1>3, <1>7, <1>8, <1>10, <1>11
<1>15. ns \in [1..k -> NodeIds]
  <2>1. \A i \in 1..k : ns[i] \in NodeIds
    <3> SUFFICES ASSUME NEW i \in 1..k
                 PROVE  ns[i] \in NodeIds
      OBVIOUS
    <3>1. i \in 1..(k - 1) \/ i = k
      BY <1>11
    <3> QED  BY <3>1, <1>5, <1>11, <1>12, <1>13, <1>14
  <2>2. ns = [i \in 1..k |-> ns[i]]
    BY <1>10
  <2> QED  BY <2>1, <2>2
<1>16. ns \in Seq(NodeIds) /\ Len(ns) = k
  BY <1>11, <1>15
<1>17. ns[1] = n
  <2>1. 1 \in 1..(k - 1) /\ start + 1 - 1 = start
    BY <1>7, <1>11
  <2> QED  BY <2>1, <1>7, <1>13
<1>18. \A i, j \in 1..(k - 1) : ns[i] = ns[j] => i = j
  <2>1. \A i, j \in 1..L : stack[i].node = stack[j].node => i = j
    BY <1>1, <1>2 DEF Calls
  <2>2. ASSUME NEW i \in 1..(k - 1), NEW j \in 1..(k - 1), ns[i] = ns[j]
        PROVE  start + i - 1 = start + j - 1
    BY <2>1, <2>2, <1>11, <1>13
  <2>3. ASSUME NEW i \in 1..(k - 1), NEW j \in 1..(k - 1), start + i - 1 = start + j - 1
        PROVE  i = j
    BY <2>3, <1>3, <1>7, <1>11
  <2> QED  BY <2>2, <2>3
<1>19. ASSUME NEW i \in 1..(k - 1)
       PROVE  LET first == Least({d \in EdgeIds : edges[d].from = ns[i] /\ edges[d].to = ns[i + 1]})
              IN  first \in EdgeIds /\ edges[first].from = ns[i] /\ edges[first].to = ns[i + 1]
  <2> DEFINE S == {d \in EdgeIds : edges[d].from = ns[i] /\ edges[d].to = ns[i + 1]}
  <2>1. S # {}
    <3>1. CASE i = k - 1
      <4>1. start + i - 1 = L /\ i + 1 = k
        BY <3>1, <1>3, <1>7, <1>8
      <4>2. edges[e].from = ns[i] /\ edges[e].to = ns[i + 1]
        BY <4>1, <1>4, <1>5, <1>13, <1>14
      <4> QED  BY <4>2, <1>5
    <3>2. CASE i # k - 1
      <4>1. PICK j : j = start + i - 1
        OBVIOUS
      <4>2. /\ i + 1 \in 1..(k - 1) /\ j \in 1..(Len(stack) - 1)
            /\ start + (i + 1) - 1 = j + 1
        BY <3>2, <4>1, <1>2, <1>3, <1>7, <1>8, <1>11
      <4>3. ns[i] = stack[j].node /\ ns[i + 1] = stack[j + 1].node
        BY <4>1, <4>2, <1>13
      <4>4. stack[j].at \in S
        BY <4>2, <4>3, <1>1 DEF Calls
      <4> QED  BY <4>4
    <3> QED  BY <3>1, <3>2
  <2>2. S \subseteq Nat
    BY Ids
  <2>3. Least(S) \in S
    BY <2>1, <2>2, LeastIsLeast
  <2> QED  BY <2>3
<1>20. PICK es : es = EdgesAlong(ns)
  OBVIOUS
<1>21. es = [i \in 1..(k - 1) |->
               Least({d \in EdgeIds : edges[d].from = ns[i] /\ edges[d].to = ns[i + 1]})]
  BY <1>16, <1>20 DEF EdgesAlong
<1>22. \A i \in 1..(k - 1) :
          es[i] \in EdgeIds /\ edges[es[i]].from = ns[i] /\ edges[es[i]].to = ns[i + 1]
  BY <1>19, <1>21
<1>23. es \in [1..(k - 1) -> EdgeIds]
  BY <1>21, <1>22
<1>24. es \in Seq(EdgeIds) /\ Len(es) = k - 1
  BY <1>11, <1>23
<1>25. Cyclic
  <2> DEFINE C == {stack[i].node : i \in start..Len(stack)}
  <2>1. \A i \in 1..(Len(stack) - 1) : stack[i + 1].node \in Dependencies(stack[i].node)
    BY <1>1, CallsAlongEdges
  <2>2. stack[start].node \in Dependencies(stack[Len(stack)].node)
    BY <1>2, <1>4, <1>5, <1>7, DependencyEdges
  <2>3. Circular(C)
    BY <2>1, <2>2, <1>1, <1>2, <1>7, WalkIsCircular
  <2>4. C # {} /\ C \subseteq NodeIds
    <3>1. start \in start..Len(stack) /\ start..Len(stack) \subseteq 1..L
      BY <1>2, <1>3, <1>7
    <3> QED  BY <3>1, <1>12
  <2> QED  BY <2>3, <2>4 DEF Cyclic
<1>26. PICK w : w = [nodes |-> ns, edges |-> es]
  OBVIOUS
<1>27. w.nodes = ns /\ w.edges = es
  BY <1>26
<1>28. Real(w)
  BY <1>11, <1>14, <1>16, <1>17, <1>18, <1>22, <1>24, <1>27 DEF Real
<1> QED  BY <1>4, <1>9, <1>16, <1>20, <1>24, <1>25, <1>26, <1>27, <1>28

-----------------------------------------------------------------------------
(***************************************************************************)
(* The plan, with the stack of calls stk, the order ord and the set sn of  *)
(* the nodes that were seen.                                               *)
(***************************************************************************)

In(n, ord) == \E j \in 1..Len(ord) : ord[j] = n
OnStack(n, stk) == \E i \in 1..Len(stk) : stk[i].node = n

\* Every node that was seen is planned or has a call, not both, and once.
SeenOnce(stk, ord, sn) ==
    /\ \A n : n \in sn <=> In(n, ord) \/ OnStack(n, stk)
    /\ \A i, j \in 1..Len(stk) : stk[i].node = stk[j].node => i = j
    /\ \A i, j \in 1..Len(ord) : ord[i] = ord[j] => i = j
    /\ \A i \in 1..Len(stk), j \in 1..Len(ord) : stk[i].node # ord[j]

\* A call was made for the dependency that its caller looks at; those before
\* it are planned.
Descends(stk) ==
    \A i \in 1..(Len(stk) - 1) :
        stk[i].at = stk[i + 1].node /\ stk[i + 1].node \in Dependencies(stk[i].node)
LookedAtPlanned(stk, ord) ==
    \A i \in 1..Len(stk) : \A d \in Dependencies(stk[i].node) :
        d <= stk[i].at => In(d, ord) \/ (i < Len(stk) /\ d = stk[i].at)

\* What a planned node depends on is planned before it.
Sorted(ord) ==
    \A i \in 1..Len(ord) : \A n \in Dependencies(ord[i]) : \E j \in 1..(i - 1) : ord[j] = n

Planning(stk, ord, sn) ==
    /\ stk \in Seq(Frame) /\ ord \in Seq(NodeIds) /\ sn \subseteq NodeIds
    /\ SeenOnce(stk, ord, sn) /\ Descends(stk) /\ LookedAtPlanned(stk, ord) /\ Sorted(ord)

\* The first dependency that the last call has not looked at.
IsNextDependency(stk, n) ==
    /\ n \in Dependencies(stk[Len(stk)].node) /\ n > stk[Len(stk)].at
    /\ \A d \in Dependencies(stk[Len(stk)].node) : d > stk[Len(stk)].at => n <= d

\* visit is called for a node that was not seen.
LEMMA PlanningPush ==
    ASSUME GraphTypeOK, NEW stk, NEW ord, NEW sn, Planning(stk, ord, sn),
           NEW n \in NodeIds, n \notin sn, NEW x, NEW stk2, Pushes(stk, stk2, x, n),
           stk # <<>> => IsNextDependency(stk, n) /\ x = n
    PROVE  Planning(stk2, ord, sn \cup {n})
<1>1. stk \in Seq(Frame) /\ Len(stk) \in Nat /\ Len(stk2) = Len(stk) + 1 /\ stk2 \in Seq(Frame)
  BY DEF Planning, Pushes
<1>2. /\ \A i \in 1..(Len(stk) - 1) : stk2[i] = stk[i]
      /\ \A i \in 1..Len(stk) : stk2[i].node = stk[i].node
      /\ Len(stk) > 0 => stk2[Len(stk)].at = n /\ IsNextDependency(stk, n)
      /\ stk2[Len(stk) + 1].node = n /\ stk2[Len(stk) + 1].at = 0
  BY <1>1 DEF Pushes
<1>3. \A i \in 1..(Len(stk) + 1) : i \in 1..Len(stk) \/ i = Len(stk) + 1
  BY <1>1
<1>4. ~In(n, ord) /\ ~OnStack(n, stk)
  BY DEF Planning, SeenOnce
<1>5. \A m : OnStack(m, stk2) <=> OnStack(m, stk) \/ m = n
  <2>1. Len(stk) + 1 \in 1..Len(stk2) /\ \A i \in 1..Len(stk) : i \in 1..Len(stk2)
    BY <1>1
  <2> QED  BY <2>1, <1>1, <1>2, <1>3 DEF OnStack
<1>6. SeenOnce(stk2, ord, sn \cup {n})
  <2>1. \A m : m \in sn \cup {n} <=> In(m, ord) \/ OnStack(m, stk2)
    BY <1>5 DEF Planning, SeenOnce
  <2>2. \A i, j \in 1..Len(stk2) : stk2[i].node = stk2[j].node => i = j
    BY <1>1, <1>2, <1>3, <1>4 DEF Planning, SeenOnce, OnStack
  <2>3. \A i \in 1..Len(stk2), j \in 1..Len(ord) : stk2[i].node # ord[j]
    BY <1>1, <1>2, <1>3, <1>4 DEF Planning, SeenOnce, In
  <2> QED  BY <2>1, <2>2, <2>3 DEF Planning, SeenOnce
<1>7. Descends(stk2)
  <2> SUFFICES ASSUME NEW i \in 1..(Len(stk2) - 1)
               PROVE  stk2[i].at = stk2[i + 1].node /\ stk2[i + 1].node \in Dependencies(stk2[i].node)
    BY DEF Descends
  <2>1. CASE i \in 1..(Len(stk) - 1)
    <3>1. i + 1 \in 1..Len(stk)
      BY <2>1, <1>1
    <3> QED  BY <2>1, <3>1, <1>2 DEF Planning, Descends
  <2>2. CASE i = Len(stk)
    BY <2>2, <1>1, <1>2 DEF IsNextDependency
  <2> QED  BY <2>1, <2>2, <1>1
<1>8. LookedAtPlanned(stk2, ord)
  <2> SUFFICES ASSUME NEW i \in 1..Len(stk2), NEW d \in Dependencies(stk2[i].node), d <= stk2[i].at
               PROVE  In(d, ord) \/ (i < Len(stk2) /\ d = stk2[i].at)
    BY DEF LookedAtPlanned
  <2>1. d \in Nat \ {0}
    BY Ids
  <2>2. CASE i \in 1..(Len(stk) - 1)
    BY <2>2, <1>1, <1>2 DEF Planning, LookedAtPlanned
  <2>3. CASE i = Len(stk) /\ Len(stk) > 0
    <3>1. i \in 1..Len(stk) /\ i < Len(stk2) /\ stk2[i].at = n /\ stk[i] \in Frame
      BY <2>3, <1>1, <1>2
    <3>2. CASE d = n
      BY <3>1, <3>2
    <3>3. CASE d # n
      <4>1. stk[i].at \in Nat /\ n \in Nat
        BY <3>1, Ids DEF Frame
      <4>2. d \in Dependencies(stk[i].node) /\ d <= stk[i].at
        BY <2>1, <2>3, <3>1, <3>3, <4>1, <1>2 DEF IsNextDependency
      <4> QED  BY <2>3, <3>1, <4>2 DEF Planning, LookedAtPlanned
    <3> QED  BY <3>2, <3>3
  <2>4. CASE i = Len(stk) + 1
    BY <2>1, <2>4, <1>2
  <2> QED  BY <2>2, <2>3, <2>4, <1>1
<1> QED  BY <1>1, <1>6, <1>7, <1>8 DEF Planning

\* visit of a dependency that was seen returns at once.  It was planned: a call
\* for it that has not returned would be on a cycle.
LEMMA PlanningSkip ==
    ASSUME GraphTypeOK, ~Cyclic, NEW stk, NEW ord, NEW sn, Planning(stk, ord, sn), stk # <<>>,
           NEW n \in sn, IsNextDependency(stk, n)
    PROVE  Planning(At(stk, n), ord, sn)
<1>1. stk \in Seq(Frame) /\ n \in Nat
  BY Ids DEF Planning, IsNextDependency
<1>2. PICK stk2 : stk2 = At(stk, n)
  OBVIOUS
<1>3. /\ stk2 \in Seq(Frame) /\ Len(stk2) = Len(stk) /\ Len(stk) \in Nat \ {0}
      /\ \A i \in 1..(Len(stk) - 1) : stk2[i] = stk[i]
      /\ \A i \in 1..Len(stk) : stk2[i].node = stk[i].node
      /\ stk2[Len(stk)].at = n
  BY <1>1, <1>2, AtProperties
<1>4. ~OnStack(n, stk)
  <2> SUFFICES ASSUME NEW start \in 1..Len(stk), stk[start].node = n
               PROVE  FALSE
    BY DEF OnStack
  <2> DEFINE C == {stk[i].node : i \in start..Len(stk)}
  <2>1. Circular(C)
    BY <1>1, WalkIsCircular DEF Planning, Descends, IsNextDependency
  <2>2. \A i \in 1..Len(stk) : stk[i].node \in NodeIds
    BY DEF Planning, SeenOnce, OnStack
  <2>3. start \in start..Len(stk) /\ start..Len(stk) \subseteq 1..Len(stk)
    BY <1>3
  <2> QED  BY <2>1, <2>2, <2>3 DEF Cyclic
<1>5. In(n, ord)
  BY <1>4 DEF Planning, SeenOnce
<1>6. \A m : OnStack(m, stk2) <=> OnStack(m, stk)
  BY <1>3 DEF OnStack
<1>7. SeenOnce(stk2, ord, sn) /\ Descends(stk2)
  <2>1. SeenOnce(stk2, ord, sn)
    BY <1>3, <1>6 DEF Planning, SeenOnce
  <2>2. \A i \in 1..(Len(stk) - 1) : i \in 1..Len(stk) /\ i + 1 \in 1..Len(stk)
    BY <1>3
  <2>3. Descends(stk2)
    BY <1>3, <2>2 DEF Planning, Descends
  <2> QED  BY <2>1, <2>3
<1>8. LookedAtPlanned(stk2, ord)
  <2> SUFFICES ASSUME NEW i \in 1..Len(stk2), NEW d \in Dependencies(stk2[i].node), d <= stk2[i].at
               PROVE  In(d, ord) \/ (i < Len(stk2) /\ d = stk2[i].at)
    BY DEF LookedAtPlanned
  <2>1. CASE i \in 1..(Len(stk) - 1)
    BY <2>1, <1>3 DEF Planning, LookedAtPlanned
  <2>2. CASE i = Len(stk)
    <3>1. CASE d = n
      BY <3>1, <1>5
    <3>2. CASE d # n
      <4>1. stk[i] \in Frame
        BY <2>2, <1>1, <1>3
      <4>2. stk[i].at \in Nat /\ d \in Nat
        BY <4>1, Ids DEF Frame
      <4>3. d \in Dependencies(stk[i].node) /\ d <= stk[i].at
        BY <2>2, <3>2, <4>2, <1>1, <1>3 DEF IsNextDependency
      <4> QED  BY <2>2, <4>3, <1>3 DEF Planning, LookedAtPlanned
    <3> QED  BY <3>1, <3>2
  <2> QED  BY <2>1, <2>2, <1>3
<1> QED  BY <1>2, <1>3, <1>7, <1>8 DEF Planning

\* visit returns, and places its node after all that it depends on.
LEMMA PlanningPlace ==
    ASSUME GraphTypeOK, NEW stk, NEW ord, NEW sn, Planning(stk, ord, sn), stk # <<>>,
           \A d \in Dependencies(stk[Len(stk)].node) : ~(d > stk[Len(stk)].at)
    PROVE  Planning(SubSeq(stk, 1, Len(stk) - 1), Append(ord, stk[Len(stk)].node), sn)
<1>1. stk \in Seq(Frame) /\ ord \in Seq(NodeIds) /\ Len(ord) \in Nat
  BY DEF Planning
<1>2. PICK rest : rest = SubSeq(stk, 1, Len(stk) - 1)
  OBVIOUS
<1>3. /\ rest \in Seq(Frame) /\ Len(rest) = Len(stk) - 1 /\ Len(stk) \in Nat \ {0}
      /\ \A i \in 1..(Len(stk) - 1) : rest[i] = stk[i]
  BY <1>1, <1>2, Popped
<1>4. PICK n : n = stk[Len(stk)].node
  OBVIOUS
<1>5. Len(stk) \in 1..Len(stk) /\ OnStack(n, stk) /\ n \in sn /\ n \in NodeIds
  BY <1>3, <1>4 DEF Planning, SeenOnce, OnStack
<1>6. PICK ord2 : ord2 = Append(ord, n)
  OBVIOUS
<1>7. /\ ord2 \in Seq(NodeIds) /\ Len(ord2) = Len(ord) + 1
      /\ \A j \in 1..Len(ord) : ord2[j] = ord[j]
      /\ ord2[Len(ord) + 1] = n
  BY <1>1, <1>5, <1>6, AppendProperties
<1>8. \A j \in 1..Len(ord2) : j \in 1..Len(ord) \/ j = Len(ord) + 1
  BY <1>1, <1>7
<1>9. Len(ord) + 1 \in 1..Len(ord2) /\ \A j \in 1..Len(ord) : j \in 1..Len(ord2)
  BY <1>1, <1>7
<1>10. \A m : In(m, ord2) <=> In(m, ord) \/ m = n
  BY <1>7, <1>8, <1>9 DEF In
<1>11. \A i \in 1..Len(stk) : i \in 1..Len(rest) \/ i = Len(stk)
  BY <1>3
<1>12. \A i \in 1..Len(rest) : i \in 1..Len(stk) /\ rest[i] = stk[i] /\ i # Len(stk)
  BY <1>3
<1>13. \A m : OnStack(m, stk) <=> OnStack(m, rest) \/ m = n
  BY <1>4, <1>5, <1>11, <1>12 DEF OnStack
<1>14. SeenOnce(rest, ord2, sn)
  <2>1. \A m : m \in sn <=> In(m, ord2) \/ OnStack(m, rest)
    BY <1>10, <1>13 DEF Planning, SeenOnce
  <2>2. \A i, j \in 1..Len(rest) : rest[i].node = rest[j].node => i = j
    BY <1>12 DEF Planning, SeenOnce
  <2>3. \A j \in 1..Len(ord) : ord[j] # n
    BY <1>4, <1>5 DEF Planning, SeenOnce
  <2>4. \A i, j \in 1..Len(ord2) : ord2[i] = ord2[j] => i = j
    BY <2>3, <1>7, <1>8 DEF Planning, SeenOnce
  <2>5. \A i \in 1..Len(rest) : rest[i].node # n
    BY <1>4, <1>5, <1>12 DEF Planning, SeenOnce
  <2>6. \A i \in 1..Len(rest), j \in 1..Len(ord2) : rest[i].node # ord2[j]
    BY <2>5, <1>7, <1>8, <1>12 DEF Planning, SeenOnce
  <2> QED  BY <2>1, <2>2, <2>4, <2>6 DEF SeenOnce
<1>15. Descends(rest)
  <2>1. \A i \in 1..(Len(rest) - 1) : i \in 1..(Len(stk) - 1) /\ i + 1 \in 1..(Len(stk) - 1)
    BY <1>3
  <2> QED  BY <2>1, <1>3 DEF Planning, Descends
<1>16. LookedAtPlanned(rest, ord2)
  <2> SUFFICES ASSUME NEW i \in 1..Len(rest), NEW d \in Dependencies(rest[i].node), d <= rest[i].at
               PROVE  In(d, ord2) \/ (i < Len(rest) /\ d = rest[i].at)
    BY DEF LookedAtPlanned
  <2>1. In(d, ord) \/ d = stk[i].at
    BY <1>12 DEF Planning, LookedAtPlanned
  <2>2. CASE d = stk[i].at /\ i = Len(rest)
    <3>1. d = stk[i + 1].node /\ i + 1 = Len(stk)
      BY <2>2, <1>3 DEF Planning, Descends
    <3> QED  BY <3>1, <1>4, <1>10
  <2> QED  BY <2>1, <2>2, <1>3, <1>10, <1>12
<1>17. \A d \in Dependencies(n) : In(d, ord)
  <2>1. stk[Len(stk)] \in Frame
    BY <1>1, <1>5
  <2>2. stk[Len(stk)].at \in Nat
    BY <2>1 DEF Frame
  <2>3. \A d \in Dependencies(n) : d <= stk[Len(stk)].at
    BY <1>4, <2>2, Ids
  <2>4. ASSUME NEW d \in Dependencies(n)
        PROVE  In(d, ord) \/ (Len(stk) < Len(stk) /\ d = stk[Len(stk)].at)
    BY <2>3, <1>4, <1>5 DEF Planning, LookedAtPlanned
  <2> QED  BY <2>4, <1>3
<1>18. Sorted(ord2)
  <2> SUFFICES ASSUME NEW i \in 1..Len(ord2), NEW d \in Dependencies(ord2[i])
               PROVE  \E j \in 1..(i - 1) : ord2[j] = d
    BY DEF Sorted
  <2>1. CASE i \in 1..Len(ord)
    <3>1. PICK j \in 1..(i - 1) : ord[j] = d
      BY <2>1, <1>7 DEF Planning, Sorted
    <3>2. j \in 1..Len(ord)
      BY <2>1, <3>1, <1>1
    <3> QED  BY <3>1, <3>2, <1>7
  <2>2. CASE i = Len(ord) + 1
    <3>1. PICK j \in 1..Len(ord) : ord[j] = d
      BY <2>2, <1>7, <1>17 DEF In
    <3>2. j \in 1..(i - 1)
      BY <2>2, <3>1, <1>1
    <3> QED  BY <3>1, <3>2, <1>7
  <2> QED  BY <2>1, <2>2, <1>8
<1>19. Planning(rest, ord2, sn)
  BY <1>3, <1>7, <1>14, <1>15, <1>16, <1>18 DEF Planning
<1> QED  BY <1>2, <1>4, <1>6, <1>19

-----------------------------------------------------------------------------
(***************************************************************************)
(* The invariant of build().                                               *)
(***************************************************************************)

\* While the graph stays the searches mean the same after a step.
LEMMA SearchingStays ==
    ASSUME UNCHANGED graph, Searching(stack', color')
    PROVE  Searching(stack, color)'
<1>1. /\ NodeIds' = NodeIds /\ EdgeIds' = EdgeIds /\ edges' = edges
      /\ \A n : Dependencies(n)' = Dependencies(n)
  BY GraphStays
<1>2. Black(color)' = Black(color')
  BY <1>1 DEF Black
<1>3. Calls(stack, color)'
  BY <1>1 DEF Searching, Calls
<1>4. LookedAtBlack(stack, color)'
  BY <1>1 DEF Searching, LookedAtBlack
<1>5. BlackClosed(color)'
  BY <1>1, <1>2 DEF Searching, BlackClosed
<1>6. BlackAcyclic(color)'
  <2>1. \A C : Circular(C)' <=> Circular(C)
    BY <1>1 DEF Circular
  <2> QED  BY <2>1, <1>2 DEF Searching, BlackAcyclic
<1> QED  BY <1>1, <1>3, <1>4, <1>5, <1>6 DEF Searching, Frame, Colors

LEMMA PlanningStays ==
    ASSUME UNCHANGED graph, Planning(stack', order', seen')
    PROVE  Planning(stack, order, seen)'
<1>1. /\ NodeIds' = NodeIds /\ \A n : Dependencies(n)' = Dependencies(n)
  BY GraphStays
<1>2. SeenOnce(stack, order, seen)'
  BY DEF Planning, SeenOnce, In, OnStack
<1>3. Descends(stack)'
  BY <1>1 DEF Planning, Descends
<1>4. LookedAtPlanned(stack, order)'
  BY <1>1 DEF Planning, LookedAtPlanned, In
<1>5. Sorted(order)'
  BY <1>1 DEF Planning, Sorted
<1> QED  BY <1>1, <1>2, <1>3, <1>4, <1>5 DEF Planning, Frame

LEMMA PlanSortedStays ==
    ASSUME UNCHANGED <<graph, order>>, PlanSorted
    PROVE  PlanSorted'
<1>1. order' = order /\ \A n : Dependencies(n)' = Dependencies(n)
  BY GraphStays
<1> QED  BY <1>1 DEF PlanSorted

\* The plan, when it is made or is not needed.
Ordered == order \in Seq(NodeIds) /\ seen \subseteq NodeIds /\ PlanSorted

\* The loop over the plan: an event for each node it has come to, and a failure
\* is the last.
EventKind == {"queued", "succeeded", "failed"}
Running ==
    /\ events \in Seq([kind : EventKind, node : NodeIds])
    /\ Len(events) <= Len(order)
    /\ \A i \in 1..Len(events) :
          /\ events[i].node = order[i]
          /\ events[i].kind = "failed" => i = Len(events) /\ phase = "outcome"
    /\ DOMAIN active \subseteq Commands /\ active \in [DOMAIN active -> NodeIds]
    /\ refused \subseteq NodeIds

\* What the phases before have left, and what this one keeps.
NoLocals ==
    /\ targets = <<>> /\ color = <<>> /\ stack = <<>> /\ witness = NoWitness
    /\ seen = {} /\ order = <<>> /\ active = <<>> /\ events = <<>> /\ refused = {}
NotRunning == active = <<>> /\ events = <<>> /\ refused = {}
NotPlanned == seen = {} /\ order = <<>>

BuildInd ==
    /\ GraphTypeOK /\ Unique
    /\ phase \in Phases
    /\ targets \in Seq(1..Cardinality(Names)) /\ stack \in Seq(Frame)
    /\ phase = "idle" => NoLocals
    /\ phase # "idle" => color \in [NodeIds -> Colors]
    /\ phase = "cycle" => Searching(stack, color) /\ NotPlanned
    /\ phase = "cyclic" => /\ NotPlanned /\ Cyclic /\ Real(witness)
                           /\ witness.nodes \in Seq(NodeIds) /\ witness.edges \in Seq(EdgeIds)
    /\ phase # "cyclic" => witness = NoWitness
    /\ phase = "plan" => Planning(stack, order, seen)
    /\ phase \in {"plan", "unknown", "run", "outcome"} => ~Cyclic /\ Ordered
    /\ phase \in {"run", "outcome"} => Running
    /\ phase \notin {"run", "outcome"} => NotRunning

\* It implies what the run checks.
LEMMA BuildIndImplies ==
    ASSUME BuildInd
    PROVE  (asked \subseteq 1..Cardinality(Names) => SearchInvariant) /\ CyclesExact /\ PlanSorted
<1>1. ASSUME asked \subseteq 1..Cardinality(Names)
      PROVE  TypeOK
  <2>1. GraphTypeOK /\ phase \in Phases /\ targets \in Seq(1..Cardinality(Names)) /\ stack \in Seq(Frame)
    BY DEF BuildInd
  <2>2. color \in [DOMAIN color -> {"white", "gray", "black"}] /\ (phase # "idle" => DOMAIN color = NodeIds)
    <3>1. CASE phase = "idle"
      <4>1. color = <<>>
        BY <3>1 DEF BuildInd, NoLocals
      <4> QED  BY <3>1, <4>1
    <3>2. CASE phase # "idle"
      <4>1. color \in [NodeIds -> Colors]
        BY <3>2 DEF BuildInd
      <4> QED  BY <4>1 DEF Colors
    <3> QED  BY <3>1, <3>2
  <2>3. witness.nodes \in Seq(NodeIds) /\ witness.edges \in Seq(EdgeIds)
    <3>1. NoWitness.nodes = <<>> /\ NoWitness.edges = <<>>
      BY DEF NoWitness
    <3> QED  BY <3>1, EmptySeq DEF BuildInd
  <2>4. seen \subseteq NodeIds /\ order \in Seq(NodeIds)
    <3>1. NotPlanned \/ Ordered
      BY DEF BuildInd, NoLocals, NotPlanned, Phases
    <3> QED  BY <3>1, EmptySeq DEF NotPlanned, Ordered
  <2>5. /\ active \in [DOMAIN active -> NodeIds] /\ DOMAIN active \subseteq Commands
        /\ events \in Seq([kind : {"queued", "succeeded", "failed"}, node : NodeIds])
        /\ refused \subseteq NodeIds
    <3>1. CASE Running
      BY <3>1 DEF Running, EventKind
    <3>2. CASE NotRunning
      <4>1. active = <<>> /\ events = <<>> /\ refused = {}
        BY <3>2 DEF NotRunning
      <4>2. active \in [DOMAIN active -> NodeIds] /\ DOMAIN active \subseteq Commands
        BY <4>1
      <4> QED  BY <4>1, <4>2, EmptySeq
    <3> QED  BY <3>1, <3>2 DEF BuildInd
  <2> QED  BY <1>1, <2>1, <2>2, <2>3, <2>4, <2>5 DEF TypeOK
<1>2. StackIsGray
  <2> SUFFICES ASSUME phase = "cycle"
               PROVE  StackIsGray
    BY DEF StackIsGray
  <2>1. Calls(stack, color)
    BY DEF BuildInd, Searching
  <2> QED  BY <2>1 DEF StackIsGray, Calls
<1>3. CyclesExact
  BY DEF BuildInd, CyclesExact
<1>4. PlanSorted
  <2>1. CASE order = <<>>
    BY <2>1 DEF PlanSorted
  <2> QED  BY <2>1 DEF BuildInd, NoLocals, NotPlanned, Ordered, Phases
<1> QED  BY <1>1, <1>2, <1>3, <1>4 DEF SearchInvariant

\* build() is called: nothing was visited.
LEMMA BeginInd ==
    ASSUME BuildInd, NEW ts \in Seq(1..Cardinality(Names)), Begin(ts)
    PROVE  BuildInd'
<1>1. /\ phase = "idle" /\ phase' = "cycle" /\ UNCHANGED graph /\ targets' = ts
      /\ color' = [n \in NodeIds |-> "white"]
      /\ UNCHANGED <<stack, witness, seen, order, active, events, refused>>
  BY DEF Begin
<1>2. stack = <<>> /\ NotPlanned /\ NotRunning /\ witness = NoWitness
  BY <1>1 DEF BuildInd, NoLocals, NotPlanned, NotRunning
<1>3. Searching(stack', color')
  <2>1. stack' = <<>> /\ stack' \in Seq(Frame) /\ Len(stack') = 0
    BY <1>1, <1>2
  <2>2. color' \in [NodeIds -> Colors] /\ \A n \in NodeIds : color'[n] = "white"
    BY <1>1 DEF Colors
  <2>3. Black(color') = {}
    BY <2>2 DEF Black
  <2>4. Calls(stack', color') /\ LookedAtBlack(stack', color')
    BY <2>1, <2>2 DEF Calls, LookedAtBlack
  <2> QED  BY <2>1, <2>2, <2>3, <2>4 DEF Searching, BlackClosed, BlackAcyclic
<1>4. Searching(stack, color)'
  BY <1>1, <1>3, SearchingStays
<1>5. GraphTypeOK' /\ Unique' /\ NodeIds' = NodeIds
  BY <1>1, GraphStays DEF BuildInd
<1>6. NotPlanned' /\ NotRunning' /\ witness' = NoWitness
  BY <1>1, <1>2 DEF NotPlanned, NotRunning
<1>7. color' \in [NodeIds' -> Colors] /\ stack' \in Seq(Frame)
  BY <1>3, <1>5 DEF Searching
<1> QED  BY <1>1, <1>4, <1>5, <1>6, <1>7 DEF BuildInd, Phases, Frame, NoWitness, Colors

\* A step of the cycle search that does not end it.
LEMMA StillSearching ==
    ASSUME BuildInd, phase = "cycle", Searching(stack', color'),
           UNCHANGED <<graph, phase, targets, witness, seen, order, active, events, refused>>
    PROVE  BuildInd'
<1>1. NotPlanned /\ NotRunning /\ witness = NoWitness
  BY DEF BuildInd
<1>2. Searching(stack, color)'
  BY SearchingStays
<1>3. GraphTypeOK' /\ Unique' /\ NodeIds' = NodeIds
  BY GraphStays DEF BuildInd
<1>4. NotPlanned' /\ NotRunning' /\ witness' = NoWitness
  BY <1>1 DEF NotPlanned, NotRunning
<1>5. color' \in [NodeIds' -> Colors] /\ stack' \in Seq(Frame)
  BY <1>3 DEF Searching
<1> QED  BY <1>2, <1>3, <1>4, <1>5 DEF BuildInd, Phases, Frame, NoWitness, Colors

\* A step of the plan that does not end it.
LEMMA StillPlanning ==
    ASSUME BuildInd, phase = "plan", targets' \in Seq(1..Cardinality(Names)),
           Planning(stack', order', seen'),
           UNCHANGED <<graph, phase, color, witness, active, events, refused>>
    PROVE  BuildInd'
<1>1. NotRunning /\ witness = NoWitness /\ ~Cyclic /\ color \in [NodeIds -> Colors]
  BY DEF BuildInd
<1>2. Planning(stack, order, seen)'
  BY PlanningStays
<1>3. GraphTypeOK' /\ Unique' /\ NodeIds' = NodeIds /\ ~Cyclic'
  BY <1>1, GraphStays DEF BuildInd
<1>4. NotRunning' /\ witness' = NoWitness
  BY <1>1 DEF NotRunning
<1>5. color' \in [NodeIds' -> Colors] /\ stack' \in Seq(Frame)
  BY <1>1, <1>3 DEF Planning
<1>6. Ordered'
  BY <1>2 DEF Ordered, Planning, PlanSorted, SeenOnce, Sorted
<1> QED  BY <1>2, <1>3, <1>4, <1>5, <1>6 DEF BuildInd, Phases, Frame, NoWitness, Colors

\* A step after the plan was made.
LEMMA StillRunning ==
    ASSUME BuildInd, phase \in {"plan", "run"}, phase' \in {"run", "outcome"},
           UNCHANGED <<graph, targets, color, stack, witness, seen, order>>, Running'
    PROVE  BuildInd'
<1>1. /\ witness = NoWitness /\ ~Cyclic /\ color \in [NodeIds -> Colors] /\ Ordered
      /\ stack \in Seq(Frame) /\ targets \in Seq(1..Cardinality(Names))
  BY DEF BuildInd
<1>2. /\ GraphTypeOK' /\ Unique' /\ NodeIds' = NodeIds /\ ~Cyclic'
      /\ \A n : Dependencies(n)' = Dependencies(n)
  BY <1>1, GraphStays DEF BuildInd
<1>3. Ordered'
  <2>1. order' = order /\ seen' = seen
    OBVIOUS
  <2>2. PlanSorted'
    BY <2>1, <1>1, PlanSortedStays DEF Ordered
  <2>3. order \in Seq(NodeIds) /\ seen \subseteq NodeIds
    BY <1>1 DEF Ordered
  <2>4. order' \in Seq(NodeIds') /\ seen' \subseteq NodeIds'
    BY <2>1, <2>3, <1>2
  <2> QED  BY <2>2, <2>4 DEF Ordered
<1>4. color' \in [NodeIds' -> Colors] /\ stack' \in Seq(Frame)
  BY <1>1, <1>2
<1> QED  BY <1>1, <1>2, <1>3, <1>4 DEF BuildInd, Phases, Frame, NoWitness, Colors

-----------------------------------------------------------------------------
\* The next edge of the last call.
LEMMA FirstEdgeLeft ==
    ASSUME GraphTypeOK, EdgesLeft # {}
    PROVE  IsNext(stack, Least(EdgesLeft))
<1>1. EdgesLeft \subseteq Nat
  BY Ids DEF EdgesLeft
<1>2. Least(EdgesLeft) \in EdgesLeft /\ \A d \in EdgesLeft : Least(EdgesLeft) <= d
  BY <1>1, LeastIsLeast
<1>3. PICK e : e = Least(EdgesLeft)
  OBVIOUS
<1> QED  BY <1>2, <1>3 DEF EdgesLeft, IsNext, Top

LEMMA CycleSearchInd ==
    ASSUME BuildInd, CycleSearch
    PROVE  BuildInd'
<1>1. /\ phase = "cycle" /\ UNCHANGED <<graph, targets, seen, order, active, events, refused>>
      /\ GraphTypeOK /\ Searching(stack, color)
  <2>1. phase = "cycle" /\ UNCHANGED <<graph, targets, seen, order, active, events, refused>>
    BY DEF CycleSearch, VisitRoot, EdgeToWhite, EdgeToBlack, EdgeToGray, LookAtEdge, VisitReturns, NoCycle, locals
  <2> QED  BY <2>1 DEF BuildInd
<1>2. stack \in Seq(Frame)
  BY <1>1 DEF Searching
<1>3. CASE VisitRoot
  <2>1. /\ stack = <<>> /\ White # {} /\ UNCHANGED <<phase, witness>>
        /\ color' = [color EXCEPT ![Least(White)] = "gray"]
        /\ stack' = Append(<<>>, Call(Least(White)))
    BY <1>3 DEF VisitRoot, Visit
  <2>2. White \subseteq Nat
    BY <1>1, Ids DEF White
  <2>3. PICK n : n = Least(White)
    OBVIOUS
  <2>4. n \in White
    BY <2>1, <2>2, <2>3, LeastIsLeast
  <2>5. n \in NodeIds /\ color[n] = "white" /\ n \in Nat
    BY <2>2, <2>4 DEF White
  <2>6. Pushes(stack, stack', 0, n)
    BY <2>1, <2>3, <2>5, <1>2, CallPushed
  <2>7. Searching(stack', [color EXCEPT ![n] = "gray"])
    BY <2>1, <2>5, <2>6, <1>1, SearchingPush
  <2>8. Searching(stack', color')
    BY <2>1, <2>3, <2>7
  <2> QED  BY <2>1, <2>8, <1>1, StillSearching
<1>4. CASE EdgeToWhite \/ EdgeToBlack \/ EdgeToGray
  <2>1. stack # <<>> /\ EdgesLeft # {}
    BY <1>4 DEF EdgeToWhite, EdgeToBlack, EdgeToGray, LookAtEdge
  <2>2. PICK e : e = Least(EdgesLeft)
    OBVIOUS
  <2>3. IsNext(stack, e)
    BY <2>1, <2>2, <1>1, FirstEdgeLeft
  <2>4. e \in Nat /\ edges[e].to \in NodeIds /\ edges[e].to \in Nat
    BY <2>3, <1>1, Ids DEF IsNext
  <2>5. CASE EdgeToWhite
    <3>1. /\ color[edges[e].to] = "white" /\ UNCHANGED <<phase, witness>>
          /\ color' = [color EXCEPT ![edges[e].to] = "gray"]
          /\ stack' = Append(At(stack, e), Call(edges[e].to))
      BY <2>2, <2>5 DEF EdgeToWhite, LookAtEdge, Visit, Looked, At
    <3>2. PICK n : n = edges[e].to
      OBVIOUS
    <3>3. Pushes(stack, stack', e, n)
      BY <2>1, <2>4, <3>1, <3>2, <1>2, CallPushed
    <3>4. Searching(stack', [color EXCEPT ![n] = "gray"])
      BY <2>3, <2>4, <3>1, <3>2, <3>3, <1>1, SearchingPush
    <3>5. Searching(stack', color')
      BY <3>1, <3>2, <3>4
    <3> QED  BY <3>1, <3>5, <1>1, StillSearching
  <2>6. CASE EdgeToBlack
    <3>1. /\ color[edges[e].to] = "black" /\ UNCHANGED <<phase, witness, color>>
          /\ stack' = At(stack, e)
      BY <2>2, <2>6 DEF EdgeToBlack, LookAtEdge, Looked, At
    <3>2. Searching(At(stack, e), color)
      BY <2>1, <2>3, <3>1, <1>1, SearchingLook
    <3>3. Searching(stack', color')
      BY <3>1, <3>2
    <3> QED  BY <3>1, <3>3, <1>1, StillSearching
  <2>7. CASE EdgeToGray
    <3>1. PICK ns : ns = ClosedAt(edges[e].to)
      OBVIOUS
    <3>2. PICK w : w = [nodes |-> ns, edges |-> EdgesAlong(ns)]
      OBVIOUS
    <3>3. /\ color[edges[e].to] = "gray" /\ UNCHANGED <<color, stack>>
          /\ witness' = w /\ phase' = "cyclic"
      BY <2>2, <2>7, <3>1, <3>2 DEF EdgeToGray, LookAtEdge
    <3>4. Real(w) /\ Cyclic /\ w.nodes \in Seq(NodeIds) /\ w.edges \in Seq(EdgeIds)
      BY <2>1, <2>3, <3>1, <3>2, <3>3, <1>1, WitnessIsReal
    <3>5. /\ GraphTypeOK' /\ Unique' /\ NodeIds' = NodeIds /\ EdgeIds' = EdgeIds
          /\ Cyclic' /\ edges' = edges
      BY <3>4, <1>1, GraphStays DEF BuildInd
    <3>6. Real(witness)'
      BY <3>3, <3>4, <3>5 DEF Real
    <3>7. witness'.nodes \in Seq(NodeIds') /\ witness'.edges \in Seq(EdgeIds')
      BY <3>3, <3>4, <3>5
    <3>8. NotPlanned' /\ NotRunning' /\ color' \in [NodeIds' -> Colors] /\ stack' \in Seq(Frame)
      BY <3>3, <3>5, <1>1 DEF BuildInd, NotPlanned, NotRunning, Searching
    <3> QED  BY <3>3, <3>5, <3>6, <3>7, <3>8, <1>1 DEF BuildInd, Phases, Frame, NoWitness, Colors
  <2> QED  BY <2>5, <2>6, <2>7, <1>4
<1>5. CASE VisitReturns
  <2>1. /\ stack # <<>> /\ EdgesLeft = {} /\ UNCHANGED <<phase, witness>>
        /\ color' = [color EXCEPT ![stack[Len(stack)].node] = "black"]
        /\ stack' = SubSeq(stack, 1, Len(stack) - 1)
    BY <1>5 DEF VisitReturns, Blackened, Pop, Top
  <2>2. \A e \in EdgeIds : edges[e].from = stack[Len(stack)].node => ~(e > stack[Len(stack)].at)
    BY <2>1 DEF EdgesLeft, Top
  <2>3. Searching(stack', color')
    BY <2>1, <2>2, <1>1, SearchingReturn
  <2> QED  BY <2>1, <2>3, <1>1, StillSearching
<1>6. CASE NoCycle
  <2>1. stack = <<>> /\ White = {} /\ phase' = "plan" /\ UNCHANGED <<color, stack, witness>>
    BY <1>6 DEF NoCycle, locals
  <2>2. ~Cyclic
    BY <2>1, <1>1, SearchedAcyclic DEF White
  <2>3. GraphTypeOK' /\ Unique' /\ NodeIds' = NodeIds /\ ~Cyclic'
    BY <2>2, <1>1, GraphStays DEF BuildInd
  <2>4. stack' = <<>> /\ order' = <<>> /\ seen' = {} /\ NotRunning'
    BY <2>1, <1>1 DEF BuildInd, NotPlanned, NotRunning
  <2>5. Planning(stack, order, seen)'
    <3>1. stack' \in Seq(Frame) /\ Len(stack') = 0 /\ order' \in Seq(NodeIds') /\ Len(order') = 0
      BY <2>4
    <3>2. SeenOnce(stack, order, seen)' /\ Descends(stack)' /\ LookedAtPlanned(stack, order)' /\ Sorted(order)'
      BY <2>4, <3>1 DEF SeenOnce, Descends, LookedAtPlanned, Sorted, In, OnStack
    <3> QED  BY <2>4, <3>1, <3>2 DEF Planning, Frame
  <2>6. Ordered'
    BY <2>5 DEF Ordered, Planning, PlanSorted, SeenOnce, Sorted
  <2>7. color' \in [NodeIds' -> Colors] /\ stack' \in Seq(Frame) /\ witness' = NoWitness
    BY <2>1, <2>3, <1>1 DEF BuildInd, Searching
  <2> QED  BY <2>1, <2>3, <2>4, <2>5, <2>6, <2>7, <1>1 DEF BuildInd, Phases, Frame, NoWitness, Colors
<1> QED  BY <1>3, <1>4, <1>5, <1>6 DEF CycleSearch

LEMMA PlanOrderInd ==
    ASSUME BuildInd, PlanOrder
    PROVE  BuildInd'
<1>1. /\ phase = "plan" /\ UNCHANGED <<graph, color, witness, active, events, refused>>
      /\ GraphTypeOK /\ Planning(stack, order, seen) /\ ~Cyclic /\ stack \in Seq(Frame)
      /\ targets \in Seq(1..Cardinality(Names))
  <2>1. phase = "plan" /\ UNCHANGED <<graph, color, witness, active, events, refused>>
    BY DEF PlanOrder, UnknownTarget, VisitTarget, VisitDependency, PlanNode, Planned, PlanUnchanged, locals
  <2> QED  BY <2>1 DEF BuildInd
<1>2. CASE UnknownTarget
  <2>1. phase' = "unknown" /\ UNCHANGED <<targets, stack, seen, order>>
    BY <1>2 DEF UnknownTarget
  <2>2. /\ GraphTypeOK' /\ Unique' /\ NodeIds' = NodeIds /\ ~Cyclic'
        /\ \A n : Dependencies(n)' = Dependencies(n)
    BY <1>1, GraphStays DEF BuildInd
  <2>3. Ordered'
    <3>1. order' \in Seq(NodeIds') /\ seen' \subseteq NodeIds'
      BY <2>1, <2>2, <1>1 DEF Planning
    <3>2. PlanSorted
      BY <1>1 DEF Planning, SeenOnce, Sorted, PlanSorted
    <3>3. PlanSorted'
      BY <2>1, <3>2, <1>1, PlanSortedStays
    <3> QED  BY <3>1, <3>3 DEF Ordered
  <2>4. color' \in [NodeIds' -> Colors] /\ stack' \in Seq(Frame) /\ witness' = NoWitness /\ NotRunning'
    BY <2>1, <2>2, <1>1 DEF BuildInd, NotRunning
  <2> QED  BY <2>1, <2>2, <2>3, <2>4, <1>1 DEF BuildInd, Phases, Frame, NoWitness, Colors
<1>3. CASE VisitTarget
  <2>1. /\ stack = <<>> /\ targets # <<>> /\ targets[1] \in NodeIds
        /\ PlanVisit(targets[1], stack) /\ targets' = Tail(targets) /\ UNCHANGED <<phase, order>>
    BY <1>3 DEF VisitTarget
  <2>2. targets' \in Seq(1..Cardinality(Names))
    BY <2>1, <1>1
  <2>3. PICK n : n = targets[1]
    OBVIOUS
  <2>4. n \in NodeIds /\ n \in Nat
    BY <2>1, <2>3, <1>1, Ids
  <2>5. Planning(stack', order', seen')
    <3>1. CASE n \in seen
      <4>1. stack' = stack /\ order' = order /\ seen' = seen
        BY <2>1, <2>3, <3>1 DEF PlanVisit
      <4> QED  BY <4>1, <1>1
    <3>2. CASE n \notin seen
      <4>1. stack' = Append(<<>>, Call(n)) /\ order' = order /\ seen' = seen \cup {n}
        BY <2>1, <2>3, <3>2 DEF PlanVisit
      <4>2. Pushes(stack, stack', 0, n)
        BY <2>1, <2>4, <4>1, <1>1, CallPushed
      <4>3. Planning(stack', order, seen \cup {n})
        BY <2>1, <2>4, <3>2, <4>2, <1>1, PlanningPush
      <4> QED  BY <4>1, <4>3
    <3> QED  BY <3>1, <3>2
  <2> QED  BY <2>1, <2>2, <2>5, <1>1, StillPlanning
<1>4. CASE VisitDependency
  <2>1. PICK n : n = Least(DependenciesLeft)
    OBVIOUS
  <2>2. /\ stack # <<>> /\ DependenciesLeft # {} /\ UNCHANGED <<phase, targets, order>>
        /\ stack' = IF n \in seen THEN At(stack, n) ELSE Append(At(stack, n), Call(n))
        /\ seen' = seen \cup {n}
    BY <2>1, <1>4 DEF VisitDependency, PlanVisit, Looked, At
  <2>3. DependenciesLeft \subseteq Nat
    BY <1>1, Ids DEF DependenciesLeft
  <2>4. n \in DependenciesLeft /\ \A d \in DependenciesLeft : n <= d
    BY <2>1, <2>2, <2>3, LeastIsLeast
  <2>5. IsNextDependency(stack, n)
    BY <2>4 DEF IsNextDependency, DependenciesLeft, Top
  <2>6. n \in NodeIds /\ n \in Nat
    BY <2>4, <1>1, Ids DEF DependenciesLeft
  <2>7. Planning(stack', order', seen')
    <3>1. CASE n \in seen
      <4>1. Planning(At(stack, n), order, seen)
        BY <2>2, <2>5, <3>1, <1>1, PlanningSkip
      <4>2. stack' = At(stack, n) /\ order' = order /\ seen' = seen
        BY <2>2, <3>1
      <4> QED  BY <4>1, <4>2
    <3>2. CASE n \notin seen
      <4>1. stack' = Append(At(stack, n), Call(n)) /\ order' = order /\ seen' = seen \cup {n}
        BY <2>2, <3>2
      <4>2. Pushes(stack, stack', n, n)
        BY <2>2, <2>6, <4>1, <1>1, CallPushed
      <4>3. Planning(stack', order, seen \cup {n})
        BY <2>5, <2>6, <3>2, <4>2, <1>1, PlanningPush
      <4> QED  BY <4>1, <4>3
    <3> QED  BY <3>1, <3>2
  <2>8. targets' \in Seq(1..Cardinality(Names))
    BY <2>2, <1>1
  <2> QED  BY <2>2, <2>7, <2>8, <1>1, StillPlanning
<1>5. CASE PlanNode
  <2>1. /\ stack # <<>> /\ DependenciesLeft = {} /\ UNCHANGED <<phase, targets, seen>>
        /\ order' = Append(order, stack[Len(stack)].node)
        /\ stack' = SubSeq(stack, 1, Len(stack) - 1)
    BY <1>5 DEF PlanNode, Placed, Pop, Top
  <2>2. \A d \in Dependencies(stack[Len(stack)].node) : ~(d > stack[Len(stack)].at)
    BY <2>1 DEF DependenciesLeft, Top
  <2>3. Planning(stack', order', seen)
    BY <2>1, <2>2, <1>1, PlanningPlace
  <2>4. Planning(stack', order', seen') /\ targets' \in Seq(1..Cardinality(Names))
    BY <2>1, <2>3, <1>1
  <2> QED  BY <2>1, <2>4, <1>1, StillPlanning
<1>6. CASE Planned
  <2>1. phase' = "run" /\ UNCHANGED <<targets, stack, seen, order>>
    BY <1>6 DEF Planned, locals
  <2>2. active' = <<>> /\ events' = <<>> /\ refused' = {} /\ order' \in Seq(NodeIds)
    BY <2>1, <1>1 DEF BuildInd, NotRunning, Planning
  <2>3. Len(order') \in Nat /\ Len(events') = 0 /\ events' \in Seq([kind : EventKind, node : NodeIds])
    BY <2>2
  <2>4. DOMAIN active' \subseteq Commands /\ active' \in [DOMAIN active' -> NodeIds]
    BY <2>2
  <2>5. NodeIds' = NodeIds
    BY <1>1, GraphStays
  <2>6. Running'
    BY <2>2, <2>3, <2>4, <2>5 DEF Running, EventKind
  <2> QED  BY <2>1, <2>6, <1>1, StillRunning
<1> QED  BY <1>2, <1>3, <1>4, <1>5, <1>6 DEF PlanOrder

LEMMA RunOrderInd ==
    ASSUME BuildInd, RunOrder
    PROVE  BuildInd'
<1>1. /\ phase = "run" /\ phase' \in {"run", "outcome"} /\ RunUnchanged
      /\ GraphTypeOK /\ Running /\ order \in Seq(NodeIds) /\ NodeIds' = NodeIds /\ nodes \in Seq(BuildNode)
  <2>1. phase = "run" /\ phase' \in {"run", "outcome"} /\ RunUnchanged
    BY DEF RunOrder, Attach, NewJob, RunNode, RunFails, AllRun, RunUnchanged, locals
  <2>2. NodeIds' = NodeIds
    BY <2>1, GraphStays DEF RunUnchanged
  <2> QED  BY <2>1, <2>2 DEF BuildInd, Ordered, GraphTypeOK
<1>2. /\ events \in Seq([kind : EventKind, node : NodeIds]) /\ Len(events) \in Nat
      /\ Len(order) \in Nat /\ Len(events) <= Len(order) /\ order' = order
      /\ \A i \in 1..Len(events) : events[i].node = order[i] /\ events[i].kind # "failed"
  BY <1>1 DEF Running, RunUnchanged
<1>3. Running'
  <2>1. CASE AllRun
    <3>1. phase' = "outcome" /\ UNCHANGED <<events, active, refused, order>>
      BY <2>1 DEF AllRun, locals
    <3> QED  BY <3>1, <1>1, <1>2 DEF Running, EventKind
  <2>2. ASSUME Len(events) < Len(order), NEW kind \in EventKind,
               events' = Append(events, Event(kind, Current)),
               kind = "failed" => phase' = "outcome",
               \/ UNCHANGED active
               \/ active' = [c \in DOMAIN active \cup {Key(Current)} |->
                                IF c = Key(Current) THEN Current ELSE active[c]],
               refused' \subseteq refused \cup {Current}
        PROVE  Running'
    <3>1. PICK n : n = Current
      OBVIOUS
    <3>2. n = order[Len(events) + 1] /\ n \in NodeIds
      BY <3>1, <2>2, <1>1, <1>2 DEF Current
    <3>3. PICK ev : ev = Event(kind, n)
      OBVIOUS
    <3>4. ev.kind = kind /\ ev.node = n /\ ev \in [kind : EventKind, node : NodeIds]
      BY <3>2, <3>3 DEF Event
    <3>5. /\ events' \in Seq([kind : EventKind, node : NodeIds]) /\ Len(events') = Len(events) + 1
          /\ \A i \in 1..Len(events) : events'[i] = events[i]
          /\ events'[Len(events) + 1] = ev
      <4>1. events' = Append(events, ev)
        BY <2>2, <3>1, <3>3
      <4> QED  BY <4>1, <3>4, <1>2, AppendProperties
    <3>6. ASSUME NEW i \in 1..Len(events')
          PROVE  /\ events'[i].node = order'[i]
                 /\ events'[i].kind = "failed" => i = Len(events') /\ phase' = "outcome"
      <4>1. CASE i \in 1..Len(events)
        BY <4>1, <3>5, <1>2
      <4>2. CASE i = Len(events) + 1
        BY <4>2, <2>2, <3>2, <3>4, <3>5, <1>2
      <4> QED  BY <4>1, <4>2, <3>5, <1>2
    <3>7. DOMAIN active' \subseteq Commands /\ active' \in [DOMAIN active' -> NodeIds]
      <4>1. CASE UNCHANGED active
        BY <4>1, <1>1 DEF Running
      <4>2. CASE active' = [c \in DOMAIN active \cup {Key(Current)} |->
                               IF c = Key(Current) THEN Current ELSE active[c]]
        <5>1. PICK k : k = Key(Current)
          OBVIOUS
        <5>2. nodes[n] \in BuildNode
          BY <3>2, <1>1 DEF NodeIds
        <5>3. k \in Commands
          BY <5>1, <5>2, <3>1 DEF Key, BuildNode
        <5>4. active' = [c \in DOMAIN active \cup {k} |-> IF c = k THEN n ELSE active[c]]
          BY <4>2, <5>1, <3>1
        <5> QED  BY <5>3, <5>4, <3>2, <1>1 DEF Running
      <4> QED  BY <4>1, <4>2, <2>2
    <3>8. refused' \subseteq NodeIds
      BY <2>2, <3>1, <3>2, <1>1 DEF Running
    <3> QED  BY <2>2, <3>5, <3>6, <3>7, <3>8, <1>1, <1>2 DEF Running, EventKind
  <2>3. CASE Attach
    BY <2>2, <2>3 DEF Attach, EventKind
  <2>4. ASSUME NEW success \in BOOLEAN, RunNode(success)
        PROVE  Running'
    BY <2>2, <2>4 DEF RunNode, NewJob, EventKind
  <2>5. CASE RunFails
    BY <2>2, <2>5 DEF RunFails, NewJob, EventKind
  <2> QED  BY <2>1, <2>3, <2>4, <2>5 DEF RunOrder
<1> QED  BY <1>1, <1>3, StillRunning DEF RunUnchanged

LEMMA LeaveInd ==
    ASSUME BuildInd, Leave
    PROVE  BuildInd'
<1>1. phase' = "idle" /\ UNCHANGED graph /\ NoLocals'
  BY DEF Leave, NoLocals, NoWitness
<1>2. GraphTypeOK' /\ Unique'
  BY <1>1, GraphStays DEF BuildInd
<1>3. targets' \in Seq(1..Cardinality(Names)) /\ stack' \in Seq(Frame) /\ NotRunning' /\ witness' = NoWitness
  BY <1>1 DEF NoLocals, NotRunning, NoWitness
<1> QED  BY <1>1, <1>2, <1>3 DEF BuildInd, Phases, Frame, NoWitness

\* A change of the graph, when no build runs.
LEMMA IdleInd ==
    ASSUME BuildInd, phase = "idle", UNCHANGED <<phase, locals>>, GraphTypeOK', Unique'
    PROVE  BuildInd'
<1>1. NoLocals' /\ phase' = "idle"
  BY DEF BuildInd, NoLocals, locals, NoWitness
<1>2. targets' \in Seq(1..Cardinality(Names)) /\ stack' \in Seq(Frame) /\ NotRunning' /\ witness' = NoWitness
  BY <1>1 DEF NoLocals, NotRunning, NoWitness
<1> QED  BY <1>1, <1>2 DEF BuildInd, Phases, Frame, NoWitness

LEMMA BuildStep ==
    ASSUME BuildInd, [Next]_vars
    PROVE  BuildInd'
<1>1. CASE phase = "idle" /\ Mutate /\ UNCHANGED <<phase, locals>>
  BY <1>1, MutateType, UniqueInductive, IdleInd DEF BuildInd
<1>2. ASSUME NEW k \in 0..MaxTargets, NEW ts \in [1..k -> 1..Cardinality(Names)], Begin(ts)
      PROVE  BuildInd'
  <2>1. k \in Nat
    BY BuildAssumption
  <2>2. ts \in Seq(1..Cardinality(Names))
    BY <2>1, <1>2, ListOfLength
  <2> QED  BY <2>2, <1>2, BeginInd
<1>3. CASE UNCHANGED vars
  <2>1. UNCHANGED <<graph, phase, targets, color, stack, witness, seen, order, active, events, refused>>
    BY <1>3 DEF vars, locals
  <2>2. nodes' = nodes /\ edges' = edges /\ next_edge' = next_edge /\ generation' = generation
    BY <2>1 DEF graph
  <2>3. CASE phase = "cycle"
    BY <2>1, <2>3, StillSearching DEF BuildInd
  <2>4. CASE phase = "plan"
    BY <2>1, <2>4, StillPlanning DEF BuildInd
  <2>5. /\ GraphTypeOK' /\ Unique' /\ NodeIds' = NodeIds /\ EdgeIds' = EdgeIds
        /\ Cyclic' = Cyclic /\ \A n : Dependencies(n)' = Dependencies(n)
    BY <2>1, GraphStays DEF BuildInd
  <2>6. CASE phase \notin {"cycle", "plan"}
    <3>1. PlanSorted => PlanSorted'
      BY <2>1, PlanSortedStays
    <3>2. Ordered => Ordered'
      BY <2>1, <2>5, <3>1 DEF Ordered
    <3>3. Real(witness)' = Real(witness)
      BY <2>1, <2>2 DEF Real
    <3>4. Running' = Running /\ NotRunning' = NotRunning /\ NotPlanned' = NotPlanned /\ NoLocals' = NoLocals
      BY <2>1, <2>5 DEF Running, NotRunning, NotPlanned, NoLocals, EventKind, NoWitness
    <3> QED  BY <2>1, <2>5, <2>6, <3>2, <3>3, <3>4 DEF BuildInd, Phases, Frame, NoWitness, Colors
  <2> QED  BY <2>3, <2>4, <2>6
<1> QED  BY <1>1, <1>2, <1>3, CycleSearchInd, PlanOrderInd, RunOrderInd, LeaveInd DEF Next

-----------------------------------------------------------------------------
(***************************************************************************)
(* parse_manifest: what Of computes.                                       *)
(***************************************************************************)

\* Induction: a set of natural numbers that holds 0 and the successor of each of
\* its members holds them all.
LEMMA Inductively ==
    ASSUME NEW S, S \subseteq Nat, 0 \in S, \A n \in S : n + 1 \in S
    PROVE  S = Nat
<1> SUFFICES ASSUME Nat \ S # {}
             PROVE  FALSE
  OBVIOUS
<1>1. PICK n \in Nat \ S : \A m \in Nat \ S : n <= m
  BY LeastNumber
<1>2. n # 0 /\ n - 1 \in Nat /\ n - 1 \in S
  BY <1>1
<1> QED  BY <1>1, <1>2

\* The vector of a record after each of the first k lines.
WithLine(s, line, record) == IF line.record = record THEN Append(s, line) ELSE s
IsPushed(f, lines, record, k) ==
    /\ f = [i \in 0..k |-> f[i]]
    /\ f[0] = <<>>
    /\ \A i \in 1..k : f[i] = WithLine(f[i - 1], lines[i], record)
PushedEquation(f, lines, record) ==
    f = [i \in 0..Len(lines) |->
            IF i = 0 THEN <<>>
            ELSE IF lines[i].record = record THEN Append(f[i - 1], lines[i])
            ELSE f[i - 1]]

LEMMA PushedExists ==
    ASSUME NEW lines, NEW record, NEW k \in Nat
    PROVE  \E f : IsPushed(f, lines, record, k)
<1> DEFINE S == {n \in Nat : \E f : IsPushed(f, lines, record, n)}
<1>1. 0 \in S
  <2> DEFINE f == [i \in 0..0 |-> <<>>]
  <2>1. IsPushed(f, lines, record, 0)
    BY DEF IsPushed
  <2> QED  BY <2>1
<1>2. ASSUME NEW n \in S
      PROVE  n + 1 \in S
  <2>1. PICK f : IsPushed(f, lines, record, n)
    OBVIOUS
  <2> DEFINE g == [i \in 0..(n + 1) |-> IF i <= n THEN f[i] ELSE WithLine(f[n], lines[n + 1], record)]
  <2>2. \A i \in 0..n : g[i] = f[i]
    OBVIOUS
  <2>3. g[n + 1] = WithLine(f[n], lines[n + 1], record)
    OBVIOUS
  <2>4. ASSUME NEW i \in 1..(n + 1)
        PROVE  g[i] = WithLine(g[i - 1], lines[i], record)
    <3>1. CASE i \in 1..n
      <4>1. i \in 0..n /\ i - 1 \in 0..n
        BY <3>1
      <4>2. f[i] = WithLine(f[i - 1], lines[i], record)
        BY <2>1, <3>1 DEF IsPushed
      <4> QED  BY <2>2, <4>1, <4>2
    <3>2. CASE i = n + 1
      <4>1. i - 1 = n /\ n \in 0..n
        BY <3>2
      <4> QED  BY <2>2, <2>3, <3>2, <4>1
    <3> QED  BY <3>1, <3>2
  <2>5. g = [i \in 0..(n + 1) |-> g[i]] /\ g[0] = <<>>
    BY <2>1, <2>2 DEF IsPushed
  <2>6. IsPushed(g, lines, record, n + 1)
    BY <2>4, <2>5 DEF IsPushed
  <2> QED  BY <2>6
<1> HIDE DEF S
<1>3. S = Nat
  <2>1. S \subseteq Nat
    BY DEF S
  <2> QED  BY <2>1, <1>1, <1>2, Inductively
<1> QED  BY <1>3 DEF S

LEMMA PushedOnce ==
    ASSUME NEW lines, NEW record, NEW k \in Nat, NEW j \in Nat, NEW f, IsPushed(f, lines, record, k),
           NEW g, IsPushed(g, lines, record, j)
    PROVE  \A i \in 0..k : i <= j => f[i] = g[i]
<1> DEFINE S == {i \in Nat : i <= k /\ i <= j => f[i] = g[i]}
<1>1. 0 \in S
  BY DEF IsPushed
<1>2. ASSUME NEW n \in S
      PROVE  n + 1 \in S
  <2> SUFFICES ASSUME n + 1 <= k, n + 1 <= j
               PROVE  f[n + 1] = g[n + 1]
    OBVIOUS
  <2>1. n + 1 \in 1..k /\ n + 1 \in 1..j /\ (n + 1) - 1 = n
    OBVIOUS
  <2>2. f[n] = g[n]
    OBVIOUS
  <2>3. /\ f[n + 1] = WithLine(f[n], lines[n + 1], record)
        /\ g[n + 1] = WithLine(g[n], lines[n + 1], record)
    BY <2>1 DEF IsPushed
  <2> QED  BY <2>2, <2>3
<1> HIDE DEF S
<1>3. S = Nat
  <2>1. S \subseteq Nat
    BY DEF S
  <2> QED  BY <2>1, <1>1, <1>2, Inductively
<1> QED  BY <1>3 DEF S

LEMMA OfIsPushed ==
    ASSUME NEW lines, Len(lines) \in Nat, NEW record
    PROVE  \E f : IsPushed(f, lines, record, Len(lines)) /\ Of(lines, record) = f[Len(lines)]
<1>1. PICK f : IsPushed(f, lines, record, Len(lines))
  BY PushedExists
<1>2. PushedEquation(f, lines, record)
  <2> DEFINE body(i) == IF i = 0 THEN <<>>
                        ELSE IF lines[i].record = record THEN Append(f[i - 1], lines[i])
                        ELSE f[i - 1]
  <2>1. \A i \in 0..Len(lines) : f[i] = body(i)
    <3>1. \A i \in 0..Len(lines) : i = 0 \/ i \in 1..Len(lines)
      OBVIOUS
    <3> QED  BY <3>1, <1>1 DEF IsPushed, WithLine
  <2>2. f = [i \in 0..Len(lines) |-> f[i]]
    BY <1>1 DEF IsPushed
  <2> HIDE DEF body
  <2>3. f = [i \in 0..Len(lines) |-> body(i)]
    BY <2>1, <2>2
  <2> QED  BY <2>3 DEF PushedEquation, body
<1>3. PICK g : g = CHOOSE h : PushedEquation(h, lines, record)
  OBVIOUS
<1>4. PushedEquation(g, lines, record)
  BY <1>2, <1>3
<1>5. Of(lines, record) = g[Len(lines)]
  BY <1>3 DEF Of, PushedEquation
<1>6. IsPushed(g, lines, record, Len(lines))
  <2> DEFINE body(i) == IF i = 0 THEN <<>>
                        ELSE IF lines[i].record = record THEN Append(g[i - 1], lines[i])
                        ELSE g[i - 1]
  <2>1. g = [i \in 0..Len(lines) |-> body(i)]
    BY <1>4 DEF PushedEquation
  <2> HIDE DEF body
  <2>2. \A i \in 0..Len(lines) : g[i] = body(i)
    BY <2>1
  <2>3. g = [i \in 0..Len(lines) |-> g[i]]
    BY <2>1
  <2>4. g[0] = <<>>
    BY <2>2 DEF body
  <2>5. \A i \in 1..Len(lines) : i \in 0..Len(lines) /\ i # 0
    OBVIOUS
  <2>6. \A i \in 1..Len(lines) : g[i] = WithLine(g[i - 1], lines[i], record)
    BY <2>2, <2>5 DEF body, WithLine
  <2> QED  BY <2>3, <2>4, <2>6 DEF IsPushed
<1> QED  BY <1>5, <1>6

\* The vector of the first lines.
LEMMA OfPrefix ==
    ASSUME NEW m \in Seq(Line), NEW record, NEW f, IsPushed(f, m, record, Len(m)), NEW k \in 0..Len(m)
    PROVE  Of(SubSeq(m, 1, k), record) = f[k]
<1>1. PICK p : p = SubSeq(m, 1, k)
  OBVIOUS
<1>2. Len(m) \in Nat /\ k \in Nat /\ k <= Len(m)
  OBVIOUS
<1>3. \A i \in 1..k : m[i] \in Line
  BY <1>2
<1>4. Len(p) = k /\ \A i \in 1..k : p[i] = m[i]
  BY <1>1, <1>2, <1>3, SubSeqProperties
<1>5. PICK g : IsPushed(g, p, record, k) /\ Of(p, record) = g[k]
  BY <1>2, <1>4, OfIsPushed
<1>6. IsPushed(g, m, record, k)
  BY <1>4, <1>5 DEF IsPushed
<1>7. k \in 0..k /\ k <= Len(m)
  BY <1>2
<1>8. g[k] = f[k]
  BY <1>2, <1>6, <1>7, PushedOnce
<1> QED  BY <1>1, <1>5, <1>8

LEMMA OfOneMore ==
    ASSUME NEW m \in Seq(Line), NEW record
    PROVE  /\ Of(SubSeq(m, 1, 0), record) = <<>>
           /\ \A k \in 1..Len(m) :
                 Of(SubSeq(m, 1, k), record) = WithLine(Of(SubSeq(m, 1, k - 1), record), m[k], record)
           /\ Of(SubSeq(m, 1, Len(m)), record) = Of(m, record)
<1>1. Len(m) \in Nat
  OBVIOUS
<1>2. PICK f : IsPushed(f, m, record, Len(m)) /\ Of(m, record) = f[Len(m)]
  BY <1>1, OfIsPushed
<1>3. \A k \in 0..Len(m) : Of(SubSeq(m, 1, k), record) = f[k]
  BY <1>2, OfPrefix
<1>4. 0 \in 0..Len(m) /\ Len(m) \in 0..Len(m)
      /\ \A k \in 1..Len(m) : k \in 0..Len(m) /\ k - 1 \in 0..Len(m)
  BY <1>1
<1>5. f[0] = <<>> /\ \A k \in 1..Len(m) : f[k] = WithLine(f[k - 1], m[k], record)
  BY <1>2 DEF IsPushed
<1> QED  BY <1>2, <1>3, <1>4, <1>5

\* The vector holds the lines of its record, in their order: a node of a text
\* that parses has a name of its own.
IsOf(s, lines, record, k) ==
    /\ s \in Seq(Line)
    /\ \A x \in 1..Len(s) : \E j \in 1..k : s[x] = lines[j] /\ lines[j].record = record
    /\ \A j \in 1..k : lines[j].record = record => \E x \in 1..Len(s) : s[x] = lines[j]
    /\ (record = "node" /\ Parses(lines)) => \A x, y \in 1..Len(s) : s[x].name = s[y].name => x = y

LEMMA OfHoldsPrefix ==
    ASSUME NEW lines \in Seq(Line), NEW record, NEW k \in 0..Len(lines)
    PROVE  IsOf(Of(SubSeq(lines, 1, k), record), lines, record, k)
<1> DEFINE S == {n \in Nat : n <= Len(lines) => IsOf(Of(SubSeq(lines, 1, n), record), lines, record, n)}
<1>1. 0 \in S
  <2>1. Of(SubSeq(lines, 1, 0), record) = <<>>
    BY OfOneMore
  <2>2. IsOf(<<>>, lines, record, 0)
    BY DEF IsOf
  <2> QED  BY <2>1, <2>2
<1>2. ASSUME NEW n \in S
      PROVE  n + 1 \in S
  <2> SUFFICES ASSUME n + 1 <= Len(lines)
               PROVE  IsOf(Of(SubSeq(lines, 1, n + 1), record), lines, record, n + 1)
    OBVIOUS
  <2>1. PICK s : s = Of(SubSeq(lines, 1, n), record)
    OBVIOUS
  <2>2. IsOf(s, lines, record, n)
    BY <2>1
  <2>3. n \in Nat /\ n + 1 \in 1..Len(lines) /\ (n + 1) - 1 = n
    OBVIOUS
  <2>4. PICK line : line = lines[n + 1]
    OBVIOUS
  <2>5. line \in Line
    BY <2>3, <2>4
  <2>6. PICK t : t = Of(SubSeq(lines, 1, n + 1), record)
    OBVIOUS
  <2>7. t = WithLine(s, line, record)
    BY <2>1, <2>3, <2>4, <2>6, OfOneMore
  <2>8. \A j \in 1..(n + 1) : j \in 1..n \/ j = n + 1
    BY <2>3
  <2>9. n + 1 \in 1..(n + 1) /\ \A j \in 1..n : j \in 1..(n + 1)
    BY <2>3
  <2>10. CASE line.record # record
    <3>1. t = s
      BY <2>7, <2>10 DEF WithLine
    <3>2. \A x \in 1..Len(s) : \E j \in 1..(n + 1) : s[x] = lines[j] /\ lines[j].record = record
      BY <2>2, <2>9 DEF IsOf
    <3>3. \A j \in 1..(n + 1) : lines[j].record = record => \E x \in 1..Len(s) : s[x] = lines[j]
      BY <2>2, <2>4, <2>8, <2>10 DEF IsOf
    <3> QED  BY <2>2, <2>6, <3>1, <3>2, <3>3 DEF IsOf
  <2>11. CASE line.record = record
    <3>1. t = Append(s, line)
      BY <2>7, <2>11 DEF WithLine
    <3>2. s \in Seq(Line) /\ Len(s) \in Nat
      BY <2>2 DEF IsOf
    <3>3. /\ t \in Seq(Line) /\ Len(t) = Len(s) + 1
          /\ \A x \in 1..Len(s) : t[x] = s[x]
          /\ t[Len(s) + 1] = line
      BY <2>5, <3>1, <3>2, AppendProperties
    <3>4. \A x \in 1..Len(t) : x \in 1..Len(s) \/ x = Len(s) + 1
      BY <3>2, <3>3
    <3>5. Len(s) + 1 \in 1..Len(t) /\ \A x \in 1..Len(s) : x \in 1..Len(t)
      BY <3>2, <3>3
    <3>6. ASSUME NEW x \in 1..Len(t)
          PROVE  \E j \in 1..(n + 1) : t[x] = lines[j] /\ lines[j].record = record
      <4>1. CASE x \in 1..Len(s)
        <5>1. PICK j \in 1..n : s[x] = lines[j] /\ lines[j].record = record
          BY <4>1, <2>2 DEF IsOf
        <5> QED  BY <4>1, <5>1, <2>9, <3>3
      <4>2. CASE x = Len(s) + 1
        BY <4>2, <2>4, <2>9, <2>11, <3>3
      <4> QED  BY <4>1, <4>2, <3>4
    <3>7. ASSUME NEW j \in 1..(n + 1), lines[j].record = record
          PROVE  \E x \in 1..Len(t) : t[x] = lines[j]
      <4>1. CASE j \in 1..n
        BY <4>1, <2>2, <3>3, <3>5, <3>7 DEF IsOf
      <4>2. CASE j = n + 1
        BY <4>2, <2>4, <3>3, <3>5
      <4> QED  BY <4>1, <4>2, <2>8
    <3>8. ASSUME record = "node", Parses(lines)
          PROVE  \A x, y \in 1..Len(t) : t[x].name = t[y].name => x = y
      <4>1. ~Wrong(lines, n + 1)
        BY <2>3, <3>8 DEF Parses
      <4>2. \A j \in 1..n : lines[j].record = "node" => lines[j].name # line.name
        <5>1. ~(line.record = "node" /\
                \E j \in 1..((n + 1) - 1) : lines[j].record = "node" /\ lines[j].name = line.name)
          BY <4>1, <2>4 DEF Wrong
        <5>2. ~(\E j \in 1..n : lines[j].record = "node" /\ lines[j].name = line.name)
          BY <5>1, <2>3, <2>11, <3>8
        <5> QED  BY <5>2
      <4>3. \A x \in 1..Len(s) : s[x].name # line.name
        BY <4>2, <2>2, <3>8 DEF IsOf
      <4>4. \A x, y \in 1..Len(s) : s[x].name = s[y].name => x = y
        BY <2>2, <3>8 DEF IsOf
      <4> QED  BY <4>3, <4>4, <3>3, <3>4
    <3> QED  BY <2>6, <3>3, <3>6, <3>7, <3>8 DEF IsOf
  <2> QED  BY <2>10, <2>11
<1> HIDE DEF S
<1>3. S = Nat
  <2>1. S \subseteq Nat
    BY DEF S
  <2> QED  BY <2>1, <1>1, <1>2, Inductively
<1>4. k \in Nat /\ k <= Len(lines)
  OBVIOUS
<1> QED  BY <1>3, <1>4 DEF S

LEMMA OfHolds ==
    ASSUME NEW lines \in Seq(Line), NEW record
    PROVE  IsOf(Of(lines, record), lines, record, Len(lines))
<1>1. Len(lines) \in 0..Len(lines)
  OBVIOUS
<1>2. IsOf(Of(SubSeq(lines, 1, Len(lines)), record), lines, record, Len(lines))
  BY <1>1, OfHoldsPrefix
<1> QED  BY <1>2, OfOneMore

\* The items of a manifest: nodes, each of a name of its own, then the rest.
WellFormed(m) ==
    /\ m \in Seq(Line)
    /\ \E i \in 1..Len(m) : m[i].record = "node"
    /\ \A i, j \in 1..Len(m) : m[i].record = "node" /\ m[j].record # "node" => i < j
    /\ \A i, j \in 1..Len(m) :
          m[i].record = "node" /\ m[j].record = "node" /\ m[i].name = m[j].name => i = j

LEMMA ParsedWellFormed ==
    ASSUME NEW lines \in Seq(Line), Parses(lines)
    PROVE  WellFormed(Parsed(lines))
<1>1. PICK a, b, c : a = Of(lines, "node") /\ b = Of(lines, "edge") /\ c = Of(lines, "target")
  OBVIOUS
<1>2. /\ IsOf(a, lines, "node", Len(lines)) /\ IsOf(b, lines, "edge", Len(lines))
      /\ IsOf(c, lines, "target", Len(lines))
  BY <1>1, OfHolds
<1>3. /\ a \in Seq(Line) /\ b \in Seq(Line) /\ c \in Seq(Line)
      /\ \A x \in 1..Len(a) : a[x].record = "node"
      /\ \A x \in 1..Len(b) : b[x].record = "edge"
      /\ \A x \in 1..Len(c) : c[x].record = "target"
      /\ \A x, y \in 1..Len(a) : a[x].name = a[y].name => x = y
  <2>1. \A x \in 1..Len(a) : a[x].record = "node"
    BY <1>2 DEF IsOf
  <2>2. \A x \in 1..Len(b) : b[x].record = "edge"
    BY <1>2 DEF IsOf
  <2>3. \A x \in 1..Len(c) : c[x].record = "target"
    BY <1>2 DEF IsOf
  <2> QED  BY <2>1, <2>2, <2>3, <1>2 DEF IsOf
<1>4. Len(a) \in Nat \ {0} /\ Len(b) \in Nat /\ Len(c) \in Nat
  <2>1. PICK i \in DOMAIN lines : lines[i].record = "node"
    BY DEF Parses
  <2>2. i \in 1..Len(lines)
    OBVIOUS
  <2>3. PICK x \in 1..Len(a) : a[x] = lines[i]
    BY <2>1, <2>2, <1>2 DEF IsOf
  <2> QED  BY <2>3, <1>3
<1>5. PICK ab : ab = a \o b
  OBVIOUS
<1>6. /\ ab \in Seq(Line) /\ Len(ab) = Len(a) + Len(b)
      /\ \A i \in 1..Len(ab) : ab[i] = IF i <= Len(a) THEN a[i] ELSE b[i - Len(a)]
  BY <1>3, <1>5, ConcatProperties
<1>7. PICK m : m = ab \o c
  OBVIOUS
<1>8. /\ m \in Seq(Line) /\ Len(m) = Len(ab) + Len(c)
      /\ \A i \in 1..Len(m) : m[i] = IF i <= Len(ab) THEN ab[i] ELSE c[i - Len(ab)]
  BY <1>3, <1>6, <1>7, ConcatProperties
<1>9. m = Parsed(lines)
  BY <1>1, <1>5, <1>7 DEF Parsed
<1>10. \A i \in 1..Len(a) : i \in 1..Len(m) /\ m[i] = a[i]
  BY <1>4, <1>6, <1>8
<1>11. ASSUME NEW i \in 1..Len(m), i > Len(a)
       PROVE  m[i].record # "node"
  <2>1. CASE i <= Len(ab)
    <3>1. m[i] = b[i - Len(a)] /\ i - Len(a) \in 1..Len(b)
      BY <2>1, <1>4, <1>6, <1>8, <1>11
    <3>2. PICK y : y = i - Len(a)
      OBVIOUS
    <3>3. b[y].record = "edge" /\ m[i] = b[y]
      BY <3>1, <3>2, <1>3
    <3> QED  BY <3>3
  <2>2. CASE i > Len(ab)
    <3>1. m[i] = c[i - Len(ab)] /\ i - Len(ab) \in 1..Len(c)
      BY <2>2, <1>4, <1>6, <1>8
    <3>2. PICK y : y = i - Len(ab)
      OBVIOUS
    <3>3. c[y].record = "target" /\ m[i] = c[y]
      BY <3>1, <3>2, <1>3
    <3> QED  BY <3>3
  <2> QED  BY <2>1, <2>2, <1>4, <1>6
<1>12. \A i \in 1..Len(m) : m[i].record = "node" <=> i <= Len(a)
  <2>1. \A i \in 1..Len(m) : i <= Len(a) => i \in 1..Len(a)
    BY <1>4
  <2>2. \A i \in 1..Len(m) : i <= Len(a) \/ i > Len(a)
    BY <1>4
  <2> QED  BY <2>1, <2>2, <1>3, <1>10, <1>11
<1>13. Len(m) \in Nat /\ \A i \in 1..Len(m) : i <= Len(a) => i \in 1..Len(a)
  BY <1>4, <1>8
<1>14. \E i \in 1..Len(m) : m[i].record = "node"
  BY <1>4, <1>10, <1>12
<1>15. \A i, j \in 1..Len(m) : m[i].record = "node" /\ m[j].record # "node" => i < j
  BY <1>4, <1>12
<1>16. \A i, j \in 1..Len(m) :
          m[i].record = "node" /\ m[j].record = "node" /\ m[i].name = m[j].name => i = j
  BY <1>3, <1>10, <1>12, <1>13
<1> QED  BY <1>8, <1>9, <1>14, <1>15, <1>16 DEF WellFormed

-----------------------------------------------------------------------------
(***************************************************************************)
(* The invariant of apply_manifest.                                        *)
(***************************************************************************)

\* The item at j was applied, and is of the record.
Applied(j, record) == j \in 1..(at - 1) /\ manifest[j].record = record

\* nodes_by_name holds the nodes of the items, and finds them.
LookedUp ==
    /\ \A name : Known(name) <=> \E j : Applied(j, "node") /\ manifest[j].name = name
    /\ \A name : Known(name) => nodes_by_name[name] \in NodeIds /\ nodes[nodes_by_name[name]].name = name
    /\ \A j : Applied(j, "edge") => Known(manifest[j].from) /\ Known(manifest[j].to)

NodesPut ==
    /\ \A j : Applied(j, "node") => nodes[nodes_by_name[manifest[j].name]].command = manifest[j].command
    /\ \A n \in NodeIds : (\E j : Applied(j, "node") /\ manifest[j].name = nodes[n].name)
                          \/ nodes[n] = before.nodes[n]
    /\ Len(before.nodes) \in Nat /\ Len(before.nodes) <= Len(nodes)

Joins(es, a, b, kind) == \E e \in DOMAIN es : es[e].from = a /\ es[e].to = b /\ es[e].kind = kind
Asked(a, b, kind) ==
    \E j : /\ Applied(j, "edge") /\ manifest[j].kind = kind
           /\ nodes_by_name[manifest[j].from] = a /\ nodes_by_name[manifest[j].to] = b
EdgesPut ==
    \A a, b, kind : Joins(edges, a, b, kind) <=> Joins(before.edges, a, b, kind) \/ Asked(a, b, kind)

\* The targets of the items, and what they were resolved to.
TargetsDone == Of(SubSeq(manifest, 1, at - 1), "target")
TargetsFound ==
    /\ Len(resolved) = Len(TargetsDone)
    /\ \A i \in 1..Len(TargetsDone) :
          Known(TargetsDone[i].name) /\ resolved[i] = nodes_by_name[TargetsDone[i].name]

ApplyInd ==
    /\ phase = "idle" /\ WellFormed(manifest) /\ at \in 1..(Len(manifest) + 1)
    /\ LookedUp /\ NodesPut /\ EdgesPut /\ resolved \in Seq(NodeIds)
    /\ applying = "items" => TargetsFound
    /\ applying = "applied" =>
          /\ at > Len(manifest)
          /\ IF TargetsDone = <<>> THEN resolved = <<nodes_by_name[manifest[LastNode].name]>>
             ELSE TargetsFound
    /\ applying = "failed" =>
          /\ at <= Len(manifest)
          /\ \/ Item.record = "edge" /\ ~(Known(Item.from) /\ Known(Item.to))
             \/ Item.record = "target" /\ ~Known(Item.name)

ManifestInd ==
    /\ BuildInd
    /\ applying \in {"no", "items", "applied", "failed"}
    /\ applying # "no" => ApplyInd

\* While nodes are put, nothing else was.
LEMMA NodesBeforeRest ==
    ASSUME ApplyInd, at <= Len(manifest), Item.record = "node"
    PROVE  /\ \A j \in 1..at : j \in 1..Len(manifest) /\ manifest[j].record = "node"
           /\ TargetsDone = <<>>
<1>1. at \in Nat \ {0} /\ Len(manifest) \in Nat /\ manifest \in Seq(Line)
  BY DEF ApplyInd, WellFormed
<1>2. at \in 1..Len(manifest) /\ manifest[at].record = "node"
  BY <1>1 DEF Item
<1>3. \A j \in 1..at : j \in 1..Len(manifest) /\ ~(at < j)
  BY <1>1
<1>4. \A j \in 1..at : manifest[j].record = "node"
  BY <1>2, <1>3 DEF ApplyInd, WellFormed
<1>5. TargetsDone = <<>>
  <2>1. PICK k : k = at - 1
    OBVIOUS
  <2>2. k \in 0..Len(manifest) /\ \A j \in 1..k : j \in 1..at
    BY <2>1, <1>1
  <2>3. PICK s : s = TargetsDone
    OBVIOUS
  <2>4. IsOf(s, manifest, "target", k)
    BY <2>1, <2>2, <2>3, <1>1, OfHoldsPrefix DEF TargetsDone
  <2>5. s \in Seq(Line) /\ \A x \in 1..Len(s) : \E j \in 1..k : manifest[j].record = "target"
    BY <2>4 DEF IsOf
  <2>6. \A x \in 1..Len(s) : FALSE
    BY <2>2, <2>5, <1>4
  <2>7. Len(s) = 0
    <3>1. Len(s) \in Nat
      BY <2>5
    <3>2. Len(s) # 0 => 1 \in 1..Len(s)
      BY <3>1
    <3> QED  BY <2>6, <3>2
  <2> QED  BY <2>3, <2>5, <2>7, EmptySeq
<1> QED  BY <1>3, <1>4, <1>5

\* What the targets of the items are after the next one.
LEMMA TargetsDoneNext ==
    ASSUME ApplyInd, at <= Len(manifest), manifest' = manifest, at' = at + 1
    PROVE  TargetsDone' = WithLine(TargetsDone, Item, "target")
<1>1. at \in 1..Len(manifest) /\ manifest \in Seq(Line)
  BY DEF ApplyInd, WellFormed
<1>2. TargetsDone' = Of(SubSeq(manifest, 1, at), "target")
  <2>1. at' - 1 = at
    BY <1>1
  <2> QED  BY <2>1 DEF TargetsDone
<1> QED  BY <1>1, <1>2, OfOneMore DEF TargetsDone, Item

\* put_node of an item: the node of its name, and no other, is as it says.
LEMMA PutNodeEffect ==
    ASSUME GraphTypeOK, Unique, NEW name \in Names, NEW command \in Commands, PutNode(name, command)
    PROVE  /\ GraphTypeOK' /\ Unique' /\ edges' = edges
           /\ NodeIds \subseteq NodeIds' /\ Len(nodes) \in Nat /\ Len(nodes) <= Len(nodes')
           /\ DOMAIN nodes' = NodeIds'
           /\ \E p \in NodeIds' :
                 /\ nodes'[p].name = name /\ nodes'[p].command = command
                 /\ \A n \in NodeIds' : n # p => n \in NodeIds /\ nodes'[n] = nodes[n]
           /\ \A n \in NodeIds : nodes'[n].name = nodes[n].name
<1> DEFINE node == [name |-> name, command |-> command, generation |-> generation + 1]
<1>1. GraphTypeOK' /\ Unique' /\ NodeIds \subseteq NodeIds' /\ edges' = edges
  BY PutNodeType, PutNodeUnique DEF PutNode
<1>2. nodes \in Seq(BuildNode) /\ Len(nodes) \in Nat /\ node \in BuildNode
  BY DEF GraphTypeOK, BuildNode
<1>3. node.name = name /\ node.command = command
  OBVIOUS
<1>4. nodes' \in Seq(BuildNode')
  BY <1>1 DEF GraphTypeOK
<1>5. DOMAIN nodes' = NodeIds' /\ Len(nodes') \in Nat
  BY <1>4 DEF NodeIds
<1>6. CASE Named(name) = {}
  <2>1. nodes' = Append(nodes, node)
    BY <1>6 DEF PutNode
  <2>2. /\ Len(nodes') = Len(nodes) + 1
        /\ \A n \in 1..Len(nodes) : nodes'[n] = nodes[n]
        /\ nodes'[Len(nodes) + 1] = node
    BY <1>2, <2>1, AppendProperties
  <2>3. Len(nodes) + 1 \in NodeIds' /\ \A n \in NodeIds' : n # Len(nodes) + 1 => n \in NodeIds
    BY <2>2, <1>2 DEF NodeIds
  <2>4. \E p \in NodeIds' :
           /\ nodes'[p].name = name /\ nodes'[p].command = command
           /\ \A n \in NodeIds' : n # p => n \in NodeIds /\ nodes'[n] = nodes[n]
    BY <2>2, <2>3, <1>3 DEF NodeIds
  <2>5. \A n \in NodeIds : nodes'[n].name = nodes[n].name
    BY <2>2 DEF NodeIds
  <2> QED  BY <2>2, <2>4, <2>5, <1>1, <1>2, <1>5
<1>7. CASE Named(name) # {}
  <2>1. nodes' = [n \in 1..Len(nodes) |-> IF n \in Named(name) THEN node ELSE nodes[n]]
    BY <1>7 DEF PutNode, NodeIds
  <2>2. Len(nodes') = Len(nodes) /\ NodeIds' = NodeIds
    BY <2>1, <1>2 DEF NodeIds
  <2>3. PICK p : p \in Named(name)
    BY <1>7
  <2>4. p \in NodeIds /\ \A n \in NodeIds : n \in Named(name) <=> n = p
    BY <2>3 DEF Named, Unique
  <2>5. \A n \in NodeIds : nodes'[n] = IF n = p THEN node ELSE nodes[n]
    BY <2>1, <2>4 DEF NodeIds
  <2>6. \A n \in NodeIds : nodes'[n].name = nodes[n].name
    BY <2>3, <2>4, <2>5, <1>3 DEF Named
  <2> QED  BY <2>2, <2>4, <2>5, <2>6, <1>1, <1>2, <1>3, <1>5
<1> QED  BY <1>6, <1>7

LEMMA ApplyNodeInd ==
    ASSUME ManifestInd, ApplyNode
    PROVE  ManifestInd'
<1>1. /\ applying = "items" /\ at <= Len(manifest) /\ Item.record = "node" /\ at' = at + 1
      /\ UNCHANGED <<phase, locals, applying, manifest, before, resolved>>
      /\ PutNode(Item.name, Item.command)
      /\ nodes_by_name' = [name \in DOMAIN nodes_by_name \cup {Item.name} |->
                              IF name = Item.name
                              THEN CHOOSE n \in DOMAIN nodes' : nodes'[n].name = name
                              ELSE nodes_by_name[name]]
  BY DEF ApplyNode, Turn
<1>2. BuildInd /\ ApplyInd /\ TargetsFound
  BY <1>1 DEF ManifestInd, ApplyInd
<1>3. /\ at \in Nat \ {0} /\ Len(manifest) \in Nat /\ manifest \in Seq(Line) /\ at \in 1..Len(manifest)
      /\ WellFormed(manifest) /\ LookedUp /\ NodesPut /\ EdgesPut
  BY <1>1, <1>2 DEF ApplyInd, WellFormed
<1>4. /\ \A j \in 1..at : j \in 1..Len(manifest) /\ manifest[j].record = "node"
      /\ TargetsDone = <<>>
  BY <1>1, <1>2, NodesBeforeRest
<1>5. PICK nm, cm : nm = Item.name /\ cm = Item.command
  OBVIOUS
<1>6. nm \in Names /\ cm \in Commands
  <2>1. manifest[at] \in Line
    BY <1>3
  <2> QED  BY <2>1, <1>1, <1>5 DEF Line, Item
<1>7. GraphTypeOK /\ Unique /\ PutNode(nm, cm)
  BY <1>1, <1>2, <1>5 DEF BuildInd
<1>8. /\ GraphTypeOK' /\ Unique' /\ edges' = edges
      /\ NodeIds \subseteq NodeIds' /\ Len(nodes) \in Nat /\ Len(nodes) <= Len(nodes')
      /\ DOMAIN nodes' = NodeIds'
      /\ \A n \in NodeIds : nodes'[n].name = nodes[n].name
  BY <1>6, <1>7, PutNodeEffect
<1>9. PICK p \in NodeIds' :
         /\ nodes'[p].name = nm /\ nodes'[p].command = cm
         /\ \A n \in NodeIds' : n # p => n \in NodeIds /\ nodes'[n] = nodes[n]
  BY <1>6, <1>7, PutNodeEffect
<1>10. BuildInd'
  BY <1>1, <1>2, <1>8, IdleInd DEF ApplyInd
<1>11. (CHOOSE n \in DOMAIN nodes' : nodes'[n].name = nm) = p
  BY <1>8, <1>9 DEF Unique
<1>12. /\ DOMAIN nodes_by_name' = DOMAIN nodes_by_name \cup {nm}
       /\ nodes_by_name'[nm] = p
       /\ \A name \in DOMAIN nodes_by_name : name # nm => nodes_by_name'[name] = nodes_by_name[name]
  <2>1. nodes_by_name' = [name \in DOMAIN nodes_by_name \cup {nm} |->
                              IF name = nm
                              THEN CHOOSE n \in DOMAIN nodes' : nodes'[n].name = name
                              ELSE nodes_by_name[name]]
    BY <1>1, <1>5
  <2>2. DOMAIN nodes_by_name' = DOMAIN nodes_by_name \cup {nm}
    BY <2>1
  <2>3. nodes_by_name'[nm] = p
    BY <2>1, <1>11
  <2>4. \A name \in DOMAIN nodes_by_name : name # nm => nodes_by_name'[name] = nodes_by_name[name]
    BY <2>1
  <2> QED  BY <2>2, <2>3, <2>4
<1>13. /\ \A j : Applied(j, "node")' <=> Applied(j, "node") \/ j = at
       /\ \A j : ~Applied(j, "edge")'
       /\ \A j : Applied(j, "node") => j \in 1..Len(manifest) /\ j # at /\ manifest[j].record = "node"
  <2>1. at' - 1 = at /\ \A j : j \in 1..at <=> j \in 1..(at - 1) \/ j = at
    BY <1>1, <1>3
  <2>2. \A j : j \in 1..(at - 1) => j # at
    BY <1>3
  <2>3. manifest' = manifest
    BY <1>1
  <2> QED  BY <2>1, <2>2, <2>3, <1>4 DEF Applied
<1>14. manifest[at].name = nm /\ manifest[at].command = cm /\ manifest[at].record = "node" /\ manifest' = manifest
  BY <1>1, <1>5 DEF Item
<1>15. \A name : Known(name)' <=> Known(name) \/ name = nm
  BY <1>12 DEF Known
<1>16. \A j : Applied(j, "node") => manifest[j].name # nm
  BY <1>3, <1>13, <1>14 DEF WellFormed
<1>17. ~Known(nm)
  BY <1>3, <1>16 DEF LookedUp
<1>18. LookedUp'
  <2>1. \A name : Known(name)' <=> \E j : Applied(j, "node")' /\ manifest'[j].name = name
    BY <1>3, <1>13, <1>14, <1>15 DEF LookedUp
  <2>2. ASSUME NEW name, Known(name)'
        PROVE  nodes_by_name'[name] \in NodeIds' /\ nodes'[nodes_by_name'[name]].name = name
    <3>1. CASE name = nm
      BY <3>1, <1>9, <1>12
    <3>2. CASE name # nm
      <4>1. Known(name) /\ nodes_by_name'[name] = nodes_by_name[name]
        BY <2>2, <3>2, <1>12, <1>15 DEF Known
      <4>2. nodes_by_name[name] \in NodeIds /\ nodes[nodes_by_name[name]].name = name
        BY <4>1, <1>3 DEF LookedUp
      <4> QED  BY <4>1, <4>2, <1>8
    <3> QED  BY <3>1, <3>2
  <2> QED  BY <2>1, <2>2, <1>13 DEF LookedUp
<1>19. NodesPut'
  <2>1. ASSUME NEW j, Applied(j, "node")'
        PROVE  nodes'[nodes_by_name'[manifest'[j].name]].command = manifest'[j].command
    <3>1. CASE j = at
      BY <3>1, <1>9, <1>12, <1>14
    <3>2. CASE j # at
      <4>1. Applied(j, "node")
        BY <2>1, <3>2, <1>13
      <4>2. PICK other : other = manifest[j].name
        OBVIOUS
      <4>3. PICK q : q = nodes_by_name[other]
        OBVIOUS
      <4>4. other # nm /\ Known(other)
        BY <4>1, <4>2, <1>3, <1>16 DEF LookedUp
      <4>5. q \in NodeIds /\ nodes[q].name = other
        BY <4>3, <4>4, <1>3 DEF LookedUp
      <4>6. q # p
        BY <4>4, <4>5, <1>8, <1>9
      <4>7. nodes'[q] = nodes[q]
        BY <4>5, <4>6, <1>8, <1>9
      <4>8. nodes[q].command = manifest[j].command
        BY <4>1, <4>2, <4>3, <1>3 DEF NodesPut
      <4>9. nodes_by_name'[other] = q
        BY <4>3, <4>4, <1>12 DEF Known
      <4> QED  BY <4>2, <4>7, <4>8, <4>9, <1>14
    <3> QED  BY <3>1, <3>2
  <2>2. ASSUME NEW n \in NodeIds'
        PROVE  (\E j : Applied(j, "node")' /\ manifest'[j].name = nodes'[n].name) \/ nodes'[n] = before'.nodes[n]
    <3>1. CASE n = p
      BY <3>1, <1>9, <1>13, <1>14
    <3>2. CASE n # p
      <4>1. n \in NodeIds /\ nodes'[n] = nodes[n]
        BY <3>2, <1>9
      <4>2. (\E j : Applied(j, "node") /\ manifest[j].name = nodes[n].name) \/ nodes[n] = before.nodes[n]
        BY <4>1, <1>3 DEF NodesPut
      <4>3. before' = before
        BY <1>1
      <4>4. CASE nodes[n] = before.nodes[n]
        BY <4>1, <4>3, <4>4
      <4>5. CASE \E j : Applied(j, "node") /\ manifest[j].name = nodes[n].name
        BY <4>1, <4>5, <1>13, <1>14
      <4> QED  BY <4>2, <4>4, <4>5
    <3> QED  BY <3>1, <3>2
  <2>3. Len(before'.nodes) \in Nat /\ Len(before'.nodes) <= Len(nodes')
    <3>1. before' = before /\ Len(before.nodes) \in Nat /\ Len(before.nodes) <= Len(nodes)
      BY <1>1, <1>3 DEF NodesPut
    <3>2. Len(nodes') \in Nat
      BY <1>8 DEF GraphTypeOK
    <3>3. PICK k : k = Len(before.nodes)
      OBVIOUS
    <3>4. k <= Len(nodes')
      BY <3>1, <3>2, <3>3, <1>8
    <3> QED  BY <3>1, <3>3, <3>4
  <2> QED  BY <2>1, <2>2, <2>3 DEF NodesPut
<1>20. EdgesPut'
  <2>1. \A a, b, kind : ~Asked(a, b, kind)'
    BY <1>13 DEF Asked
  <2>2. \A a, b, kind : ~Asked(a, b, kind)
    BY <1>4, <1>3 DEF Asked, Applied
  <2>3. edges' = edges /\ before' = before
    BY <1>1, <1>8
  <2>4. \A a, b, kind : Joins(edges, a, b, kind) <=> Joins(before.edges, a, b, kind)
    BY <2>2, <1>3 DEF EdgesPut
  <2>5. \A a, b, kind : Joins(edges', a, b, kind) <=> Joins(before'.edges, a, b, kind)
    BY <2>3, <2>4
  <2> QED  BY <2>1, <2>5, Zenon DEF EdgesPut
<1>21. TargetsFound' /\ resolved' \in Seq(NodeIds')
  <2>1. TargetsDone' = <<>>
    BY <1>1, <1>2, <1>4, TargetsDoneNext DEF WithLine
  <2>2. resolved' = resolved /\ resolved \in Seq(NodeIds) /\ Len(resolved) = 0
    BY <1>1, <1>2, <1>4 DEF ApplyInd, TargetsFound
  <2>3. resolved = <<>>
    BY <2>2, EmptySeq
  <2> QED  BY <2>1, <2>2, <2>3, EmptySeq DEF TargetsFound
<1>22. at' \in 1..(Len(manifest') + 1) /\ WellFormed(manifest') /\ phase' = "idle"
  BY <1>1, <1>2, <1>3 DEF ApplyInd
<1>23. WellFormed(manifest)'
  BY <1>22 DEF WellFormed, Line
<1> QED  BY <1>1, <1>10, <1>18, <1>19, <1>20, <1>21, <1>22, <1>23 DEF ManifestInd, ApplyInd

\* The items that were applied after the next one.
LEMMA OneMoreApplied ==
    ASSUME ApplyInd, manifest' = manifest, at' = at + 1, NEW record
    PROVE  \A j : Applied(j, record)' <=> Applied(j, record) \/ (j = at /\ Item.record = record)
<1>1. at \in Nat \ {0}
  BY DEF ApplyInd
<1>2. at' - 1 = at /\ \A j : j \in 1..at <=> j \in 1..(at - 1) \/ j = at
  BY <1>1
<1> QED  BY <1>2 DEF Applied, Item

\* An item that is no node leaves the nodes.
LEMMA NodesStay ==
    ASSUME LookedUp, NodesPut, UNCHANGED <<nodes, nodes_by_name, before, manifest>>,
           \A j : Applied(j, "node")' <=> Applied(j, "node"),
           \A j : Applied(j, "edge")' => Known(manifest[j].from) /\ Known(manifest[j].to)
    PROVE  LookedUp' /\ NodesPut'
<1>1. NodeIds' = NodeIds /\ \A name : Known(name)' <=> Known(name)
  BY DEF NodeIds, Known
<1>2. LookedUp'
  <2>1. \A name : Known(name)' <=> \E j : Applied(j, "node")' /\ manifest'[j].name = name
    BY <1>1 DEF LookedUp
  <2>2. \A name : Known(name)' => nodes_by_name'[name] \in NodeIds' /\ nodes'[nodes_by_name'[name]].name = name
    BY <1>1 DEF LookedUp
  <2>3. \A j : Applied(j, "edge")' => Known(manifest[j].from)' /\ Known(manifest[j].to)'
    BY <1>1
  <2> QED  BY <2>1, <2>2, <2>3 DEF LookedUp
<1>3. NodesPut'
  <2>1. \A n \in NodeIds' : (\E j : Applied(j, "node")' /\ manifest'[j].name = nodes'[n].name)
                            \/ nodes'[n] = before'.nodes[n]
    BY <1>1 DEF NodesPut
  <2> QED  BY <2>1, <1>1 DEF NodesPut
<1> QED  BY <1>2, <1>3

LEMMA ApplyEdgeInd ==
    ASSUME ManifestInd, ApplyEdge
    PROVE  ManifestInd'
<1>1. PICK a, b, kind : /\ a = nodes_by_name[Item.from] /\ b = nodes_by_name[Item.to] /\ kind = Item.kind
  OBVIOUS
<1>2. /\ applying = "items" /\ at <= Len(manifest) /\ Item.record = "edge" /\ at' = at + 1
      /\ UNCHANGED <<phase, locals, applying, manifest, before, resolved, nodes_by_name>>
      /\ Known(Item.from) /\ Known(Item.to)
      /\ PutEdge(a, b, kind) \/ (Present(a, b, kind) /\ UNCHANGED graph)
  BY <1>1 DEF ApplyEdge, Turn, EndsOf
<1>3. BuildInd /\ ApplyInd /\ TargetsFound
  BY <1>2 DEF ManifestInd, ApplyInd
<1>4. /\ at \in Nat \ {0} /\ Len(manifest) \in Nat /\ manifest \in Seq(Line) /\ at \in 1..Len(manifest)
      /\ WellFormed(manifest) /\ LookedUp /\ NodesPut /\ EdgesPut
  BY <1>2, <1>3 DEF ApplyInd, WellFormed
<1>5. a \in NodeIds /\ b \in NodeIds /\ kind \in Kinds
  <2>1. manifest[at] \in Line
    BY <1>4
  <2>2. kind \in Kinds
    BY <2>1, <1>1, <1>2 DEF Line, Item
  <2> QED  BY <2>2, <1>1, <1>2, <1>4 DEF LookedUp
<1>6. GraphTypeOK /\ Unique
  BY <1>3 DEF BuildInd
<1>7. /\ GraphTypeOK' /\ Unique' /\ nodes' = nodes
      /\ \A x, y, z : Joins(edges', x, y, z) <=> Joins(edges, x, y, z) \/ (x = a /\ y = b /\ z = kind)
  <2>1. CASE PutEdge(a, b, kind)
    <3>1. GraphTypeOK' /\ Unique' /\ nodes' = nodes
      BY <2>1, <1>5, <1>6, PutEdgeType, PutEdgeUnique DEF PutEdge
    <3>2. PICK new : new = [from |-> a, to |-> b, kind |-> kind, generation |-> generation + 1]
      OBVIOUS
    <3>3. new.from = a /\ new.to = b /\ new.kind = kind
      BY <3>2
    <3>4. edges' = [e \in EdgeIds \cup {next_edge} |-> IF e = next_edge THEN new ELSE edges[e]]
      BY <2>1, <3>2 DEF PutEdge
    <3>5. next_edge \notin EdgeIds
      <4>1. next_edge \in Nat /\ EdgeIds \subseteq 1..(next_edge - 1)
        BY <1>6 DEF GraphTypeOK
      <4> QED  BY <4>1
    <3>6. /\ DOMAIN edges' = DOMAIN edges \cup {next_edge} /\ edges'[next_edge] = new
          /\ \A e \in DOMAIN edges : edges'[e] = edges[e]
      BY <3>4, <3>5 DEF EdgeIds
    <3>7. \A x, y, z : Joins(edges', x, y, z) <=> Joins(edges, x, y, z) \/ (x = a /\ y = b /\ z = kind)
      BY <3>3, <3>6 DEF Joins
    <3> QED  BY <3>1, <3>7
  <2>2. CASE Present(a, b, kind) /\ UNCHANGED graph
    <3>1. GraphTypeOK' /\ Unique' /\ nodes' = nodes /\ edges' = edges
      BY <2>2, <1>6, GraphStays
    <3>2. Joins(edges, a, b, kind)
      BY <2>2 DEF Present, Joins, EdgeIds
    <3> QED  BY <3>1, <3>2
  <2> QED  BY <2>1, <2>2, <1>2
<1>8. BuildInd'
  BY <1>2, <1>3, <1>7, IdleInd DEF ApplyInd
<1>9. /\ \A j : Applied(j, "node")' <=> Applied(j, "node")
      /\ \A j : Applied(j, "edge")' <=> Applied(j, "edge") \/ j = at
  <2>1. /\ \A j : Applied(j, "node")' <=> Applied(j, "node") \/ (j = at /\ Item.record = "node")
        /\ \A j : Applied(j, "edge")' <=> Applied(j, "edge") \/ (j = at /\ Item.record = "edge")
    BY <1>2, <1>3, OneMoreApplied
  <2> QED  BY <2>1, <1>2
<1>10. LookedUp' /\ NodesPut'
  <2>1. \A j : Applied(j, "edge")' => Known(manifest[j].from) /\ Known(manifest[j].to)
    BY <1>2, <1>4, <1>9 DEF LookedUp, Item
  <2> QED  BY <2>1, <1>2, <1>4, <1>7, <1>9, NodesStay
<1>11. EdgesPut'
  <2>1. manifest' = manifest /\ nodes_by_name' = nodes_by_name /\ before' = before
    BY <1>2
  <2>2. \A x, y, z : Asked(x, y, z)' <=> Asked(x, y, z) \/ (x = a /\ y = b /\ z = kind)
    BY <2>1, <1>1, <1>9 DEF Asked, Item
  <2>3. \A x, y, z : Joins(edges, x, y, z) <=> Joins(before.edges, x, y, z) \/ Asked(x, y, z)
    BY <1>4 DEF EdgesPut
  <2>4. \A x, y, z : Joins(edges', x, y, z) <=> Joins(before'.edges, x, y, z) \/ Asked(x, y, z)'
    BY <2>1, <2>2, <2>3, <1>7
  <2> QED  BY <2>4, Zenon DEF EdgesPut
<1>12. TargetsFound' /\ resolved' \in Seq(NodeIds')
  <2>1. TargetsDone' = TargetsDone
    BY <1>2, <1>3, TargetsDoneNext DEF WithLine
  <2>2. NodeIds' = NodeIds /\ resolved' = resolved /\ resolved \in Seq(NodeIds) /\ \A name : Known(name)' <=> Known(name)
    BY <1>2, <1>3, <1>7 DEF NodeIds, ApplyInd, Known
  <2>3. PICK td : td = TargetsDone
    OBVIOUS
  <2>4. TargetsDone' = td /\ nodes_by_name' = nodes_by_name
    BY <2>1, <2>3, <1>2
  <2>5. TargetsFound'
    BY <2>2, <2>3, <2>4, <1>3 DEF TargetsFound
  <2> QED  BY <2>2, <2>5
<1>13. at' \in 1..(Len(manifest') + 1) /\ phase' = "idle"
  BY <1>2, <1>3, <1>4 DEF ApplyInd
<1>14. WellFormed(manifest)'
  BY <1>2, <1>4 DEF WellFormed, Line
<1> QED  BY <1>2, <1>8, <1>10, <1>11, <1>12, <1>13, <1>14 DEF ManifestInd, ApplyInd

\* What a step that leaves the graph, the items and what is known leaves.
LEMMA PutsStay ==
    ASSUME BuildInd, ApplyInd, UNCHANGED <<vars, manifest, nodes_by_name, before>>,
           \A j : Applied(j, "node")' <=> Applied(j, "node"),
           \A j : Applied(j, "edge")' <=> Applied(j, "edge")
    PROVE  /\ BuildInd' /\ phase' = "idle" /\ WellFormed(manifest)'
           /\ LookedUp' /\ NodesPut' /\ EdgesPut'
           /\ NodeIds' = NodeIds /\ \A name : Known(name)' <=> Known(name)
<1>1. BuildInd' /\ phase' = "idle" /\ nodes' = nodes /\ edges' = edges
  <2>1. BuildInd'
    BY BuildStep
  <2> QED  BY <2>1 DEF ApplyInd, vars, graph
<1>2. WellFormed(manifest)'
  BY DEF ApplyInd, WellFormed, Line
<1>3. LookedUp /\ NodesPut /\ EdgesPut
  BY DEF ApplyInd
<1>4. LookedUp' /\ NodesPut'
  <2>1. \A j : Applied(j, "edge")' => Known(manifest[j].from) /\ Known(manifest[j].to)
    BY <1>3 DEF LookedUp
  <2> QED  BY <2>1, <1>1, <1>3, NodesStay
<1>5. EdgesPut'
  <2>1. \A x, y, z : Asked(x, y, z)' <=> Asked(x, y, z)
    BY DEF Asked
  <2>2. \A x, y, z : Joins(edges, x, y, z) <=> Joins(before.edges, x, y, z) \/ Asked(x, y, z)
    BY <1>3 DEF EdgesPut
  <2>3. \A x, y, z : Joins(edges', x, y, z) <=> Joins(before'.edges, x, y, z) \/ Asked(x, y, z)'
    BY <2>1, <2>2, <1>1
  <2> QED  BY <2>3, Zenon DEF EdgesPut
<1>6. NodeIds' = NodeIds /\ \A name : Known(name)' <=> Known(name)
  BY <1>1 DEF NodeIds, Known
<1> QED  BY <1>1, <1>2, <1>4, <1>5, <1>6

LEMMA ApplyTargetInd ==
    ASSUME ManifestInd, ApplyTarget
    PROVE  ManifestInd'
<1>1. /\ applying = "items" /\ at <= Len(manifest) /\ Item.record = "target" /\ at' = at + 1
      /\ UNCHANGED <<phase, locals, applying, manifest, before, nodes_by_name, graph>>
      /\ Known(Item.name) /\ resolved' = Append(resolved, nodes_by_name[Item.name])
  BY DEF ApplyTarget, Turn
<1>2. BuildInd /\ ApplyInd /\ TargetsFound
  BY <1>1 DEF ManifestInd, ApplyInd
<1>3. /\ at \in 1..Len(manifest) /\ manifest \in Seq(Line) /\ LookedUp /\ resolved \in Seq(NodeIds)
  BY <1>1, <1>2 DEF ApplyInd, WellFormed
<1>4. /\ \A j : Applied(j, "node")' <=> Applied(j, "node")
      /\ \A j : Applied(j, "edge")' <=> Applied(j, "edge")
  <2>1. /\ \A j : Applied(j, "node")' <=> Applied(j, "node") \/ (j = at /\ Item.record = "node")
        /\ \A j : Applied(j, "edge")' <=> Applied(j, "edge") \/ (j = at /\ Item.record = "edge")
    BY <1>1, <1>2, OneMoreApplied
  <2> QED  BY <2>1, <1>1
<1>5. /\ BuildInd' /\ phase' = "idle" /\ WellFormed(manifest)'
      /\ LookedUp' /\ NodesPut' /\ EdgesPut'
      /\ NodeIds' = NodeIds /\ \A name : Known(name)' <=> Known(name)
  BY <1>1, <1>2, <1>4, PutsStay DEF vars
<1>6. PICK item, n : item = Item /\ n = nodes_by_name[Item.name]
  OBVIOUS
<1>7. n \in NodeIds /\ item \in Line /\ Known(item.name) /\ n = nodes_by_name[item.name] /\ item.record = "target"
  BY <1>1, <1>3, <1>6 DEF LookedUp, Item
<1>8. PICK td : td = TargetsDone
  OBVIOUS
<1>9. td \in Seq(Line)
  <2>1. at - 1 \in 0..Len(manifest)
    BY <1>3
  <2>2. IsOf(td, manifest, "target", at - 1)
    BY <2>1, <1>3, <1>8, OfHoldsPrefix DEF TargetsDone
  <2> QED  BY <2>2 DEF IsOf
<1>10. TargetsDone' = Append(td, item)
  BY <1>1, <1>2, <1>6, <1>7, <1>8, TargetsDoneNext DEF WithLine
<1>11. /\ resolved' \in Seq(NodeIds) /\ Len(resolved') = Len(resolved) + 1
       /\ \A i \in 1..Len(resolved) : resolved'[i] = resolved[i]
       /\ resolved'[Len(resolved) + 1] = n
  BY <1>1, <1>3, <1>6, <1>7, AppendProperties
<1>12. PICK td2 : td2 = TargetsDone'
  OBVIOUS
<1>13. /\ Len(td2) = Len(td) + 1
       /\ \A i \in 1..Len(td) : td2[i] = td[i]
       /\ td2[Len(td) + 1] = item
  BY <1>7, <1>9, <1>10, <1>12, AppendProperties
<1>14. Len(td) = Len(resolved) /\ Len(td) \in Nat
       /\ \A i \in 1..Len(td) : Known(td[i].name) /\ resolved[i] = nodes_by_name[td[i].name]
  BY <1>2, <1>8, <1>9 DEF TargetsFound
<1>15. ASSUME NEW i \in 1..Len(td2)
       PROVE  Known(td2[i].name) /\ resolved'[i] = nodes_by_name[td2[i].name]
  <2>1. CASE i \in 1..Len(td)
    BY <2>1, <1>11, <1>13, <1>14
  <2>2. CASE i = Len(td) + 1
    BY <2>2, <1>7, <1>11, <1>13, <1>14
  <2> QED  BY <2>1, <2>2, <1>13, <1>14
<1>16. TargetsFound'
  BY <1>1, <1>5, <1>11, <1>12, <1>13, <1>14, <1>15 DEF TargetsFound
<1>17. at' \in 1..(Len(manifest') + 1) /\ resolved' \in Seq(NodeIds')
  <2>1. Len(manifest) \in Nat
    BY <1>3
  <2> QED  BY <2>1, <1>1, <1>3, <1>5, <1>11
<1> QED  BY <1>1, <1>5, <1>16, <1>17 DEF ManifestInd, ApplyInd

LEMMA ApplyFailsInd ==
    ASSUME ManifestInd, ApplyFails
    PROVE  ManifestInd'
<1>1. /\ applying = "items" /\ at <= Len(manifest) /\ applying' = "failed"
      /\ \/ Item.record = "edge" /\ ~(Known(Item.from) /\ Known(Item.to))
         \/ Item.record = "target" /\ ~Known(Item.name)
      /\ UNCHANGED <<vars, manifest, at, nodes_by_name, resolved, before>>
  BY DEF ApplyFails, applied
<1>2. BuildInd /\ ApplyInd
  BY <1>1 DEF ManifestInd
<1>3. /\ \A j : Applied(j, "node")' <=> Applied(j, "node")
      /\ \A j : Applied(j, "edge")' <=> Applied(j, "edge")
  BY <1>1 DEF Applied
<1>4. /\ BuildInd' /\ phase' = "idle" /\ WellFormed(manifest)'
      /\ LookedUp' /\ NodesPut' /\ EdgesPut'
      /\ NodeIds' = NodeIds /\ \A name : Known(name)' <=> Known(name)
  BY <1>1, <1>2, <1>3, PutsStay
<1>5. resolved' \in Seq(NodeIds') /\ at' \in 1..(Len(manifest') + 1)
  BY <1>1, <1>2, <1>4 DEF ApplyInd
<1>6. Item' = Item /\ at' <= Len(manifest')
  BY <1>1 DEF Item
<1>7. \/ Item'.record = "edge" /\ ~(Known(Item.from)' /\ Known(Item.to)')
      \/ Item'.record = "target" /\ ~Known(Item.name)'
  BY <1>1, <1>4, <1>6
<1> QED  BY <1>1, <1>4, <1>5, <1>6, <1>7 DEF ManifestInd, ApplyInd

\* The last node of a manifest.
LEMMA LastNodeIsNode ==
    ASSUME WellFormed(manifest)
    PROVE  LastNode \in 1..Len(manifest) /\ manifest[LastNode].record = "node"
<1>1. manifest \in Seq(Line) /\ Len(manifest) \in Nat /\ DOMAIN manifest = 1..Len(manifest)
  BY DEF WellFormed
<1> DEFINE T == {k \in Nat : k < Len(manifest) /\ manifest[Len(manifest) - k].record = "node"}
<1>2. T # {}
  <2>1. PICK i \in 1..Len(manifest) : manifest[i].record = "node"
    BY DEF WellFormed
  <2>2. Len(manifest) - i \in Nat /\ Len(manifest) - i < Len(manifest) /\ Len(manifest) - (Len(manifest) - i) = i
    BY <1>1, <2>1
  <2>3. Len(manifest) - i \in T
    BY <2>1, <2>2
  <2> QED  BY <2>3
<1>3. PICK k \in T : \A l \in T : k <= l
  BY <1>2, LeastNumber
<1>4. PICK i : i = Len(manifest) - k
  OBVIOUS
<1>5. k \in Nat /\ i \in DOMAIN manifest /\ manifest[i].record = "node"
  BY <1>1, <1>3, <1>4
<1>6. ASSUME NEW j \in (i + 1)..Len(manifest), manifest[j].record = "node"
      PROVE  FALSE
  <2>1. PICK l : l = Len(manifest) - j
    OBVIOUS
  <2>2. l \in Nat /\ l < Len(manifest) /\ Len(manifest) - l = j /\ l < k
    BY <2>1, <1>1, <1>4, <1>5
  <2>3. l \in T
    BY <2>2, <1>6
  <2> QED  BY <2>2, <2>3, <1>3
<1>7. \E x \in DOMAIN manifest :
         /\ manifest[x].record = "node"
         /\ \A j \in (x + 1)..Len(manifest) : manifest[j].record # "node"
  BY <1>5, <1>6
<1>8. LastNode \in DOMAIN manifest /\ manifest[LastNode].record = "node"
  BY <1>7 DEF LastNode
<1> QED  BY <1>1, <1>8

LEMMA TargetsDoneType ==
    ASSUME ApplyInd
    PROVE  TargetsDone \in Seq(Line)
<1>1. manifest \in Seq(Line) /\ Len(manifest) \in Nat /\ at \in 1..(Len(manifest) + 1)
  BY DEF ApplyInd, WellFormed
<1>2. at - 1 \in 0..Len(manifest)
  BY <1>1
<1>3. IsOf(TargetsDone, manifest, "target", at - 1)
  BY <1>1, <1>2, OfHoldsPrefix DEF TargetsDone
<1> QED  BY <1>3 DEF IsOf

LEMMA ApplyEndsInd ==
    ASSUME ManifestInd, ApplyEnds
    PROVE  ManifestInd'
<1>1. /\ applying = "items" /\ at > Len(manifest) /\ applying' = "applied"
      /\ resolved' = IF resolved = <<>> THEN <<nodes_by_name[manifest[LastNode].name]>> ELSE resolved
      /\ UNCHANGED <<vars, manifest, at, nodes_by_name, before>>
  BY DEF ApplyEnds
<1>2. BuildInd /\ ApplyInd /\ TargetsFound
  BY <1>1 DEF ManifestInd, ApplyInd
<1>3. /\ \A j : Applied(j, "node")' <=> Applied(j, "node")
      /\ \A j : Applied(j, "edge")' <=> Applied(j, "edge")
  BY <1>1 DEF Applied
<1>4. /\ BuildInd' /\ phase' = "idle" /\ WellFormed(manifest)'
      /\ LookedUp' /\ NodesPut' /\ EdgesPut'
      /\ NodeIds' = NodeIds /\ \A name : Known(name)' <=> Known(name)
  BY <1>1, <1>2, <1>3, PutsStay
<1>5. PICK last : last = nodes_by_name[manifest[LastNode].name]
  OBVIOUS
<1>6. last \in NodeIds
  <2>1. LastNode \in 1..Len(manifest) /\ manifest[LastNode].record = "node"
    BY <1>2, LastNodeIsNode DEF ApplyInd
  <2>2. Len(manifest) \in Nat /\ at \in 1..(Len(manifest) + 1)
    BY <1>2 DEF ApplyInd, WellFormed
  <2>3. Applied(LastNode, "node")
    BY <2>1, <2>2, <1>1 DEF Applied
  <2>4. Known(manifest[LastNode].name)
    BY <2>3, <1>2 DEF ApplyInd, LookedUp
  <2> QED  BY <2>4, <1>2, <1>5 DEF ApplyInd, LookedUp
<1>7. /\ resolved \in Seq(NodeIds) /\ at \in 1..(Len(manifest) + 1)
      /\ resolved' = IF resolved = <<>> THEN <<last>> ELSE resolved
  BY <1>1, <1>2, <1>5 DEF ApplyInd
<1>8. resolved' \in Seq(NodeIds') /\ at' \in 1..(Len(manifest') + 1)
  <2>1. <<last>> \in Seq(NodeIds)
    BY <1>6
  <2> QED  BY <2>1, <1>1, <1>4, <1>7
<1>9. PICK td : td = TargetsDone
  OBVIOUS
<1>10. TargetsDone' = td /\ td \in Seq(Line) /\ LastNode' = LastNode
  BY <1>1, <1>2, <1>9, TargetsDoneType DEF TargetsDone, LastNode
<1>11. Len(resolved) = Len(td)
       /\ \A i \in 1..Len(td) : Known(td[i].name) /\ resolved[i] = nodes_by_name[td[i].name]
  BY <1>2, <1>9 DEF TargetsFound
<1>12. CASE td = <<>>
  <2>1. resolved = <<>>
    BY <1>7, <1>11, <1>12, EmptySeq
  <2>2. resolved' = <<nodes_by_name'[manifest'[LastNode'].name]>>
    BY <2>1, <1>1, <1>10
  <2> QED  BY <2>2, <1>1, <1>4, <1>8, <1>10, <1>12 DEF ManifestInd, ApplyInd
<1>13. CASE td # <<>>
  <2>1. resolved # <<>>
    <3>1. Len(td) # 0
      BY <1>10, <1>13, EmptySeq
    <3> QED  BY <3>1, <1>11
  <2>2. resolved' = resolved
    BY <2>1, <1>7
  <2>3. TargetsFound'
    BY <2>2, <1>1, <1>4, <1>10, <1>11 DEF TargetsFound
  <2> QED  BY <2>3, <1>1, <1>4, <1>8, <1>10, <1>13 DEF ManifestInd, ApplyInd
<1> QED  BY <1>12, <1>13

LEMMA ApplyBegins ==
    ASSUME ManifestInd, NEW lines \in Files, Apply(lines)
    PROVE  ManifestInd'
<1>1. /\ applying = "no" /\ phase = "idle" /\ Parses(lines)
      /\ applying' = "items" /\ manifest' = Parsed(lines) /\ at' = 1
      /\ nodes_by_name' = <<>> /\ resolved' = <<>>
      /\ before' = [nodes |-> nodes, edges |-> edges] /\ UNCHANGED vars
  BY DEF Apply
<1>2. BuildInd /\ BuildInd'
  BY <1>1, BuildStep DEF ManifestInd
<1>3. phase' = "idle" /\ nodes' = nodes /\ edges' = edges
  BY <1>1 DEF vars, graph
<1>4. lines \in Seq(Line)
  BY ManifestAssumption
<1>5. PICK m : m = Parsed(lines)
  OBVIOUS
<1>6. WellFormed(m) /\ manifest' = m
  BY <1>1, <1>4, <1>5, ParsedWellFormed
<1>7. WellFormed(manifest)' /\ at' \in 1..(Len(manifest') + 1)
  BY <1>1, <1>6 DEF WellFormed, Line
<1>8. /\ \A j, record : ~Applied(j, record)'
      /\ \A name : ~Known(name)'
  <2>1. \A j : j \notin 1..(at' - 1)
    BY <1>1
  <2>2. DOMAIN nodes_by_name' = {}
    BY <1>1
  <2> QED  BY <2>1, <2>2 DEF Applied, Known
<1>9. LookedUp'
  BY <1>8 DEF LookedUp
<1>10. before'.nodes = nodes /\ before'.edges = edges
  BY <1>1
<1>11. NodesPut'
  <2>1. nodes \in Seq(BuildNode)
    BY <1>2 DEF BuildInd, GraphTypeOK
  <2>2. Len(nodes) \in Nat
    BY <2>1
  <2> QED  BY <2>2, <1>3, <1>8, <1>10 DEF NodesPut
<1>12. EdgesPut'
  <2>1. \A x, y, z : ~Asked(x, y, z)'
    BY <1>8 DEF Asked
  <2>2. \A x, y, z : Joins(edges', x, y, z) <=> Joins(before'.edges, x, y, z) \/ Asked(x, y, z)'
    BY <2>1, <1>3, <1>10
  <2> QED  BY <2>2, Zenon DEF EdgesPut
<1>13. TargetsFound' /\ resolved' \in Seq(NodeIds')
  <2>1. TargetsDone' = Of(SubSeq(m, 1, 0), "target")
    BY <1>1, <1>6 DEF TargetsDone
  <2>2. TargetsDone' = <<>>
    BY <2>1, <1>6, OfOneMore DEF WellFormed
  <2> QED  BY <2>2, <1>1, EmptySeq DEF TargetsFound
<1> QED  BY <1>1, <1>2, <1>3, <1>7, <1>9, <1>11, <1>12, <1>13 DEF ManifestInd, ApplyInd

LEMMA BuildManifestInd ==
    ASSUME ManifestInd, BuildManifest
    PROVE  ManifestInd'
<1>1. applying = "applied" /\ applying' = "no"
  BY DEF BuildManifest, Forget
<1>2. BuildInd /\ ApplyInd
  BY <1>1 DEF ManifestInd
<1>3. NodeIds \subseteq 1..Cardinality(Names)
  BY <1>2, FewNodes DEF BuildInd
<1>4. CASE Begin(resolved)
  <2>1. resolved \in Seq(1..Cardinality(Names))
    BY <1>2, <1>3, ListOfMore DEF ApplyInd
  <2> QED  BY <2>1, <1>1, <1>2, <1>4, BeginInd DEF ManifestInd
<1>5. ASSUME NEW k \in 1..MaxTargets, NEW names \in [1..k -> DOMAIN nodes_by_name],
             Begin([i \in 1..k |-> nodes_by_name[names[i]]])
      PROVE  ManifestInd'
  <2>1. PICK ts : ts = [i \in 1..k |-> nodes_by_name[names[i]]]
    OBVIOUS
  <2>2. k \in Nat
    BY BuildAssumption
  <2>3. \A i \in 1..k : nodes_by_name[names[i]] \in NodeIds
    BY <1>2 DEF ApplyInd, LookedUp, Known
  <2>4. ts \in [1..k -> 1..Cardinality(Names)]
    BY <2>1, <2>3, <1>3
  <2>5. ts \in Seq(1..Cardinality(Names))
    BY <2>2, <2>4, ListOfLength
  <2>6. Begin(ts)
    BY <2>1, <1>5
  <2> QED  BY <2>5, <2>6, <1>1, <1>2, BeginInd DEF ManifestInd
<1> QED  BY <1>4, <1>5 DEF BuildManifest

LEMMA ManifestStep ==
    ASSUME ManifestInd, [ManifestNext]_manifestVars
    PROVE  ManifestInd'
<1>1. CASE applying = "no" /\ Next /\ UNCHANGED <<applying, applied>>
  BY <1>1, BuildStep DEF ManifestInd
<1>2. CASE Return
  BY <1>2, BuildStep DEF Return, Forget, ManifestInd
<1>3. CASE UNCHANGED manifestVars
  <2>1. UNCHANGED <<vars, applying, manifest, at, nodes_by_name, resolved, before>>
    BY <1>3 DEF manifestVars, applied
  <2>2. BuildInd /\ BuildInd'
    BY <2>1, BuildStep DEF ManifestInd
  <2>3. CASE applying = "no"
    BY <2>1, <2>2, <2>3 DEF ManifestInd
  <2>4. CASE applying # "no"
    <3>1. ApplyInd
      BY <2>4 DEF ManifestInd
    <3>2. /\ \A j : Applied(j, "node")' <=> Applied(j, "node")
          /\ \A j : Applied(j, "edge")' <=> Applied(j, "edge")
      BY <2>1 DEF Applied
    <3>3. /\ phase' = "idle" /\ WellFormed(manifest)'
          /\ LookedUp' /\ NodesPut' /\ EdgesPut'
          /\ NodeIds' = NodeIds /\ \A name : Known(name)' <=> Known(name)
      BY <2>1, <2>2, <3>1, <3>2, PutsStay
    <3>4. TargetsDone' = TargetsDone /\ LastNode' = LastNode /\ Item' = Item
      BY <2>1 DEF TargetsDone, LastNode, Item
    <3>5. TargetsFound => TargetsFound'
      <4>1. PICK td : td = TargetsDone
        OBVIOUS
      <4>2. TargetsDone' = td
        BY <3>4, <4>1
      <4> QED  BY <2>1, <3>3, <4>1, <4>2 DEF TargetsFound
    <3>6. resolved' \in Seq(NodeIds') /\ at' \in 1..(Len(manifest') + 1)
      BY <2>1, <3>1, <3>3 DEF ApplyInd
    <3>7. CASE applying = "items"
      BY <2>1, <2>2, <3>1, <3>3, <3>5, <3>6, <3>7 DEF ManifestInd, ApplyInd
    <3>8. CASE applying = "applied"
      BY <2>1, <2>2, <3>1, <3>3, <3>4, <3>5, <3>6, <3>8 DEF ManifestInd, ApplyInd
    <3>9. CASE applying = "failed"
      BY <2>1, <2>2, <3>1, <3>3, <3>4, <3>6, <3>9 DEF ManifestInd, ApplyInd
    <3> QED  BY <2>4, <3>7, <3>8, <3>9 DEF ManifestInd
  <2> QED  BY <2>3, <2>4
<1> QED
  BY <1>1, <1>2, <1>3, ApplyBegins, ApplyNodeInd, ApplyEdgeInd, ApplyTargetInd, ApplyFailsInd,
     ApplyEndsInd, BuildManifestInd DEF ManifestNext

LEMMA ManifestStarts ==
    ASSUME ManifestInit
    PROVE  ManifestInd
<1>1. /\ nodes = <<>> /\ edges = <<>> /\ next_edge = 1 /\ generation = 1
      /\ phase = "idle" /\ NoLocals /\ applying = "no"
  BY DEF ManifestInit, Init, GraphInit, NoLocals
<1>2. GraphTypeOK
  <2>1. nodes \in Seq(BuildNode) /\ EdgeIds = {}
    BY <1>1 DEF EdgeIds
  <2>2. edges \in [EdgeIds -> DependencyEdge]
    BY <1>1 DEF EdgeIds
  <2> QED  BY <2>1, <2>2, <1>1 DEF GraphTypeOK
<1>3. Unique
  BY <1>1 DEF Unique, NodeIds, EdgeIds
<1>4. /\ targets \in Seq(1..Cardinality(Names)) /\ stack \in Seq(Frame) /\ NotRunning /\ witness = NoWitness
  BY <1>1 DEF NoLocals, NotRunning
<1> QED  BY <1>1, <1>2, <1>3, <1>4 DEF ManifestInd, BuildInd, Phases

\* It implies what the run checks of apply_manifest.
LEMMA ApplyIndImplies ==
    ASSUME ManifestInd
    PROVE  ManifestApplied
<1> DEFINE Id(name) == CHOOSE n \in NodeIds : nodes[n].name = name
           Same(n) == n
           Edges(es) == {es[e] : e \in DOMAIN es}
           names == {manifest[i].name : i \in {j \in DOMAIN manifest : manifest[j].record = "node"}}
<1> SUFFICES ASSUME applying # "no"
             PROVE  ManifestApplied
  BY DEF ManifestApplied
<1>1. BuildInd /\ ApplyInd
  BY DEF ManifestInd
<1>2. /\ Unique /\ WellFormed(manifest) /\ manifest \in Seq(Line) /\ Len(manifest) \in Nat
      /\ at \in 1..(Len(manifest) + 1) /\ LookedUp /\ NodesPut /\ EdgesPut
  BY <1>1 DEF BuildInd, ApplyInd, WellFormed
<1>3. \A record : \A i : i \in Done(record) <=> \E j : Applied(j, record) /\ i = manifest[j]
  BY DEF Done, Applied
<1>4. \A name : Known(name) => Id(name) = nodes_by_name[name]
  BY <1>2 DEF LookedUp, Unique
<1>5. \A i \in Done("node") : \E n \in NodeIds : nodes[n].name = i.name /\ nodes[n].command = i.command
  <2> SUFFICES ASSUME NEW j, Applied(j, "node")
               PROVE  \E n \in NodeIds : nodes[n].name = manifest[j].name /\ nodes[n].command = manifest[j].command
    BY <1>3
  <2>1. PICK n : n = nodes_by_name[manifest[j].name]
    OBVIOUS
  <2>2. Known(manifest[j].name)
    BY <1>2 DEF LookedUp
  <2>3. n \in NodeIds /\ nodes[n].name = manifest[j].name /\ nodes[n].command = manifest[j].command
    BY <2>1, <2>2, <1>2 DEF LookedUp, NodesPut
  <2> QED  BY <2>3
<1>6. \A n \in NodeIds : (\E i \in Done("node") : i.name = nodes[n].name) \/ nodes[n] = before.nodes[n]
  BY <1>2, <1>3 DEF NodesPut
<1>7. Len(before.nodes) <= Len(nodes)
  BY <1>2 DEF NodesPut
<1>8. Triples(Edges(edges), Same) = Triples(Edges(before.edges), Same) \cup Triples(Done("edge"), Id)
  <2>1. \A es : \A t : t \in Triples(Edges(es), Same)
                       <=> \E a, b, kind : t = <<a, b, kind>> /\ Joins(es, a, b, kind)
    BY DEF Triples, Joins
  <2>2. \A t : t \in Triples(Done("edge"), Id) <=> \E a, b, kind : t = <<a, b, kind>> /\ Asked(a, b, kind)
    <3>1. \A t : t \in Triples(Done("edge"), Id)
             <=> \E j : Applied(j, "edge") /\ t = <<Id(manifest[j].from), Id(manifest[j].to), manifest[j].kind>>
      BY <1>3 DEF Triples
    <3>2. \A j : Applied(j, "edge") => /\ Id(manifest[j].from) = nodes_by_name[manifest[j].from]
                                       /\ Id(manifest[j].to) = nodes_by_name[manifest[j].to]
      BY <1>2, <1>4 DEF LookedUp
    <3> HIDE DEF Id
    <3>3. \A j, t : Applied(j, "edge") =>
             (t = <<Id(manifest[j].from), Id(manifest[j].to), manifest[j].kind>> <=>
              t = <<nodes_by_name[manifest[j].from], nodes_by_name[manifest[j].to], manifest[j].kind>>)
      BY <3>2
    <3>4. \A t : t \in Triples(Done("edge"), Id)
             <=> \E j : /\ Applied(j, "edge")
                       /\ t = <<nodes_by_name[manifest[j].from], nodes_by_name[manifest[j].to], manifest[j].kind>>
      BY <3>1, <3>3, Zenon
    <3> QED  BY <3>4, Zenon DEF Asked
  <2>3. \A a, b, kind : Joins(edges, a, b, kind) <=> Joins(before.edges, a, b, kind) \/ Asked(a, b, kind)
    BY <1>2 DEF EdgesPut
  <2>4. PICK A : A = Triples(Edges(edges), Same)
    OBVIOUS
  <2>5. PICK B : B = Triples(Edges(before.edges), Same)
    OBVIOUS
  <2>6. PICK C : C = Triples(Done("edge"), Id)
    OBVIOUS
  <2>7. /\ \A t : t \in A <=> \E a, b, kind : t = <<a, b, kind>> /\ Joins(edges, a, b, kind)
        /\ \A t : t \in B <=> \E a, b, kind : t = <<a, b, kind>> /\ Joins(before.edges, a, b, kind)
    BY <2>1, <2>4, <2>5
  <2>8. \A t : t \in C <=> \E a, b, kind : t = <<a, b, kind>> /\ Asked(a, b, kind)
    BY <2>2, <2>6
  <2>9. \A t : t \in A <=> t \in B \/ t \in C
    <3> TAKE t
    <3>1. ASSUME t \in A
          PROVE  t \in B \/ t \in C
      <4>1. PICK a, b, kind : t = <<a, b, kind>> /\ Joins(edges, a, b, kind)
        BY <3>1, <2>7
      <4>2. Joins(before.edges, a, b, kind) \/ Asked(a, b, kind)
        BY <4>1, <2>3
      <4> QED  BY <4>1, <4>2, <2>7, <2>8
    <3>2. ASSUME t \in B
          PROVE  t \in A
      <4>1. PICK a, b, kind : t = <<a, b, kind>> /\ Joins(before.edges, a, b, kind)
        BY <3>2, <2>7
      <4>2. Joins(edges, a, b, kind)
        BY <4>1, <2>3
      <4> QED  BY <4>1, <4>2, <2>7
    <3>3. ASSUME t \in C
          PROVE  t \in A
      <4>1. PICK a, b, kind : t = <<a, b, kind>> /\ Asked(a, b, kind)
        BY <3>3, <2>8
      <4>2. Joins(edges, a, b, kind)
        BY <4>1, <2>3
      <4> QED  BY <4>1, <4>2, <2>7
    <3> QED  BY <3>1, <3>2, <3>3
  <2>10. A = B \cup C
    BY <2>9
  <2> QED  BY <2>4, <2>5, <2>6, <2>10
<1>9. TargetsDone \in Seq(Line)
  BY <1>1, TargetsDoneType
<1>10. TargetsFound => resolved = [i \in DOMAIN TargetsDone |-> Id(TargetsDone[i].name)]
  <2> SUFFICES ASSUME TargetsFound
               PROVE  resolved = [i \in DOMAIN TargetsDone |-> Id(TargetsDone[i].name)]
    OBVIOUS
  <2>1. PICK td : td = TargetsDone
    OBVIOUS
  <2>2. resolved \in Seq(NodeIds) /\ td \in Seq(Line)
    BY <2>1, <1>1, <1>9 DEF ApplyInd
  <2>3. DOMAIN td = 1..Len(td) /\ Len(resolved) = Len(td) /\ resolved = [i \in 1..Len(resolved) |-> resolved[i]]
    BY <2>1, <2>2 DEF TargetsFound
  <2>4. \A i \in 1..Len(td) : resolved[i] = Id(td[i].name)
    BY <2>1, <1>4 DEF TargetsFound
  <2> HIDE DEF Id
  <2>5. resolved = [i \in DOMAIN td |-> Id(td[i].name)]
    BY <2>3, <2>4
  <2> QED  BY <2>1, <2>5
<1>11. ASSUME applying = "applied"
       PROVE  /\ at > Len(manifest)
              /\ resolved = IF TargetsDone = <<>> THEN <<Id(manifest[LastNode].name)>>
                            ELSE [i \in DOMAIN TargetsDone |-> Id(TargetsDone[i].name)]
  <2>1. at > Len(manifest)
    BY <1>1, <1>11 DEF ApplyInd
  <2>2. LastNode \in 1..Len(manifest) /\ manifest[LastNode].record = "node"
    BY <1>2, LastNodeIsNode
  <2>3. Applied(LastNode, "node")
    BY <2>1, <2>2, <1>2 DEF Applied
  <2>4. Id(manifest[LastNode].name) = nodes_by_name[manifest[LastNode].name]
    <3>1. Known(manifest[LastNode].name)
      BY <2>3, <1>2 DEF LookedUp
    <3> QED  BY <3>1, <1>4
  <2> HIDE DEF Id
  <2> QED  BY <2>1, <2>4, <1>1, <1>10, <1>11 DEF ApplyInd
<1>12. ASSUME applying = "failed"
       PROVE  \/ Item.record = "edge" /\ ~({Item.from, Item.to} \subseteq names)
              \/ Item.record = "target" /\ Item.name \notin names
  <2>1. at \in 1..Len(manifest)
    BY <1>1, <1>2, <1>12 DEF ApplyInd
  <2>2. Item.record # "node"
    BY <1>1, <1>12 DEF ApplyInd
  <2>3. \A i \in DOMAIN manifest : manifest[i].record = "node" => Applied(i, "node")
    <3>1. \A i \in 1..Len(manifest) : manifest[i].record = "node" => i < at
      BY <2>1, <2>2, <1>2 DEF WellFormed, Item
    <3>2. DOMAIN manifest = 1..Len(manifest)
      BY <1>2
    <3> QED  BY <2>1, <3>1, <3>2, <1>2 DEF Applied
  <2>4. \A name \in names : Known(name)
    BY <2>3, <1>2 DEF LookedUp
  <2> HIDE DEF names
  <2> QED  BY <2>4, <1>1, <1>12 DEF ApplyInd
<1> QED  BY <1>2, <1>5, <1>6, <1>7, <1>8, <1>11, <1>12 DEF ManifestApplied, TargetsDone

-----------------------------------------------------------------------------
(***************************************************************************)
(* What is built: the plan holds what the targets need, and a command is   *)
(* run once.                                                               *)
(***************************************************************************)

\* Every set that holds the targets a and what its members depend on holds S.
Led(a, S) ==
    \A C \in SUBSET NodeIds :
        a \subseteq C /\ (\A m \in C : Dependencies(m) \subseteq C) => S \subseteq C
NodesOf(ord) == {ord[i] : i \in 1..Len(ord)}

\* The targets are those that are left and some of the nodes seen, and all that
\* was seen is needed for them.
TargetsSeen(a, ts, sn) ==
    /\ \A i \in 1..Len(ts) : ts[i] \in a
    /\ \A n \in a : n \in sn \/ \E i \in 1..Len(ts) : ts[i] = n
    /\ Led(a, sn)

\* The commands that have a job are those of the events that are not of an
\* attached node; such an event is the first of its command, and one of an
\* attached node comes after a success.
KeyAt(evs, i) == Key(evs[i].node)
Jobs(evs, act) ==
    /\ \A c : c \in DOMAIN act <=>
                 \E i \in 1..Len(evs) : evs[i].kind # "queued" /\ KeyAt(evs, i) = c
    /\ \A i \in 1..Len(evs) : evs[i].kind = "queued" =>
          \E j \in 1..(i - 1) : evs[j].kind = "succeeded" /\ KeyAt(evs, j) = KeyAt(evs, i)
    /\ \A i \in 1..Len(evs) : evs[i].kind # "queued" =>
          \A j \in 1..(i - 1) : KeyAt(evs, j) # KeyAt(evs, i)

NeededInd ==
    /\ asked \subseteq 1..Cardinality(Names)
    /\ phase = "cycle" => TargetsSeen(asked, targets, {})
    /\ phase = "plan" => TargetsSeen(asked, targets, seen)
    /\ phase \in {"run", "outcome"} =>
          /\ asked \subseteq NodesOf(order) /\ Led(asked, NodesOf(order))
          /\ Jobs(events, active)
    /\ phase = "outcome" /\ Len(events) < Len(order) => events[Len(events)].kind = "failed"

\* While the graph stays these mean the same after a step.
LEMMA NeededStays ==
    ASSUME UNCHANGED graph
    PROVE  /\ \A a, S : Led(a, S)' <=> Led(a, S)
           /\ TargetsSeen(asked', targets', seen') => TargetsSeen(asked, targets, seen)'
           /\ TargetsSeen(asked', targets', {}) => TargetsSeen(asked, targets, {})'
           /\ Jobs(events', active') => Jobs(events, active)'
           /\ NodesOf(order)' = NodesOf(order')
<1>1. NodeIds' = NodeIds /\ nodes' = nodes /\ \A n : Dependencies(n)' = Dependencies(n)
  BY GraphStays DEF graph
<1>2. \A a, S : Led(a, S)' <=> Led(a, S)
  BY <1>1 DEF Led
<1>3. Led(asked', seen') => Led(asked, seen)'
  BY <1>1 DEF Led
<1>4. Led(asked', {}) => Led(asked, {})'
  BY <1>1 DEF Led
<1>5. Jobs(events', active') => Jobs(events, active)'
  BY <1>1 DEF Jobs, KeyAt, Key
<1> QED  BY <1>2, <1>3, <1>4, <1>5 DEF TargetsSeen, NodesOf

\* One more event.
LEMMA OneMoreJob ==
    ASSUME NEW evs, Len(evs) \in Nat, NEW act, Jobs(evs, act),
           NEW evs2, NEW act2, Len(evs2) = Len(evs) + 1,
           \A i \in 1..Len(evs) : evs2[i] = evs[i],
           NEW k, k = KeyAt(evs2, Len(evs2)), NEW kind, kind = evs2[Len(evs2)].kind,
           \/ /\ kind = "queued" /\ k \in DOMAIN act /\ act2 = act
              /\ \A i \in 1..Len(evs) : evs[i].kind \in {"queued", "succeeded"}
           \/ kind # "queued" /\ k \notin DOMAIN act /\ DOMAIN act2 = DOMAIN act \cup {k}
    PROVE  Jobs(evs2, act2)
<1>1. k = KeyAt(evs2, Len(evs2))
  OBVIOUS
<1>2. kind = evs2[Len(evs2)].kind
  OBVIOUS
<1>3. \/ /\ kind = "queued" /\ k \in DOMAIN act /\ act2 = act
         /\ \A i \in 1..Len(evs) : evs[i].kind \in {"queued", "succeeded"}
      \/ kind # "queued" /\ k \notin DOMAIN act /\ DOMAIN act2 = DOMAIN act \cup {k}
  BY <1>1, <1>2
<1>4. /\ \A i \in 1..Len(evs2) : i \in 1..Len(evs) \/ i = Len(evs2)
      /\ \A i \in 1..Len(evs) : i \in 1..Len(evs2) /\ Len(evs2) \in 1..Len(evs2)
      /\ \A i \in 1..Len(evs2) : \A j \in 1..(i - 1) : j \in 1..Len(evs)
      /\ \A i \in 1..Len(evs) : i \in 1..(Len(evs2) - 1)
      /\ Len(evs2) \in 1..Len(evs2)
  OBVIOUS
<1>5. \A i \in 1..Len(evs) : evs2[i].kind = evs[i].kind /\ KeyAt(evs2, i) = KeyAt(evs, i)
  BY DEF KeyAt
<1>6. ASSUME NEW c
      PROVE  c \in DOMAIN act2 <=>
                \E i \in 1..Len(evs2) : evs2[i].kind # "queued" /\ KeyAt(evs2, i) = c
  <2>1. c \in DOMAIN act <=> \E i \in 1..Len(evs) : evs2[i].kind # "queued" /\ KeyAt(evs2, i) = c
    BY <1>5 DEF Jobs
  <2> QED  BY <2>1, <1>1, <1>2, <1>3, <1>4
<1>7. ASSUME NEW i \in 1..Len(evs2), evs2[i].kind = "queued"
      PROVE  \E j \in 1..(i - 1) : evs2[j].kind = "succeeded" /\ KeyAt(evs2, j) = KeyAt(evs2, i)
  <2>1. CASE i \in 1..Len(evs)
    <3>1. PICK j \in 1..(i - 1) : evs[j].kind = "succeeded" /\ KeyAt(evs, j) = KeyAt(evs, i)
      BY <2>1, <1>5, <1>7 DEF Jobs
    <3> QED  BY <2>1, <3>1, <1>4, <1>5
  <2>2. CASE i = Len(evs2)
    <3>1. k \in DOMAIN act /\ \A j \in 1..Len(evs) : evs[j].kind \in {"queued", "succeeded"}
      BY <2>2, <1>2, <1>3, <1>7
    <3>2. PICK j \in 1..Len(evs) : evs[j].kind # "queued" /\ KeyAt(evs, j) = k
      BY <3>1 DEF Jobs
    <3> QED  BY <2>2, <3>1, <3>2, <1>1, <1>4, <1>5
  <2> QED  BY <2>1, <2>2, <1>4
<1>8. ASSUME NEW i \in 1..Len(evs2), evs2[i].kind # "queued", NEW j \in 1..(i - 1)
      PROVE  KeyAt(evs2, j) # KeyAt(evs2, i)
  <2>1. j \in 1..Len(evs)
    BY <1>4
  <2>2. CASE i \in 1..Len(evs)
    BY <2>1, <2>2, <1>5, <1>8 DEF Jobs
  <2>3. CASE i = Len(evs2)
    <3>1. k \notin DOMAIN act
      BY <2>3, <1>2, <1>3, <1>8
    <3>2. CASE evs[j].kind # "queued"
      BY <2>1, <2>3, <3>1, <3>2, <1>1, <1>5 DEF Jobs
    <3>3. CASE evs[j].kind = "queued"
      <4>1. PICK h \in 1..(j - 1) : evs[h].kind = "succeeded" /\ KeyAt(evs, h) = KeyAt(evs, j)
        BY <2>1, <3>3 DEF Jobs
      <4>2. h \in 1..Len(evs) /\ evs[h].kind # "queued"
        BY <2>1, <4>1
      <4>3. KeyAt(evs, j) \in DOMAIN act
        BY <4>1, <4>2 DEF Jobs
      <4> QED  BY <2>1, <2>3, <3>1, <4>3, <1>1, <1>5
    <3> QED  BY <3>2, <3>3
  <2> QED  BY <2>2, <2>3, <1>4
<1> QED  BY <1>6, <1>7, <1>8 DEF Jobs

\* build() is called.
LEMMA BeginNeeded ==
    ASSUME NEW ts \in Seq(1..Cardinality(Names)), Begin(ts)
    PROVE  NeededInd'
<1>1. /\ phase' = "cycle" /\ UNCHANGED graph /\ targets' = ts
      /\ asked' = {ts[i] : i \in 1..Len(ts)}
  BY DEF Begin
<1>2. asked' \subseteq 1..Cardinality(Names)
  <2>1. \A i \in 1..Len(ts) : ts[i] \in 1..Cardinality(Names)
    BY ElementOfSeq
  <2> QED  BY <2>1, <1>1
<1>3. TargetsSeen(asked', targets', {})
  BY <1>1 DEF TargetsSeen, Led
<1>4. TargetsSeen(asked, targets, {})'
  BY <1>1, <1>3, NeededStays
<1> QED  BY <1>1, <1>2, <1>4 DEF NeededInd

\* The cycle search leaves the targets alone, and nothing is seen yet.
LEMMA CycleSearchNeeded ==
    ASSUME BuildInd, NeededInd, CycleSearch
    PROVE  NeededInd'
<1>1. /\ phase = "cycle" /\ phase' \in {"cycle", "plan", "cyclic"}
      /\ UNCHANGED <<graph, targets, seen, asked>>
  BY DEF CycleSearch, VisitRoot, EdgeToWhite, EdgeToBlack, EdgeToGray, VisitReturns, NoCycle,
         LookAtEdge, locals
<1>2. seen' = {}
  BY <1>1 DEF BuildInd, NotPlanned
<1>3. TargetsSeen(asked', targets', {}) /\ TargetsSeen(asked', targets', seen')
  BY <1>1, <1>2 DEF NeededInd
<1>4. TargetsSeen(asked, targets, {})' /\ TargetsSeen(asked, targets, seen)'
  BY <1>1, <1>3, NeededStays
<1> QED  BY <1>1, <1>4 DEF NeededInd

\* The plan: a target is asked for, and a dependency is one of a node seen.
LEMMA PlanOrderNeeded ==
    ASSUME BuildInd, NeededInd, PlanOrder
    PROVE  NeededInd'
<1>1. /\ phase = "plan" /\ UNCHANGED <<graph, asked, active, events>>
      /\ targets \in Seq(1..Cardinality(Names)) /\ Planning(stack, order, seen)
      /\ TargetsSeen(asked, targets, seen) /\ asked \subseteq 1..Cardinality(Names)
      /\ GraphTypeOK /\ active = <<>> /\ events = <<>>
  <2>1. phase = "plan" /\ UNCHANGED <<graph, asked, active, events>>
    BY DEF PlanOrder, UnknownTarget, VisitTarget, VisitDependency, PlanNode, Planned, PlanUnchanged, locals
  <2> QED  BY <2>1 DEF BuildInd, NeededInd, NotRunning
<1>2. ASSUME phase' = "plan", TargetsSeen(asked', targets', seen')
      PROVE  NeededInd'
  <2>1. TargetsSeen(asked, targets, seen)'
    BY <1>1, <1>2, NeededStays
  <2> QED  BY <2>1, <1>1, <1>2 DEF NeededInd
<1>3. CASE UnknownTarget
  BY <1>1, <1>3 DEF UnknownTarget, NeededInd
<1>4. CASE VisitTarget
  <2>1. /\ targets # <<>> /\ targets' = Tail(targets) /\ phase' = "plan"
        /\ seen' = seen \cup {targets[1]}
    BY <1>1, <1>4 DEF VisitTarget, PlanVisit
  <2>2. /\ Len(targets) \in Nat \ {0} /\ Len(targets') = Len(targets) - 1
        /\ \A i \in 1..Len(targets') : targets'[i] = targets[i + 1]
    BY <2>1, <1>1
  <2>3. /\ \A i \in 1..Len(targets') : i + 1 \in 1..Len(targets)
        /\ \A i \in 1..Len(targets) : i = 1 \/ (i - 1 \in 1..Len(targets') /\ (i - 1) + 1 = i)
        /\ 1 \in 1..Len(targets)
    BY <2>2
  <2>4. targets[1] \in asked
    BY <2>3, <1>1 DEF TargetsSeen
  <2>5. Led(asked, seen')
    BY <2>1, <2>4, <1>1 DEF TargetsSeen, Led
  <2>6. ASSUME NEW n \in asked
        PROVE  n \in seen' \/ \E i \in 1..Len(targets') : targets'[i] = n
    <3>1. CASE n \in seen
      BY <3>1, <2>1
    <3>2. ASSUME NEW i \in 1..Len(targets), targets[i] = n
          PROVE  n \in seen' \/ \E j \in 1..Len(targets') : targets'[j] = n
      <4>1. CASE i = 1
        BY <3>2, <4>1, <2>1
      <4>2. CASE i # 1
        <5>1. i - 1 \in 1..Len(targets') /\ targets'[i - 1] = n
          BY <3>2, <4>2, <2>2, <2>3
        <5> QED  BY <5>1
      <4> QED  BY <4>1, <4>2
    <3> QED  BY <3>1, <3>2, <1>1 DEF TargetsSeen
  <2>7. \A i \in 1..Len(targets') : targets'[i] \in asked
    BY <2>2, <2>3, <1>1 DEF TargetsSeen
  <2> QED  BY <2>1, <2>5, <2>6, <2>7, <1>1, <1>2 DEF TargetsSeen
<1>5. CASE VisitDependency
  <2>1. PICK n : n = Least(DependenciesLeft)
    OBVIOUS
  <2>2. /\ stack # <<>> /\ DependenciesLeft # {} /\ targets' = targets /\ phase' = "plan"
        /\ seen' = seen \cup {n}
    BY <2>1, <1>1, <1>5 DEF VisitDependency, PlanVisit
  <2>3. DependenciesLeft \subseteq Nat
    BY <1>1, Ids DEF DependenciesLeft
  <2>4. n \in DependenciesLeft
    BY <2>1, <2>2, <2>3, LeastIsLeast
  <2>5. PICK m : m = stack[Len(stack)].node
    OBVIOUS
  <2>6. n \in Dependencies(m)
    BY <2>4, <2>5 DEF DependenciesLeft, Top
  <2>7. m \in seen
    <3>1. stack \in Seq(Frame)
      BY <1>1 DEF Planning
    <3>2. Len(stack) \in 1..Len(stack)
      BY <2>2, <3>1
    <3>3. OnStack(m, stack)
      BY <2>5, <3>2 DEF OnStack
    <3> QED  BY <3>3, <1>1 DEF Planning, SeenOnce
  <2>8. Led(asked, seen')
    BY <2>2, <2>6, <2>7, <1>1 DEF TargetsSeen, Led
  <2> QED  BY <2>2, <2>8, <1>1, <1>2 DEF TargetsSeen
<1>6. CASE PlanNode
  <2>1. phase' = "plan" /\ UNCHANGED <<targets, seen>>
    BY <1>1, <1>6 DEF PlanNode
  <2> QED  BY <2>1, <1>1, <1>2
<1>7. CASE Planned
  <2>1. phase' = "run" /\ targets = <<>> /\ stack = <<>> /\ UNCHANGED <<order, seen>>
    BY <1>7 DEF Planned, locals
  <2>2. seen = NodesOf(order)
    <3>1. \A n : ~OnStack(n, stack)
      BY <2>1 DEF OnStack
    <3>2. \A n : n \in seen <=> In(n, order)
      BY <3>1, <1>1 DEF Planning, SeenOnce
    <3> QED  BY <3>2 DEF NodesOf, In
  <2>3. asked \subseteq NodesOf(order) /\ Led(asked, NodesOf(order))
    BY <2>1, <2>2, <1>1 DEF TargetsSeen
  <2>4. Jobs(events', active')
    <3>1. Len(events') = 0 /\ DOMAIN active' = {}
      BY <1>1
    <3> QED  BY <3>1 DEF Jobs
  <2>5. Jobs(events, active)' /\ NodesOf(order)' = NodesOf(order) /\ Led(asked, NodesOf(order))'
    BY <2>1, <2>3, <2>4, <1>1, NeededStays
  <2> QED  BY <2>1, <2>3, <2>5, <1>1 DEF NeededInd
<1> QED  BY <1>3, <1>4, <1>5, <1>6, <1>7 DEF PlanOrder

\* The loop: the plan stays, and a node is attached or is the first of its
\* command.
LEMMA RunOrderNeeded ==
    ASSUME BuildInd, NeededInd, RunOrder
    PROVE  NeededInd'
<1>1. /\ phase = "run" /\ phase' \in {"run", "outcome"} /\ UNCHANGED <<graph, order, asked>>
      /\ Running /\ order \in Seq(NodeIds) /\ Jobs(events, active)
      /\ asked \subseteq 1..Cardinality(Names)
      /\ asked \subseteq NodesOf(order) /\ Led(asked, NodesOf(order))
  <2>1. phase = "run" /\ phase' \in {"run", "outcome"} /\ UNCHANGED <<graph, order, asked>>
    BY DEF RunOrder, Attach, NewJob, RunNode, RunFails, AllRun, RunUnchanged, locals
  <2> QED  BY <2>1 DEF BuildInd, Ordered, NeededInd
<1>2. asked' \subseteq NodesOf(order)' /\ Led(asked, NodesOf(order))' /\ NodesOf(order)' = NodesOf(order)
  BY <1>1, NeededStays
<1>3. /\ events \in Seq([kind : EventKind, node : NodeIds]) /\ Len(events) \in Nat
      /\ \A i \in 1..Len(events) : events[i].kind \in {"queued", "succeeded"}
  <2>1. events \in Seq([kind : EventKind, node : NodeIds]) /\ Len(events) \in Nat
    BY <1>1 DEF Running
  <2>2. \A i \in 1..Len(events) : events[i] \in [kind : EventKind, node : NodeIds]
    BY <2>1, ElementOfSeq
  <2>3. \A i \in 1..Len(events) : events[i].kind \in EventKind
    BY <2>2
  <2> QED  BY <2>1, <2>3, <1>1 DEF Running, EventKind
<1>4. CASE AllRun
  <2>1. phase' = "outcome" /\ Len(events) = Len(order) /\ UNCHANGED <<events, active>>
    BY <1>4 DEF AllRun, locals
  <2>2. Jobs(events, active)'
    BY <2>1, <1>1, NeededStays
  <2> QED  BY <2>1, <2>2, <1>1, <1>2, <1>3 DEF NeededInd
<1>5. ASSUME NEW kind \in EventKind, events' = Append(events, Event(kind, Current)),
             kind = "failed" <=> phase' = "outcome",
             \/ kind = "queued" /\ Key(Current) \in DOMAIN active /\ active' = active
             \/ /\ kind # "queued" /\ Key(Current) \notin DOMAIN active
                /\ DOMAIN active' = DOMAIN active \cup {Key(Current)},
             Len(events) < Len(order)
      PROVE  NeededInd'
  <2>1. PICK n : n = Current
    OBVIOUS
  <2>2. n \in NodeIds
    BY <2>1, <1>1, <1>3, <1>5 DEF Current
  <2>3. PICK ev : ev = Event(kind, n)
    OBVIOUS
  <2>4. ev.kind = kind /\ ev.node = n /\ ev \in [kind : EventKind, node : NodeIds]
    BY <2>2, <2>3 DEF Event
  <2>5. /\ Len(events') = Len(events) + 1 /\ events'[Len(events')] = ev
        /\ \A i \in 1..Len(events) : events'[i] = events[i]
    <3>1. events' = Append(events, ev)
      BY <2>1, <2>3, <1>5
    <3> QED  BY <3>1, <2>4, <1>3, AppendProperties
  <2>6. KeyAt(events', Len(events')) = Key(Current) /\ events'[Len(events')].kind = kind
    BY <2>1, <2>4, <2>5 DEF KeyAt
  <2>7. Jobs(events', active')
    <3>1. PICK k : k = Key(Current)
      OBVIOUS
    <3>2. PICK evs2, act2 : evs2 = events' /\ act2 = active'
      OBVIOUS
    <3>3. /\ Len(evs2) = Len(events) + 1 /\ \A i \in 1..Len(events) : evs2[i] = events[i]
          /\ k = KeyAt(evs2, Len(evs2)) /\ kind = evs2[Len(evs2)].kind
      BY <3>1, <3>2, <2>5, <2>6
    <3>4. \/ /\ kind = "queued" /\ k \in DOMAIN active /\ act2 = active
             /\ \A i \in 1..Len(events) : events[i].kind \in {"queued", "succeeded"}
          \/ kind # "queued" /\ k \notin DOMAIN active /\ DOMAIN act2 = DOMAIN active \cup {k}
      BY <3>1, <3>2, <1>3, <1>5
    <3>5. Len(events) \in Nat /\ Jobs(events, active)
      BY <1>1, <1>3
    <3>6. Jobs(evs2, act2)
      BY <3>3, <3>4, <3>5, OneMoreJob
    <3> QED  BY <3>2, <3>6
  <2>8. Jobs(events, active)'
    BY <2>7, <1>1, NeededStays
  <2>9. phase' = "outcome" => events'[Len(events')].kind = "failed"
    BY <2>6, <1>5
  <2> QED  BY <2>8, <2>9, <1>1, <1>2 DEF NeededInd
<1>6. CASE Attach
  BY <1>1, <1>5, <1>6 DEF Attach, EventKind
<1>7. ASSUME NEW success \in BOOLEAN, RunNode(success)
      PROVE  NeededInd'
  BY <1>1, <1>5, <1>7 DEF RunNode, NewJob, EventKind
<1>8. CASE RunFails
  BY <1>1, <1>5, <1>8 DEF RunFails, NewJob, EventKind
<1> QED  BY <1>4, <1>6, <1>7, <1>8 DEF RunOrder

\* Nothing is said of the graph while no build runs.
LEMMA IdleNeeded ==
    ASSUME NeededInd, phase' = "idle", asked' \subseteq asked
    PROVE  NeededInd'
BY DEF NeededInd

LEMMA NextNeeded ==
    ASSUME BuildInd, NeededInd, [Next]_vars
    PROVE  NeededInd'
<1>1. CASE phase = "idle" /\ Mutate /\ UNCHANGED <<phase, locals>>
  BY <1>1, IdleNeeded DEF locals
<1>2. ASSUME NEW k \in 0..MaxTargets, NEW ts \in [1..k -> 1..Cardinality(Names)], Begin(ts)
      PROVE  NeededInd'
  <2>1. k \in Nat
    BY BuildAssumption
  <2>2. ts \in Seq(1..Cardinality(Names))
    BY <2>1, <1>2, ListOfLength
  <2> QED  BY <2>2, <1>2, BeginNeeded
<1>3. CASE Leave
  BY <1>3, IdleNeeded DEF Leave
<1>4. CASE UNCHANGED vars
  <2>1. UNCHANGED <<graph, phase, targets, seen, order, active, events, asked>>
    BY <1>4 DEF vars, locals
  <2>2. /\ TargetsSeen(asked, targets, seen) => TargetsSeen(asked, targets, seen)'
        /\ TargetsSeen(asked, targets, {}) => TargetsSeen(asked, targets, {})'
        /\ Jobs(events, active) => Jobs(events, active)'
        /\ NodesOf(order)' = NodesOf(order)
        /\ Led(asked, NodesOf(order)) => Led(asked, NodesOf(order))'
    BY <2>1, NeededStays
  <2> QED  BY <2>1, <2>2 DEF NeededInd
<1> QED  BY <1>1, <1>2, <1>3, <1>4, CycleSearchNeeded, PlanOrderNeeded, RunOrderNeeded DEF Next

\* The manifest calls build() with nodes of the graph, and is applied while no
\* build runs.
LEMMA ManifestNeeded ==
    ASSUME ManifestInd, NeededInd, [ManifestNext]_manifestVars
    PROVE  NeededInd'
<1>1. BuildInd
  BY DEF ManifestInd, ApplyInd
<1>2. CASE (applying = "no" /\ Next) \/ UNCHANGED vars
  BY <1>1, <1>2, NextNeeded
<1>3. CASE ApplyNode \/ ApplyEdge \/ ApplyTarget
  <2>1. applying = "items" /\ UNCHANGED <<phase, locals>>
    BY <1>3 DEF ApplyNode, ApplyEdge, ApplyTarget, Turn
  <2>2. phase = "idle"
    BY <2>1 DEF ManifestInd, ApplyInd
  <2> QED  BY <2>1, <2>2, IdleNeeded DEF locals
<1>4. CASE BuildManifest
  <2>1. applying = "applied"
    BY <1>4 DEF BuildManifest
  <2>2. ApplyInd
    BY <2>1 DEF ManifestInd
  <2>3. NodeIds \subseteq 1..Cardinality(Names)
    BY <1>1, FewNodes DEF BuildInd
  <2>4. CASE Begin(resolved)
    <3>1. resolved \in Seq(1..Cardinality(Names))
      BY <2>2, <2>3, ListOfMore DEF ApplyInd
    <3> QED  BY <3>1, <2>4, BeginNeeded
  <2>5. ASSUME NEW k \in 1..MaxTargets, NEW names \in [1..k -> DOMAIN nodes_by_name],
               Begin([i \in 1..k |-> nodes_by_name[names[i]]])
        PROVE  NeededInd'
    <3>1. PICK ts : ts = [i \in 1..k |-> nodes_by_name[names[i]]]
      OBVIOUS
    <3>2. k \in Nat
      BY BuildAssumption
    <3>3. \A i \in 1..k : nodes_by_name[names[i]] \in NodeIds
      BY <2>2 DEF ApplyInd, LookedUp, Known
    <3>4. ts \in [1..k -> 1..Cardinality(Names)]
      BY <3>1, <3>3, <2>3
    <3>5. ts \in Seq(1..Cardinality(Names))
      BY <3>2, <3>4, ListOfLength
    <3>6. Begin(ts)
      BY <3>1, <2>5
    <3> QED  BY <3>5, <3>6, BeginNeeded
  <2> QED  BY <2>4, <2>5, <1>4 DEF BuildManifest
<1>5. CASE UNCHANGED manifestVars
  BY <1>2, <1>5 DEF manifestVars
<1>6. CASE \/ \E lines \in Files : Apply(lines)
           \/ ApplyFails \/ ApplyEnds \/ Return
  BY <1>2, <1>6 DEF Apply, ApplyFails, ApplyEnds, Return
<1> QED  BY <1>2, <1>3, <1>4, <1>5, <1>6 DEF ManifestNext

\* It implies what the run checks.
LEMMA NeededIndImplies ==
    ASSUME BuildInd, NeededInd
    PROVE  SearchInvariant /\ NeededBuiltInOrder
<1>1. SearchInvariant /\ PlanSorted
  BY BuildIndImplies DEF NeededInd
<1>2. CASE phase \notin {"run", "outcome"}
  <2>1. events = <<>> /\ Len(events) = 0
    BY <1>2 DEF BuildInd, NotRunning
  <2> QED  BY <2>1, <1>1, <1>2 DEF NeededBuiltInOrder
<1>3. CASE phase \in {"run", "outcome"}
  <2>1. /\ Running /\ order \in Seq(NodeIds) /\ asked \subseteq NodesOf(order)
        /\ Led(asked, NodesOf(order)) /\ Jobs(events, active)
        /\ phase = "outcome" /\ Len(events) < Len(order) => events[Len(events)].kind = "failed"
    BY <1>3 DEF BuildInd, Ordered, NeededInd
  <2>2. NodesOf(order) \subseteq NodeIds
    BY <2>1 DEF NodesOf
  <2>3. \A m \in NodesOf(order) : Dependencies(m) \subseteq NodesOf(order)
    <3> SUFFICES ASSUME NEW i \in 1..Len(order), NEW d \in Dependencies(order[i])
                 PROVE  d \in NodesOf(order)
      BY DEF NodesOf
    <3>1. PICK j \in 1..(i - 1) : order[j] = d
      BY <1>1 DEF PlanSorted
    <3>2. j \in 1..Len(order)
      BY <2>1, <3>1
    <3> QED  BY <3>1, <3>2 DEF NodesOf
  <2>4. NodesOf(order) = Needed
    BY <2>1, <2>2, <2>3 DEF Needed, Led
  <2>5. ASSUME NEW i \in 1..Len(events)
        PROVE  /\ events[i].node = order[i]
               /\ events[i].kind = "queued" =>
                     \E j \in {h \in 1..(i - 1) : Key(events[h].node) = Key(events[i].node)} :
                         events[j].kind = "succeeded"
               /\ events[i].kind # "queued" =>
                     {h \in 1..(i - 1) : Key(events[h].node) = Key(events[i].node)} = {}
               /\ events[i].kind = "failed" => i = Len(events) /\ phase = "outcome"
    <3>1. events[i].node = order[i] /\ (events[i].kind = "failed" => i = Len(events) /\ phase = "outcome")
      BY <2>1 DEF Running
    <3>2. events[i].kind = "queued" =>
             \E j \in 1..(i - 1) : events[j].kind = "succeeded" /\ Key(events[j].node) = Key(events[i].node)
      BY <2>1 DEF Jobs, KeyAt
    <3>3. events[i].kind # "queued" =>
             \A j \in 1..(i - 1) : Key(events[j].node) # Key(events[i].node)
      BY <2>1 DEF Jobs, KeyAt
    <3> QED  BY <3>1, <3>2, <3>3
  <2>6. {order[i] : i \in 1..Len(order)} = Needed
    BY <2>4 DEF NodesOf
  <2> QED  BY <2>1, <2>5, <2>6, <1>1 DEF NeededBuiltInOrder
<1> QED  BY <1>1, <1>2, <1>3

-----------------------------------------------------------------------------
(***************************************************************************)
(* The theorems about the states.                                          *)
(***************************************************************************)

LEMMA ManifestIndHolds == ManifestSpec => []ManifestInd
<1>1. ManifestInit => ManifestInd
  BY ManifestStarts
<1>2. ManifestInd /\ [ManifestNext]_manifestVars => ManifestInd'
  BY ManifestStep
<1> QED  BY <1>1, <1>2, PTL DEF ManifestSpec

LEMMA NeededIndHolds == ManifestSpec => []NeededInd
<1>1. ManifestInit => NeededInd
  BY DEF ManifestInit, Init, NeededInd
<1>2. ManifestInd /\ NeededInd /\ [ManifestNext]_manifestVars => NeededInd'
  BY ManifestNeeded
<1> QED  BY <1>1, <1>2, ManifestIndHolds, PTL DEF ManifestSpec

\* The locals of build() have their types, and the gray nodes of cycle_witness
\* are those of its calls, a walk along edges, in every graph and at every step.
THEOREM SearchConsistent == ManifestSpec => []SearchInvariant
<1>1. ManifestInd /\ NeededInd => SearchInvariant
  BY NeededIndImplies DEF ManifestInd
<1> QED  BY <1>1, ManifestIndHolds, NeededIndHolds, PTL

\* cycle_witness finds a cycle if and only if the graph has one, and the
\* witness is one, for graphs of any size, with self-edges and parallel edges.
THEOREM CyclesFoundExactly == ManifestSpec => []CyclesExact
<1>1. ManifestInd => CyclesExact
  BY BuildIndImplies DEF ManifestInd
<1> QED  BY <1>1, ManifestIndHolds, PTL

\* plan_order returns the targets and what they depend on, no more and no less,
\* each node behind its dependencies; build() comes to the nodes in this order,
\* runs a command once, attaches a node only to a job that came back before, and
\* stops early only at a failure.
THEOREM NeededAreBuiltInOrder == ManifestSpec => []NeededBuiltInOrder
<1>1. ManifestInd /\ NeededInd => NeededBuiltInOrder
  BY NeededIndImplies DEF ManifestInd
<1> QED  BY <1>1, ManifestIndHolds, NeededIndHolds, PTL

\* apply_manifest makes of the graph what the manifest says, and nothing else,
\* whatever the workspace held before; it fails only at a name without a node.
THEOREM ManifestsAppliedExactly == ManifestSpec => []ManifestApplied
<1>1. ManifestInd => ManifestApplied
  BY ApplyIndImplies
<1> QED  BY <1>1, ManifestIndHolds, PTL

-----------------------------------------------------------------------------
(***************************************************************************)
(* The searches end.                                                       *)
(***************************************************************************)

\* A call that was made and an edge or dependency that was looked at stay so.
Further(stk, stk2) ==
    /\ Len(stk) <= Len(stk2)
    /\ \A i \in 1..Len(stk) : stk2[i].node = stk[i].node /\ stk2[i].at >= stk[i].at

LEMMA FurtherLooked ==
    ASSUME stack \in Seq(Frame), Further(stack, stack'), stack' \in Seq(Frame)
    PROVE  \A n, x : x \in Nat /\ LookedAt(n, x) => LookedAt(n, x)'
<1> TAKE n, x
<1> SUFFICES ASSUME x \in Nat, LookedAt(n, x)
             PROVE  LookedAt(n, x)'
  OBVIOUS
<1>1. PICK i \in 1..Len(stack) : stack[i].node = n /\ stack[i].at >= x
  BY DEF LookedAt
<1>2. i \in 1..Len(stack') /\ stack'[i].node = n /\ stack'[i].at >= stack[i].at
  BY <1>1 DEF Further
<1>3. stack[i] \in Frame /\ stack'[i] \in Frame
  BY <1>1, <1>2
<1>4. stack[i].at \in Nat /\ stack'[i].at \in Nat
  BY <1>3 DEF Frame
<1>5. stack'[i].at >= x
  BY <1>1, <1>2, <1>4
<1> QED  BY <1>2, <1>5 DEF LookedAt

LEMMA PushGoesFurther ==
    ASSUME NEW stk \in Seq(Frame), NEW stk2, NEW x, NEW n, Pushes(stk, stk2, x, n),
           stk # <<>> => x >= stk[Len(stk)].at
    PROVE  Further(stk, stk2)
<1>1. Len(stk) \in Nat /\ Len(stk2) = Len(stk) + 1
  BY DEF Pushes
<1>2. ASSUME NEW i \in 1..Len(stk)
      PROVE  stk2[i].node = stk[i].node /\ stk2[i].at >= stk[i].at
  <2>1. stk[i] \in Frame
    OBVIOUS
  <2>2. stk[i].at \in Nat
    BY <2>1 DEF Frame
  <2>3. CASE i \in 1..(Len(stk) - 1)
    <3>1. stk2[i] = stk[i]
      BY <2>3 DEF Pushes
    <3> QED  BY <3>1, <2>2
  <2>4. CASE i = Len(stk)
    <3>1. stk # <<>>
      BY <1>1
    <3> QED  BY <2>4, <3>1, <1>1 DEF Pushes
  <2> QED  BY <2>3, <2>4, <1>1
<1> QED  BY <1>1, <1>2 DEF Further

LEMMA LookGoesFurther ==
    ASSUME NEW stk \in Seq(Frame), stk # <<>>, NEW x \in Nat, x >= stk[Len(stk)].at
    PROVE  Further(stk, At(stk, x))
<1>1. PICK stk2 : stk2 = At(stk, x)
  OBVIOUS
<1>2. /\ stk2 \in Seq(Frame) /\ Len(stk2) = Len(stk) /\ Len(stk) \in Nat \ {0}
      /\ \A i \in 1..(Len(stk) - 1) : stk2[i] = stk[i]
      /\ \A i \in 1..Len(stk) : stk2[i].node = stk[i].node
      /\ stk2[Len(stk)].at = x
  BY <1>1, AtProperties
<1>3. ASSUME NEW i \in 1..Len(stk)
      PROVE  stk2[i].node = stk[i].node /\ stk2[i].at >= stk[i].at
  <2>1. stk[i] \in Frame
    OBVIOUS
  <2>2. stk[i].at \in Nat
    BY <2>1 DEF Frame
  <2>3. CASE i \in 1..(Len(stk) - 1)
    BY <2>2, <2>3, <1>2
  <2>4. CASE i = Len(stk)
    BY <2>4, <1>2
  <2> QED  BY <2>3, <2>4, <1>2
<1> QED  BY <1>1, <1>2, <1>3 DEF Further

\* The last call's node has no other call.
LEMMA NotLookedYet ==
    ASSUME stack \in Seq(Frame), stack # <<>>, NEW x \in Nat, x > stack[Len(stack)].at,
           \A i, j \in 1..Len(stack) : stack[i].node = stack[j].node => i = j
    PROVE  ~LookedAt(stack[Len(stack)].node, x)
<1>1. Len(stack) \in 1..Len(stack)
  BY EmptySeq
<1>2. stack[Len(stack)] \in Frame
  BY <1>1
<1>3. stack[Len(stack)].at \in Nat
  BY <1>2 DEF Frame
<1>4. ASSUME NEW i \in 1..Len(stack), stack[i].node = stack[Len(stack)].node, stack[i].at >= x
      PROVE  FALSE
  <2>1. i = Len(stack)
    BY <1>1, <1>4
  <2> QED  BY <2>1, <1>3, <1>4
<1> QED  BY <1>4 DEF LookedAt

\* Less is left of the cycle search, when something was taken of it and nothing
\* came to it.
LEMMA CycleWorkLess ==
    ASSUME UNCHANGED graph,
           \A n \in NodeIds : color'[n] = "white" => color[n] = "white",
           \A n \in NodeIds : color[n] = "black" => color'[n] = "black",
           \A e \in EdgeIds : edges[e].from \in NodeIds,
           \A e \in EdgeIds : color'[edges[e].from] # "black" =>
              (LookedAt(edges[e].from, e) => LookedAt(edges[e].from, e)'),
           \/ \E n \in NodeIds : color[n] = "white" /\ color'[n] # "white"
           \/ \E n \in NodeIds : color[n] # "black" /\ color'[n] = "black"
           \/ \E e \in EdgeIds : /\ color[edges[e].from] # "black"
                                 /\ ~LookedAt(edges[e].from, e) /\ LookedAt(edges[e].from, e)'
    PROVE  Below(CycleWork', CycleWork)
<1>1. NodeIds' = NodeIds /\ EdgeIds' = EdgeIds /\ edges' = edges
  BY GraphStays
<1>2. PICK S, T : S = CycleWork' /\ T = CycleWork
  OBVIOUS
<1>3. \A x : x \in T <=>
         \/ \E n \in NodeIds : x = <<"call", n>> /\ color[n] = "white"
         \/ \E n \in NodeIds : x = <<"return", n>> /\ color[n] # "black"
         \/ \E e \in EdgeIds : /\ x = <<"edge", e>> /\ color[edges[e].from] # "black"
                               /\ ~LookedAt(edges[e].from, e)
  BY <1>2, Zenon DEF CycleWork, White
<1>4. \A x : x \in S <=>
         \/ \E n \in NodeIds : x = <<"call", n>> /\ color'[n] = "white"
         \/ \E n \in NodeIds : x = <<"return", n>> /\ color'[n] # "black"
         \/ \E e \in EdgeIds : /\ x = <<"edge", e>> /\ color'[edges[e].from] # "black"
                               /\ ~LookedAt(edges[e].from, e)'
  BY <1>1, <1>2 DEF CycleWork, White
<1>5. S \subseteq T
  <2>1. ASSUME NEW e \in EdgeIds, color'[edges[e].from] # "black", ~LookedAt(edges[e].from, e)'
        PROVE  color[edges[e].from] # "black" /\ ~LookedAt(edges[e].from, e)
    BY <2>1
  <2> QED  BY <2>1, <1>3, <1>4
<1>6. S # T
  <2>1. ASSUME NEW n \in NodeIds, color[n] = "white", color'[n] # "white"
        PROVE  <<"call", n>> \in T /\ <<"call", n>> \notin S
    BY <2>1, <1>3, <1>4
  <2>2. ASSUME NEW n \in NodeIds, color[n] # "black", color'[n] = "black"
        PROVE  <<"return", n>> \in T /\ <<"return", n>> \notin S
    BY <2>2, <1>3, <1>4
  <2>3. ASSUME NEW e \in EdgeIds, color[edges[e].from] # "black",
               ~LookedAt(edges[e].from, e), LookedAt(edges[e].from, e)'
        PROVE  <<"edge", e>> \in T /\ <<"edge", e>> \notin S
    BY <2>3, <1>3, <1>4
  <2> QED  BY <2>1, <2>2, <2>3
<1> QED  BY <1>2, <1>5, <1>6 DEF Below

LEMMA CycleSearchShrinks ==
    ASSUME BuildInd, CycleSearch
    PROVE  phase' \in {"plan", "cyclic"} \/ Below(CycleWork', CycleWork)
<1>1. /\ phase = "cycle" /\ UNCHANGED graph
      /\ GraphTypeOK /\ Searching(stack, color)
  <2>1. phase = "cycle" /\ UNCHANGED graph
    BY DEF CycleSearch, VisitRoot, EdgeToWhite, EdgeToBlack, EdgeToGray, LookAtEdge, VisitReturns, NoCycle
  <2> QED  BY <2>1 DEF BuildInd
<1>2. /\ stack \in Seq(Frame) /\ color \in [NodeIds -> Colors] /\ Calls(stack, color)
      /\ EdgeIds \subseteq Nat \ {0}
      /\ \A e \in EdgeIds : edges[e].from \in NodeIds /\ edges[e].to \in NodeIds
  BY <1>1, Ids DEF Searching
<1>3. edges' = edges
  BY <1>1, GraphStays
<1>4. CASE VisitRoot
  <2>1. /\ stack = <<>> /\ White # {} /\ color' = [color EXCEPT ![Least(White)] = "gray"]
    BY <1>4 DEF VisitRoot, Visit
  <2>2. White \subseteq Nat
    BY <1>1, Ids DEF White
  <2>3. PICK n : n = Least(White)
    OBVIOUS
  <2>4. n \in White
    BY <2>1, <2>2, <2>3, LeastIsLeast
  <2>5. n \in NodeIds /\ color[n] = "white"
    BY <2>4 DEF White
  <2>6. color'[n] = "gray" /\ \A m \in NodeIds : m # n => color'[m] = color[m]
    BY <2>1, <2>3, <2>5, <1>2
  <2>7. \A e \in EdgeIds : ~LookedAt(edges[e].from, e)
    BY <2>1 DEF LookedAt
  <2> QED  BY <2>5, <2>6, <2>7, <1>1, <1>2, CycleWorkLess
<1>5. CASE EdgeToWhite \/ EdgeToBlack
  <2>1. stack # <<>> /\ EdgesLeft # {}
    BY <1>5 DEF EdgeToWhite, EdgeToBlack, LookAtEdge
  <2>2. PICK e : e = Least(EdgesLeft)
    OBVIOUS
  <2>3. IsNext(stack, e)
    BY <2>1, <2>2, <1>1, FirstEdgeLeft
  <2>4. /\ e \in EdgeIds /\ e \in Nat /\ edges[e].to \in NodeIds /\ edges[e].to \in Nat
        /\ edges[e].from = stack[Len(stack)].node /\ e > stack[Len(stack)].at
    BY <2>3, <1>1, Ids DEF IsNext
  <2>5. Len(stack) \in 1..Len(stack) /\ stack[Len(stack)].at \in Nat
    <3>1. Len(stack) \in 1..Len(stack)
      BY <2>1, <1>2, EmptySeq
    <3>2. stack[Len(stack)] \in Frame
      BY <3>1, <1>2
    <3> QED  BY <3>1, <3>2 DEF Frame
  <2>6. e >= stack[Len(stack)].at
    BY <2>4, <2>5
  <2>7. CASE EdgeToWhite
    <3>1. /\ color[edges[e].to] = "white"
          /\ color' = [color EXCEPT ![edges[e].to] = "gray"]
          /\ stack' = Append(At(stack, e), Call(edges[e].to))
      BY <2>2, <2>7 DEF EdgeToWhite, LookAtEdge, Visit, Looked, At
    <3>2. PICK n : n = edges[e].to
      OBVIOUS
    <3>3. n \in NodeIds /\ color[n] = "white" /\ color'[n] = "gray" /\ \A m \in NodeIds : m # n => color'[m] = color[m]
      BY <3>1, <3>2, <2>4, <1>2
    <3>4. Pushes(stack, stack', e, n)
      BY <2>1, <2>4, <3>1, <3>2, <1>2, CallPushed
    <3>5. Further(stack, stack') /\ stack' \in Seq(Frame)
      BY <2>6, <3>4, <1>2, PushGoesFurther DEF Pushes
    <3>6. \A d \in EdgeIds : LookedAt(edges[d].from, d) => LookedAt(edges[d].from, d)'
      <4>1. \A m, x : x \in Nat /\ LookedAt(m, x) => LookedAt(m, x)'
        BY <3>5, <1>2, FurtherLooked
      <4> QED  BY <4>1, <1>2, <1>3
    <3> QED  BY <3>3, <3>6, <1>1, <1>2, CycleWorkLess
  <2>8. CASE EdgeToBlack
    <3>1. color' = color /\ stack' = At(stack, e)
      BY <2>2, <2>8 DEF EdgeToBlack, LookAtEdge, Looked, At
    <3>2. /\ stack' \in Seq(Frame) /\ Len(stack') = Len(stack)
          /\ stack'[Len(stack)].node = stack[Len(stack)].node /\ stack'[Len(stack)].at = e
      BY <2>1, <2>4, <2>5, <3>1, <1>2, AtProperties
    <3>3. Further(stack, stack')
      BY <2>1, <2>4, <2>6, <3>1, <1>2, LookGoesFurther
    <3>4. \A d \in EdgeIds : LookedAt(edges[d].from, d) => LookedAt(edges[d].from, d)'
      <4>1. \A m, x : x \in Nat /\ LookedAt(m, x) => LookedAt(m, x)'
        BY <3>2, <3>3, <1>2, FurtherLooked
      <4> QED  BY <4>1, <1>2, <1>3
    <3>5. ~LookedAt(edges[e].from, e)
      BY <2>1, <2>4, <1>2, NotLookedYet DEF Calls
    <3>6. LookedAt(edges[e].from, e)'
      BY <2>4, <2>5, <3>2, <1>3 DEF LookedAt
    <3>7. color[edges[e].from] # "black"
      BY <2>4, <2>5, <1>2 DEF Calls
    <3> QED  BY <2>4, <3>1, <3>4, <3>5, <3>6, <3>7, <1>1, <1>2, CycleWorkLess
  <2> QED  BY <2>7, <2>8, <1>5
<1>6. CASE VisitReturns
  <2>1. /\ stack # <<>>
        /\ color' = [color EXCEPT ![stack[Len(stack)].node] = "black"]
        /\ stack' = SubSeq(stack, 1, Len(stack) - 1)
    BY <1>6 DEF VisitReturns, Blackened, Pop, Top
  <2>2. PICK n : n = stack[Len(stack)].node
    OBVIOUS
  <2>3. /\ stack' \in Seq(Frame) /\ Len(stack') = Len(stack) - 1 /\ Len(stack) \in Nat \ {0}
        /\ \A i \in 1..(Len(stack) - 1) : stack'[i] = stack[i]
    BY <2>1, <1>2, Popped
  <2>4. n \in NodeIds /\ color[n] = "gray"
    BY <2>2, <2>3, <1>2 DEF Calls
  <2>5. color'[n] = "black" /\ \A m \in NodeIds : m # n => color'[m] = color[m]
    BY <2>1, <2>2, <2>4, <1>2
  <2>6. ASSUME NEW d \in EdgeIds, color'[edges[d].from] # "black", LookedAt(edges[d].from, d)
        PROVE  LookedAt(edges[d].from, d)'
    <3>1. PICK i \in 1..Len(stack) : stack[i].node = edges[d].from /\ stack[i].at >= d
      BY <2>6 DEF LookedAt
    <3>2. i # Len(stack)
      BY <2>2, <2>5, <2>6, <3>1
    <3>3. i \in 1..Len(stack') /\ stack'[i] = stack[i]
      BY <2>3, <3>1, <3>2
    <3> QED  BY <3>1, <3>3, <1>3 DEF LookedAt
  <2> QED  BY <2>4, <2>5, <2>6, <1>1, <1>2, CycleWorkLess
<1> QED  BY <1>4, <1>5, <1>6 DEF CycleSearch, EdgeToGray, NoCycle

\* Less is left of the plan.
Unplaced(n) == n \in NodeIds /\ ~In(n, order)
LEMMA PlanWorkLess ==
    ASSUME UNCHANGED graph, Len(targets) \in Nat, Len(targets') \in Nat,
           Len(targets') <= Len(targets), seen \subseteq seen',
           \A n : In(n, order) => In(n, order'),
           \A n, d : Unplaced(n) /\ ~In(n, order') /\ d \in Dependencies(n) =>
              (LookedAt(n, d) => LookedAt(n, d)'),
           \/ Len(targets') < Len(targets)
           \/ \E n : Unplaced(n) /\ In(n, order')
           \/ \E n, d : /\ Unplaced(n) /\ d \in Dependencies(n) /\ ~LookedAt(n, d) /\ LookedAt(n, d)'
    PROVE  Below(PlanWork', PlanWork)
<1>1. NodeIds' = NodeIds /\ \A n : Dependencies(n)' = Dependencies(n)
  BY GraphStays
<1>2. PICK S, T : S = PlanWork' /\ T = PlanWork
  OBVIOUS
<1>3. \A n : n \in {m \in NodeIds : \A i \in 1..Len(order) : order[i] # m} <=> Unplaced(n)
  BY DEF Unplaced, In
<1>4. \A x : x \in T <=>
         \/ \E i \in 1..Len(targets) : x = <<"target", i>>
         \/ \E n \in NodeIds : x = <<"call", n>> /\ n \notin seen
         \/ \E n : x = <<"return", n>> /\ Unplaced(n)
         \/ \E n, d : x = <<"dependency", n, d>> /\ Unplaced(n) /\ d \in Dependencies(n) /\ ~LookedAt(n, d)
  BY <1>2 DEF PlanWork, Unplaced, In
<1>5. \A x : x \in S <=>
         \/ \E i \in 1..Len(targets') : x = <<"target", i>>
         \/ \E n \in NodeIds : x = <<"call", n>> /\ n \notin seen'
         \/ \E n : x = <<"return", n>> /\ n \in NodeIds /\ ~In(n, order')
         \/ \E n, d : /\ x = <<"dependency", n, d>> /\ n \in NodeIds /\ ~In(n, order')
                      /\ d \in Dependencies(n) /\ ~LookedAt(n, d)'
  BY <1>1, <1>2 DEF PlanWork, In
<1>6. S \subseteq T
  <2>1. \A i \in 1..Len(targets') : i \in 1..Len(targets)
    OBVIOUS
  <2>2. \A n : n \in NodeIds /\ ~In(n, order') => Unplaced(n)
    BY DEF Unplaced
  <2>3. \A n, d : n \in NodeIds /\ ~In(n, order') /\ d \in Dependencies(n) /\ ~LookedAt(n, d)' => ~LookedAt(n, d)
    BY <2>2
  <2> QED  BY <2>1, <2>2, <2>3, <1>4, <1>5
<1>7. S # T
  <2>1. ASSUME Len(targets') < Len(targets)
        PROVE  <<"target", Len(targets)>> \in T /\ <<"target", Len(targets)>> \notin S
    BY <2>1, <1>4, <1>5
  <2>2. ASSUME NEW n, Unplaced(n), In(n, order')
        PROVE  <<"return", n>> \in T /\ <<"return", n>> \notin S
    BY <2>2, <1>4, <1>5
  <2>3. ASSUME NEW n, NEW d, Unplaced(n), d \in Dependencies(n), ~LookedAt(n, d), LookedAt(n, d)'
        PROVE  <<"dependency", n, d>> \in T /\ <<"dependency", n, d>> \notin S
    BY <2>3, <1>4, <1>5
  <2> QED  BY <2>1, <2>2, <2>3
<1> QED  BY <1>2, <1>6, <1>7 DEF Below

LEMMA PlanOrderShrinks ==
    ASSUME BuildInd, PlanOrder
    PROVE  phase' \in {"run", "unknown"} \/ Below(PlanWork', PlanWork)
<1>1. /\ phase = "plan" /\ UNCHANGED graph
      /\ GraphTypeOK /\ Planning(stack, order, seen) /\ targets \in Seq(1..Cardinality(Names))
  <2>1. phase = "plan" /\ UNCHANGED graph
    BY DEF PlanOrder, UnknownTarget, VisitTarget, VisitDependency, PlanNode, Planned, PlanUnchanged
  <2> QED  BY <2>1 DEF BuildInd
<1>2. /\ stack \in Seq(Frame) /\ order \in Seq(NodeIds) /\ SeenOnce(stack, order, seen)
      /\ Len(targets) \in Nat
      /\ \A n : \A d \in Dependencies(n) : d \in Nat /\ d \in NodeIds
  BY <1>1, Ids DEF Planning
<1>3. \A i, j \in 1..Len(stack) : stack[i].node = stack[j].node => i = j
  BY <1>2 DEF SeenOnce
<1>4. CASE VisitTarget
  <2>1. stack = <<>> /\ targets # <<>> /\ targets' = Tail(targets) /\ order' = order /\ seen \subseteq seen'
    BY <1>4 DEF VisitTarget, PlanVisit
  <2>2. Len(targets') \in Nat /\ Len(targets') < Len(targets)
    BY <2>1, <1>1
  <2>3. \A n, d : ~LookedAt(n, d)
    BY <2>1 DEF LookedAt
  <2> QED  BY <2>1, <2>2, <2>3, <1>1, <1>2, PlanWorkLess
<1>5. CASE VisitDependency
  <2>1. PICK x : x = Least(DependenciesLeft)
    OBVIOUS
  <2>2. PICK n : n = stack[Len(stack)].node
    OBVIOUS
  <2>3. /\ stack # <<>> /\ DependenciesLeft # {} /\ targets' = targets /\ order' = order
        /\ stack' = IF x \in seen THEN At(stack, x) ELSE Append(At(stack, x), Call(x))
        /\ seen \subseteq seen'
    BY <2>1, <1>5 DEF VisitDependency, PlanVisit, Looked, At
  <2>4. DependenciesLeft \subseteq Nat
    BY <1>2 DEF DependenciesLeft
  <2>5. x \in DependenciesLeft
    BY <2>1, <2>3, <2>4, LeastIsLeast
  <2>6. x \in Dependencies(n) /\ x \in Nat /\ x \in NodeIds /\ x > stack[Len(stack)].at
    BY <2>2, <2>5, <1>2 DEF DependenciesLeft, Top
  <2>7. Len(stack) \in 1..Len(stack) /\ stack[Len(stack)].at \in Nat
    <3>1. Len(stack) \in 1..Len(stack)
      BY <2>3, <1>2, EmptySeq
    <3>2. stack[Len(stack)] \in Frame
      BY <3>1, <1>2
    <3> QED  BY <3>1, <3>2 DEF Frame
  <2>8. x >= stack[Len(stack)].at
    BY <2>6, <2>7
  <2>9. /\ stack' \in Seq(Frame) /\ Further(stack, stack')
        /\ Len(stack) \in 1..Len(stack') /\ stack'[Len(stack)].node = n /\ stack'[Len(stack)].at = x
    <3>1. CASE x \in seen
      <4>1. stack' = At(stack, x)
        BY <2>3, <3>1
      <4> QED  BY <2>2, <2>3, <2>6, <2>7, <2>8, <4>1, <1>2, AtProperties, LookGoesFurther
    <3>2. CASE x \notin seen
      <4>1. stack' = Append(At(stack, x), Call(x))
        BY <2>3, <3>2
      <4>2. Pushes(stack, stack', x, x)
        BY <2>3, <2>6, <4>1, <1>2, CallPushed
      <4>3. Further(stack, stack')
        BY <2>8, <4>2, <1>2, PushGoesFurther
      <4> QED  BY <2>2, <2>7, <4>2, <4>3, <1>2 DEF Pushes
    <3> QED  BY <3>1, <3>2
  <2>10. \A m, d : d \in Dependencies(m) /\ LookedAt(m, d) => LookedAt(m, d)'
    <3>1. \A m, d : d \in Nat /\ LookedAt(m, d) => LookedAt(m, d)'
      BY <2>9, <1>2, FurtherLooked
    <3> QED  BY <3>1, <1>2
  <2>11. ~LookedAt(n, x)
    BY <2>2, <2>3, <2>6, <1>2, <1>3, NotLookedYet
  <2>12. LookedAt(n, x)'
    <3>1. x >= x
      BY <2>6
    <3> QED  BY <2>9, <3>1 DEF LookedAt
  <2>13. Unplaced(n)
    <3>1. ~In(n, order)
      BY <2>2, <2>7, <1>2 DEF SeenOnce, In
    <3>2. OnStack(n, stack)
      BY <2>2, <2>7 DEF OnStack
    <3>3. n \in seen /\ seen \subseteq NodeIds
      BY <3>2, <1>1, <1>2 DEF SeenOnce, Planning
    <3> QED  BY <3>1, <3>3 DEF Unplaced
  <2> QED  BY <2>3, <2>6, <2>10, <2>11, <2>12, <2>13, <1>1, <1>2, PlanWorkLess
<1>6. CASE PlanNode
  <2>1. /\ stack # <<>> /\ targets' = targets /\ seen' = seen
        /\ order' = Append(order, stack[Len(stack)].node)
        /\ stack' = SubSeq(stack, 1, Len(stack) - 1)
    BY <1>6 DEF PlanNode, Placed, Pop, Top
  <2>2. PICK n : n = stack[Len(stack)].node
    OBVIOUS
  <2>3. /\ stack' \in Seq(Frame) /\ Len(stack') = Len(stack) - 1 /\ Len(stack) \in Nat \ {0}
        /\ \A i \in 1..(Len(stack) - 1) : stack'[i] = stack[i]
    BY <2>1, <1>2, Popped
  <2>4. Unplaced(n)
    <3>1. ~In(n, order)
      BY <2>2, <2>3, <1>2 DEF SeenOnce, In
    <3>2. OnStack(n, stack)
      BY <2>2, <2>3 DEF OnStack
    <3>3. n \in seen /\ seen \subseteq NodeIds
      BY <3>2, <1>1, <1>2 DEF SeenOnce, Planning
    <3> QED  BY <3>1, <3>3 DEF Unplaced
  <2>5. /\ Len(order) \in Nat /\ Len(order') = Len(order) + 1
        /\ \A j \in 1..Len(order) : order'[j] = order[j]
        /\ order'[Len(order) + 1] = n
    <3>1. n \in NodeIds
      BY <2>4 DEF Unplaced
    <3> QED  BY <2>1, <2>2, <3>1, <1>2
  <2>6. In(n, order') /\ \A m : In(m, order) => In(m, order')
    BY <2>5 DEF In
  <2>7. ASSUME NEW m, NEW d, ~In(m, order'), LookedAt(m, d)
        PROVE  LookedAt(m, d)'
    <3>1. PICK i \in 1..Len(stack) : stack[i].node = m /\ stack[i].at >= d
      BY <2>7 DEF LookedAt
    <3>2. i # Len(stack)
      BY <2>2, <2>6, <2>7, <3>1
    <3>3. i \in 1..Len(stack') /\ stack'[i] = stack[i]
      BY <2>3, <3>1, <3>2
    <3> QED  BY <3>1, <3>3 DEF LookedAt
  <2> QED  BY <2>1, <2>4, <2>6, <2>7, <1>1, <1>2, PlanWorkLess
<1> QED  BY <1>4, <1>5, <1>6 DEF PlanOrder, UnknownTarget, Planned

LEMMA RunOrderMovesOn ==
    ASSUME BuildInd, RunOrder
    PROVE  phase' = "outcome" \/ Len(events') > Len(events)
<1>1. Running
  BY DEF RunOrder, Attach, RunNode, RunFails, NewJob, AllRun, BuildInd
<1>2. Len(events) \in Nat /\ events \in Seq([kind : EventKind, node : NodeIds])
  BY <1>1 DEF Running
<1>3. ASSUME NEW e, events' = Append(events, e)
      PROVE  Len(events') > Len(events)
  <2>1. Len(events') = Len(events) + 1
    BY <1>2, <1>3
  <2> QED  BY <2>1, <1>2
<1>4. phase' = "outcome" \/ \E e : events' = Append(events, e)
  BY DEF RunOrder, Attach, RunNode, RunFails, AllRun
<1> QED  BY <1>3, <1>4

\* The step that WorkShrinks asks for.
Shrinks ==
    /\ phase = "cycle" => phase' \in {"plan", "cyclic"} \/ Below(CycleWork', CycleWork)
    /\ phase = "plan" => phase' \in {"run", "unknown"} \/ Below(PlanWork', PlanWork)
    /\ phase = "run" => phase' = "outcome" \/ Len(events') > Len(events)

LEMMA BuildShrinks ==
    ASSUME ManifestInd, [ManifestNext]_manifestVars
    PROVE  [Shrinks]_vars
<1>1. CASE UNCHANGED vars
  BY <1>1
<1>2. CASE phase \notin {"cycle", "plan", "run"}
  BY <1>2 DEF Shrinks
<1>3. CASE phase \in {"cycle", "plan", "run"} /\ ~UNCHANGED vars
  <2>1. BuildInd /\ applying = "no"
    BY <1>3 DEF ManifestInd, ApplyInd
  <2>2. Next
    BY <2>1, <1>3 DEF ManifestNext, manifestVars, Apply, ApplyNode, ApplyEdge, ApplyTarget, ApplyFails,
       ApplyEnds, BuildManifest, Return, Turn
  <2>3. CycleSearch \/ PlanOrder \/ RunOrder
    BY <2>2, <1>3 DEF Next, Begin, Leave, Returned
  <2>4. /\ CycleSearch => phase = "cycle"
        /\ PlanOrder => phase = "plan"
        /\ RunOrder => phase = "run"
    BY DEF CycleSearch, VisitRoot, EdgeToWhite, EdgeToBlack, EdgeToGray, LookAtEdge, VisitReturns, NoCycle,
       PlanOrder, UnknownTarget, VisitTarget, VisitDependency, PlanNode, Planned,
       RunOrder, Attach, RunNode, RunFails, NewJob, AllRun
  <2> QED  BY <2>1, <2>3, <2>4, CycleSearchShrinks, PlanOrderShrinks, RunOrderMovesOn DEF Shrinks
<1> QED  BY <1>1, <1>2, <1>3

\* Every build ends, in every graph: each step of cycle_witness and of
\* plan_order leaves less to do of a finite set, and the loop of build() moves on.
THEOREM SearchesEnd == ManifestSpec => WorkShrinks
<1>1. ManifestInd /\ [ManifestNext]_manifestVars => [Shrinks]_vars
  BY BuildShrinks
<1>2. WorkShrinks <=> [][Shrinks]_vars
  BY DEF WorkShrinks, Shrinks
<1> QED  BY <1>1, <1>2, ManifestIndHolds, PTL DEF ManifestSpec

\* The work is a finite set, so that it cannot shrink for ever.
LEMMA TriplesFinite ==
    ASSUME NEW A, NEW B, NEW D, IsFiniteSet(A), IsFiniteSet(B), IsFiniteSet(D)
    PROVE  IsFiniteSet(A \X B \X D)
<1>1. IsFiniteSet((A \X B) \X D)
  BY FS_Product
<1>2. PICK f : f = [p \in (A \X B) \X D |-> <<p[1][1], p[1][2], p[2]>>]
  OBVIOUS
<1>3. f \in Surjection((A \X B) \X D, A \X B \X D)
  <2>1. \A p \in (A \X B) \X D : f[p] = <<p[1][1], p[1][2], p[2]>>
    BY <1>2
  <2>2. \A p \in (A \X B) \X D : p[1][1] \in A /\ p[1][2] \in B /\ p[2] \in D
    OBVIOUS
  <2>3. f \in [(A \X B) \X D -> A \X B \X D]
    BY <1>2, <2>2
  <2>4. ASSUME NEW t \in A \X B \X D
        PROVE  \E p \in (A \X B) \X D : f[p] = t
    <3>1. PICK a \in A, b \in B, d \in D : t = <<a, b, d>>
      OBVIOUS
    <3>2. PICK p : p = <<<<a, b>>, d>>
      OBVIOUS
    <3>3. p \in (A \X B) \X D /\ p[1][1] = a /\ p[1][2] = b /\ p[2] = d
      BY <3>2
    <3> QED  BY <2>1, <3>1, <3>3
  <2> QED  BY <2>3, <2>4 DEF Surjection
<1> QED  BY <1>1, <1>3, FS_Surjection

LEMMA WorkIsFinite ==
    ASSUME GraphTypeOK, targets \in Seq(1..Cardinality(Names))
    PROVE  IsFiniteSet(CycleWork) /\ IsFiniteSet(PlanWork)
<1>1. next_edge \in Nat /\ EdgeIds \subseteq 1..(next_edge - 1) /\ Len(nodes) \in Nat /\ Len(targets) \in Nat
  BY DEF GraphTypeOK
<1>2. IsFiniteSet(1..(next_edge - 1)) /\ IsFiniteSet(1..Len(nodes)) /\ IsFiniteSet(1..Len(targets))
  BY <1>1, FS_Interval
<1>3. IsFiniteSet(EdgeIds) /\ IsFiniteSet(NodeIds)
  BY <1>1, <1>2, FS_Subset DEF NodeIds
<1>4. PICK U : U = NodeIds \cup EdgeIds \cup 1..Len(targets)
  OBVIOUS
<1>5. IsFiniteSet(U)
  BY <1>2, <1>3, <1>4, FS_Union
<1>6. PICK K : K = {"call", "return", "edge", "target"}
  OBVIOUS
<1>7. IsFiniteSet(K)
  <2>1. IsFiniteSet({"call"})
    BY FS_Singleton
  <2>2. IsFiniteSet({"call"} \cup {"return"})
    BY <2>1, FS_AddElement
  <2>3. IsFiniteSet(({"call"} \cup {"return"}) \cup {"edge"})
    BY <2>2, FS_AddElement
  <2>4. IsFiniteSet((({"call"} \cup {"return"}) \cup {"edge"}) \cup {"target"})
    BY <2>3, FS_AddElement
  <2>5. K = (({"call"} \cup {"return"}) \cup {"edge"}) \cup {"target"}
    BY <1>6
  <2> QED  BY <2>4, <2>5
<1>8. IsFiniteSet(K \X U)
  BY <1>5, <1>7, FS_Product
<1>9. IsFiniteSet({"dependency"} \X NodeIds \X NodeIds)
  BY <1>3, FS_Singleton, TriplesFinite
<1>10. \A k \in K, u \in U : <<k, u>> \in K \X U
  OBVIOUS
<1>11. CycleWork \subseteq K \X U
  BY <1>4, <1>6, <1>10 DEF CycleWork, White
<1>12. PlanWork \subseteq (K \X U) \cup ({"dependency"} \X NodeIds \X NodeIds)
  <2>1. \A n \in NodeIds, d \in NodeIds : <<"dependency", n, d>> \in {"dependency"} \X NodeIds \X NodeIds
    OBVIOUS
  <2>2. \A n : Dependencies(n) \subseteq NodeIds
    BY Ids
  <2>3. ASSUME NEW x \in PlanWork
        PROVE  \/ \E i \in 1..Len(targets) : x = <<"target", i>>
               \/ \E n \in NodeIds : x = <<"call", n>> \/ x = <<"return", n>>
               \/ \E n \in NodeIds : \E d \in Dependencies(n) : x = <<"dependency", n, d>>
    BY <2>3 DEF PlanWork
  <2>4. ASSUME NEW x \in PlanWork
        PROVE  x \in K \X U \/ x \in {"dependency"} \X NodeIds \X NodeIds
    <3>1. CASE \E i \in 1..Len(targets) : x = <<"target", i>>
      BY <3>1, <1>4, <1>6, <1>10
    <3>2. CASE \E n \in NodeIds : x = <<"call", n>> \/ x = <<"return", n>>
      BY <3>2, <1>4, <1>6, <1>10
    <3>3. CASE \E n \in NodeIds : \E d \in Dependencies(n) : x = <<"dependency", n, d>>
      BY <3>3, <2>1, <2>2
    <3> QED  BY <2>3, <2>4, <3>1, <3>2, <3>3
  <2> QED  BY <2>4
<1>13. IsFiniteSet((K \X U) \cup ({"dependency"} \X NodeIds \X NodeIds))
  BY <1>8, <1>9, FS_Union
<1> QED  BY <1>8, <1>11, <1>12, <1>13, FS_Subset

\* What WorkShrinks takes from is finite: cycle_witness and plan_order have at
\* every moment only so many steps left.
THEOREM WorkStaysFinite == ManifestSpec => [](IsFiniteSet(CycleWork) /\ IsFiniteSet(PlanWork))
<1>1. ManifestInd => IsFiniteSet(CycleWork) /\ IsFiniteSet(PlanWork)
  BY WorkIsFinite DEF ManifestInd, BuildInd
<1> QED  BY <1>1, ManifestIndHolds, PTL

=============================================================================
