----------------------------- MODULE BuildGraph -----------------------------
(***************************************************************************)
(* BuildGraph: named nodes, dependency edges between them, and the         *)
(* generation that every change of the graph publishes.  This module is    *)
(* the graph and its mutations; ReverseClosure and WorkspaceBuild extend   *)
(* it with the searches that read it.                                      *)
(*                                                                         *)
(* The command of a node stands for its ActionSpec, options included.  The *)
(* state of a node, which every mutation sets to dirty and nothing reads,  *)
(* and its last_action_key, which nothing sets, are left out.              *)
(***************************************************************************)
EXTENDS Naturals, Sequences, FiniteSets

CONSTANTS
    Names,          \* node names that are not empty
    Commands,       \* what a node's action can be
    Kinds,          \* kinds of edge: some of "declared" and "discovered"
    MaxGeneration   \* bound: the last generation that is published

ASSUME GraphAssumption ==
    /\ IsFiniteSet(Names)
    /\ Kinds \subseteq {"declared", "discovered"}
    /\ MaxGeneration \in Nat

VARIABLES
    nodes,          \* by NodeId: ids are given from 1 on and never taken back
    edges,          \* by EdgeId
    next_edge,
    generation

graph == <<nodes, edges, next_edge, generation>>

NodeIds == 1..Len(nodes)
EdgeIds == DOMAIN edges

BuildNode == [name : Names, command : Commands, generation : Nat]
DependencyEdge == [from : NodeIds, to : NodeIds, kind : Kinds, generation : Nat]

\* GraphSnapshot::dependencies and reverse_dependencies.
Dependencies(n) == {edges[e].to : e \in {d \in EdgeIds : edges[d].from = n}}
ReverseDependencies(n) == {edges[e].from : e \in {d \in EdgeIds : edges[d].to = n}}

GraphInit ==
    /\ nodes = <<>>
    /\ edges = <<>>
    /\ next_edge = 1
    /\ generation = 1

\* publish_generation; what is written with it carries the same generation.
Publish ==
    /\ generation < MaxGeneration
    /\ generation' = generation + 1

Named(name) == {n \in NodeIds : nodes[n].name = name}

\* put_node: the node of that name is given the action, or a new one is made.
PutNode(name, command) ==
    /\ Publish
    /\ LET node == [name |-> name, command |-> command, generation |-> generation + 1]
       IN  nodes' = IF Named(name) = {}
                    THEN Append(nodes, node)
                    ELSE [n \in NodeIds |-> IF n \in Named(name) THEN node ELSE nodes[n]]
    /\ UNCHANGED <<edges, next_edge>>

\* The edge is there: put_edge returns its id and publishes nothing.
Present(from, to, kind) ==
    \E e \in EdgeIds : edges[e].from = from /\ edges[e].to = to /\ edges[e].kind = kind

\* put_edge, when it changes the graph: both nodes exist and the edge is new.
PutEdge(from, to, kind) ==
    /\ ~Present(from, to, kind)
    /\ Publish
    /\ edges' = [e \in EdgeIds \cup {next_edge} |->
                    IF e = next_edge
                    THEN [from |-> from, to |-> to, kind |-> kind, generation |-> generation + 1]
                    ELSE edges[e]]
    /\ next_edge' = next_edge + 1
    /\ UNCHANGED nodes

\* remove_discovered_from: also of a node that does not exist, and also when
\* there is nothing to remove a generation is published.
RemoveDiscoveredFrom(from) ==
    /\ Publish
    /\ edges' = [e \in {d \in EdgeIds : ~(edges[d].from = from /\ edges[d].kind = "discovered")}
                    |-> edges[e]]
    /\ UNCHANGED <<nodes, next_edge>>

Mutate ==
    \/ \E name \in Names, command \in Commands : PutNode(name, command)
    \/ \E from, to \in NodeIds, kind \in Kinds : PutEdge(from, to, kind)
    \/ \E from \in 1..Cardinality(Names) : RemoveDiscoveredFrom(from)

-----------------------------------------------------------------------------
(***************************************************************************)
(* Properties.                                                             *)
(***************************************************************************)

\* The types of the graph's fields: an edge joins nodes that exist, and its
\* id was given before.
GraphTypeOK ==
    /\ nodes \in Seq(BuildNode)
    /\ generation \in Nat /\ next_edge \in Nat \ {0}
    /\ EdgeIds \subseteq 1..(next_edge - 1)
    /\ edges \in [EdgeIds -> DependencyEdge]

\* A name is the name of one node, and an edge of a kind between two nodes is
\* there once: put_node and put_edge return what exists instead of a twin.
Unique ==
    /\ \A m, n \in NodeIds : nodes[m].name = nodes[n].name => m = n
    /\ \A d, e \in EdgeIds :
          /\ edges[d].from = edges[e].from
          /\ edges[d].to = edges[e].to
          /\ edges[d].kind = edges[e].kind
          => d = e

\* Two graphs never share a generation: the generation of a GraphSnapshot
\* tells which graph it is of.
GenerationTellsGraph ==
    [][generation' > generation \/ UNCHANGED graph]_graph

\* A step keeps the edges that stay and gives the others ids above all before.
FreshIds ==
    /\ next_edge <= next_edge'
    /\ \A e \in DOMAIN edges' :
          IF e \in EdgeIds THEN edges'[e] = edges[e] ELSE next_edge <= e /\ e < next_edge'

\* An id that was given to an edge is never given to another one, after the
\* edge was removed either: a handle that was kept does not come to name
\* something else.
EdgeIdsNotReused == [][FreshIds]_graph

=============================================================================
