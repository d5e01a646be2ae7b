--------------------------- MODULE ReverseClosure ---------------------------
(***************************************************************************)
(* BuildGraph::reverse_closure: the nodes that depend on one of the seeds, *)
(* directly or through others.  A step is one turn of its loop; the graph  *)
(* does not change while it runs.                                          *)
(***************************************************************************)
EXTENDS BuildGraph

VARIABLES
    seeds,
    reached,
    work,       \* a vector used as a stack
    searching   \* the loop runs

closureVars == <<graph, seeds, reached, work, searching>>

ClosureInit ==
    /\ GraphInit
    /\ seeds = {} /\ reached = {} /\ work = <<>>
    /\ searching = FALSE

Idle == ~searching /\ seeds = {}

\* The members of a set, one after the other.
Listings(S) ==
    {s \in [1..Cardinality(S) -> S] : \A x \in S : \E i \in 1..Cardinality(S) : s[i] = x}

BeginClosure(ns) ==
    /\ Idle
    /\ seeds' = ns
    /\ reached' = ns
    /\ \E s \in Listings(ns) :
          /\ \A i, j \in 1..Cardinality(ns) : i < j => s[i] < s[j]
          /\ work' = s
    /\ searching' = TRUE
    /\ UNCHANGED graph

\* A variant with a mistake in it: the edges are followed forward.
FoundForward(node) == Dependencies(node) \ reached

\* The nodes an iteration adds: those with an edge to the node that are new.
Found(node) == ReverseDependencies(node) \ reached

\* The first edge from a node to another, in the order of the edge ids.
FirstEdge(from, to) ==
    CHOOSE e \in EdgeIds :
        /\ edges[e].from = from /\ edges[e].to = to
        /\ \A d \in EdgeIds : edges[d].from = from /\ edges[d].to = to => e <= d

\* A variant with a mistake in it: what was looked at stays.
TakeWithoutPop ==
    /\ searching /\ work # <<>>
    /\ LET found == Found(work[Len(work)])
       IN  /\ reached' = reached \cup found
           /\ \E pushed \in Listings(found) : work' = work \o pushed
    /\ UNCHANGED <<graph, seeds, searching>>

\* One iteration: the found nodes are pushed in the order of their edges.
Take ==
    /\ searching /\ work # <<>>
    /\ LET found == Found(work[Len(work)])
       IN  /\ reached' = reached \cup found
           /\ \E pushed \in Listings(found) :
                 /\ \A i, j \in 1..Cardinality(found) :
                       i < j => FirstEdge(pushed[i], work[Len(work)])
                                  < FirstEdge(pushed[j], work[Len(work)])
                 /\ work' = SubSeq(work, 1, Len(work) - 1) \o pushed
    /\ UNCHANGED <<graph, seeds, searching>>

\* A variant with a mistake in it: the seeds are not part of the result.
ReturnWithoutSeeds ==
    /\ searching /\ work = <<>>
    /\ searching' = FALSE
    /\ reached' = reached \ seeds
    /\ UNCHANGED <<graph, seeds, work>>

ReturnClosure ==
    /\ searching /\ work = <<>>
    /\ searching' = FALSE
    /\ UNCHANGED <<graph, seeds, reached, work>>

\* The caller has used the result.
Discard ==
    /\ ~searching /\ seeds # {}
    /\ seeds' = {} /\ reached' = {}
    /\ UNCHANGED <<graph, work, searching>>

ClosureNext ==
    \/ Idle /\ Mutate /\ UNCHANGED <<seeds, reached, work, searching>>
    \/ \E ns \in (SUBSET NodeIds) \ {{}} : BeginClosure(ns)
    \/ Take
    \/ ReturnClosure
    \/ Discard

\* The loop runs in one thread, to its end.
ClosureSpec == ClosureInit /\ [][ClosureNext]_closureVars /\ WF_closureVars(Take \/ ReturnClosure)

-----------------------------------------------------------------------------
(***************************************************************************)
(* Properties.                                                             *)
(***************************************************************************)

\* The types of the search's variables.
ClosureTypeOK ==
    /\ GraphTypeOK
    /\ seeds \subseteq NodeIds /\ reached \subseteq NodeIds
    /\ work \in Seq(NodeIds)
    /\ searching \in BOOLEAN

\* S holds whatever depends on a member of it.
ClosedUpward(S) == \A e \in EdgeIds : edges[e].to \in S => edges[e].from \in S

\* Every node found so far depends on a seed: it is in every closed set that
\* holds the seeds, so nothing unaffected is ever invalidated.
ReachedAffected ==
    \A S \in SUBSET NodeIds : seeds \subseteq S /\ ClosedUpward(S) => reached \subseteq S

\* The result holds the seeds and all that depends on them: nothing affected
\* is missed.
ResultComplete ==
    ~searching => seeds \subseteq reached /\ ClosedUpward(reached)

\* A node that waits in work.
InWork(n) == \E i \in 1..Len(work) : work[i] = n

\* What the loop keeps: nodes wait in work only once they are reached, and the
\* dependents of a reached node that does not wait are reached.
LoopInvariant ==
    /\ ClosureTypeOK
    /\ ReachedAffected
    /\ seeds \subseteq reached
    /\ ~searching => work = <<>>
    /\ \A n \in NodeIds : InWork(n) => n \in reached
    /\ \A e \in EdgeIds :
          edges[e].to \in reached /\ ~InWork(edges[e].to) => edges[e].from \in reached

\* The search ends, on a graph with cycles too.
SearchEnds == searching ~> ~searching

=============================================================================
