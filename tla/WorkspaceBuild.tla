--------------------------- MODULE WorkspaceBuild ---------------------------
(***************************************************************************)
(* WorkspaceCore::build: the cycle search of BuildGraph::cycle_witness,    *)
(* the plan of plan_order, and the loop that runs the planned nodes.  The  *)
(* two recursive searches are kept as their stacks of calls.  A build runs *)
(* to its end in the thread that owns the workspace, so the graph changes  *)
(* only between builds.                                                    *)
(*                                                                         *)
(* The action key of a node is its command: build passes no inputs and no  *)
(* artifacts of dependencies to action_key_for.  Ids of requests, jobs and *)
(* leases, which are fresh in every build, are left out: a job is the node *)
(* it was made for.                                                        *)
(***************************************************************************)
EXTENDS BuildGraph

CONSTANTS
    MaxTargets  \* bound: targets of a build

ASSUME BuildAssumption == MaxTargets \in Nat

VARIABLES
    phase,      \* where build() is: "idle" when it is not running
    targets,
    color,      \* of the cycle search, by node
    stack,      \* calls of visit that have not returned, in both searches
    witness,    \* the CycleWitness, if there is one: nodes and edges
    seen, order,    \* of plan_order
    active,     \* active_by_key: the node a command's job was made for
    events,     \* of the BuildOutcome: kind and node
    \* history
    asked,      \* the targets that build() was called with
    refused     \* nodes whose worker result said success = false

locals == <<targets, color, stack, witness, seen, order, active, events, asked, refused>>
vars == <<graph, phase, locals>>

Phases == {"idle", "cycle", "plan", "run", "cyclic", "unknown", "outcome"}
Returned == {"cyclic", "unknown", "outcome"}
NoWitness == [nodes |-> <<>>, edges |-> <<>>]

\* A call of visit: its node, and the last edge (in the cycle search) or
\* dependency (in the plan) that its loop has looked at.
Frame == [node : Nat, at : Nat]
Top == stack[Len(stack)]
Call(n) == [node |-> n, at |-> 0]
Pop == SubSeq(stack, 1, Len(stack) - 1)
Looked(x) == [stack EXCEPT ![Len(stack)].at = x]

Least(S) == CHOOSE x \in S : \A y \in S : x <= y

Init ==
    /\ GraphInit
    /\ phase = "idle"
    /\ targets = <<>> /\ color = <<>> /\ stack = <<>> /\ witness = NoWitness
    /\ seen = {} /\ order = <<>> /\ active = <<>> /\ events = <<>>
    /\ asked = {} /\ refused = {}

\* build() is called.
Begin(ts) ==
    /\ phase = "idle"
    /\ phase' = "cycle"
    /\ targets' = ts
    /\ asked' = {ts[i] : i \in 1..Len(ts)}
    /\ color' = [n \in NodeIds |-> "white"]
    /\ UNCHANGED <<graph, stack, witness, seen, order, active, events, refused>>

-----------------------------------------------------------------------------
(***************************************************************************)
(* cycle_witness.                                                          *)
(***************************************************************************)

White == {n \in NodeIds : color[n] = "white"}

\* The edges that the loop of the last call has not looked at.
EdgesLeft == {e \in EdgeIds : edges[e].from = Top.node /\ e > Top.at}

\* visit(n) is called, with the stack that its caller leaves.
Visit(n, caller) ==
    /\ color' = [color EXCEPT ![n] = "gray"]
    /\ stack' = Append(caller, Call(n))

VisitRoot ==
    /\ phase = "cycle" /\ stack = <<>> /\ White # {}
    /\ Visit(Least(White), stack)
    /\ UNCHANGED <<graph, phase, targets, witness, seen, order, active, events, asked, refused>>

LookAtEdge(c) ==
    /\ phase = "cycle" /\ stack # <<>> /\ EdgesLeft # {}
    /\ color[edges[Least(EdgesLeft)].to] = c
    /\ UNCHANGED <<graph, targets, seen, order, active, events, asked, refused>>

EdgeToWhite ==
    /\ LookAtEdge("white")
    /\ Visit(edges[Least(EdgesLeft)].to, Looked(Least(EdgesLeft)))
    /\ UNCHANGED <<phase, witness>>

EdgeToBlack ==
    /\ LookAtEdge("black")
    /\ stack' = Looked(Least(EdgesLeft))
    /\ UNCHANGED <<phase, color, witness>>

\* A variant with a mistake in it: the whole stack is the witness.
WholeStack(n) == Append([i \in 1..Len(stack) |-> stack[i].node], n)

\* The nodes of the stack from n on, and n again.
ClosedAt(n) ==
    LET start == CHOOSE i \in 1..Len(stack) : stack[i].node = n
    IN  [i \in 1..(Len(stack) - start + 2) |->
            IF start + i - 1 <= Len(stack) THEN stack[start + i - 1].node ELSE n]

\* The first edge between each two of the nodes.
EdgesAlong(ns) ==
    [i \in 1..(Len(ns) - 1) |->
        Least({e \in EdgeIds : edges[e].from = ns[i] /\ edges[e].to = ns[i + 1]})]

\* An edge to a call that has not returned: build() returns the error.
EdgeToGray ==
    /\ LookAtEdge("gray")
    /\ LET ns == ClosedAt(edges[Least(EdgesLeft)].to)
       IN  witness' = [nodes |-> ns, edges |-> EdgesAlong(ns)]
    /\ phase' = "cyclic"
    /\ UNCHANGED <<color, stack>>

\* Variants with a mistake in them.
StaysGray(n) == color
WhiteAgain(n) == [color EXCEPT ![n] = "white"]

\* visit(n) returns.
Blackened(n) == [color EXCEPT ![n] = "black"]

VisitReturns ==
    /\ phase = "cycle" /\ stack # <<>> /\ EdgesLeft = {}
    /\ color' = Blackened(Top.node)
    /\ stack' = Pop
    /\ UNCHANGED <<graph, phase, targets, witness, seen, order, active, events, asked, refused>>

NoCycle ==
    /\ phase = "cycle" /\ stack = <<>> /\ White = {}
    /\ phase' = "plan"
    /\ UNCHANGED <<graph, locals>>

CycleSearch ==
    VisitRoot \/ EdgeToWhite \/ EdgeToBlack \/ EdgeToGray \/ VisitReturns \/ NoCycle

-----------------------------------------------------------------------------
(***************************************************************************)
(* plan_order.  targets holds the targets that are left.                   *)
(***************************************************************************)

PlanUnchanged == UNCHANGED <<graph, color, witness, active, events, asked, refused>>

UnknownTarget ==
    /\ phase = "plan" /\ stack = <<>> /\ targets # <<>>
    /\ targets[1] \notin NodeIds
    /\ phase' = "unknown"
    /\ PlanUnchanged /\ UNCHANGED <<targets, stack, seen, order>>

\* visit of a target or a dependency that was seen returns at once.
PlanVisit(n, caller) ==
    /\ stack' = IF n \in seen THEN caller ELSE Append(caller, Call(n))
    /\ seen' = seen \cup {n}

VisitTarget ==
    /\ phase = "plan" /\ stack = <<>> /\ targets # <<>>
    /\ targets[1] \in NodeIds
    /\ PlanVisit(targets[1], stack)
    /\ targets' = Tail(targets)
    /\ PlanUnchanged /\ UNCHANGED <<phase, order>>

\* dependencies() is a set: its members in increasing order.
DependenciesLeft == {n \in Dependencies(Top.node) : n > Top.at}

VisitDependency ==
    /\ phase = "plan" /\ stack # <<>> /\ DependenciesLeft # {}
    /\ PlanVisit(Least(DependenciesLeft), Looked(Least(DependenciesLeft)))
    /\ PlanUnchanged /\ UNCHANGED <<phase, targets, order>>

\* A variant with a mistake in it.
PlacedFirst(n) == <<n>> \o order

Placed(n) == Append(order, n)

PlanNode ==
    /\ phase = "plan" /\ stack # <<>> /\ DependenciesLeft = {}
    /\ order' = Placed(Top.node)
    /\ stack' = Pop
    /\ PlanUnchanged /\ UNCHANGED <<phase, targets, seen>>

\* plan_order returns.  open_stream, which build() calls next, refuses stream 0
\* only, and a request has a fresh id from 1 on, of which it takes 32 bits.
Planned ==
    /\ phase = "plan" /\ stack = <<>> /\ targets = <<>>
    /\ phase' = "run"
    /\ UNCHANGED <<graph, locals>>

PlanOrder == UnknownTarget \/ VisitTarget \/ VisitDependency \/ PlanNode \/ Planned

-----------------------------------------------------------------------------
(***************************************************************************)
(* The loop over the order.  Of the events of a node the last one is kept, *)
(* the loop is at the first node without one.                              *)
(***************************************************************************)

Current == order[Len(events) + 1]
Key(n) == nodes[n].command
Event(kind, n) == [kind |-> kind, node |-> n]

RunUnchanged == UNCHANGED <<graph, targets, color, stack, witness, seen, order, asked>>

\* There is a job for the key: the node is attached to it.
Attach ==
    /\ phase = "run" /\ Len(events) < Len(order)
    /\ Key(Current) \in DOMAIN active
    /\ events' = Append(events, Event("queued", Current))
    /\ RunUnchanged /\ UNCHANGED <<phase, active, refused>>

NewJob ==
    /\ phase = "run" /\ Len(events) < Len(order)
    /\ Key(Current) \notin DOMAIN active
    /\ active' = [c \in DOMAIN active \cup {Key(Current)} |->
                     IF c = Key(Current) THEN Current ELSE active[c]]
    /\ RunUnchanged

\* The worker's result is valid and its artifacts are published.  Whether the
\* worker succeeded is not looked at.
RunNode(success) ==
    /\ NewJob
    /\ events' = Append(events, Event("succeeded", Current))
    /\ refused' = IF success THEN refused ELSE refused \cup {Current}
    /\ UNCHANGED phase

\* The executor reports an error, its result has another lease, or an
\* artifact cannot be published: build() returns with the outcome so far.
RunFails ==
    /\ NewJob
    /\ events' = Append(events, Event("failed", Current))
    /\ phase' = "outcome"
    /\ UNCHANGED refused

AllRun ==
    /\ phase = "run" /\ Len(events) = Len(order)
    /\ phase' = "outcome"
    /\ UNCHANGED <<graph, locals>>

RunOrder == Attach \/ (\E success \in BOOLEAN : RunNode(success)) \/ RunFails \/ AllRun

-----------------------------------------------------------------------------
\* The caller has the result: the locals of the build are gone.
Leave ==
    /\ phase \in Returned
    /\ phase' = "idle"
    /\ targets' = <<>> /\ color' = <<>> /\ stack' = <<>> /\ witness' = NoWitness
    /\ seen' = {} /\ order' = <<>> /\ active' = <<>> /\ events' = <<>>
    /\ asked' = {} /\ refused' = {}
    /\ UNCHANGED graph

Next ==
    \/ phase = "idle" /\ Mutate /\ UNCHANGED <<phase, locals>>
    \/ \E k \in 0..MaxTargets : \E ts \in [1..k -> 1..Cardinality(Names)] : Begin(ts)
    \/ CycleSearch
    \/ PlanOrder
    \/ RunOrder
    \/ Leave

Spec == Init /\ [][Next]_vars

-----------------------------------------------------------------------------
(***************************************************************************)
(* Properties.                                                             *)
(***************************************************************************)

\* The types of the locals of build().
TypeOK ==
    /\ GraphTypeOK
    /\ phase \in Phases
    /\ targets \in Seq(1..Cardinality(Names))
    /\ color \in [DOMAIN color -> {"white", "gray", "black"}]
    /\ phase # "idle" => DOMAIN color = NodeIds
    /\ stack \in Seq(Frame)
    /\ witness.nodes \in Seq(NodeIds) /\ witness.edges \in Seq(EdgeIds)
    /\ seen \subseteq NodeIds /\ refused \subseteq NodeIds /\ asked \subseteq 1..Cardinality(Names)
    /\ order \in Seq(NodeIds)
    /\ active \in [DOMAIN active -> NodeIds] /\ DOMAIN active \subseteq Commands
    /\ events \in Seq([kind : {"queued", "succeeded", "failed"}, node : NodeIds])

\* The cycle search: the calls that have not returned are those of the gray
\* nodes, a walk along edges, each of them the last one its loop looked at.
StackIsGray ==
    phase = "cycle" =>
        /\ {stack[i].node : i \in 1..Len(stack)} = {n \in NodeIds : color[n] = "gray"}
        /\ \A i \in 1..(Len(stack) - 1) :
              /\ edges[stack[i].at].from = stack[i].node
              /\ edges[stack[i].at].to = stack[i + 1].node
        /\ \A i, j \in 1..Len(stack) : stack[i].node = stack[j].node => i = j

\* The locals of build() have their types, and the colors of the cycle search
\* agree with its calls at every step.
SearchInvariant == TypeOK /\ StackIsGray

\* A set of nodes that each depend on one of the set: a cycle is one, and a
\* finite graph with one has a cycle.
Circular(C) == \A n \in C : Dependencies(n) \cap C # {}
Cyclic == \E C \in SUBSET NodeIds : C # {} /\ Circular(C)

\* A witness is a walk along edges of the graph that ends where it begins, and
\* visits no node twice on the way.
Real(w) ==
    LET ns == w.nodes
    IN  /\ Len(ns) > 1 /\ ns[1] = ns[Len(ns)]
        /\ \A i, j \in 1..(Len(ns) - 1) : ns[i] = ns[j] => i = j
        /\ Len(w.edges) = Len(ns) - 1
        /\ \A i \in 1..(Len(ns) - 1) :
              edges[w.edges[i]].from = ns[i] /\ edges[w.edges[i]].to = ns[i + 1]

\* 10_forge_incremental_build_graph_daemon.md: witnesses contain real edges.
\* The build of a graph is refused as cyclic if and only if there is a cycle
\* in it, wherever the search started and whichever edges it took first, and
\* the witness is such a cycle.
CyclesExact ==
    /\ phase = "cyclic" => Cyclic /\ Real(witness)
    /\ phase \in {"plan", "run", "unknown", "outcome"} => ~Cyclic

\* The plan is closed under dependencies, puts every node once and after all
\* it depends on.
PlanSorted ==
    \A i \in 1..Len(order) :
        /\ \A j \in 1..Len(order) : order[i] = order[j] => i = j
        /\ \A n \in Dependencies(order[i]) : \E j \in 1..(i - 1) : order[j] = n

\* The targets and what they depend on: the nodes of every set that holds the
\* targets and, with a node, its dependencies.
Needed ==
    {n \in NodeIds : \A C \in SUBSET NodeIds :
        asked \subseteq C /\ (\A m \in C : Dependencies(m) \subseteq C) => n \in C}

\* 10_forge_incremental_build_graph_daemon.md: every planned node is target-
\* reachable, a Ready node has zero unsatisfied required deps, one active job
\* per compatible key.  The plan is the needed nodes, none missing and none
\* too many, each behind all it depends on; the loop gives each its event in
\* this order; a command is run once, by the first node that has it, and a
\* node is attached only to a job that came back before; and the outcome is
\* complete unless its last event is a failure.  A job has come back when its
\* result was current and its artifacts were published: what the worker said
\* of its success is not looked at, see NoFalseSuccess.
NeededBuiltInOrder ==
    /\ PlanSorted
    /\ phase \in {"run", "outcome"} => {order[i] : i \in 1..Len(order)} = Needed
    /\ \A i \in 1..Len(events) :
          LET kind == events[i].kind
              Earlier == {j \in 1..(i - 1) : Key(events[j].node) = Key(events[i].node)}
          IN  /\ events[i].node = order[i]
              /\ kind = "queued" => \E j \in Earlier : events[j].kind = "succeeded"
              /\ kind # "queued" => Earlier = {}
              /\ kind = "failed" => i = Len(events) /\ phase = "outcome"
    /\ phase = "outcome" /\ Len(events) < Len(order) => events[Len(events)].kind = "failed"

\* What is left of the searches: the calls, returns, edges, targets and
\* dependencies that are still to come.
LookedAt(n, x) == \E i \in 1..Len(stack) : stack[i].node = n /\ stack[i].at >= x
CycleWork ==
    {<<"call", n>> : n \in White} \cup
    {<<"return", n>> : n \in {m \in NodeIds : color[m] # "black"}} \cup
    {<<"edge", e>> : e \in {d \in EdgeIds : /\ color[edges[d].from] # "black"
                                           /\ ~LookedAt(edges[d].from, d)}}
PlanWork ==
    LET Unplanned == {n \in NodeIds : \A i \in 1..Len(order) : order[i] # n}
    IN  {<<"target", i>> : i \in 1..Len(targets)} \cup
        {<<"call", n>> : n \in NodeIds \ seen} \cup
        {<<"return", n>> : n \in Unplanned} \cup
        UNION {{<<"dependency", n, d>> : d \in {m \in Dependencies(n) : ~LookedAt(n, m)}} :
               n \in Unplanned}
Below(S, T) == S \subseteq T /\ S # T

\* Every build ends, on a graph with cycles and self-edges too: each step of
\* either search leaves less to do, until the search is over, and the loop
\* moves on by a node.  (No build waits: the run checks for deadlock.)
WorkShrinks ==
    [][/\ phase = "cycle" => phase' \in {"plan", "cyclic"} \/ Below(CycleWork', CycleWork)
       /\ phase = "plan" => phase' \in {"run", "unknown"} \/ Below(PlanWork', PlanWork)
       /\ phase = "run" => phase' = "outcome" \/ Len(events') > Len(events)]_vars

\* 10_forge_incremental_build_graph_daemon.md: a worker failure never
\* publishes a false success.
NoFalseSuccess ==
    \A i \in 1..Len(events) : events[i].kind = "succeeded" => events[i].node \notin refused

=============================================================================
