------------------------------ MODULE Manifest ------------------------------
(***************************************************************************)
(* Graph manifests: parse_manifest, apply_manifest on a workspace, and the *)
(* build of its targets or of targets named on the command line.  A line   *)
(* of the text is a record with its fields; one that lacks a field, or has *)
(* an option, an edge kind or a record that is not known, is "bad".        *)
(* apply_manifest and the program around it have the workspace to          *)
(* themselves, which may hold the graph of earlier calls.                  *)
(***************************************************************************)
EXTENDS WorkspaceBuild

CONSTANT Files      \* texts: sequences of lines

\* What a line says.
Line == [record : {"node"}, name : Names, command : Commands] \cup
        [record : {"edge"}, from : Names, to : Names, kind : Kinds] \cup
        [record : {"target"}, name : Names] \cup
        [record : {"bad"}]

ASSUME ManifestAssumption == Files \subseteq Seq(Line)

VARIABLES
    applying,       \* "no", "items", "applied" or "failed"
    manifest, at,   \* its items in the order of apply_manifest, and the next
    nodes_by_name, resolved,    \* AppliedManifest
    before          \* history: nodes and edges at the start

applied == <<manifest, at, nodes_by_name, resolved, before>>
manifestVars == <<vars, applying, applied>>

ManifestInit ==
    /\ Init
    /\ applying = "no"
    /\ manifest = <<>> /\ at = 1
    /\ nodes_by_name = <<>> /\ resolved = <<>>
    /\ before = [nodes |-> <<>>, edges |-> <<>>]

\* The caller has the result, and keeps nothing of it.
Forget ==
    /\ applying' = "no"
    /\ manifest' = <<>> /\ at' = 1
    /\ nodes_by_name' = <<>> /\ resolved' = <<>>
    /\ before' = [nodes |-> <<>>, edges |-> <<>>]

-----------------------------------------------------------------------------
\* A line that ends parse_manifest with an error.
Wrong(lines, i) ==
    \/ lines[i].record = "bad"
    \/ lines[i].record = "node" /\
          \E j \in 1..(i - 1) : lines[j].record = "node" /\ lines[j].name = lines[i].name

Parses(lines) ==
    /\ \A i \in DOMAIN lines : ~Wrong(lines, i)
    /\ \E i \in DOMAIN lines : lines[i].record = "node"

\* parse_manifest: the vector that the lines of a record are pushed to, one
\* after the other, and the nodes, the edges and the targets.
Of(lines, record) ==
    LET pushed[i \in 0..Len(lines)] ==
            IF i = 0 THEN <<>>
            ELSE IF lines[i].record = record THEN Append(pushed[i - 1], lines[i])
            ELSE pushed[i - 1]
    IN  pushed[Len(lines)]
Parsed(lines) == Of(lines, "node") \o Of(lines, "edge") \o Of(lines, "target")

\* apply_manifest is called with a text that parses.
Apply(lines) ==
    /\ applying = "no" /\ phase = "idle"
    /\ Parses(lines) /\ generation + Len(lines) <= MaxGeneration
    /\ applying' = "items"
    /\ manifest' = Parsed(lines) /\ at' = 1
    /\ nodes_by_name' = <<>> /\ resolved' = <<>>
    /\ before' = [nodes |-> nodes, edges |-> edges]
    /\ UNCHANGED vars

-----------------------------------------------------------------------------
(***************************************************************************)
(* apply_manifest.                                                         *)
(***************************************************************************)
Item == manifest[at]
Turn(record) ==
    /\ applying = "items" /\ at <= Len(manifest) /\ Item.record = record
    /\ at' = at + 1
    /\ UNCHANGED <<phase, locals, applying, manifest, before>>

Known(name) == name \in DOMAIN nodes_by_name

ApplyNode ==
    /\ Turn("node")
    /\ PutNode(Item.name, Item.command)
    /\ nodes_by_name' = [name \in DOMAIN nodes_by_name \cup {Item.name} |->
                            IF name = Item.name
                            THEN CHOOSE n \in DOMAIN nodes' : nodes'[n].name = name
                            ELSE nodes_by_name[name]]
    /\ UNCHANGED resolved

\* A variant with a mistake in it.
EndsSwapped(item) == <<nodes_by_name[item.to], nodes_by_name[item.from]>>

EndsOf(item) == <<nodes_by_name[item.from], nodes_by_name[item.to]>>

\* An edge that is there already is not put again.
ApplyEdge ==
    /\ Turn("edge")
    /\ Known(Item.from) /\ Known(Item.to)
    /\ LET ends == EndsOf(Item)
       IN  \/ PutEdge(ends[1], ends[2], Item.kind)
           \/ Present(ends[1], ends[2], Item.kind) /\ UNCHANGED graph
    /\ UNCHANGED <<nodes_by_name, resolved>>

ApplyTarget ==
    /\ Turn("target")
    /\ Known(Item.name)
    /\ resolved' = Append(resolved, nodes_by_name[Item.name])
    /\ UNCHANGED <<graph, nodes_by_name>>

\* A name that no node of the manifest has: what was put stays.
ApplyFails ==
    /\ applying = "items" /\ at <= Len(manifest)
    /\ \/ Item.record = "edge" /\ ~(Known(Item.from) /\ Known(Item.to))
       \/ Item.record = "target" /\ ~Known(Item.name)
    /\ applying' = "failed"
    /\ UNCHANGED <<vars, applied>>

\* Without targets the last node is the target.
LastNode == CHOOSE i \in DOMAIN manifest :
                /\ manifest[i].record = "node"
                /\ \A j \in (i + 1)..Len(manifest) : manifest[j].record # "node"
ApplyEnds ==
    /\ applying = "items" /\ at > Len(manifest)
    /\ applying' = "applied"
    /\ resolved' = IF resolved = <<>> THEN <<nodes_by_name[manifest[LastNode].name]>> ELSE resolved
    /\ UNCHANGED <<vars, manifest, at, nodes_by_name, before>>

-----------------------------------------------------------------------------
\* cmd_build: the targets of the manifest, or those of the command line.
BuildManifest ==
    /\ applying = "applied"
    /\ \/ Begin(resolved)
       \/ \E k \in 1..MaxTargets : \E names \in [1..k -> DOMAIN nodes_by_name] :
             Begin([i \in 1..k |-> nodes_by_name[names[i]]])
    /\ Forget

\* cmd_graph, an error, or a target of the command line that is not known.
Return ==
    /\ applying \in {"applied", "failed"}
    /\ Forget
    /\ UNCHANGED vars

ManifestNext ==
    \/ applying = "no" /\ Next /\ UNCHANGED <<applying, applied>>
    \/ \E lines \in Files : Apply(lines)
    \/ ApplyNode \/ ApplyEdge \/ ApplyTarget \/ ApplyFails \/ ApplyEnds
    \/ BuildManifest \/ Return

ManifestSpec == ManifestInit /\ [][ManifestNext]_manifestVars

-----------------------------------------------------------------------------
Done(record) == {manifest[i] : i \in {j \in 1..(at - 1) : manifest[j].record = record}}
Triples(es, Id(_)) == {<<Id(e.from), Id(e.to), e.kind>> : e \in es}

\* What apply_manifest has made of the graph, whatever it held before and
\* wherever it stopped: the nodes of the manifest carry its actions, its edges
\* join the nodes of those names, all else is as it was, and no node or edge
\* is there twice.  The targets are the nodes of their names, or the last node
\* of the manifest.  It stops early only at a name that the manifest lacks.
ManifestApplied ==
    LET Id(name) == CHOOSE n \in NodeIds : nodes[n].name = name
        Same(n) == n
        Edges(es) == {es[e] : e \in DOMAIN es}
        targetsDone == Of(SubSeq(manifest, 1, at - 1), "target")
        names == {manifest[i].name : i \in {j \in DOMAIN manifest : manifest[j].record = "node"}}
    IN  applying # "no" =>
        /\ Unique
        /\ \A i \in Done("node") : \E n \in NodeIds : nodes[n].name = i.name /\ nodes[n].command = i.command
        /\ \A n \in NodeIds : (\E i \in Done("node") : i.name = nodes[n].name) \/ nodes[n] = before.nodes[n]
        /\ Len(before.nodes) <= Len(nodes)
        /\ Triples(Edges(edges), Same) = Triples(Edges(before.edges), Same) \cup Triples(Done("edge"), Id)
        /\ applying = "applied" =>
              /\ at > Len(manifest)
              /\ resolved = IF targetsDone = <<>> THEN <<Id(manifest[LastNode].name)>>
                            ELSE [i \in DOMAIN targetsDone |-> Id(targetsDone[i].name)]
        /\ applying = "failed" =>
              \/ Item.record = "edge" /\ ~({Item.from, Item.to} \subseteq names)
              \/ Item.record = "target" /\ Item.name \notin names

=============================================================================
