-------------------------- MODULE MCWorkspaceBuild --------------------------
(***************************************************************************)
(* Three nodes with one of two commands each, every graph of up to three   *)
(* edges on them, and manifests of all names and commands in a few shapes: *)
(* lines in any order, edges and targets of unknown names, names twice.    *)
(* No definition tells the names or the commands apart.                    *)
(***************************************************************************)
EXTENDS Manifest, TLC

Node(n, c) == [record |-> "node", name |-> n, command |-> c]
Edge(m, n) == [record |-> "edge", from |-> m, to |-> n, kind |-> "declared"]
Target(n) == [record |-> "target", name |-> n]
Bad == [record |-> "bad"]

MCFiles ==
    {<<Target(m), Edge(n, m), Node(m, c), Node(n, d)>> : m, n \in Names, c, d \in Commands} \cup
    {<<Node(m, c), Edge(m, m), Edge(m, n)>> : m, n \in Names, c \in Commands} \cup
    {<<Node(m, c), Target(n)>> : m, n \in Names, c \in Commands} \cup
    {<<Node(m, c), Bad>> : m \in Names, c \in Commands}

NoFiles == {}

MCSymmetry == Permutations(Names) \cup Permutations(Commands)

=============================================================================
