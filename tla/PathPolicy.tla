----------------------------- MODULE PathPolicy -----------------------------
(***************************************************************************)
(* PathPolicy: the paths that callers spell are brought to one relative    *)
(* form inside the workspace.  A spelled path is a sequence of components, *)
(* from the file system's root if it is absolute; an empty component (as   *)
(* between two slashes) is "".  There are no symbolic links.               *)
(***************************************************************************)
EXTENDS Naturals, Sequences, FiniteSets, SequencesExt

CONSTANT Root       \* root_: the components of the workspace's directory

\* Components that are no names.
Here == {".", ""}
Up == ".."

\* root_ is canonical, and a name is what is left.
Plain(parts) == parts \in Seq(STRING) /\ \A i \in DOMAIN parts : parts[i] \notin Here \cup {Up}

ASSUME PolicyAssumption == Plain(Root) /\ Up \in STRING

Escapes == <<Up>> \* stands for the error

\* Variant with a mistake in it: ".." is dropped where it leaves the path.
DropUp(parts, part) ==
    IF part \in Here THEN parts
    ELSE IF part = Up THEN SubSeq(parts, 1, Len(parts) - 1)
    ELSE Append(parts, part)

\* One component of lexically_normal: ".." takes a name back, if there is one.
Step(parts, part) ==
    IF part \in Here THEN parts
    ELSE IF part = Up /\ parts # <<>> /\ Last(parts) # Up THEN Front(parts)
    ELSE Append(parts, part)

lexically_normal(parts) ==
    LET normal[i \in 0..Len(parts)] ==
            IF i = 0 THEN <<>> ELSE Step(normal[i - 1], parts[i])
    IN  normal[Len(parts)]

\* At the file system's root ".." stays there.
Absolute(parts) ==
    LET normal == lexically_normal(parts)
        ups == {i \in DOMAIN normal : normal[i] = Up}
    IN  SubSeq(normal, Cardinality(ups) + 1, Len(normal))

\* std::filesystem::relative: up to the common prefix, then down.
relative(parts) ==
    LET p == Absolute(parts)
        common == Len(LongestCommonPrefix({p, Root}))
    IN  [i \in 1..(Len(Root) - common) |-> Up] \o SubSeq(p, common + 1, Len(p))

\* normalize.
Normalize(path) ==
    LET parts == lexically_normal(IF path.absolute THEN relative(path.parts) ELSE path.parts)
    IN  IF parts = <<>> \/ \E i \in DOMAIN parts : parts[i] = Up THEN Escapes ELSE parts

=============================================================================
