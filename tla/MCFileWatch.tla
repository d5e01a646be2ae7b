---------------------------- MODULE MCFileWatch ----------------------------
(***************************************************************************)
(* Two files in the root, one below it; every spelling of up to four       *)
(* components, of which a few are used in calls of file_event.             *)
(***************************************************************************)
EXTENDS FileWatch

MCRoot == <<"w">>
MCPaths == {<<"a">>, <<"b">>, <<"w", "a">>}
MCSpellings ==
    [absolute : BOOLEAN, parts : UNION {[1..n -> {"a", "w", "..", "."}] : n \in 0..4}]
MCCalls ==
    {[absolute |-> FALSE, parts |-> <<"w", ".", "a">>], [absolute |-> TRUE, parts |-> <<"w", "w", "..", "a">>],
     [absolute |-> FALSE, parts |-> <<"..", "w", "a">>]}

=============================================================================
