--------------------------- MODULE MCFipcSession ---------------------------
(***************************************************************************)
(* A session with two stream ids, two tokens and two requests, which no    *)
(* definition tells apart.                                                 *)
(***************************************************************************)
EXTENDS FipcSession, TLC

MCSymmetry ==
    Permutations(StreamIds) \cup Permutations(Tokens) \cup Permutations(Requests)

=============================================================================
