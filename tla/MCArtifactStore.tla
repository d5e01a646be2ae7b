--------------------------- MODULE MCArtifactStore ---------------------------
(***************************************************************************)
(* Two artifacts, which no definition tells apart.                         *)
(***************************************************************************)
EXTENDS ArtifactStore, TLC

MCSymmetry == Permutations(Keys)

=============================================================================
