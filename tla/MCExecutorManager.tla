------------------------- MODULE MCExecutorManager -------------------------
(***************************************************************************)
(* Two jobs, which no definition tells apart, and their retries.           *)
(***************************************************************************)
EXTENDS ExecutorManager, TLC

MCSymmetry == Permutations(Jobs)

=============================================================================
