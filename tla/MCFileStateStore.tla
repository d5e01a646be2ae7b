-------------------------- MODULE MCFileStateStore --------------------------
(***************************************************************************)
(* The state store with a checksum that tells every two logs of a run      *)
(* apart.                                                                  *)
(***************************************************************************)
EXTENDS FileStateStore

MCCrc(s) == [i \in 1..Len(s) |-> <<s[i].type, s[i].txn_id, s[i].new_sequence>>]

=============================================================================
