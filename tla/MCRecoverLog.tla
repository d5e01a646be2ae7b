---------------------------- MODULE MCRecoverLog ----------------------------
(***************************************************************************)
(* recover_log on every log of up to MaxLen cells of a small alphabet: two *)
(* transaction ids, right and wrong counts and digests, payloads without a *)
(* number, a data record and an undecodable cell.                          *)
(***************************************************************************)
EXTENDS RecoverLog

CONSTANT MaxLen

\* A checksum of one bit: whether a commit record's digest is right depends
\* on where in the log it stands.
MCCrc(s) == Len(s) % 2

\* Every kind of commit record carries a sequence of its own.
MCCells ==
    {Torn}
    \cup {BeginCell(1, count) : count \in {0, 1, Missing}}
    \cup {BeginCell(2, 1)}
    \cup {[type |-> "graph_delta", txn_id |-> 1, new_sequence |-> 0, payload |-> 0]}
    \cup {[type |-> "txn_commit", txn_id |-> 1, new_sequence |-> 1 + d, payload |-> d] :
              d \in {0, 1}}
    \cup {[type |-> "txn_commit", txn_id |-> 1, new_sequence |-> 3, payload |-> Missing],
          [type |-> "txn_commit", txn_id |-> 2, new_sequence |-> 4, payload |-> 0]}

MCLogs == UNION {[1..n -> MCCells] : n \in 0..MaxLen}

=============================================================================
