------------------------------ MODULE StateLog ------------------------------
(***************************************************************************)
(* The FST-1 log: what a file of the state store holds, how a transaction  *)
(* is encoded into it, and the contract of recover_log, stated once over   *)
(* the positions of the log and without following the scan.  RecoverLog    *)
(* models the scan and is shown to meet this contract; FileStateStore uses *)
(* the contract.                                                           *)
(*                                                                         *)
(* A file is a sequence of cells, one per encoded record.  A cell the      *)
(* codec cannot decode (a truncated tail, a checksum mismatch) is Torn.    *)
(* Field base_sequence is written and never read back, so it is left out.  *)
(***************************************************************************)
EXTENDS Naturals, Sequences, FiniteSets

CONSTANTS
    Crc(_),             \* crc32c of an encoded prefix of a log
    Missing,            \* a payload too short to hold a u64
    kCompactionTxnId    \* transaction id of checkpoints and compacted logs

\* The cell the codec rejects: it has no fields to speak of.
Torn == [type |-> "torn", txn_id |-> 0, new_sequence |-> 0, payload |-> Missing]

IsTorn(c) == c.type = "torn"
IsBegin(c) == c.type = "txn_begin"
IsCommit(c) == c.type = "txn_commit"

-----------------------------------------------------------------------------
(***************************************************************************)
(* Writing.                                                                *)
(***************************************************************************)

\* AppendLog::begin: the payload is the number of records that follow.
BeginCell(txn, count) ==
    [type |-> "txn_begin", txn_id |-> txn, new_sequence |-> 0, payload |-> count]

\* AppendLog::commit: the payload digests every byte in front of the record.
CommitCell(txn, seq, before) ==
    [type |-> "txn_commit", txn_id |-> txn, new_sequence |-> seq,
     payload |-> Crc(before)]

\* A variant with a mistake in it: the digest covers the transaction only.
TransactionDigestingItself(base, txn, seq, recs) ==
    LET stamped == [k \in 1..Len(recs) |-> [recs[k] EXCEPT !.txn_id = txn]]
        open    == <<BeginCell(txn, Len(recs))>> \o stamped
    IN  Append(base \o open, CommitCell(txn, seq, open))

\* The log `base` after one transaction of the data records `recs`.
Transaction(base, txn, seq, recs) ==
    LET stamped == [k \in 1..Len(recs) |-> [recs[k] EXCEPT !.txn_id = txn]]
        open    == base \o <<BeginCell(txn, Len(recs))>> \o stamped
    IN  Append(open, CommitCell(txn, seq, open))

-----------------------------------------------------------------------------
(***************************************************************************)
(* Reading: the contract of recover_log.                                   *)
(***************************************************************************)

\* A commit record closes the transaction begun at b only if it names it.
CommitOf(l, b, i) == IsCommit(l[i]) /\ l[i].txn_id = l[b].txn_id

\* A reader that arrives at position i is inside the transaction begun at b:
\* nothing since b has begun another one or committed this one.
OpenAt(l, b, i) ==
    /\ b \in 1..(i - 1)
    /\ IsBegin(l[b])
    /\ \A k \in (b + 1)..(i - 1) : ~IsBegin(l[k]) /\ ~CommitOf(l, b, k)

\* The record at i ends the transaction begun at b, well or badly.
Closes(l, b, i) == CommitOf(l, b, i) /\ OpenAt(l, b, i)

\* A reader goes no further than the record at i.
Stops(l, i) ==
    \/ IsTorn(l[i])
    \/ IsBegin(l[i]) /\ l[i].payload = Missing
    \/ l[i].payload = Missing /\ \E b \in 1..(i - 1) : Closes(l, b, i)

\* A reader gets as far as position i.
Reached(l, i) == \A k \in 1..(i - 1) : ~Stops(l, k)

\* The declared record count and the digest of the bytes in front agree.
Intact(l, b, i) ==
    /\ l[b].payload = i - b - 1
    /\ l[i].payload = Crc(SubSeq(l, 1, i - 1))

\* The transaction begun at b is committed by the record at i.
Commits(l, b, i) ==
    /\ Closes(l, b, i)
    /\ Intact(l, b, i)
    /\ ~Stops(l, i)
    /\ Reached(l, i)

\* The pairs begin, commit of the committed transactions.
Committed(l) ==
    {t \in (1..Len(l)) \X (1..Len(l)) : Commits(l, t[1], t[2])}

\* A variant with a mistake in it: an unfinished transaction counts as well.
CommittedPositionsWithTail(l) ==
    UNION {(t[1] + 1)..(t[2] - 1) : t \in Committed(l)} \cup
    {p \in 1..Len(l) : ~IsTorn(l[p]) /\ \E b \in 1..(p - 1) : OpenAt(l, b, Len(l) + 1)}

\* Where the records of the committed transactions are.
CommittedPositions(l) == UNION {(t[1] + 1)..(t[2] - 1) : t \in Committed(l)}

\* The new_sequence of the last committed transaction; 0 without one.
LastSequence(l) ==
    IF Committed(l) = {} THEN 0
    ELSE LET t == CHOOSE t \in Committed(l) :
                     \A u \in Committed(l) : u[2] <= t[2]
         IN  l[t[2]].new_sequence

\* What recover_log reports: the reader stops early, a commit record does not
\* agree with what it commits, or the last transaction has no commit record.
Diagnosed(l) ==
    \/ \E i \in 1..Len(l) : Stops(l, i)
    \/ \E i \in 1..Len(l) : /\ Reached(l, i)
                            /\ \E b \in 1..(i - 1) : Closes(l, b, i) /\ ~Intact(l, b, i)
    \/ \E b \in 1..Len(l) : OpenAt(l, b, Len(l) + 1)

\* The record at p belongs to a committed transaction.
Kept(l, p) ==
    \E b, i \in 1..Len(l) : Commits(l, b, i) /\ b <= p /\ p <= i

\* The record at p belongs to a transaction that was open when the reader came
\* to the next begin record.
DroppedAtBegin(l, p) ==
    \E b, i \in 1..Len(l) :
        /\ OpenAt(l, b, i) /\ IsBegin(l[i]) /\ ~Stops(l, i) /\ Reached(l, i)
        /\ b <= p /\ p < i

\* The record at p is readable and belongs to no transaction at all.
OutsideTransaction(l, p) ==
    /\ ~IsBegin(l[p]) /\ ~Stops(l, p) /\ Reached(l, p)
    /\ \A b \in 1..(p - 1) : ~OpenAt(l, b, p)

\* The k-th smallest element of a finite set of numbers.
Nth(P, k) == CHOOSE p \in P : Cardinality({q \in P : q <= p}) = k

\* The committed records in log order: RecoveryResult::committed_records.
CommittedRecords(l) ==
    LET P == CommittedPositions(l)
    IN  [k \in 1..Cardinality(P) |-> l[Nth(P, k)]]

=============================================================================
