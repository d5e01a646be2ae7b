----------------------------- MODULE RecoverLog -----------------------------
(***************************************************************************)
(* recover_log: one pass over the bytes of a log that returns the records  *)
(* of the committed transactions, the last committed sequence and the      *)
(* diagnostics.  One action per branch of the loop body.                   *)
(*                                                                         *)
(* staged and committed_records hold the positions of the records the code *)
(* copies: position p stands for the record decoded there.                 *)
(***************************************************************************)
EXTENDS StateLog

CONSTANTS
    Cells,      \* the records a log can be made of, undecodable ones included
    Logs        \* the logs recover_log is called on

ASSUME LogsAssumption == Logs \subseteq Seq(Cells)

VARIABLES
    bytes,              \* the argument; never assigned
    offset,             \* cells consumed so far
    in_txn, txn_id, declared_count, staged,
    committed_records, sequence, diagnostics,   \* the RecoveryResult
    pc                  \* "scan" in the loop, "exit" past it, "done" returned

txn == <<in_txn, txn_id, declared_count, staged>>
result == <<committed_records, sequence, diagnostics>>
vars == <<bytes, offset, txn, result, pc>>

Diagnostic == {"undecodable", "begin without count", "commit without digest",
               "count mismatch", "digest mismatch", "partial tail"}

TypeOK ==
    /\ bytes \in Seq(Cells)
    /\ offset \in 0..Len(bytes)
    /\ in_txn \in BOOLEAN
    /\ staged \in Seq(1..Len(bytes))
    /\ committed_records \in Seq(1..Len(bytes))
    /\ diagnostics \in Seq(Diagnostic)
    /\ pc \in {"scan", "exit", "done"}

Init ==
    /\ bytes \in Logs
    /\ offset = 0
    /\ in_txn = FALSE
    /\ txn_id = 0
    /\ declared_count = 0
    /\ staged = <<>>
    /\ committed_records = <<>>
    /\ sequence = 0
    /\ diagnostics = <<>>
    /\ pc = "scan"

-----------------------------------------------------------------------------
record == bytes[offset + 1]
Scanning == pc = "scan" /\ offset < Len(bytes)

\* The record is the commit of the open transaction.
AtCommit == IsCommit(record) /\ in_txn /\ record.txn_id = txn_id

\* A `break` with a diagnostic: nothing else is assigned.
Break(reason) ==
    /\ diagnostics' = Append(diagnostics, reason)
    /\ pc' = "exit"
    /\ UNCHANGED <<bytes, offset, txn, committed_records, sequence>>

\* Abandoning or finishing a transaction.
CloseTransaction ==
    /\ in_txn' = FALSE
    /\ staged' = <<>>
    /\ UNCHANGED <<txn_id, declared_count>>

Consume ==
    /\ offset' = offset + 1
    /\ UNCHANGED <<bytes, pc>>

\* Variants with a mistake in them.
ScanBeginKeepingStaged ==
    /\ Scanning
    /\ IsBegin(record)
    /\ record.payload # Missing
    /\ in_txn' = TRUE
    /\ txn_id' = record.txn_id
    /\ declared_count' = record.payload
    /\ UNCHANGED <<staged, result>>
    /\ Consume
ScanCommitKeepingSequence ==
    /\ Scanning
    /\ AtCommit
    /\ record.payload = Crc(SubSeq(bytes, 1, offset))
    /\ Len(staged) = declared_count
    /\ committed_records' = committed_records \o staged
    /\ UNCHANGED <<sequence, diagnostics>>
    /\ CloseTransaction
    /\ Consume
IgnoreMismatchSilently(mismatch, reason) ==
    /\ Scanning
    /\ AtCommit
    /\ record.payload # Missing
    /\ mismatch
    /\ UNCHANGED result
    /\ CloseTransaction
    /\ Consume
ScanSkipWithoutConsuming ==
    /\ Scanning
    /\ ~IsTorn(record) /\ ~IsBegin(record) /\ ~AtCommit
    /\ ~in_txn
    /\ UNCHANGED vars

-----------------------------------------------------------------------------
(***************************************************************************)
(* The loop body.                                                          *)
(***************************************************************************)

\* The codec rejects the tail.
ScanUndecodable ==
    /\ Scanning
    /\ IsTorn(record)
    /\ Break("undecodable")

\* STATE_TXN_BEGIN whose payload holds no count.
ScanBeginMissing ==
    /\ Scanning
    /\ IsBegin(record)
    /\ record.payload = Missing
    /\ Break("begin without count")

\* STATE_TXN_BEGIN: whatever was open is dropped without a word.
ScanBegin ==
    /\ Scanning
    /\ IsBegin(record)
    /\ record.payload # Missing
    /\ in_txn' = TRUE
    /\ txn_id' = record.txn_id
    /\ declared_count' = record.payload
    /\ staged' = <<>>
    /\ UNCHANGED result
    /\ Consume

\* STATE_TXN_COMMIT whose payload holds no digest.
ScanCommitMissing ==
    /\ Scanning
    /\ AtCommit
    /\ record.payload = Missing
    /\ Break("commit without digest")

\* A commit that disagrees with the transaction: the transaction is ignored
\* and the scan goes on.
IgnoreMismatch(mismatch, reason) ==
    /\ Scanning
    /\ AtCommit
    /\ record.payload # Missing
    /\ mismatch
    /\ diagnostics' = Append(diagnostics, reason)
    /\ UNCHANGED <<committed_records, sequence>>
    /\ CloseTransaction
    /\ Consume

ScanCountMismatch ==
    IgnoreMismatch(Len(staged) # declared_count, "count mismatch")

ScanDigestMismatch ==
    IgnoreMismatch(/\ Len(staged) = declared_count
                   /\ record.payload # Crc(SubSeq(bytes, 1, offset)),
                   "digest mismatch")

\* The transaction is committed.
ScanCommit ==
    /\ Scanning
    /\ AtCommit
    /\ record.payload # Missing
    /\ Len(staged) = declared_count
    /\ record.payload = Crc(SubSeq(bytes, 1, offset))
    /\ committed_records' = committed_records \o staged
    /\ sequence' = record.new_sequence
    /\ UNCHANGED diagnostics
    /\ CloseTransaction
    /\ Consume

\* Any other record inside a transaction, a foreign commit record included.
ScanStage ==
    /\ Scanning
    /\ ~IsTorn(record) /\ ~IsBegin(record) /\ ~AtCommit
    /\ in_txn
    /\ staged' = Append(staged, offset + 1)
    /\ UNCHANGED <<in_txn, txn_id, declared_count, result>>
    /\ Consume

\* Any other record outside a transaction is passed over without a word.
ScanSkip ==
    /\ Scanning
    /\ ~IsTorn(record) /\ ~IsBegin(record) /\ ~AtCommit
    /\ ~in_txn
    /\ UNCHANGED <<txn, result>>
    /\ Consume

\* Past the loop: an open transaction is reported, and the result returned.
Finish ==
    /\ pc = "exit" \/ (pc = "scan" /\ offset = Len(bytes))
    /\ diagnostics' = IF in_txn THEN Append(diagnostics, "partial tail")
                                ELSE diagnostics
    /\ pc' = "done"
    /\ UNCHANGED <<bytes, offset, txn, committed_records, sequence>>

Next ==
    \/ ScanUndecodable
    \/ ScanBeginMissing
    \/ ScanBegin
    \/ ScanCommitMissing
    \/ ScanCountMismatch
    \/ ScanDigestMismatch
    \/ ScanCommit
    \/ ScanStage
    \/ ScanSkip
    \/ Finish

Spec == Init /\ [][Next]_vars

\* recover_log is a loop of one thread: it keeps running.
FairSpec == Spec /\ WF_vars(Next)

-----------------------------------------------------------------------------
(***************************************************************************)
(* Properties.                                                             *)
(***************************************************************************)

\* The records returned are those of the committed transactions, each once
\* and in log order: recover_log publishes exactly what the commit records
\* vouch for, whatever is torn, interrupted or interleaved around them.
ReturnsCommitted ==
    pc = "done" =>
        /\ {committed_records[k] : k \in 1..Len(committed_records)}
               = CommittedPositions(bytes)
        /\ \A j, k \in 1..Len(committed_records) :
               j < k => committed_records[j] < committed_records[k]

\* The sequence returned is the one of the last committed transaction, not
\* that of a later transaction that was ignored.
ReturnsLastSequence == pc = "done" => sequence = LastSequence(bytes)

\* 10_forge_incremental_build_graph_daemon.md:212: a partial transaction is
\* ignored after a diagnostic.  The code says nothing in two cases: a
\* transaction that is open when another begins, and records outside of any.
\* These two are all: recover_log complains if and only if some record is
\* neither in a committed transaction nor lost in one of these ways.
\* clean_log_bytes leaves a log alone on the strength of that silence.
LossesReported ==
    pc = "done" =>
        /\ diagnostics # <<>> <=> Diagnosed(bytes)
        /\ diagnostics # <<>> <=>
              \E p \in 1..Len(bytes) : /\ ~Kept(bytes, p)
                                       /\ ~DroppedAtBegin(bytes, p)
                                       /\ ~OutsideTransaction(bytes, p)

\* When recover_log complains, the compacted log (one begin, the committed
\* records, one commit) is shorter than the log.  append_transaction compares
\* nothing but the sizes to decide whether the file has to be replaced.
CompactionShrinks ==
    pc = "done" /\ diagnostics # <<>> /\ committed_records # <<>> =>
        Len(committed_records) + 2 < Len(bytes)

\* What a loop iteration may never do: take back a record it has published,
\* or publish the records of a transaction before its commit record is read.
PublishesOnCommit ==
    [][ /\ SubSeq(committed_records', 1, Len(committed_records)) = committed_records
        /\ committed_records' # committed_records =>
               IsCommit(bytes[offset']) /\ ~in_txn' ]_vars

\* recover_log returns, whatever the bytes.
Terminates == <>(pc = "done")

-----------------------------------------------------------------------------
(***************************************************************************)
(* Why they hold: what is true in front of every iteration of the loop.    *)
(***************************************************************************)

\* The positions published by the commit records up to position o.
Published(l, o) ==
    {p \in 1..Len(l) : \E b, i \in 1..Len(l) :
        i <= o /\ Commits(l, b, i) /\ b < p /\ p < i}

\* Everything consumed was readable.
ReadSoFar == \A k \in 1..offset : ~Stops(bytes, k)

\* The transaction the locals describe is the one open at offset, and the
\* staged records are all the records since its begin record.
StagedIsOpen ==
    /\ in_txn => \E b \in 1..offset :
          /\ OpenAt(bytes, b, offset + 1)
          /\ txn_id = bytes[b].txn_id
          /\ declared_count = bytes[b].payload
          /\ Len(staged) = offset - b
          /\ \A k \in 1..Len(staged) : staged[k] = b + k
    /\ ~in_txn => /\ staged = <<>>
                  /\ \A b \in 1..offset : ~OpenAt(bytes, b, offset + 1)

\* The result is the contract's, cut off at offset.
CommittedSoFar ==
    /\ {committed_records[k] : k \in 1..Len(committed_records)}
           = Published(bytes, offset)
    /\ \A j, k \in 1..Len(committed_records) :
           j < k => committed_records[j] < committed_records[k]

SequenceSoFar ==
    \/ /\ sequence = 0
       /\ \A b, i \in 1..Len(bytes) : i <= offset => ~Commits(bytes, b, i)
    \/ \E b, i \in 1..Len(bytes) :
          /\ i <= offset /\ Commits(bytes, b, i)
          /\ sequence = bytes[i].new_sequence
          /\ \A c, j \in 1..Len(bytes) : j <= offset /\ Commits(bytes, c, j) => j <= i

DiagnosedSoFar ==
    diagnostics # <<>> <=>
        \E i \in 1..offset : \E b \in 1..(i - 1) :
            Closes(bytes, b, i) /\ ~Intact(bytes, b, i)

\* Without a complaint, what was read is kept, lost in one of the two ways
\* nobody hears of, or in the open transaction.
LostSoFar ==
    diagnostics = <<>> =>
        \A p \in 1..offset :
            \/ Kept(bytes, p)
            \/ DroppedAtBegin(bytes, p)
            \/ OutsideTransaction(bytes, p)
            \/ \E b \in 1..p : OpenAt(bytes, b, offset + 1)

\* A record published or staged takes a cell, and so does each begin and
\* commit record and whatever was complained about.
PublishedCells ==
    Len(committed_records) + (IF committed_records = <<>> THEN 0 ELSE 2)
OpenCells == IF in_txn THEN 1 + Len(staged) ELSE 0
ComplaintCells == IF diagnostics = <<>> THEN 0 ELSE 1
CellsAccountedFor ==
    PublishedCells + OpenCells + ComplaintCells
        <= (IF pc = "exit" THEN offset + 1 ELSE offset)

\* The inductive invariant of recover_log.
LoopInvariant ==
    /\ TypeOK
    /\ pc \in {"scan", "exit"} =>
          /\ ReadSoFar
          /\ StagedIsOpen
          /\ CommittedSoFar
          /\ SequenceSoFar
          /\ CellsAccountedFor
    /\ pc = "scan" => DiagnosedSoFar /\ LostSoFar
    /\ pc = "exit" => /\ diagnostics # <<>>
                      /\ offset < Len(bytes)
                      /\ Stops(bytes, offset + 1)
    /\ ReturnsCommitted
    /\ ReturnsLastSequence
    /\ LossesReported
    /\ CompactionShrinks

=============================================================================
