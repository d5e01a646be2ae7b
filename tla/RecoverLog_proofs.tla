-------------------------- MODULE RecoverLog_proofs -------------------------
(***************************************************************************)
(* recover_log meets the contract of StateLog for every log, every         *)
(* checksum and every number of records.                                   *)
(***************************************************************************)
EXTENDS RecoverLog, SequenceTheorems, TLAPS

-----------------------------------------------------------------------------
(***************************************************************************)
(* Facts about the contract: how it moves from one position to the next.   *)
(***************************************************************************)

\* A begin record at position o + 1 opens its transaction and no other is
\* open behind it.
LEMMA OpenAfterBegin ==
    ASSUME NEW l, NEW o \in Nat, IsBegin(l[o + 1]), NEW b \in Nat
    PROVE  OpenAt(l, b, o + 2) <=> b = o + 1
  BY DEF OpenAt

\* Behind any other record, the transaction open in front of it is open
\* still, unless the record was its commit.
LEMMA OpenAfterOther ==
    ASSUME NEW l, NEW o \in Nat, ~IsBegin(l[o + 1]), NEW b \in Nat
    PROVE  OpenAt(l, b, o + 2) <=> OpenAt(l, b, o + 1) /\ ~CommitOf(l, b, o + 1)
  BY DEF OpenAt

\* At most one transaction is open at a position.
LEMMA OpenIsUnique ==
    ASSUME NEW l, NEW i \in Nat, NEW b \in Nat, NEW c \in Nat,
           OpenAt(l, b, i), OpenAt(l, c, i)
    PROVE  b = c
  BY DEF OpenAt

\* A transaction closed at or before o lies in front of the one open behind o.
LEMMA ClosedBeforeOpen ==
    ASSUME NEW l, NEW o \in Nat, NEW b \in Nat, OpenAt(l, b, o + 1),
           NEW c \in Nat, NEW i \in Nat, i <= o, Closes(l, c, i)
    PROVE  i < b
  BY DEF OpenAt, Closes, CommitOf, IsBegin, IsCommit

\* What is published behind a record that commits nothing.
LEMMA PublishedSame ==
    ASSUME NEW l, NEW o \in Nat, Len(l) \in Nat,
           \A b \in 1..Len(l) : ~Commits(l, b, o + 1)
    PROVE  Published(l, o + 1) = Published(l, o)
  BY DEF Published

\* What is published behind the commit record of the transaction begun at b.
LEMMA PublishedMore ==
    ASSUME NEW l, NEW o \in Nat, Len(l) \in Nat, o < Len(l),
           NEW b \in 1..o, Commits(l, b, o + 1)
    PROVE  Published(l, o + 1) = Published(l, o) \cup (b + 1)..o
<1>1. \A c \in 1..Len(l) : Commits(l, c, o + 1) => c = b
  BY OpenIsUnique DEF Commits, Closes
<1>2. QED  BY <1>1 DEF Published

-----------------------------------------------------------------------------
(***************************************************************************)
(* The loop invariant holds initially.                                     *)
(***************************************************************************)
LEMMA InitEstablishes == Init => LoopInvariant
<1> SUFFICES ASSUME Init PROVE LoopInvariant
  OBVIOUS
<1>1. bytes \in Seq(Cells) /\ Len(bytes) \in Nat
  BY LogsAssumption DEF Init
<1>2. TypeOK
  <2>1. \A S : <<>> \in Seq(S)
    OBVIOUS
  <2>2. offset \in 0..Len(bytes)
    BY <1>1 DEF Init
  <2>3. in_txn \in BOOLEAN /\ pc \in {"scan", "exit", "done"}
    BY DEF Init
  <2>4. QED  BY <1>1, <2>1, <2>2, <2>3 DEF Init, TypeOK
<1>3. Published(bytes, 0) = {}
  BY <1>1 DEF Published
<1>4. ReadSoFar /\ StagedIsOpen /\ CommittedSoFar /\ SequenceSoFar
      /\ DiagnosedSoFar /\ LostSoFar
  BY <1>1, <1>3 DEF Init, ReadSoFar, StagedIsOpen, CommittedSoFar, SequenceSoFar,
                    DiagnosedSoFar, LostSoFar
<1>5. CellsAccountedFor
  BY DEF Init, CellsAccountedFor, PublishedCells, OpenCells, ComplaintCells
<1>6. QED
  BY <1>2, <1>4, <1>5 DEF Init, LoopInvariant, ReturnsCommitted, ReturnsLastSequence,
                    LossesReported, CompactionShrinks

-----------------------------------------------------------------------------
(***************************************************************************)
(* Every step keeps the types.                                             *)
(***************************************************************************)
LEMMA Reasons ==
    /\ "undecodable" \in Diagnostic /\ "begin without count" \in Diagnostic
    /\ "commit without digest" \in Diagnostic /\ "count mismatch" \in Diagnostic
    /\ "digest mismatch" \in Diagnostic /\ "partial tail" \in Diagnostic
  BY DEF Diagnostic

LEMMA Complaint ==
    ASSUME NEW d \in Seq(Diagnostic), NEW reason \in Diagnostic
    PROVE  Append(d, reason) \in Seq(Diagnostic) /\ Append(d, reason) # <<>>
  BY AppendProperties

LEMMA Bounds ==
    ASSUME TypeOK
    PROVE  /\ Len(bytes) \in Nat /\ offset \in Nat /\ offset <= Len(bytes)
           /\ Len(staged) \in Nat /\ Len(committed_records) \in Nat
           /\ Scanning => offset + 1 \in 1..Len(bytes) /\ offset + 1 \in 0..Len(bytes)
<1>1. Len(bytes) \in Nat /\ Len(staged) \in Nat /\ Len(committed_records) \in Nat
  BY LenProperties DEF TypeOK
<1>2. offset \in 0..Len(bytes)
  BY DEF TypeOK
<1>3. QED  BY <1>1, <1>2 DEF Scanning

LEMMA CellCounts ==
    ASSUME TypeOK
    PROVE  PublishedCells \in Nat /\ OpenCells \in Nat /\ ComplaintCells \in 0..1
  BY Bounds DEF PublishedCells, OpenCells, ComplaintCells

LEMMA TypeStep == TypeOK /\ [Next]_vars => TypeOK'
<1> SUFFICES ASSUME TypeOK, [Next]_vars PROVE TypeOK'
  OBVIOUS
<1> USE DEF TypeOK, Consume, CloseTransaction, txn, result
<1>1. CASE ScanUndecodable
  BY <1>1, Reasons, Complaint DEF ScanUndecodable, Break
<1>2. CASE ScanBeginMissing
  BY <1>2, Reasons, Complaint DEF ScanBeginMissing, Break
<1>3. CASE ScanBegin
  BY <1>3, Bounds, EmptySeq DEF ScanBegin
<1>4. CASE ScanCommitMissing
  BY <1>4, Reasons, Complaint DEF ScanCommitMissing, Break
<1>5. CASE ScanCountMismatch
  BY <1>5, Bounds, EmptySeq, Reasons, Complaint DEF ScanCountMismatch, IgnoreMismatch
<1>6. CASE ScanDigestMismatch
  BY <1>6, Bounds, EmptySeq, Reasons, Complaint DEF ScanDigestMismatch, IgnoreMismatch
<1>7. CASE ScanCommit
  BY <1>7, Bounds, EmptySeq, ConcatProperties DEF ScanCommit
<1>8. CASE ScanStage
  BY <1>8, Bounds, AppendProperties DEF ScanStage
<1>9. CASE ScanSkip
  BY <1>9, Bounds DEF ScanSkip
<1>10. CASE Finish
  BY <1>10, Reasons, Complaint DEF Finish
<1>11. CASE UNCHANGED vars
  BY <1>11 DEF vars
<1>12. QED
  BY <1>1, <1>2, <1>3, <1>4, <1>5, <1>6, <1>7, <1>8, <1>9, <1>10, <1>11 DEF Next

-----------------------------------------------------------------------------
(***************************************************************************)
(* What the locals say about the record at hand.                           *)
(***************************************************************************)

\* The test the code makes for a commit record is the contract's: the record
\* closes the transaction that is open in front of it.
LEMMA AtCommitIsCloses ==
    ASSUME TypeOK, Scanning, StagedIsOpen
    PROVE  AtCommit <=> \E b \in 1..offset : Closes(bytes, b, offset + 1)
<1>1. ASSUME AtCommit PROVE \E b \in 1..offset : Closes(bytes, b, offset + 1)
  BY <1>1 DEF AtCommit, StagedIsOpen, Closes, CommitOf, record
<1>2. ASSUME NEW b \in 1..offset, Closes(bytes, b, offset + 1) PROVE AtCommit
  <2>1. OpenAt(bytes, b, offset + 1)
    BY <1>2 DEF Closes
  <2>2. in_txn
    BY <2>1 DEF StagedIsOpen, TypeOK
  <2>3. PICK c \in 1..offset : OpenAt(bytes, c, offset + 1) /\ txn_id = bytes[c].txn_id
    BY <2>2 DEF StagedIsOpen
  <2>4. c = b
    BY <2>1, <2>3, OpenIsUnique DEF TypeOK
  <2>5. QED  BY <1>2, <2>2, <2>3, <2>4 DEF AtCommit, Closes, CommitOf, record
<1>3. QED  BY <1>1, <1>2

\* The code stops where the contract says a reader stops.
LEMMA StopsIsBreak ==
    ASSUME TypeOK, Scanning, StagedIsOpen
    PROVE  Stops(bytes, offset + 1) <=>
              \/ IsTorn(record)
              \/ IsBegin(record) /\ record.payload = Missing
              \/ AtCommit /\ record.payload = Missing
<1>1. 1..((offset + 1) - 1) = 1..offset
  BY DEF TypeOK
<1>2. QED  BY <1>1, AtCommitIsCloses DEF Stops, record

\* A record that closes nothing and does not stop the reader leaves the
\* result as far as it goes.
LEMMA QuietStep ==
    ASSUME TypeOK, Scanning, ReadSoFar, StagedIsOpen, CommittedSoFar, SequenceSoFar,
           DiagnosedSoFar, ~AtCommit, ~Stops(bytes, offset + 1),
           Consume, UNCHANGED result
    PROVE  ReadSoFar' /\ CommittedSoFar' /\ SequenceSoFar' /\ DiagnosedSoFar'
<1> USE DEF Consume, result
<1>0. /\ Len(bytes) \in Nat /\ offset \in Nat /\ offset < Len(bytes)
      /\ 1..((offset + 1) - 1) = 1..offset
  BY Bounds DEF Scanning
<1>1. \A b \in 1..offset : ~Closes(bytes, b, offset + 1)
  BY AtCommitIsCloses
<1>2. \A b \in 1..Len(bytes) : ~Commits(bytes, b, offset + 1)
  BY <1>0, <1>1 DEF Commits, Closes, OpenAt
<1>3. ReadSoFar'
  BY <1>0 DEF ReadSoFar
<1>4. CommittedSoFar'
  <2>1. Published(bytes, offset + 1) = Published(bytes, offset)
    BY <1>0, <1>2, PublishedSame
  <2>2. QED  BY <2>1 DEF CommittedSoFar
<1>5. \A b, i \in 1..Len(bytes) : Commits(bytes, b, i) => (i <= offset + 1 <=> i <= offset)
  BY <1>0, <1>2
<1>6. SequenceSoFar'
  BY <1>5 DEF SequenceSoFar
<1>7. DiagnosedSoFar'
  BY <1>0, <1>1 DEF DiagnosedSoFar
<1>8. QED  BY <1>3, <1>4, <1>6, <1>7

-----------------------------------------------------------------------------
(***************************************************************************)
(* Each branch of the loop keeps the invariant.                            *)
(***************************************************************************)

\* What holds in front of an iteration.
Loop ==
    /\ ReadSoFar /\ StagedIsOpen /\ CommittedSoFar /\ SequenceSoFar
    /\ CellsAccountedFor /\ DiagnosedSoFar /\ LostSoFar

\* What is known of the records before the one that is read stays known, but
\* for those of the open transaction.
LEMMA LostStep ==
    ASSUME TypeOK, Loop, Scanning, Consume, UNCHANGED diagnostics,
           diagnostics = <<>> =>
              \A p \in 1..(offset + 1) :
                 (p = offset + 1 \/ \E b \in 1..p : OpenAt(bytes, b, offset + 1)) =>
                    \/ Kept(bytes, p) \/ DroppedAtBegin(bytes, p) \/ OutsideTransaction(bytes, p)
                    \/ \E b \in 1..p : OpenAt(bytes, b, offset + 2)
    PROVE  LostSoFar'
<1>0. offset \in Nat /\ offset' = offset + 1 /\ bytes' = bytes /\ offset' + 1 = offset + 2
  BY Bounds DEF Consume
<1>1. \A p \in 1..(offset + 1) : p \in 1..offset \/ p = offset + 1
  BY <1>0
<1>2. SUFFICES ASSUME diagnostics = <<>>, NEW p \in 1..(offset + 1)
               PROVE  \/ Kept(bytes, p) \/ DroppedAtBegin(bytes, p) \/ OutsideTransaction(bytes, p)
                      \/ \E b \in 1..p : OpenAt(bytes, b, offset + 2)
  BY <1>0 DEF LostSoFar
<1>3. CASE p \in 1..offset
  BY <1>2, <1>3 DEF Loop, LostSoFar
<1>4. CASE p = offset + 1
  BY <1>2, <1>4
<1> QED  BY <1>1, <1>3, <1>4

\* The record the code reads is one the reader of the contract gets to.
LEMMA ReachedNext ==
    ASSUME TypeOK, Loop
    PROVE  Reached(bytes, offset + 1)
<1>1. 1..((offset + 1) - 1) = 1..offset
  BY Bounds
<1> QED  BY <1>1 DEF Loop, ReadSoFar, Reached

\* The three branches that leave the loop keep what was found so far.
LEMMA BreakStep ==
    ASSUME TypeOK, TypeOK', Loop, Scanning, Stops(bytes, offset + 1),
           NEW reason \in Diagnostic, Break(reason)
    PROVE  LoopInvariant'
<1> USE DEF Break, txn, Scanning
<1>1. diagnostics' # <<>>
  BY Complaint DEF TypeOK
<1>2. ReadSoFar' /\ StagedIsOpen' /\ CommittedSoFar' /\ SequenceSoFar'
  BY DEF Loop, ReadSoFar, StagedIsOpen, CommittedSoFar, SequenceSoFar
<1>3. CellsAccountedFor'
  <2>1. PublishedCells' = PublishedCells /\ OpenCells' = OpenCells /\ ComplaintCells' = 1
    BY <1>1 DEF PublishedCells, OpenCells, ComplaintCells
  <2>2. PublishedCells + OpenCells + ComplaintCells <= offset
    BY DEF Loop, CellsAccountedFor
  <2>3. QED  BY <2>1, <2>2, Bounds, CellCounts DEF CellsAccountedFor
<1>4. QED
  BY <1>1, <1>2, <1>3 DEF LoopInvariant, ReturnsCommitted, ReturnsLastSequence,
                          LossesReported, CompactionShrinks

\* A begin record: its transaction is the open one, with nothing staged.
LEMMA BeginStep ==
    ASSUME TypeOK, Loop, ScanBegin
    PROVE  Loop' /\ pc' = "scan"
<1> USE DEF ScanBegin, Scanning
<1>0. Len(bytes) \in Nat /\ offset \in Nat /\ offset < Len(bytes)
  BY Bounds
<1>1. ~AtCommit /\ ~IsTorn(record)
  BY DEF AtCommit, IsBegin, IsCommit, IsTorn
<1>2. ~Stops(bytes, offset + 1)
  BY <1>1, StopsIsBreak DEF Loop
<1>3. ReadSoFar' /\ CommittedSoFar' /\ SequenceSoFar' /\ DiagnosedSoFar'
  BY <1>1, <1>2, QuietStep DEF Loop
<1>4. StagedIsOpen'
  <2>1. OpenAt(bytes, offset + 1, offset + 2)
    BY <1>0, OpenAfterBegin DEF record
  <2>2. (offset + 1) + 1 = offset + 2 /\ offset + 1 \in 1..(offset + 1)
    BY <1>0
  <2>3. Len(staged') = 0 /\ (offset + 1) - (offset + 1) = 0
    BY <1>0
  <2>4. QED  BY <1>0, <2>1, <2>2, <2>3 DEF StagedIsOpen, Consume, record
<1>5. CellsAccountedFor'
  <2>1. PublishedCells' = PublishedCells /\ OpenCells' = 1 /\ ComplaintCells' = ComplaintCells
    BY DEF PublishedCells, OpenCells, ComplaintCells, result
  <2>2. PublishedCells + OpenCells + ComplaintCells <= offset
    BY DEF Loop, CellsAccountedFor
  <2>3. QED  BY <1>0, <2>1, <2>2, CellCounts DEF CellsAccountedFor, Consume
<1>6. LostSoFar'
  <2>1. OpenAt(bytes, offset + 1, offset + 2)
    BY <1>0, OpenAfterBegin DEF record
  <2>2. Reached(bytes, offset + 1) /\ IsBegin(bytes[offset + 1]) /\ offset + 1 \in 1..Len(bytes)
    BY <1>0, ReachedNext DEF record
  <2>3. ASSUME NEW p \in 1..(offset + 1), NEW b \in 1..p, OpenAt(bytes, b, offset + 1)
        PROVE  DroppedAtBegin(bytes, p) \/ p = offset + 1
    <3>1. b \in 1..Len(bytes) /\ b <= p /\ (p < offset + 1 \/ p = offset + 1)
      BY <1>0, <2>3
    <3> QED  BY <1>2, <2>2, <2>3, <3>1 DEF DroppedAtBegin
  <2>4. \A p \in 1..(offset + 1) : p = offset + 1 => \E b \in 1..p : OpenAt(bytes, b, offset + 2)
    BY <1>0, <2>1
  <2> QED  BY <2>3, <2>4, LostStep DEF result
<1>7. QED  BY <1>3, <1>4, <1>5, <1>6 DEF Loop, Consume

\* A record inside the transaction: it is staged behind the others.
LEMMA StageStep ==
    ASSUME TypeOK, Loop, ScanStage
    PROVE  Loop' /\ pc' = "scan"
<1> USE DEF ScanStage, Scanning
<1>0. Len(bytes) \in Nat /\ offset \in Nat /\ offset < Len(bytes) /\ Len(staged) \in Nat
  BY Bounds
<1>1. ~Stops(bytes, offset + 1)
  BY StopsIsBreak DEF Loop
<1>2. ReadSoFar' /\ CommittedSoFar' /\ SequenceSoFar' /\ DiagnosedSoFar'
  BY <1>1, QuietStep DEF Loop
<1>3. /\ Len(staged') = Len(staged) + 1
      /\ \A k \in 1..Len(staged) : staged'[k] = staged[k]
      /\ staged'[Len(staged) + 1] = offset + 1
  <2>1. staged \in Seq(1..Len(bytes)) /\ offset + 1 \in 1..Len(bytes)
    BY Bounds DEF TypeOK
  <2>2. QED  BY <2>1, AppendProperties
<1>4. StagedIsOpen'
  <2>1. PICK b \in 1..offset :
          /\ OpenAt(bytes, b, offset + 1)
          /\ txn_id = bytes[b].txn_id
          /\ declared_count = bytes[b].payload
          /\ Len(staged) = offset - b
          /\ \A k \in 1..Len(staged) : staged[k] = b + k
    BY DEF Loop, StagedIsOpen
  <2>2. ~CommitOf(bytes, b, offset + 1)
    BY <2>1 DEF AtCommit, CommitOf, record
  <2>3. OpenAt(bytes, b, (offset + 1) + 1)
    <3>1. OpenAt(bytes, b, offset + 2)
      BY <1>0, <2>1, <2>2, OpenAfterOther DEF record
    <3>2. QED  BY <1>0, <3>1
  <2>4. Len(staged') = (offset + 1) - b /\ b \in 1..(offset + 1)
    BY <1>0, <1>3, <2>1
  <2>5. \A k \in 1..Len(staged') : staged'[k] = b + k
    <3>1. \A k \in 1..Len(staged') : k \in 1..Len(staged) \/ k = Len(staged) + 1
      BY <1>0, <1>3
    <3>2. staged'[Len(staged) + 1] = b + (Len(staged) + 1)
      BY <1>0, <1>3, <2>1
    <3>3. QED  BY <1>3, <2>1, <3>1, <3>2
  <2>6. QED  BY <2>1, <2>3, <2>4, <2>5 DEF StagedIsOpen, Consume
<1>5. CellsAccountedFor'
  <2>1. PublishedCells' = PublishedCells /\ ComplaintCells' = ComplaintCells
    BY DEF PublishedCells, ComplaintCells, result
  <2>2. OpenCells' = OpenCells + 1
    BY <1>0, <1>3 DEF OpenCells
  <2>3. PublishedCells + OpenCells + ComplaintCells <= offset
    BY DEF Loop, CellsAccountedFor
  <2>4. QED  BY <1>0, <2>1, <2>2, <2>3, CellCounts DEF CellsAccountedFor, Consume
<1>6. LostSoFar'
  <2>1. PICK b \in 1..offset : OpenAt(bytes, b, offset + 1) /\ txn_id = bytes[b].txn_id
    BY DEF Loop, StagedIsOpen
  <2>2. ~CommitOf(bytes, b, offset + 1)
    BY <2>1 DEF AtCommit, CommitOf, record
  <2>3. OpenAt(bytes, b, offset + 2)
    BY <1>0, <2>1, <2>2, OpenAfterOther DEF record
  <2>4. ASSUME NEW p \in 1..(offset + 1),
               p = offset + 1 \/ \E c \in 1..p : OpenAt(bytes, c, offset + 1)
        PROVE  \E c \in 1..p : OpenAt(bytes, c, offset + 2)
    <3>1. CASE p = offset + 1
      BY <1>0, <2>3, <3>1
    <3>2. CASE \E c \in 1..p : OpenAt(bytes, c, offset + 1)
      <4>1. PICK c \in 1..p : OpenAt(bytes, c, offset + 1)
        BY <3>2
      <4>2. c = b
        BY <1>0, <2>1, <4>1, OpenIsUnique
      <4> QED  BY <2>3, <4>1, <4>2
    <3> QED  BY <2>4, <3>1, <3>2
  <2> QED  BY <2>4, LostStep DEF result
<1>7. QED  BY <1>2, <1>4, <1>5, <1>6 DEF Loop, Consume

\* A record outside any transaction.
LEMMA SkipStep ==
    ASSUME TypeOK, Loop, ScanSkip
    PROVE  Loop' /\ pc' = "scan"
<1> USE DEF ScanSkip, Scanning
<1>0. Len(bytes) \in Nat /\ offset \in Nat /\ offset < Len(bytes)
  BY Bounds
<1>1. ~Stops(bytes, offset + 1)
  BY StopsIsBreak DEF Loop
<1>2. ReadSoFar' /\ CommittedSoFar' /\ SequenceSoFar' /\ DiagnosedSoFar'
  BY <1>1, QuietStep DEF Loop
<1>3. \A b \in 1..(offset + 1) : ~OpenAt(bytes, b, (offset + 1) + 1)
  <2>1. \A b \in 1..(offset + 1) : OpenAt(bytes, b, offset + 2) => OpenAt(bytes, b, offset + 1)
    BY <1>0, OpenAfterOther DEF record
  <2>2. \A b \in 1..(offset + 1) : OpenAt(bytes, b, offset + 1) => b \in 1..offset
    BY <1>0 DEF OpenAt
  <2>3. (offset + 1) + 1 = offset + 2
    BY <1>0
  <2>4. QED  BY <2>1, <2>2, <2>3 DEF Loop, StagedIsOpen
<1>4. StagedIsOpen'
  BY <1>3 DEF Loop, StagedIsOpen, Consume, txn
<1>5. CellsAccountedFor'
  <2>1. /\ PublishedCells' = PublishedCells /\ OpenCells' = OpenCells
        /\ ComplaintCells' = ComplaintCells
    BY DEF PublishedCells, OpenCells, ComplaintCells, result, txn
  <2>2. PublishedCells + OpenCells + ComplaintCells <= offset
    BY DEF Loop, CellsAccountedFor
  <2>3. QED  BY <1>0, <2>1, <2>2, CellCounts DEF CellsAccountedFor, Consume
<1>6. LostSoFar'
  <2>1. \A b \in 1..offset : ~OpenAt(bytes, b, offset + 1)
    BY DEF Loop, StagedIsOpen
  <2>2. OutsideTransaction(bytes, offset + 1)
    <3>1. 1..((offset + 1) - 1) = 1..offset
      BY <1>0
    <3> QED  BY <1>1, <2>1, <3>1, ReachedNext DEF OutsideTransaction, record
  <2>3. ASSUME NEW p \in 1..(offset + 1), NEW b \in 1..p, OpenAt(bytes, b, offset + 1)
        PROVE  FALSE
    <3>1. b \in 1..offset
      BY <1>0, <2>3 DEF OpenAt
    <3> QED  BY <2>1, <2>3, <3>1
  <2> QED  BY <2>2, <2>3, LostStep DEF result
<1>7. QED  BY <1>2, <1>4, <1>5, <1>6 DEF Loop, Consume

\* The transaction a commit record closes, as the locals have it.
LEMMA ClosedTransaction ==
    ASSUME TypeOK, Loop, Scanning, AtCommit, record.payload # Missing
    PROVE  \E b \in 1..offset :
             /\ OpenAt(bytes, b, offset + 1)
             /\ Closes(bytes, b, offset + 1)
             /\ Len(staged) = offset - b
             /\ \A k \in 1..Len(staged) : staged[k] = b + k
             /\ Intact(bytes, b, offset + 1) <=>
                   /\ Len(staged) = declared_count
                   /\ record.payload = Crc(SubSeq(bytes, 1, offset))
             /\ \A c \in 1..offset : Closes(bytes, c, offset + 1) => c = b
<1>0. Len(bytes) \in Nat /\ offset \in Nat /\ offset < Len(bytes)
  BY Bounds DEF Scanning
<1>1. PICK b \in 1..offset :
        /\ OpenAt(bytes, b, offset + 1)
        /\ txn_id = bytes[b].txn_id
        /\ declared_count = bytes[b].payload
        /\ Len(staged) = offset - b
        /\ \A k \in 1..Len(staged) : staged[k] = b + k
  BY DEF Loop, StagedIsOpen, AtCommit
<1>2. Closes(bytes, b, offset + 1)
  BY <1>1 DEF Closes, CommitOf, AtCommit, record
<1>3. (offset + 1) - b - 1 = offset - b /\ (offset + 1) - 1 = offset
  BY <1>0
<1>4. Intact(bytes, b, offset + 1) <=> /\ Len(staged) = declared_count
                                       /\ record.payload = Crc(SubSeq(bytes, 1, offset))
  BY <1>1, <1>3 DEF Intact, record
<1>5. \A c \in 1..offset : Closes(bytes, c, offset + 1) => c = b
  BY <1>0, <1>1, OpenIsUnique DEF Closes
<1>6. QED  BY <1>1, <1>2, <1>4, <1>5

\* Behind a commit record nothing is open, and the reader goes on.
LEMMA ClosingStep ==
    ASSUME TypeOK, Loop, Scanning, AtCommit, record.payload # Missing,
           CloseTransaction, Consume
    PROVE  ReadSoFar' /\ StagedIsOpen' /\ ~Stops(bytes, offset + 1)
<1>0. Len(bytes) \in Nat /\ offset \in Nat /\ offset < Len(bytes)
  BY Bounds DEF Scanning
<1>1. ~IsTorn(record) /\ ~IsBegin(record)
  BY DEF AtCommit, IsCommit, IsTorn, IsBegin
<1>2. ~Stops(bytes, offset + 1)
  BY <1>1, StopsIsBreak DEF Loop
<1>3. ReadSoFar'
  BY <1>0, <1>2 DEF Loop, ReadSoFar, Consume
<1>4. ASSUME NEW b \in 1..(offset + 1), OpenAt(bytes, b, (offset + 1) + 1) PROVE FALSE
  <2>1. OpenAt(bytes, b, offset + 2)
    BY <1>0, <1>4
  <2>2. OpenAt(bytes, b, offset + 1) /\ ~CommitOf(bytes, b, offset + 1)
    BY <1>0, <1>1, <2>1, OpenAfterOther DEF record
  <2>3. PICK c \in 1..offset : OpenAt(bytes, c, offset + 1) /\ txn_id = bytes[c].txn_id
    BY DEF Loop, StagedIsOpen, AtCommit
  <2>4. b = c
    BY <1>0, <2>2, <2>3, OpenIsUnique
  <2>5. QED  BY <2>2, <2>3, <2>4 DEF AtCommit, CommitOf, record
<1>5. StagedIsOpen'
  BY <1>4 DEF StagedIsOpen, CloseTransaction, Consume
<1>6. QED  BY <1>2, <1>3, <1>5

\* A transaction ignored for its count or its digest.
LEMMA IgnoreStep ==
    ASSUME TypeOK, Loop, NEW reason \in Diagnostic, NEW mismatch \in BOOLEAN,
           mismatch => ~ /\ Len(staged) = declared_count
                         /\ record.payload = Crc(SubSeq(bytes, 1, offset)),
           IgnoreMismatch(mismatch, reason)
    PROVE  Loop' /\ pc' = "scan"
<1> USE DEF IgnoreMismatch
<1>0. Len(bytes) \in Nat /\ offset \in Nat /\ offset < Len(bytes)
  BY Bounds DEF Scanning
<1>1. ReadSoFar' /\ StagedIsOpen'
  BY ClosingStep
<1>2. PICK b \in 1..offset :
        /\ Closes(bytes, b, offset + 1)
        /\ ~Intact(bytes, b, offset + 1)
        /\ \A c \in 1..offset : Closes(bytes, c, offset + 1) => c = b
  BY ClosedTransaction
<1>3. \A c \in 1..Len(bytes) : ~Commits(bytes, c, offset + 1)
  <2>1. \A c \in 1..Len(bytes) : Closes(bytes, c, offset + 1) => c \in 1..offset
    BY <1>0 DEF Closes, OpenAt
  <2>2. QED  BY <1>2, <2>1 DEF Commits
<1>4. CommittedSoFar'
  <2>1. Published(bytes, offset + 1) = Published(bytes, offset)
    BY <1>0, <1>3, PublishedSame
  <2>2. QED  BY <2>1 DEF Loop, CommittedSoFar, Consume
<1>5. SequenceSoFar'
  <2>1. \A c, i \in 1..Len(bytes) : Commits(bytes, c, i) => (i <= offset + 1 <=> i <= offset)
    BY <1>0, <1>3
  <2>2. QED  BY <2>1 DEF Loop, SequenceSoFar, Consume
<1>6. diagnostics' # <<>>
  BY Complaint DEF TypeOK
<1>7. DiagnosedSoFar'
  <2>1. offset + 1 \in 1..(offset + 1) /\ b \in 1..((offset + 1) - 1)
    BY <1>0
  <2>2. QED  BY <1>2, <1>6, <2>1 DEF DiagnosedSoFar, Consume
<1>8. CellsAccountedFor'
  <2>1. PublishedCells' = PublishedCells /\ OpenCells' = 0 /\ ComplaintCells' = 1
    BY <1>6 DEF PublishedCells, OpenCells, ComplaintCells, CloseTransaction
  <2>2. PublishedCells + OpenCells + ComplaintCells <= offset
    BY DEF Loop, CellsAccountedFor, Scanning
  <2>3. OpenCells >= 1
    BY Bounds DEF OpenCells, AtCommit
  <2>4. QED  BY <1>0, <2>1, <2>2, <2>3, CellCounts DEF CellsAccountedFor, Consume, Scanning
<1>9. LostSoFar'
  BY <1>6 DEF LostSoFar
<1>10. QED  BY <1>1, <1>4, <1>5, <1>7, <1>8, <1>9 DEF Loop, Consume, Scanning

\* A committed transaction: what was staged is published behind the rest.
LEMMA CommitStep ==
    ASSUME TypeOK, Loop, ScanCommit
    PROVE  Loop' /\ pc' = "scan"
<1> USE DEF ScanCommit
<1>0. /\ Len(bytes) \in Nat /\ offset \in Nat /\ offset < Len(bytes)
      /\ Len(staged) \in Nat /\ Len(committed_records) \in Nat
  BY Bounds DEF Scanning
<1>1. ReadSoFar' /\ StagedIsOpen' /\ ~Stops(bytes, offset + 1)
  BY ClosingStep
<1>2. PICK b \in 1..offset :
        /\ OpenAt(bytes, b, offset + 1)
        /\ Closes(bytes, b, offset + 1)
        /\ Len(staged) = offset - b
        /\ \A k \in 1..Len(staged) : staged[k] = b + k
        /\ Intact(bytes, b, offset + 1)
        /\ \A c \in 1..offset : Closes(bytes, c, offset + 1) => c = b
  BY ClosedTransaction
<1>3. Commits(bytes, b, offset + 1)
  <2>1. Reached(bytes, offset + 1)
    BY <1>0 DEF Loop, ReadSoFar, Reached
  <2>2. QED  BY <1>1, <1>2, <2>1 DEF Commits
<1>4. /\ Len(committed_records') = Len(committed_records) + Len(staged)
      /\ \A k \in 1..Len(committed_records) : committed_records'[k] = committed_records[k]
      /\ \A k \in 1..Len(staged) : committed_records'[Len(committed_records) + k] = b + k
  <2>1. /\ Len(committed_records') = Len(committed_records) + Len(staged)
        /\ \A k \in 1..(Len(committed_records) + Len(staged)) :
              committed_records'[k] = IF k <= Len(committed_records)
                                      THEN committed_records[k]
                                      ELSE staged[k - Len(committed_records)]
    BY ConcatProperties DEF TypeOK
  <2>2. \A k \in 1..Len(staged) : /\ Len(committed_records) + k \in 1..(Len(committed_records) + Len(staged))
                                  /\ ~(Len(committed_records) + k <= Len(committed_records))
                                  /\ (Len(committed_records) + k) - Len(committed_records) = k
    BY <1>0
  <2>3. QED  BY <1>0, <1>2, <2>1, <2>2
<1>5. \A k \in 1..Len(committed_records) : committed_records[k] \in Nat /\ committed_records[k] < b
  <2>1. \A p \in Published(bytes, offset) : p \in Nat /\ p < b
    <3> SUFFICES ASSUME NEW p \in 1..Len(bytes), NEW c \in 1..Len(bytes), NEW i \in 1..Len(bytes),
                        i <= offset, Commits(bytes, c, i), c < p, p < i
                 PROVE  p < b
      BY <1>0 DEF Published
    <3>1. i < b
      BY <1>0, <1>2, ClosedBeforeOpen DEF Commits
    <3>2. QED  BY <1>0, <3>1
  <2>2. QED  BY <2>1 DEF Loop, CommittedSoFar
<1>6. CommittedSoFar'
  <2>1. Published(bytes, offset + 1) = Published(bytes, offset) \cup (b + 1)..offset
    BY <1>0, <1>3, PublishedMore
  <2>2. \A k \in 1..Len(committed_records') :
          \/ k \in 1..Len(committed_records)
          \/ \E m \in 1..Len(staged) : k = Len(committed_records) + m
    <3> TAKE k \in 1..Len(committed_records')
    <3>1. CASE k <= Len(committed_records)
      BY <1>0, <1>4, <3>1
    <3>2. CASE k > Len(committed_records)
      <4>1. /\ k - Len(committed_records) \in 1..Len(staged)
            /\ k = Len(committed_records) + (k - Len(committed_records))
        BY <1>0, <1>4, <3>2
      <4>2. QED  BY <4>1
    <3>3. QED  BY <1>0, <1>4, <3>1, <3>2
  <2>3. {committed_records'[k] : k \in 1..Len(committed_records')} = Published(bytes, offset + 1)
    <3>1. ASSUME NEW k \in 1..Len(committed_records')
          PROVE  committed_records'[k] \in Published(bytes, offset + 1)
      <4>1. CASE k \in 1..Len(committed_records)
        BY <1>4, <2>1, <4>1 DEF Loop, CommittedSoFar
      <4>2. CASE \E m \in 1..Len(staged) : k = Len(committed_records) + m
        <5>1. PICK m \in 1..Len(staged) : k = Len(committed_records) + m
          BY <4>2
        <5>2. b + m \in (b + 1)..offset
          BY <1>0, <1>2
        <5>3. QED  BY <1>4, <2>1, <5>1, <5>2
      <4>3. QED  BY <2>2, <4>1, <4>2
    <3>2. ASSUME NEW p \in Published(bytes, offset)
          PROVE  \E k \in 1..Len(committed_records') : committed_records'[k] = p
      <4>1. PICK k \in 1..Len(committed_records) : committed_records[k] = p
        BY DEF Loop, CommittedSoFar
      <4>2. k \in 1..Len(committed_records')
        BY <1>0, <1>4
      <4>3. QED  BY <1>4, <4>1, <4>2
    <3>3. ASSUME NEW p \in (b + 1)..offset
          PROVE  \E k \in 1..Len(committed_records') : committed_records'[k] = p
      <4>1. p - b \in 1..Len(staged) /\ b + (p - b) = p
        BY <1>0, <1>2
      <4>2. Len(committed_records) + (p - b) \in 1..Len(committed_records')
        BY <1>0, <1>4, <4>1
      <4>3. QED  BY <1>4, <4>1, <4>2
    <3>4. ASSUME NEW p \in Published(bytes, offset + 1)
          PROVE  \E k \in 1..Len(committed_records') : committed_records'[k] = p
      <4>1. CASE p \in Published(bytes, offset)  BY <3>2, <4>1
      <4>2. CASE p \in (b + 1)..offset  BY <3>3, <4>2
      <4>3. QED  BY <2>1, <4>1, <4>2
    <3>5. QED  BY <3>1, <3>4
  <2>4. ASSUME NEW j \in 1..Len(committed_records'), NEW k \in 1..Len(committed_records'), j < k
        PROVE  committed_records'[j] < committed_records'[k]
    <3>1. CASE k \in 1..Len(committed_records)
      <4>1. j \in 1..Len(committed_records)
        BY <1>0, <2>4, <3>1
      <4>2. QED  BY <1>4, <2>4, <3>1, <4>1 DEF Loop, CommittedSoFar
    <3>2. CASE \E m \in 1..Len(staged) : k = Len(committed_records) + m
      <4>1. PICK m \in 1..Len(staged) : k = Len(committed_records) + m
        BY <3>2
      <4>2. committed_records'[k] = b + m
        BY <1>4, <4>1
      <4>3. CASE j \in 1..Len(committed_records)
        BY <1>0, <1>4, <1>5, <4>2, <4>3
      <4>4. CASE \E n \in 1..Len(staged) : j = Len(committed_records) + n
        BY <1>0, <1>4, <2>4, <4>1, <4>2, <4>4
      <4>5. QED  BY <2>2, <4>3, <4>4
    <3>3. QED  BY <2>2, <3>1, <3>2
  <2>5. QED  BY <2>3, <2>4 DEF CommittedSoFar, Consume
<1>7. SequenceSoFar'
  <2>1. b \in 1..Len(bytes) /\ offset + 1 \in 1..Len(bytes)
    BY <1>0
  <2>2. QED  BY <1>0, <1>3, <2>1 DEF SequenceSoFar, Consume, record
<1>8. DiagnosedSoFar'
  <2>1. 1..((offset + 1) - 1) = 1..offset
    BY <1>0
  <2>2. \A c \in 1..((offset + 1) - 1) :
           Closes(bytes, c, offset + 1) => Intact(bytes, c, offset + 1)
    BY <1>2, <2>1
  <2>3. \A i \in 1..(offset + 1) : i \in 1..offset \/ i = offset + 1
    BY <1>0
  <2>4. 1..offset \subseteq 1..(offset + 1)
    BY <1>0
  <2>5. QED  BY <2>2, <2>3, <2>4 DEF Loop, DiagnosedSoFar, Consume
<1>9. CellsAccountedFor'
  <2>1. PublishedCells' <= PublishedCells + Len(staged) + 2 /\ PublishedCells' \in Nat
    BY <1>0, <1>4 DEF PublishedCells
  <2>2. OpenCells = 1 + Len(staged) /\ OpenCells' = 0 /\ ComplaintCells' = ComplaintCells
    BY DEF OpenCells, ComplaintCells, AtCommit, CloseTransaction
  <2>3. PublishedCells + OpenCells + ComplaintCells <= offset
    BY DEF Loop, CellsAccountedFor, Scanning
  <2>4. PublishedCells \in Nat /\ ComplaintCells \in 0..1 /\ Len(staged) \in Nat /\ offset \in Nat
    BY <1>0, CellCounts
  <2>5. PublishedCells' + OpenCells' + ComplaintCells' <= offset + 1
    <3> HIDE DEF ScanCommit
    <3>1. PICK was, now, complaints, n : /\ was = PublishedCells /\ now = PublishedCells'
                                         /\ complaints = ComplaintCells /\ n = Len(staged)
      OBVIOUS
    <3>2. /\ was \in Nat /\ now \in Nat /\ complaints \in Nat /\ n \in Nat /\ now <= was + n + 2
      BY <2>1, <2>4, <3>1
    <3>3. was + (1 + n) + complaints <= offset
      BY <2>2, <2>3, <3>1
    <3>4. now + 0 + complaints <= offset + 1
      BY <2>4, <3>2, <3>3
    <3> QED  BY <2>2, <3>1, <3>4
  <2>6. offset' = offset + 1 /\ pc' # "exit"
    BY DEF Consume, Scanning
  <2>7. QED  BY <2>5, <2>6 DEF CellsAccountedFor
<1>10. LostSoFar'
  <2>1. ASSUME NEW p \in 1..(offset + 1),
               p = offset + 1 \/ \E c \in 1..p : OpenAt(bytes, c, offset + 1)
        PROVE  Kept(bytes, p)
    <3>1. b <= p
      <4>1. CASE p = offset + 1
        BY <1>0, <4>1
      <4>2. CASE \E c \in 1..p : OpenAt(bytes, c, offset + 1)
        <5>1. PICK c \in 1..p : OpenAt(bytes, c, offset + 1)
          BY <4>2
        <5>2. c = b
          BY <1>0, <1>2, <5>1, OpenIsUnique
        <5> QED  BY <1>0, <5>1, <5>2
      <4> QED  BY <2>1, <4>1, <4>2
    <3>2. b \in 1..Len(bytes) /\ offset + 1 \in 1..Len(bytes) /\ p <= offset + 1
      BY <1>0
    <3> QED  BY <1>3, <3>1, <3>2 DEF Kept
  <2> QED  BY <2>1, LostStep
<1>11. QED  BY <1>1, <1>6, <1>7, <1>8, <1>9, <1>10 DEF Loop, Consume, Scanning

-----------------------------------------------------------------------------
(***************************************************************************)
(* Leaving the loop: what was found up to the last record read is all      *)
(* there is.                                                               *)
(***************************************************************************)

LEMMA PublishedAll ==
    ASSUME NEW l, NEW o \in Nat, Len(l) \in Nat,
           \A b, i \in 1..Len(l) : Commits(l, b, i) => i <= o
    PROVE  Published(l, o) = CommittedPositions(l)
<1>1. ASSUME NEW p \in Published(l, o) PROVE p \in CommittedPositions(l)
  <2>1. PICK b \in 1..Len(l), i \in 1..Len(l) : Commits(l, b, i) /\ b < p /\ p < i
    BY DEF Published
  <2>2. <<b, i>> \in Committed(l)
    BY <2>1 DEF Committed
  <2>3. p \in (<<b, i>>[1] + 1)..(<<b, i>>[2] - 1)
    BY <2>1 DEF Published
  <2>4. QED  BY <2>2, <2>3 DEF CommittedPositions
<1>2. ASSUME NEW p \in CommittedPositions(l) PROVE p \in Published(l, o)
  <2>1. PICK t \in Committed(l) : p \in (t[1] + 1)..(t[2] - 1)
    BY DEF CommittedPositions
  <2>2. t[1] \in 1..Len(l) /\ t[2] \in 1..Len(l) /\ Commits(l, t[1], t[2])
    BY DEF Committed
  <2>3. p \in 1..Len(l) /\ t[1] < p /\ p < t[2]
    BY <2>1, <2>2
  <2>4. QED  BY <2>2, <2>3 DEF Published
<1>3. QED  BY <1>1, <1>2

\* The last committed sequence does not depend on how it is singled out.
LEMMA LastSequenceIs ==
    ASSUME NEW l, Len(l) \in Nat, NEW b \in 1..Len(l), NEW i \in 1..Len(l),
           Commits(l, b, i),
           \A c, j \in 1..Len(l) : Commits(l, c, j) => j <= i
    PROVE  LastSequence(l) = l[i].new_sequence
<1>1. <<b, i>> \in Committed(l)
  BY DEF Committed
<1>2. \A u \in Committed(l) : u[2] \in 1..Len(l) /\ u[2] <= i
  BY DEF Committed
<1>3. \E t \in Committed(l) : \A u \in Committed(l) : u[2] <= t[2]
  <2>1. \A u \in Committed(l) : u[2] <= <<b, i>>[2]
    BY <1>2
  <2>2. QED  BY <1>1, <2>1
<1> DEFINE T == CHOOSE t \in Committed(l) : \A u \in Committed(l) : u[2] <= t[2]
<1>4. T \in Committed(l) /\ \A u \in Committed(l) : u[2] <= T[2]
  BY <1>3
<1>5. i <= T[2]
  <2>1. <<b, i>>[2] <= T[2]
    BY <1>1, <1>4
  <2>2. QED  BY <2>1
<1>6. T[2] = i
  BY <1>2, <1>4, <1>5
<1>7. QED  BY <1>1, <1>6 DEF LastSequence

\* A log with something to report has a record that is not kept and not lost
\* in silence: where the reader stops, at the commit record that does not agree,
\* or at the begin record of the last transaction.
LEMMA DiagnosedIsLost ==
    ASSUME NEW l, Len(l) \in Nat, Diagnosed(l)
    PROVE  \E p \in 1..Len(l) : /\ ~Kept(l, p) /\ ~DroppedAtBegin(l, p)
                                /\ ~OutsideTransaction(l, p)
<1>1. CASE \E i \in 1..Len(l) : Stops(l, i)
  <2>1. PICK p \in 1..Len(l) : Stops(l, p)
    BY <1>1
  <2>2. \A i \in 1..Len(l) : p < i => ~Reached(l, i)
    BY <2>1 DEF Reached
  <2>3. \A i \in 1..Len(l) : p <= i => p < i \/ p = i
    OBVIOUS
  <2>4. ~Kept(l, p)
    BY <2>1, <2>2, <2>3 DEF Kept, Commits
  <2> QED  BY <2>1, <2>2, <2>4 DEF DroppedAtBegin, OutsideTransaction
<1>2. CASE \E i \in 1..Len(l) : /\ Reached(l, i)
                               /\ \E b \in 1..(i - 1) : Closes(l, b, i) /\ ~Intact(l, b, i)
  <2>1. PICK p \in 1..Len(l) : \E b \in 1..(p - 1) : Closes(l, b, p) /\ ~Intact(l, b, p)
    BY <1>2
  <2>2. PICK b \in 1..(p - 1) : Closes(l, b, p) /\ ~Intact(l, b, p)
    BY <2>1
  <2>3. OpenAt(l, b, p) /\ CommitOf(l, b, p) /\ IsBegin(l[b]) /\ ~IsBegin(l[p])
    BY <2>2 DEF Closes, OpenAt, CommitOf, IsCommit, IsBegin
  <2>4. ASSUME NEW c \in 1..Len(l), NEW i \in 1..Len(l), OpenAt(l, c, i), c <= p, p < i
        PROVE  FALSE
    <3>1. c # p
      BY <2>3, <2>4 DEF OpenAt
    <3>2. OpenAt(l, c, p)
      BY <2>4, <3>1 DEF OpenAt
    <3>3. c = b
      BY <2>3, <3>2, OpenIsUnique
    <3>4. p \in (c + 1)..(i - 1)
      BY <2>4, <3>1
    <3> QED  BY <2>3, <2>4, <3>3, <3>4 DEF OpenAt
  <2>5. ~Kept(l, p)
    <3> SUFFICES ASSUME NEW c \in 1..Len(l), NEW i \in 1..Len(l), Commits(l, c, i), c <= p, p <= i
                 PROVE  FALSE
      BY DEF Kept
    <3>1. OpenAt(l, c, i) /\ Intact(l, c, i)
      BY DEF Commits, Closes
    <3>2. i = p
      BY <2>4, <3>1
    <3>3. c = b
      BY <2>3, <3>1, <3>2, OpenIsUnique
    <3> QED  BY <2>2, <3>1, <3>2, <3>3
  <2>6. ~DroppedAtBegin(l, p)
    BY <2>4 DEF DroppedAtBegin
  <2>7. ~OutsideTransaction(l, p)
    BY <2>2, <2>3 DEF OutsideTransaction
  <2> QED  BY <2>5, <2>6, <2>7
<1>3. CASE \E b \in 1..Len(l) : OpenAt(l, b, Len(l) + 1)
  <2>1. PICK p \in 1..Len(l) : OpenAt(l, p, Len(l) + 1)
    BY <1>3
  <2>2. /\ IsBegin(l[p])
        /\ \A k \in 1..Len(l) : p < k => ~IsBegin(l[k]) /\ ~CommitOf(l, p, k)
    BY <2>1 DEF OpenAt
  <2>3. ~DroppedAtBegin(l, p) /\ ~OutsideTransaction(l, p)
    BY <2>2 DEF DroppedAtBegin, OutsideTransaction
  <2>4. ~Kept(l, p)
    <3> SUFFICES ASSUME NEW c \in 1..Len(l), NEW i \in 1..Len(l), Commits(l, c, i), c <= p, p <= i
                 PROVE  FALSE
      BY DEF Kept
    <3>1. OpenAt(l, c, i) /\ CommitOf(l, c, i)
      BY DEF Commits, Closes
    <3>2. p < i
      BY <2>2, <3>1 DEF CommitOf, IsCommit, IsBegin
    <3>3. c = p
      BY <2>2, <3>1, <3>2 DEF OpenAt
    <3> QED  BY <2>2, <3>1, <3>2, <3>3
  <2> QED  BY <2>3, <2>4
<1> QED  BY <1>1, <1>2, <1>3 DEF Diagnosed

LEMMA FinishStep ==
    ASSUME LoopInvariant, Finish, TypeOK'
    PROVE  LoopInvariant'
<1>f. /\ pc = "exit" \/ (pc = "scan" /\ offset = Len(bytes))
      /\ pc' = "done" /\ bytes' = bytes
      /\ committed_records' = committed_records /\ sequence' = sequence
      /\ diagnostics' = IF in_txn THEN Append(diagnostics, "partial tail") ELSE diagnostics
  BY DEF Finish
<1>0. /\ TypeOK /\ ReadSoFar /\ StagedIsOpen /\ CommittedSoFar /\ SequenceSoFar
      /\ CellsAccountedFor
      /\ pc = "scan" => DiagnosedSoFar /\ LostSoFar
      /\ pc = "exit" => diagnostics # <<>> /\ offset < Len(bytes) /\ Stops(bytes, offset + 1)
  BY <1>f DEF LoopInvariant
<1>1. /\ Len(bytes) \in Nat /\ offset \in Nat /\ offset <= Len(bytes)
      /\ Len(staged) \in Nat /\ Len(committed_records) \in Nat
  BY <1>0, Bounds
<1>2. \A b, i \in 1..Len(bytes) : Commits(bytes, b, i) => i <= offset
  <2>1. CASE pc = "exit"
    <3> SUFFICES ASSUME NEW b \in 1..Len(bytes), NEW i \in 1..Len(bytes),
                        Commits(bytes, b, i), i > offset
                 PROVE  FALSE
      BY <1>1
    <3>1. i # offset + 1
      BY <1>0, <2>1 DEF Commits
    <3>2. offset + 1 \in 1..(i - 1)
      BY <1>1, <3>1
    <3>3. QED  BY <1>0, <2>1, <3>2 DEF Commits, Reached
  <2>2. CASE pc = "scan" /\ offset = Len(bytes)
    BY <1>1, <2>2
  <2>3. QED  BY <1>f, <2>1, <2>2
<1>3. ReturnsCommitted'
  <2>1. Published(bytes, offset) = CommittedPositions(bytes)
    BY <1>1, <1>2, PublishedAll
  <2>2. QED  BY <1>f, <1>0, <2>1 DEF ReturnsCommitted, CommittedSoFar
<1>4. ReturnsLastSequence'
  <2>1. CASE sequence = 0 /\ \A b, i \in 1..Len(bytes) : i <= offset => ~Commits(bytes, b, i)
    <3>1. Committed(bytes) = {}
      BY <1>2, <2>1 DEF Committed
    <3>2. LastSequence(bytes) = 0
      BY <3>1 DEF LastSequence
    <3>3. QED  BY <1>f, <2>1, <3>2 DEF ReturnsLastSequence
  <2>2. CASE \E b, i \in 1..Len(bytes) :
               /\ i <= offset /\ Commits(bytes, b, i)
               /\ sequence = bytes[i].new_sequence
               /\ \A c, j \in 1..Len(bytes) : j <= offset /\ Commits(bytes, c, j) => j <= i
    <3>1. PICK b \in 1..Len(bytes), i \in 1..Len(bytes) :
               /\ Commits(bytes, b, i)
               /\ sequence = bytes[i].new_sequence
               /\ \A c, j \in 1..Len(bytes) : j <= offset /\ Commits(bytes, c, j) => j <= i
      BY <2>2
    <3>2. LastSequence(bytes) = bytes[i].new_sequence
      BY <1>1, <1>2, <3>1, LastSequenceIs
    <3>3. QED  BY <1>f, <3>1, <3>2 DEF ReturnsLastSequence
  <2>3. QED  BY <1>0, <2>1, <2>2 DEF SequenceSoFar
<1>5. diagnostics' = <<>> <=> diagnostics = <<>> /\ ~in_txn
  BY <1>f, <1>0, Reasons, Complaint DEF TypeOK
<1>6. diagnostics' # <<>> <=> Diagnosed(bytes)
  <2>1. CASE pc = "exit"
    <3>1. Diagnosed(bytes)
      <4>1. offset + 1 \in 1..Len(bytes)
        BY <1>0, <1>1, <2>1
      <4>2. QED  BY <1>0, <2>1, <4>1 DEF Diagnosed
    <3>2. QED  BY <1>0, <1>5, <2>1, <3>1
  <2>2. CASE pc = "scan" /\ offset = Len(bytes)
    <3>1. \A i \in 1..Len(bytes) : ~Stops(bytes, i)
      BY <1>0, <2>2 DEF ReadSoFar
    <3>2. \A i \in 1..Len(bytes) : Reached(bytes, i)
      BY <1>1, <3>1 DEF Reached
    <3>3. diagnostics # <<>> <=>
            \E i \in 1..Len(bytes) : /\ Reached(bytes, i)
                                     /\ \E b \in 1..(i - 1) : Closes(bytes, b, i) /\ ~Intact(bytes, b, i)
      BY <1>0, <2>2, <3>2 DEF DiagnosedSoFar
    <3>4. in_txn <=> \E b \in 1..Len(bytes) : OpenAt(bytes, b, Len(bytes) + 1)
      BY <1>0, <2>2 DEF StagedIsOpen, TypeOK
    <3>5. Diagnosed(bytes) <=> diagnostics # <<>> \/ in_txn
      BY <3>1, <3>3, <3>4 DEF Diagnosed
    <3>6. QED  BY <1>5, <3>5
  <2>3. QED  BY <1>f, <2>1, <2>2
<1>6a. LossesReported'
  <2>1. ASSUME diagnostics' # <<>>
        PROVE  \E p \in 1..Len(bytes) : /\ ~Kept(bytes, p) /\ ~DroppedAtBegin(bytes, p)
                                        /\ ~OutsideTransaction(bytes, p)
    BY <1>1, <1>6, <2>1, DiagnosedIsLost
  <2>2. ASSUME diagnostics' = <<>>, NEW p \in 1..Len(bytes)
        PROVE  Kept(bytes, p) \/ DroppedAtBegin(bytes, p) \/ OutsideTransaction(bytes, p)
    <3>1. pc = "scan" /\ offset = Len(bytes) /\ diagnostics = <<>> /\ ~in_txn
      BY <1>f, <1>0, <1>5, <2>2
    <3>2. \A b \in 1..offset : ~OpenAt(bytes, b, offset + 1)
      BY <1>0, <3>1 DEF StagedIsOpen
    <3>3. \A b \in 1..p : b \in 1..offset
      BY <1>1, <3>1
    <3> QED  BY <1>0, <3>1, <3>2, <3>3 DEF LostSoFar
  <2> QED  BY <1>f, <1>6, <2>1, <2>2 DEF LossesReported
<1>7. CompactionShrinks'
  <2> SUFFICES ASSUME diagnostics' # <<>>, committed_records # <<>>
               PROVE  Len(committed_records) + 2 < Len(bytes)
    BY <1>f DEF CompactionShrinks
  <2>1. PublishedCells = Len(committed_records) + 2
    BY DEF PublishedCells
  <2>2. OpenCells + ComplaintCells >= 1
    <3>1. CASE in_txn
      <4>1. OpenCells >= 1
        BY <1>1, <3>1 DEF OpenCells
      <4>2. QED  BY <1>0, <4>1, CellCounts
    <3>2. CASE ~in_txn
      <4>1. ComplaintCells = 1
        BY <1>5, <3>2 DEF ComplaintCells
      <4>2. QED  BY <1>0, <4>1, CellCounts
    <3>3. QED  BY <3>1, <3>2
  <2>3. PublishedCells + OpenCells + ComplaintCells <= Len(bytes)
    <3>1. CASE pc = "exit"
      BY <1>0, <1>1, <3>1, CellCounts DEF CellsAccountedFor
    <3>2. CASE pc = "scan"
      BY <1>0, <1>1, <3>2, CellCounts DEF CellsAccountedFor
    <3>3. QED  BY <1>f, <3>1, <3>2
  <2>4. QED  BY <1>0, <1>1, <2>1, <2>2, <2>3, CellCounts
<1>8. QED  BY <1>f, <1>3, <1>4, <1>6a, <1>7 DEF LoopInvariant

-----------------------------------------------------------------------------
(***************************************************************************)
(* The invariant is inductive.                                             *)
(***************************************************************************)
LEMMA NextPreserves == LoopInvariant /\ [Next]_vars => LoopInvariant'
<1> SUFFICES ASSUME LoopInvariant, [Next]_vars PROVE LoopInvariant'
  OBVIOUS
<1>1. TypeOK /\ TypeOK'
  BY TypeStep DEF LoopInvariant
<1>2. pc = "scan" => Loop
  BY DEF LoopInvariant, Loop
<1>3. ASSUME pc = "scan", Loop', pc' = "scan" PROVE LoopInvariant'
  BY <1>1, <1>3 DEF LoopInvariant, Loop, ReturnsCommitted, ReturnsLastSequence,
                    LossesReported, CompactionShrinks
<1>4. ASSUME Scanning PROVE Stops(bytes, offset + 1) <=>
                              \/ IsTorn(record)
                              \/ IsBegin(record) /\ record.payload = Missing
                              \/ AtCommit /\ record.payload = Missing
  BY <1>1, <1>2, <1>4, StopsIsBreak DEF Loop, Scanning
<1>5. CASE ScanUndecodable
  BY <1>1, <1>2, <1>4, <1>5, BreakStep, Reasons DEF ScanUndecodable, Scanning
<1>6. CASE ScanBeginMissing
  BY <1>1, <1>2, <1>4, <1>6, BreakStep, Reasons DEF ScanBeginMissing, Scanning
<1>7. CASE ScanBegin
  BY <1>1, <1>2, <1>3, <1>7, BeginStep DEF ScanBegin, Scanning
<1>8. CASE ScanCommitMissing
  BY <1>1, <1>2, <1>4, <1>8, BreakStep, Reasons DEF ScanCommitMissing, Scanning
<1>9. CASE ScanCountMismatch
  <2>1. Loop' /\ pc' = "scan"
    BY <1>1, <1>2, <1>9, IgnoreStep, Reasons DEF ScanCountMismatch, IgnoreMismatch, Scanning
  <2>2. QED  BY <1>3, <1>9, <2>1 DEF ScanCountMismatch, IgnoreMismatch, Scanning
<1>10. CASE ScanDigestMismatch
  <2>1. Loop' /\ pc' = "scan"
    BY <1>1, <1>2, <1>10, IgnoreStep, Reasons DEF ScanDigestMismatch, IgnoreMismatch, Scanning
  <2>2. QED  BY <1>3, <1>10, <2>1 DEF ScanDigestMismatch, IgnoreMismatch, Scanning
<1>11. CASE ScanCommit
  BY <1>1, <1>2, <1>3, <1>11, CommitStep DEF ScanCommit, Scanning
<1>12. CASE ScanStage
  BY <1>1, <1>2, <1>3, <1>12, StageStep DEF ScanStage, Scanning
<1>13. CASE ScanSkip
  BY <1>1, <1>2, <1>3, <1>13, SkipStep DEF ScanSkip, Scanning
<1>14. CASE Finish
  BY <1>1, <1>14, FinishStep
<1>15. CASE UNCHANGED vars
  BY <1>15 DEF vars, txn, result, LoopInvariant, TypeOK, ReadSoFar, StagedIsOpen,
               CommittedSoFar, SequenceSoFar, CellsAccountedFor, PublishedCells, OpenCells,
               ComplaintCells, DiagnosedSoFar, LostSoFar, ReturnsCommitted, ReturnsLastSequence,
               LossesReported, CompactionShrinks
<1>16. QED
  BY <1>5, <1>6, <1>7, <1>8, <1>9, <1>10, <1>11, <1>12, <1>13, <1>14, <1>15 DEF Next

\* The loop invariant holds throughout, for every log.
THEOREM LoopInvariantHolds == Spec => []LoopInvariant
  BY InitEstablishes, NextPreserves, PTL DEF Spec

-----------------------------------------------------------------------------
(***************************************************************************)
(* What recover_log guarantees.                                            *)
(***************************************************************************)

\* Type correctness of the scan: in particular it never reads past the end.
THEOREM TypeCorrect == Spec => []TypeOK
<1>1. LoopInvariant => TypeOK  BY DEF LoopInvariant
<1>2. QED  BY <1>1, LoopInvariantHolds, PTL

\* recover_log returns the records of the committed transactions, each once
\* and in log order, for logs of any length and any checksum.
THEOREM ReturnsCommittedHolds == Spec => []ReturnsCommitted
<1>1. LoopInvariant => ReturnsCommitted  BY DEF LoopInvariant
<1>2. QED  BY <1>1, LoopInvariantHolds, PTL

\* recover_log returns the sequence of the last committed transaction.
THEOREM ReturnsLastSequenceHolds == Spec => []ReturnsLastSequence
<1>1. LoopInvariant => ReturnsLastSequence  BY DEF LoopInvariant
<1>2. QED  BY <1>1, LoopInvariantHolds, PTL

\* recover_log complains if and only if a record of the log is neither in a
\* committed transaction nor lost in silence, that is in a transaction which is
\* open at the next begin record or outside of any transaction.
THEOREM LossesReportedHolds == Spec => []LossesReported
<1>1. LoopInvariant => LossesReported  BY DEF LoopInvariant
<1>2. QED  BY <1>1, LoopInvariantHolds, PTL

\* The compacted form of a log that is reported is always shorter, so the
\* size comparison of append_transaction never misses that it has to replace
\* the file.
THEOREM CompactionShrinksHolds == Spec => []CompactionShrinks
<1>1. LoopInvariant => CompactionShrinks  BY DEF LoopInvariant
<1>2. QED  BY <1>1, LoopInvariantHolds, PTL

\* Records are published by commit records only, and never taken back.
THEOREM PublishesOnCommitHolds == Spec => PublishesOnCommit
<1> DEFINE A == /\ SubSeq(committed_records', 1, Len(committed_records)) = committed_records
                /\ committed_records' # committed_records =>
                      IsCommit(bytes[offset']) /\ ~in_txn'
<1>1. TypeOK /\ [Next]_vars => [A]_vars
  <2> SUFFICES ASSUME TypeOK, Next PROVE A
    OBVIOUS
  <2>1. ASSUME UNCHANGED committed_records PROVE A
    <3>1. SubSeq(committed_records, 1, Len(committed_records)) = committed_records
      BY SubSeqFull DEF TypeOK
    <3>2. QED  BY <2>1, <3>1
  <2>2. CASE ScanCommit
    <3>1. SubSeq(committed_records \o staged, 1, Len(committed_records)) = committed_records
      BY SubSeqOfConcat1, Bounds, SubSeqFull DEF TypeOK
    <3>2. IsCommit(bytes[offset']) /\ ~in_txn'
      BY <2>2 DEF ScanCommit, AtCommit, record, Consume, CloseTransaction
    <3>3. QED  BY <2>2, <3>1, <3>2 DEF ScanCommit
  <2>3. CASE ~ScanCommit
    BY <2>1, <2>3 DEF Next, ScanUndecodable, ScanBeginMissing, ScanBegin, ScanCommitMissing,
       ScanCountMismatch, ScanDigestMismatch, IgnoreMismatch, ScanStage, ScanSkip, Finish,
       Break, result
  <2>4. QED  BY <2>2, <2>3
<1>2. QED  BY <1>1, TypeCorrect, PTL DEF Spec, PublishesOnCommit

=============================================================================
