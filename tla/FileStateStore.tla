--------------------------- MODULE FileStateStore ---------------------------
(***************************************************************************)
(* FileStateStore: the state log and the checkpoint file of a daemon, over *)
(* the process that calls it, stops anywhere and is started again.         *)
(*                                                                         *)
(* append_transaction and checkpoint run as the file operations they make, *)
(* one step each, so that a crash falls between any two of them and, for   *)
(* the append, within it.  A crash is one of the process: what the file    *)
(* system accepted stays.  The two *.tmp files are never read and are left *)
(* out; a missing file reads as an empty one.                              *)
(***************************************************************************)
EXTENDS StateLog

CONSTANTS
    MaxTxns,            \* transactions issued, over all restarts
    MinBatch, MaxBatch, \* records of a transaction
    MaxCheckpoints,     \* checkpoints taken, over all restarts
    CheckpointStep,     \* how far checkpoint(sequence) is ahead of the state
    MaxFaults,          \* crashes and file-system errors
    FaultKinds          \* of {"io", "rename", "stat", "writer"}: file-system
                        \* errors that occur, and a second process that writes

ASSUME StoreAssumption ==
    /\ {MaxTxns, MinBatch, MaxBatch, MaxCheckpoints, CheckpointStep, MaxFaults}
           \subseteq Nat
    /\ FaultKinds \subseteq {"io", "rename", "stat", "writer"}
    /\ MaxBatch > 0 /\ kCompactionTxnId \in Nat /\ Missing \notin Nat

VARIABLES
    disk,       \* path -> cells of the file
    pc,         \* where the process is; "down" between a crash and recover()
    call,       \* the call in progress: arguments and AppendLog bytes
    job,        \* the replace_file in progress
    mem,        \* what the caller knows: the state sequence and its mutations
    acked,      \* history: mutations whose append_transaction returned ok
    issued,         \* history: the mutations of each transaction issued
    checkpoints, faults     \* counters behind the bounds

vars == <<disk, pc, call, job, mem, acked, issued, checkpoints, faults>>

Path == {"state.log", "checkpoint.fst"}

NoCall == [op |-> "none", txn |-> 0, seq |-> 0, recs |-> <<>>, bytes |-> <<>>]
NoJob == [path |-> "state.log", bytes |-> <<>>]

-----------------------------------------------------------------------------
(***************************************************************************)
(* Records.  Mutation <<t, k>> is the k-th record of transaction t; a      *)
(* checkpoint record stands for all the mutations of the state it saves.   *)
(***************************************************************************)
Mutation == (1..MaxTxns) \X (1..MaxBatch)

DeltaCell(t, k) ==
    [type |-> "graph_delta", txn_id |-> 0, new_sequence |-> 0, payload |-> {<<t, k>>}]
CheckpointCell(S) ==
    [type |-> "checkpoint", txn_id |-> 0, new_sequence |-> 0, payload |-> S]

IsData(c) == ~IsBegin(c) /\ ~IsCommit(c)

\* The mutations in a sequence of records.
MutationsOf(recs) == UNION {recs[k].payload : k \in {j \in 1..Len(recs) : IsData(recs[j])}}

\* Transaction t as its caller builds it: n mutations, or a control record.
Batches(t) ==
    {[k \in 1..n |-> DeltaCell(t, k)] : n \in MinBatch..MaxBatch} \cup {<<BeginCell(t, 0)>>}

-----------------------------------------------------------------------------
(***************************************************************************)
(* recover and clean_log_bytes.                                            *)
(***************************************************************************)

\* The mutations of the committed records of a file.
MutationsIn(l) == UNION {l[p].payload : p \in CommittedPositions(l)}

\* recover(): the checkpoint, then the log on top of it; the log's sequence
\* counts only if the log brings records.
Recovered(d) ==
    [sequence  |-> IF CommittedPositions(d["state.log"]) # {}
                   THEN LastSequence(d["state.log"])
                   ELSE LastSequence(d["checkpoint.fst"]),
     mutations |-> MutationsIn(d["checkpoint.fst"]) \cup MutationsIn(d["state.log"])]

\* Variants with a mistake in them.
CleanKeepingTail(bytes) == bytes
CleanReversing(bytes) ==
    IF ~Diagnosed(bytes) THEN bytes
    ELSE IF CommittedRecords(bytes) = <<>> THEN <<>>
    ELSE LET R == CommittedRecords(bytes)
         IN  Transaction(<<>>, kCompactionTxnId, LastSequence(bytes),
                         [k \in 1..Len(R) |-> R[Len(R) + 1 - k]])

\* clean_log_bytes: a log with something to complain about becomes a single
\* transaction of its committed records.  (encode_transaction refuses control
\* records; none is ever committed by this store, whose appends all start with
\* a begin record.)
CleanLogBytes(bytes) ==
    IF ~Diagnosed(bytes) THEN bytes
    ELSE IF CommittedRecords(bytes) = <<>> THEN <<>>
    ELSE Transaction(<<>>, kCompactionTxnId, LastSequence(bytes), CommittedRecords(bytes))

-----------------------------------------------------------------------------
Init ==
    /\ disk = [p \in Path |-> <<>>]
    /\ pc = "down"
    /\ call = NoCall
    /\ job = NoJob
    /\ mem = [sequence |-> 0, mutations |-> {}]
    /\ acked = {}
    /\ issued = <<>>
    /\ checkpoints = 0
    /\ faults = 0

Fault(kind) ==
    /\ kind \in FaultKinds
    /\ faults < MaxFaults
    /\ faults' = faults + 1

\* A call returns an error: the caller's state is what it was.
ReturnError ==
    /\ pc' = "idle"
    /\ call' = NoCall
    /\ job' = NoJob
    /\ UNCHANGED <<mem, acked, issued, checkpoints>>

\* A call returns ok: the caller takes over what it wrote.
ReturnOk ==
    /\ pc' = "idle"
    /\ call' = NoCall
    /\ job' = NoJob
    /\ mem' = [sequence  |-> call.seq,
               mutations |-> mem.mutations \cup MutationsOf(call.recs)]
    /\ acked' = acked \cup MutationsOf(call.recs)
    /\ UNCHANGED <<issued, checkpoints>>

-----------------------------------------------------------------------------
(***************************************************************************)
(* append_transaction.                                                     *)
(***************************************************************************)

\* A variant with a mistake in it.
NeverReplace(existing, clean) == FALSE

\* The file has to be replaced: only the sizes are compared.
MustReplace(existing, clean) == Len(clean) # Len(existing)

\* The log is read and cleaned; the file is replaced if the size changed.
\* The caller numbers its transactions and moves the sequence by one.
BeginAppend(existing) ==
    LET clean == CleanLogBytes(existing)
    IN  \E recs \in Batches(Len(issued) + 1) :
          /\ pc = "idle"
          /\ Len(issued) < MaxTxns
          /\ issued' = Append(issued, MutationsOf(recs))
          /\ call' = [op |-> "append", txn |-> Len(issued) + 1, seq |-> mem.sequence + 1,
                      recs |-> recs, bytes |-> clean]
          /\ IF MustReplace(existing, clean)
             THEN pc' = "replace" /\ job' = [path |-> "state.log", bytes |-> clean]
             ELSE pc' = "append" /\ UNCHANGED job
          /\ UNCHANGED <<disk, mem, acked, checkpoints>>

AppendTransaction == BeginAppend(disk["state.log"]) /\ UNCHANGED faults

\* read_file cannot stat the log: exists() is false and the log reads as
\* empty, for the branch that reports the error comes after that return.
AppendTransactionStatError == BeginAppend(<<>>) /\ Fault("stat")

\* A control record among the caller's records: found after the log was
\* replaced.
RejectReserved ==
    /\ pc = "append"
    /\ \E k \in 1..Len(call.recs) : ~IsData(call.recs[k])
    /\ ReturnError
    /\ UNCHANGED <<disk, faults>>

\* What append_file is to write.
TailBytes == LET all == Transaction(call.bytes, call.txn, call.seq, call.recs)
         IN  SubSeq(all, Len(call.bytes) + 1, Len(all))

\* What may have reached the file when fewer than all bytes of s did.
PartOf(s) ==
    {SubSeq(s, 1, n) : n \in 0..(Len(s) - 1)} \cup
    {Append(SubSeq(s, 1, n), Torn) : n \in 0..(Len(s) - 1)}

Appending ==
    /\ pc = "append"
    /\ \A k \in 1..Len(call.recs) : IsData(call.recs[k])

AppendToLog(cells) == disk' = [disk EXCEPT !["state.log"] = @ \o cells]

AppendFile ==
    /\ Appending
    /\ AppendToLog(TailBytes)
    /\ ReturnOk
    /\ UNCHANGED faults

\* The write fails part of the way.
AppendFileError ==
    /\ Appending
    /\ Fault("io")
    /\ \E part \in PartOf(TailBytes) : AppendToLog(part)
    /\ ReturnError

-----------------------------------------------------------------------------
(***************************************************************************)
(* replace_file: write the temporary file, rename it over the path; should *)
(* the rename fail, remove the path and rename again.                      *)
(***************************************************************************)

\* The file is in place: go on with the call.
AfterReplace ==
    CASE call.op = "append" ->
            /\ pc' = "append"
            /\ job' = NoJob
            /\ UNCHANGED <<call, mem, acked, issued, checkpoints>>
      [] call.op = "checkpoint" /\ job.path = "checkpoint.fst" ->
            /\ pc' = "replace"
            /\ job' = [path |-> "state.log", bytes |-> <<>>]
            /\ UNCHANGED <<call, mem, acked, issued, checkpoints>>
      [] OTHER -> ReturnOk

ReplaceFile ==
    /\ pc = "replace"
    /\ disk' = [disk EXCEPT ![job.path] = job.bytes]
    /\ AfterReplace
    /\ UNCHANGED faults

\* The temporary file cannot be written.
ReplaceFileError ==
    /\ pc = "replace"
    /\ Fault("io")
    /\ ReturnError
    /\ UNCHANGED disk

\* The rename fails and the path is removed.
RenameError ==
    /\ pc = "replace"
    /\ Fault("rename")
    /\ disk' = [disk EXCEPT ![job.path] = <<>>]
    /\ pc' = "retry"
    /\ UNCHANGED <<call, job, mem, acked, issued, checkpoints>>

RenameAgain ==
    /\ pc = "retry"
    /\ disk' = [disk EXCEPT ![job.path] = job.bytes]
    /\ AfterReplace
    /\ UNCHANGED faults

RenameAgainError ==
    /\ pc = "retry"
    /\ Fault("rename")
    /\ ReturnError
    /\ UNCHANGED disk

-----------------------------------------------------------------------------
(***************************************************************************)
(* checkpoint and recover.                                                 *)
(***************************************************************************)

\* A variant with a mistake in it: the checkpoint does not say how far it goes.
CheckpointWithoutSequence(seq) ==
    Transaction(<<>>, kCompactionTxnId, 0, <<CheckpointCell(mem.mutations)>>)

\* The checkpoint file: one transaction of one record.
CheckpointBytes(seq) ==
    Transaction(<<>>, kCompactionTxnId, seq, <<CheckpointCell(mem.mutations)>>)

\* checkpoint(sequence, payload): publish the checkpoint file, then empty the
\* log.
Checkpoint ==
    /\ pc = "idle"
    /\ checkpoints < MaxCheckpoints
    /\ checkpoints' = checkpoints + 1
    /\ LET seq == mem.sequence + CheckpointStep
       IN  /\ call' = [NoCall EXCEPT !.op = "checkpoint", !.seq = seq]
           /\ job' = [path |-> "checkpoint.fst", bytes |-> CheckpointBytes(seq)]
    /\ pc' = "replace"
    /\ UNCHANGED <<disk, mem, acked, issued, faults>>

\* A started process takes over what recover() returns.
RecoverFrom(d) ==
    /\ pc = "down"
    /\ mem' = Recovered(d)
    /\ pc' = "idle"
    /\ UNCHANGED <<disk, call, job, acked, issued, checkpoints>>

Recover == RecoverFrom(disk) /\ UNCHANGED faults

\* One of the two files cannot be stat'ed and reads as empty.
RecoverStatError ==
    /\ \E p \in Path : RecoverFrom([disk EXCEPT ![p] = <<>>])
    /\ Fault("stat")

\* Another process on the same directory, which nothing locks, appends a
\* transaction between two steps of this one.
OtherAppends ==
    /\ Fault("writer") /\ Len(issued) < MaxTxns
    /\ LET t == Len(issued) + 1
           recs == <<DeltaCell(t, 1)>>
       IN  /\ issued' = Append(issued, MutationsOf(recs))
           /\ disk' = [disk EXCEPT !["state.log"] =
                          Transaction(CleanLogBytes(@), t, Recovered(disk).sequence + 1, recs)]
    /\ UNCHANGED <<pc, call, job, mem, acked, checkpoints>>

\* The process dies; during the append, any part of the tail may be written.
Crash ==
    /\ pc # "down"
    /\ faults < MaxFaults
    /\ faults' = faults + 1
    /\ IF Appending THEN \E part \in PartOf(TailBytes) \cup {TailBytes} : AppendToLog(part)
                    ELSE UNCHANGED disk
    /\ pc' = "down"
    /\ call' = NoCall
    /\ job' = NoJob
    /\ mem' = [sequence |-> 0, mutations |-> {}]
    /\ UNCHANGED <<acked, issued, checkpoints>>

Next ==
    \/ AppendTransaction \/ AppendTransactionStatError
    \/ RejectReserved
    \/ AppendFile \/ AppendFileError
    \/ ReplaceFile \/ ReplaceFileError
    \/ RenameError \/ RenameAgain \/ RenameAgainError
    \/ Checkpoint
    \/ Recover \/ RecoverStatError
    \/ OtherAppends
    \/ Crash

Spec == Init /\ [][Next]_vars

-----------------------------------------------------------------------------
(***************************************************************************)
(* Properties.                                                             *)
(***************************************************************************)

\* A log of cells whose fields the reader can compare.
IsLog(l) ==
    \A i \in 1..Len(l) :
        /\ DOMAIN l[i] = {"type", "txn_id", "new_sequence", "payload"}
        /\ l[i].type \in {"torn", "txn_begin", "txn_commit", "graph_delta", "checkpoint"}
        /\ l[i].txn_id \in Nat /\ l[i].new_sequence \in Nat
        /\ l[i].type \in {"graph_delta", "checkpoint"} => l[i].payload \subseteq Mutation

\* The types of the store's files, its calls and its caller's knowledge.
TypeOK ==
    /\ DOMAIN disk = Path /\ \A p \in Path : IsLog(disk[p])
    /\ pc \in {"down", "idle", "replace", "retry", "append"}
    /\ call.op \in {"none", "append", "checkpoint"}
    /\ pc \in {"down", "idle"} <=> call.op = "none"
    /\ pc = "append" => call.op = "append"
    /\ call.txn \in 0..MaxTxns /\ call.seq \in Nat
    /\ IsLog(call.recs) /\ IsLog(call.bytes)
    /\ job.path \in Path /\ IsLog(job.bytes)
    /\ mem.sequence \in Nat /\ mem.mutations \subseteq Mutation
    /\ acked \subseteq Mutation
    /\ Len(issued) \in 0..MaxTxns
    /\ \A t \in 1..Len(issued) : issued[t] \subseteq Mutation
    /\ checkpoints \in 0..MaxCheckpoints
    /\ faults \in 0..MaxFaults

\* What append_transaction reported written is found by recover(), whatever
\* was torn, cleaned, compacted, checkpointed or restarted since.
AckedDurable == acked \subseteq Recovered(disk).mutations

\* A transaction is recovered as a whole or not at all, under every fault:
\* neither a torn append nor a compaction nor a checkpoint splits one.
TransactionsAtomic ==
    LET R == Recovered(disk).mutations
    IN  \A t \in 1..Len(issued) : issued[t] \subseteq R \/ issued[t] \cap R = {}

\* The bytes append_file appends carry a digest of call.bytes; they are only
\* good behind a file that holds those bytes.
BaseOnDisk == pc = "append" => call.bytes = disk["state.log"]

\* Files, calls and the caller's knowledge have their types, and a call never
\* appends behind a file other than the one it digested.
StoreInvariant == TypeOK /\ BaseOnDisk

\* The mutations of the log are replayed in the order they were issued, each
\* once: compaction and failed appends neither reorder nor repeat them.
LogInCommitOrder ==
    LET R == CommittedRecords(disk["state.log"])
    IN  \A j, k \in 1..Len(R) : j < k =>
            \A m \in R[j].payload, n \in R[k].payload :
                m[1] < n[1] \/ (m[1] = n[1] /\ m[2] < n[2])

\* An append that is acknowledged leaves a log recover() has nothing to say
\* about, however many interrupted appends came before it.
AckedAppendHeals ==
    [][acked' # acked => ~Diagnosed(disk["state.log"]')]_vars

\* The abstract state of a store: what recover() would return now, and the
\* transaction append_transaction is working on.
Durable == INSTANCE DurableState WITH
    Delta    <- Mutation,
    durable  <- Recovered(disk).mutations,
    sequence <- Recovered(disk).sequence,
    pending  <- IF call.op = "append" THEN MutationsOf(call.recs) ELSE {},
    acked    <- acked

\* The store implements DurableState: every step of its file operations, its
\* restarts included, is a step of the abstract store or changes nothing.
ImplementsDurableState == Durable!Spec

=============================================================================
