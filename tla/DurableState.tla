---------------------------- MODULE DurableState ----------------------------
(***************************************************************************)
(* What the state store promises its caller: a transaction becomes durable *)
(* as a whole or not at all, takes the state sequence one further when it  *)
(* does, and stays durable.  There are no files, no logs and no            *)
(* checkpoints here.                                                       *)
(***************************************************************************)
EXTENDS Naturals

CONSTANT Delta      \* the mutation records callers write

VARIABLES
    durable,    \* the mutations a restart finds
    sequence,   \* the state sequence a restart finds
    pending,    \* the mutations of the transaction being written
    acked       \* the mutations whose transaction was reported written

vars == <<durable, sequence, pending, acked>>

Init ==
    /\ durable = {}
    /\ sequence = 0
    /\ pending = {}
    /\ acked = {}

\* A transaction is handed over.
Submit ==
    /\ pending = {}
    /\ pending' \in SUBSET (Delta \ durable)
    /\ UNCHANGED <<durable, sequence, acked>>

Publish ==
    /\ pending # {}
    /\ durable' = durable \cup pending
    /\ sequence' = sequence + 1
    /\ pending' = {}

\* The transaction becomes durable and its caller is told.
Acknowledge == Publish /\ acked' = acked \cup pending

\* The transaction becomes durable and the process dies before it can say so.
PublishUnheard == Publish /\ UNCHANGED acked

\* The call fails, or the process dies: nothing of the transaction is durable.
Abandon ==
    /\ pending' = {}
    /\ UNCHANGED <<durable, sequence, acked>>

Next ==
    \/ Submit
    \/ Acknowledge
    \/ PublishUnheard
    \/ Abandon

Spec == Init /\ [][Next]_vars

=============================================================================
