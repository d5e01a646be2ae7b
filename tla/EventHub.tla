------------------------------ MODULE EventHub ------------------------------
(***************************************************************************)
(* EventHub: per-stream queues of build events under byte credit.  A       *)
(* progress event beyond the credit is dropped and marked by a gap; a      *)
(* terminal event is queued whatever the credit.                           *)
(*                                                                         *)
(* An event is its size, whether it is terminal, and a number: the count   *)
(* of events published on its stream so far, dropped ones included.  A gap *)
(* event carries the number of the event it was queued for.                *)
(***************************************************************************)
EXTENDS Integers, Sequences, FiniteSets

CONSTANTS
    StreamIds,  \* stream ids other than 0
    Sizes,      \* sizes of events, amounts of credit
    MaxCredit,  \* largest credit value; u64 in the code
    MaxEvents,  \* bound: events published on a stream
    MaxGrants   \* bound: calls of add_credit on a stream

ASSUME HubAssumption ==
    /\ Sizes \subseteq 0..MaxCredit
    /\ MaxCredit \in Nat /\ MaxEvents \in Nat /\ MaxGrants \in Nat

VARIABLES
    streams,        \* the keys of streams_
    credit, queued, gap_emitted,    \* Stream, by stream id
    \* history
    delivered,      \* events drained
    offered,        \* events published, dropped ones included
    granted, grants \* credit given to the stream; calls of add_credit

hub == <<streams, credit, queued, gap_emitted>>
hubVars == <<hub, delivered, offered, granted, grants>>

HubInit ==
    /\ streams = {}
    /\ credit = [s \in StreamIds |-> 0]
    /\ queued = [s \in StreamIds |-> <<>>]
    /\ gap_emitted = [s \in StreamIds |-> FALSE]
    /\ delivered = [s \in StreamIds |-> <<>>]
    /\ offered = [s \in StreamIds |-> <<>>]
    /\ granted = [s \in StreamIds |-> 0]
    /\ grants = [s \in StreamIds |-> 0]

OpenStream(s, n) ==
    /\ s \notin streams
    /\ streams' = streams \cup {s}
    /\ credit' = [credit EXCEPT ![s] = n]
    /\ granted' = [granted EXCEPT ![s] = n]
    /\ UNCHANGED <<queued, gap_emitted, delivered, offered, grants>>

\* checked_add.
Fits(s, n) == credit[s] + n <= MaxCredit

AddCredit(s, n) ==
    /\ s \in streams
    /\ grants[s] < MaxGrants
    /\ Fits(s, n)
    /\ credit' = [credit EXCEPT ![s] = @ + n]
    /\ granted' = [granted EXCEPT ![s] = @ + n]
    /\ grants' = [grants EXCEPT ![s] = @ + 1]
    /\ UNCHANGED <<streams, queued, gap_emitted, delivered, offered>>

Event(s, terminal, bytes) ==
    [kind |-> IF terminal THEN "terminal" ELSE "progress", bytes |-> bytes,
     number |-> Len(offered[s]) + 1]
Gap(s) == [kind |-> "gap", bytes |-> 0, number |-> Len(offered[s]) + 1]

\* A variant with a mistake in it: the event goes in front of the queue.
PushFirst(s, e) == queued' = [queued EXCEPT ![s] = <<e>> \o @]

Push(s, e) == queued' = [queued EXCEPT ![s] = Append(@, e)]

\* publish is called with an event.
Publishing(s, e) ==
    /\ s \in streams
    /\ Len(offered[s]) < MaxEvents
    /\ offered' = [offered EXCEPT ![s] = Append(@, e)]
    /\ UNCHANGED <<streams, delivered, granted, grants>>

\* A variant with a mistake in it: the credit is not taken.
NotCharged(s, e) == credit[s]

Charged(s, e) == credit[s] - e.bytes

\* There is credit for the event.
PublishWithCredit(s, e) ==
    /\ Publishing(s, e)
    /\ e.bytes <= credit[s]
    /\ credit' = [credit EXCEPT ![s] = Charged(s, e)]
    /\ Push(s, e)
    /\ UNCHANGED gap_emitted

\* There is none, but the event is terminal.
PublishTerminal(s, e) ==
    /\ Publishing(s, e)
    /\ e.bytes > credit[s] /\ e.kind = "terminal"
    /\ Push(s, e)
    /\ UNCHANGED <<credit, gap_emitted>>

\* A variant with a mistake in it: only a queue that is in use gets the gap.
NeedsGapInQueue(s) == ~gap_emitted[s] /\ queued[s] # <<>>

NeedsGap(s) == ~gap_emitted[s]

\* The event is dropped; the first time, a gap takes its place.
Drop(s, e) ==
    /\ Publishing(s, e)
    /\ e.bytes > credit[s] /\ e.kind # "terminal"
    /\ gap_emitted' = [gap_emitted EXCEPT ![s] = TRUE]
    /\ IF NeedsGap(s) THEN Push(s, Gap(s)) ELSE UNCHANGED queued
    /\ UNCHANGED credit

\* A variant with a mistake in it: the last event is lost.
AllButLast(s) == SubSeq(queued[s], 1, Len(queued[s]) - 1)

Drained(s) == queued[s]

\* drain: everything queued, in order.
Drain(s) ==
    /\ s \in streams /\ queued[s] # <<>>
    /\ delivered' = [delivered EXCEPT ![s] = @ \o Drained(s)]
    /\ queued' = [queued EXCEPT ![s] = <<>>]
    /\ UNCHANGED <<streams, credit, gap_emitted, offered, granted, grants>>

Publish(s, e) == PublishWithCredit(s, e) \/ PublishTerminal(s, e) \/ Drop(s, e)

HubNext ==
    \E s \in StreamIds :
        \/ \E n \in Sizes : OpenStream(s, n) \/ AddCredit(s, n)
        \/ \E n \in Sizes, terminal \in BOOLEAN : Publish(s, Event(s, terminal, n))
        \/ Drain(s)

HubSpec == HubInit /\ [][HubNext]_hubVars

-----------------------------------------------------------------------------
(***************************************************************************)
(* Properties.                                                             *)
(***************************************************************************)
BuildEvent == [kind : {"progress", "terminal", "gap"}, bytes : Nat, number : Nat \ {0}]

\* The types of the hub's fields.
HubTypeOK ==
    /\ streams \subseteq StreamIds
    /\ credit \in [StreamIds -> 0..MaxCredit]
    /\ queued \in [StreamIds -> Seq(BuildEvent)]
    /\ gap_emitted \in [StreamIds -> BOOLEAN]

\* What a subscriber has seen or will see at the next drain.
Stream(s) == delivered[s] \o queued[s]
Numbers(q) == {q[k].number : k \in 1..Len(q)}
OfKind(q, kind) == {k \in 1..Len(q) : q[k].kind = kind}

\* docs/FIPC_PROTOCOL.md: terminal events are retained.  Every terminal event
\* published on a stream reaches the subscriber, whatever the credit.
TerminalsRetained ==
    \A s \in StreamIds : \A k \in OfKind(offered[s], "terminal") :
        k \in Numbers(Stream(s))

\* Events reach the subscriber in the order they were published, each once,
\* over drains, drops and terminal events without credit.
InOrder ==
    \A s \in StreamIds : \A j, k \in 1..Len(Stream(s)) :
        j < k => Stream(s)[j].number < Stream(s)[k].number

\* The bytes of progress a subscriber was sent are within the credit it gave,
\* terminal events being free only when there was none left for them.
ProgressBytes(q) ==
    LET total[k \in 0..Len(q)] ==
            IF k = 0 THEN 0
            ELSE total[k - 1] + (IF q[k].kind = "progress" THEN q[k].bytes ELSE 0)
    IN  total[Len(q)]
ProgressWithinCredit == \A s \in StreamIds : ProgressBytes(Stream(s)) <= granted[s]

\* A subscriber that is short of an event is told so, at the latest in the
\* place of the first one it lacks.
FirstDropMarked ==
    \A s \in StreamIds :
        LET dropped == (1..Len(offered[s])) \ Numbers(Stream(s))
            gaps    == {Stream(s)[k].number : k \in OfKind(Stream(s), "gap")}
        IN  dropped # {} => \E g \in gaps : \A d \in dropped : g < d

\* The hub's fields have their types, credit within its width among them, and
\* no sequence of grants, publishes and drains sends progress beyond credit.
HubInvariant == HubTypeOK /\ ProgressWithinCredit

=============================================================================
