---------------------------- MODULE FipcSession ----------------------------
(***************************************************************************)
(* FipcSession: one client connection of the daemon.  feed() decodes the   *)
(* frames that are complete in the buffer and applies them one by one;     *)
(* reserve_send() and send_credit() are called between feeds.              *)
(*                                                                         *)
(* Frames are any a peer can send; how the bytes are split decides how     *)
(* many frames one feed() applies.  A frame carries the fields its type    *)
(* has a use for: payload is the amount of a CREDIT (Missing if too short  *)
(* to hold one) and the request of a BUILD_REQUEST.                        *)
(***************************************************************************)
EXTENDS Integers, Sequences, FiniteSets

CONSTANTS
    StreamIds,      \* stream ids other than the control stream 0
    Generations,    \* stream generations a peer uses
    SequenceNumbers,    \* sequence numbers a peer uses
    Tokens,         \* idempotency tokens
    Requests,       \* payloads of build requests
    Amounts,        \* byte counts of credits and sends
    Missing,        \* a credit payload too short to hold a number
    MaxCredit,      \* largest credit value; u64 in the code
    MaxStreams,     \* Limits::max_streams
    MaxFrames,      \* bound: frames applied
    MaxSends        \* bound: calls of reserve_send and send_credit

NoGeneration == -1      \* a stream id without a retired generation
NoRequest == "none"     \* a token without a request

ASSUME SessionAssumption ==
    /\ 0 \notin StreamIds
    /\ IsFiniteSet(StreamIds)
    /\ Generations \subseteq Nat
    /\ SequenceNumbers \subseteq Nat
    /\ Amounts \subseteq Nat
    /\ Missing \notin Nat /\ NoRequest \notin Requests
    /\ MaxCredit \in Nat /\ MaxStreams \in Nat
    /\ MaxFrames \in Nat /\ MaxSends \in Nat

VARIABLES
    state,              \* SessionState
    live,               \* the keys of streams_
    generation, next_sequence, credit,  \* StreamState, by stream id
    terminal_pending,   \* the streams with terminal_pending set
    retired,            \* retired_stream_generations_; NoGeneration if absent
    idempotency,        \* token -> payload; NoRequest if absent
    feeding,            \* a feed() is in progress
    collected,          \* events the feed() has pushed so far
    \* history
    applied,            \* frames accepted on streams: id, generation, sequence
    requests,           \* build requests accepted: <<token, payload>>
    granted, sent,      \* bytes credited to and sent on the live stream
    dropped,            \* events pushed that no feed() returned
    frames, sends       \* counters behind the bounds

streamVars == <<live, generation, next_sequence, credit, terminal_pending, retired>>
flowVars == <<granted, sent>>
history == <<applied, requests>>
vars == <<state, streamVars, idempotency, feeding, collected, flowVars, history,
          dropped, frames, sends>>

Frame ==
    [type : {"hello", "open_stream", "close_stream", "other"},
     stream_id : StreamIds \cup {0}, stream_generation : Generations,
     sequence : SequenceNumbers, token : {0}, payload : {0}] \cup
    [type : {"credit"},
     stream_id : StreamIds \cup {0}, stream_generation : Generations,
     sequence : SequenceNumbers, token : {0}, payload : Amounts \cup {Missing}] \cup
    [type : {"build_request"},
     stream_id : StreamIds \cup {0}, stream_generation : Generations,
     sequence : SequenceNumbers, token : Tokens, payload : Requests]

Init ==
    /\ state = "accepted"
    /\ live = {}
    /\ generation = [s \in StreamIds |-> 0]
    /\ next_sequence = [s \in StreamIds |-> 0]
    /\ credit = [s \in StreamIds |-> 0]
    /\ terminal_pending = {}
    /\ retired = [s \in StreamIds |-> NoGeneration]
    /\ idempotency = [t \in Tokens |-> NoRequest]
    /\ feeding = FALSE
    /\ collected = 0
    /\ applied = <<>>
    /\ requests = {}
    /\ granted = [s \in StreamIds |-> 0]
    /\ sent = [s \in StreamIds |-> 0]
    /\ dropped = 0
    /\ frames = 0
    /\ sends = 0

-----------------------------------------------------------------------------
(***************************************************************************)
(* The tests of apply_frame.                                               *)
(***************************************************************************)

AcceptsHello(f) ==
    /\ state = "accepted"
    /\ f.type = "hello" /\ f.stream_id = 0 /\ f.sequence = 0

\* An OPEN_STREAM opens a stream in a session without one; in an active
\* session it is a frame like any other.
IsOpening(f) == state = "negotiated" /\ f.type = "open_stream"

\* A variant with a mistake in it: a retired generation may be used again.
FreshOrEqual(f) ==
    /\ f.stream_id \in live => f.stream_generation > generation[f.stream_id]
    /\ f.stream_generation >= retired[f.stream_id]

\* The generation is newer than any the stream id was used with.
Fresh(f) ==
    /\ f.stream_id \in live => f.stream_generation > generation[f.stream_id]
    /\ f.stream_generation > retired[f.stream_id]

AcceptsOpen(f) ==
    /\ IsOpening(f)
    /\ f.stream_id # 0
    /\ Fresh(f)
    /\ Cardinality(live) < MaxStreams

\* The stream exists and the frame is the next of its generation.  Nothing is
\* asked of the control stream.
InSequence(f) ==
    /\ state \in {"active", "negotiated"} /\ ~IsOpening(f)
    /\ f.stream_id # 0 =>
         /\ f.stream_id \in live
         /\ f.stream_generation = generation[f.stream_id]
         /\ f.sequence = next_sequence[f.stream_id]

\* checked_add of the credit of a stream.
CreditFits(s, n) == s \in live /\ credit[s] + n <= MaxCredit

AcceptsCredit(f) ==
    f.type = "credit" => f.payload # Missing /\ CreditFits(f.stream_id, f.payload)

\* A variant with a mistake in it.
AcceptsAnyRequest(f) == TRUE

\* IDEMPOTENCY_CONFLICT: a token stands for one request.
AcceptsRequest(f) ==
    f.type = "build_request" => idempotency[f.token] \in {NoRequest, f.payload}

Accepts(f) ==
    \/ AcceptsHello(f)
    \/ AcceptsOpen(f)
    \/ InSequence(f) /\ AcceptsCredit(f) /\ AcceptsRequest(f)

-----------------------------------------------------------------------------
(***************************************************************************)
(* feed and the branches of apply_frame.                                   *)
(***************************************************************************)

\* feed() is entered.
Feed ==
    /\ ~feeding
    /\ feeding' = TRUE
    /\ collected' = 0
    /\ UNCHANGED <<state, streamVars, idempotency, flowVars, history, dropped, frames, sends>>

\* feed() has no complete frame left and returns the events.
FeedReturn ==
    /\ feeding
    /\ feeding' = FALSE
    /\ collected' = 0
    /\ UNCHANGED <<state, streamVars, idempotency, flowVars, history, dropped, frames, sends>>

\* A frame is taken from the buffer.
TakeFrame ==
    /\ feeding
    /\ frames < MaxFrames
    /\ frames' = frames + 1
    /\ UNCHANGED sends

\* The frame becomes an event and the loop goes on.
PushEvent ==
    /\ collected' = collected + 1
    /\ UNCHANGED <<feeding, dropped>>

\* The first frame.
ApplyHello(f) ==
    /\ TakeFrame
    /\ AcceptsHello(f)
    /\ state' = "negotiated"
    /\ PushEvent
    /\ UNCHANGED <<streamVars, idempotency, flowVars, applied, requests>>

\* A variant with a mistake in it: the credit of the previous stream stays.
ApplyOpenKeepingCredit(f) ==
    /\ TakeFrame
    /\ AcceptsOpen(f)
    /\ state' = "active"
    /\ live' = live \cup {f.stream_id}
    /\ generation' = [generation EXCEPT ![f.stream_id] = f.stream_generation]
    /\ next_sequence' = [next_sequence EXCEPT ![f.stream_id] = 0]
    /\ granted' = [granted EXCEPT ![f.stream_id] = 0]
    /\ sent' = [sent EXCEPT ![f.stream_id] = 0]
    /\ PushEvent
    /\ UNCHANGED <<credit, terminal_pending, retired, idempotency, applied, requests>>

\* OPEN_STREAM: the stream starts at sequence 0 without credit.
ApplyOpen(f) ==
    /\ TakeFrame
    /\ AcceptsOpen(f)
    /\ state' = "active"
    /\ live' = live \cup {f.stream_id}
    /\ generation' = [generation EXCEPT ![f.stream_id] = f.stream_generation]
    /\ next_sequence' = [next_sequence EXCEPT ![f.stream_id] = 0]
    /\ credit' = [credit EXCEPT ![f.stream_id] = 0]
    /\ terminal_pending' = terminal_pending \ {f.stream_id}
    /\ granted' = [granted EXCEPT ![f.stream_id] = 0]
    /\ sent' = [sent EXCEPT ![f.stream_id] = 0]
    /\ PushEvent
    /\ UNCHANGED <<retired, idempotency, applied, requests>>

\* The sequence of the frame's stream moves on.
Advance(f) ==
    next_sequence' = IF f.stream_id = 0 THEN next_sequence
                     ELSE [next_sequence EXCEPT ![f.stream_id] = @ + 1]

Applicable(f) ==
    /\ TakeFrame
    /\ InSequence(f) /\ AcceptsCredit(f) /\ AcceptsRequest(f)
    /\ Advance(f)
    /\ applied' = IF f.stream_id = 0 THEN applied
                  ELSE Append(applied, [id |-> f.stream_id, gen |-> f.stream_generation,
                                        seq |-> f.sequence])
    /\ PushEvent

\* CREDIT.
ApplyCredit(f) ==
    /\ f.type = "credit"
    /\ Applicable(f)
    /\ credit' = [credit EXCEPT ![f.stream_id] = @ + f.payload]
    /\ granted' = [granted EXCEPT ![f.stream_id] = @ + f.payload]
    /\ UNCHANGED <<state, live, generation, terminal_pending, retired, idempotency, sent, requests>>

\* BUILD_REQUEST.
ApplyRequest(f) ==
    /\ f.type = "build_request"
    /\ Applicable(f)
    /\ idempotency' = [idempotency EXCEPT ![f.token] = f.payload]
    /\ requests' = requests \cup {<<f.token, f.payload>>}
    /\ UNCHANGED <<state, live, generation, credit, terminal_pending, retired, flowVars>>

\* A variant with a mistake in it: the session stays active.
ApplyCloseStayingActive(f) ==
    /\ f.type = "close_stream" /\ f.stream_id # 0
    /\ Applicable(f)
    /\ retired' = [retired EXCEPT ![f.stream_id] = generation[f.stream_id]]
    /\ live' = live \ {f.stream_id}
    /\ UNCHANGED <<state, generation, credit, terminal_pending, idempotency, flowVars, requests>>

\* CLOSE_STREAM of a stream: its generation is retired.
ApplyClose(f) ==
    /\ f.type = "close_stream" /\ f.stream_id # 0
    /\ Applicable(f)
    /\ retired' = [retired EXCEPT ![f.stream_id] = generation[f.stream_id]]
    /\ live' = live \ {f.stream_id}
    /\ state' = IF live' = {} THEN "negotiated" ELSE "active"
    /\ UNCHANGED <<generation, credit, terminal_pending, idempotency, flowVars, requests>>

\* Any other frame changes nothing but the sequence: OPEN_STREAM and HELLO in
\* the wrong place and CLOSE_STREAM of the control stream among them.
ApplyOther(f) ==
    /\ f.type \notin {"credit", "build_request"}
    /\ ~(f.type = "close_stream" /\ f.stream_id # 0)
    /\ Applicable(f)
    /\ UNCHANGED <<state, live, generation, credit, terminal_pending, retired, idempotency,
                   flowVars, requests>>

\* A variant with a mistake in it: the illegal frame is skipped over.
RejectFrameOnly(f) ==
    /\ TakeFrame
    /\ ~Accepts(f)
    /\ IF InSequence(f) THEN Advance(f) ELSE UNCHANGED next_sequence
    /\ feeding' = FALSE
    /\ collected' = 0
    /\ dropped' = dropped + collected
    /\ UNCHANGED <<state, live, generation, credit, terminal_pending, retired, idempotency,
                   flowVars, history>>

\* apply_frame fails: the session is closed and feed() returns the error in
\* place of the events.  A frame that fails past the sequence check has taken
\* its sequence number.
Reject(f) ==
    /\ TakeFrame
    /\ ~Accepts(f)
    /\ IF InSequence(f) THEN Advance(f) ELSE UNCHANGED next_sequence
    /\ state' = "closed"
    /\ feeding' = FALSE
    /\ collected' = 0
    /\ dropped' = dropped + collected
    /\ UNCHANGED <<live, generation, credit, terminal_pending, retired, idempotency,
                   flowVars, history>>

\* The codec finds the bytes malformed: the same, without a frame.
CodecError ==
    /\ TakeFrame
    /\ state' = "closed"
    /\ feeding' = FALSE
    /\ collected' = 0
    /\ dropped' = dropped + collected
    /\ UNCHANGED <<streamVars, idempotency, flowVars, history>>

-----------------------------------------------------------------------------
(***************************************************************************)
(* The daemon's side of flow control, between feeds and in any state.      *)
(***************************************************************************)
Call ==
    /\ ~feeding
    /\ sends < MaxSends
    /\ sends' = sends + 1
    /\ UNCHANGED <<state, live, generation, next_sequence, retired, idempotency, feeding,
                   collected, history, dropped, frames>>

SendCredit(s, n) ==
    /\ Call
    /\ CreditFits(s, n)
    /\ credit' = [credit EXCEPT ![s] = @ + n]
    /\ granted' = [granted EXCEPT ![s] = @ + n]
    /\ UNCHANGED <<terminal_pending, sent>>

\* reserve_send with credit.
ReserveSend(s, n) ==
    /\ Call
    /\ s \in live /\ credit[s] >= n
    /\ credit' = [credit EXCEPT ![s] = @ - n]
    /\ sent' = [sent EXCEPT ![s] = @ + n]
    /\ UNCHANGED <<terminal_pending, granted>>

\* reserve_send of a terminal event without credit: it is only noted.
ReserveTerminal(s, n) ==
    /\ Call
    /\ s \in live /\ credit[s] < n
    /\ terminal_pending' = terminal_pending \cup {s}
    /\ UNCHANGED <<credit, flowVars>>

Next ==
    \/ Feed \/ FeedReturn \/ CodecError
    \/ \E f \in Frame :
          \/ ApplyHello(f) \/ ApplyOpen(f)
          \/ ApplyCredit(f) \/ ApplyRequest(f) \/ ApplyClose(f) \/ ApplyOther(f)
          \/ Reject(f)
    \/ \E s \in StreamIds, n \in Amounts :
          SendCredit(s, n) \/ ReserveSend(s, n) \/ ReserveTerminal(s, n)

Spec == Init /\ [][Next]_vars

-----------------------------------------------------------------------------
(***************************************************************************)
(* Properties.                                                             *)
(***************************************************************************)

\* The types of the session's fields.
TypeOK ==
    /\ state \in {"accepted", "negotiated", "active", "closed"}
    /\ live \subseteq StreamIds
    /\ generation \in [StreamIds -> Nat]
    /\ next_sequence \in [StreamIds -> Nat]
    /\ credit \in [StreamIds -> 0..MaxCredit]
    /\ terminal_pending \subseteq StreamIds
    /\ retired \in [StreamIds -> Nat \cup {NoGeneration}]
    /\ idempotency \in [Tokens -> Requests \cup {NoRequest}]
    /\ feeding \in BOOLEAN
    /\ collected \in Nat
    /\ applied \in Seq([id : StreamIds, gen : Nat, seq : Nat])
    /\ requests \subseteq Tokens \X Requests
    /\ granted \in [StreamIds -> Nat]
    /\ sent \in [StreamIds -> Nat]
    /\ dropped \in Nat

\* The state machine and the stream table agree: an active session has a
\* stream, a session that is not active yet or no longer has none, and there
\* is never a second one, since OPEN_STREAM needs a negotiated session.
SessionShape ==
    /\ state \in {"accepted", "negotiated"} => live = {}
    /\ state = "active" => live # {}
    /\ \A s, t \in live : s = t

\* A stream id comes back only with a newer generation, so a frame of an
\* earlier incarnation of a stream is never taken for one of the current one.
GenerationsGrow == \A s \in live : generation[s] > retired[s]

\* No frame is applied twice: on a stream id, the frames accepted are in
\* strictly increasing order of generation and sequence, over close and
\* reopen.
NoReplay ==
    \A j, k \in 1..Len(applied) :
        j < k /\ applied[j].id = applied[k].id =>
            \/ applied[j].gen < applied[k].gen
            \/ applied[j].gen = applied[k].gen /\ applied[j].seq < applied[k].seq

\* An idempotency token stands for one request for the whole session, over
\* every stream it is used on.
OneMeaningPerToken == \A r, q \in requests : r[1] = q[1] => r[2] = q[2]

\* Nothing is sent on a stream beyond what this incarnation of it was granted.
NoOverCredit == \A s \in live : sent[s] <= granted[s]

\* Events of frames that were applied are lost only together with the session:
\* an error that takes them from feed() closes it, so no later frame and no
\* later event is taken on top of ones the daemon never saw.
LossCloses == dropped > 0 => state = "closed"

\* A closed session stays closed and takes no frame, whatever the peer sends.
ClosedIsFinal ==
    [][state = "closed" => /\ state' = "closed"
                           /\ UNCHANGED <<live, retired, idempotency, history>>]_vars

\* Why they hold.  What was accepted on a stream lies behind what the stream
\* expects next; the token table has every request that was accepted; credit
\* is what was granted less what was sent.
AppliedBehind ==
    \A k \in 1..Len(applied) :
        LET a == applied[k]
        IN  IF a.id \in live
            THEN \/ a.gen < generation[a.id]
                 \/ a.gen = generation[a.id] /\ a.seq < next_sequence[a.id]
            ELSE a.gen <= retired[a.id]
RequestsRecorded == \A r \in requests : idempotency[r[1]] = r[2]
CreditConserved == \A s \in live : sent[s] + credit[s] = granted[s]

\* The inductive invariant of a session.
SessionInvariant ==
    /\ TypeOK /\ SessionShape /\ GenerationsGrow
    /\ AppliedBehind /\ NoReplay
    /\ RequestsRecorded /\ OneMeaningPerToken
    /\ CreditConserved /\ NoOverCredit

=============================================================================
