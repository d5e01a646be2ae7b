------------------------- MODULE FipcSession_proofs -------------------------
(***************************************************************************)
(* The safety of a session, for every set of streams, generations, tokens  *)
(* and credits and for sessions of any length.                             *)
(***************************************************************************)
EXTENDS FipcSession, SequenceTheorems, TLAPS

-----------------------------------------------------------------------------
(***************************************************************************)
(* Frames.                                                                 *)
(***************************************************************************)
LEMMA FrameFields ==
    ASSUME NEW f \in Frame
    PROVE  /\ f.stream_id \in StreamIds \cup {0}
           /\ f.stream_generation \in Nat
           /\ f.sequence \in Nat
           /\ f.type = "credit" => f.payload \in Amounts \cup {Missing}
           /\ f.type = "build_request" => f.token \in Tokens /\ f.payload \in Requests
  BY SessionAssumption DEF Frame

\* The record applied keeps of a frame that is accepted on a stream.
LEMMA AppliedGrows ==
    ASSUME TypeOK, NEW f \in Frame, Applicable(f)
    PROVE  /\ applied' \in Seq([id : StreamIds, gen : Nat, seq : Nat])
           /\ f.stream_id = 0 => applied' = applied
           /\ f.stream_id # 0 =>
                 /\ Len(applied') = Len(applied) + 1
                 /\ \A k \in 1..Len(applied) : applied'[k] = applied[k]
                 /\ applied'[Len(applied) + 1].id = f.stream_id
                 /\ applied'[Len(applied) + 1].gen = f.stream_generation
                 /\ applied'[Len(applied) + 1].seq = f.sequence
<1> DEFINE R == [id |-> f.stream_id, gen |-> f.stream_generation, seq |-> f.sequence]
<1>1. CASE f.stream_id = 0
  BY <1>1 DEF Applicable, TypeOK
<1>2. CASE f.stream_id # 0
  <2>1. R \in [id : StreamIds, gen : Nat, seq : Nat]
    BY <1>2, FrameFields
  <2>2. applied \in Seq([id : StreamIds, gen : Nat, seq : Nat])
    BY DEF TypeOK
  <2>3. applied' = Append(applied, R)
    BY <1>2 DEF Applicable
  <2>4. /\ applied' \in Seq([id : StreamIds, gen : Nat, seq : Nat])
        /\ Len(applied') = Len(applied) + 1
        /\ \A k \in 1..Len(applied) : applied'[k] = applied[k]
        /\ applied'[Len(applied) + 1] = R
    BY <2>1, <2>2, <2>3, AppendProperties
  <2>5. QED  BY <1>2, <2>4
<1>3. QED  BY <1>1, <1>2

\* The sequence number a frame takes.
LEMMA AdvanceType ==
    ASSUME TypeOK, NEW f \in Frame, Advance(f)
    PROVE  /\ next_sequence' \in [StreamIds -> Nat]
           /\ \A s \in StreamIds : next_sequence'[s] >= next_sequence[s]
           /\ \A s \in StreamIds : s = f.stream_id => next_sequence'[s] = next_sequence[s] + 1
  BY FrameFields, SessionAssumption DEF Advance, TypeOK

-----------------------------------------------------------------------------
(***************************************************************************)
(* Type correctness.                                                       *)
(***************************************************************************)
LEMMA TypeInit == Init => TypeOK
<1> SUFFICES ASSUME Init PROVE TypeOK
  OBVIOUS
<1>1. 0 \in 0..MaxCredit
  BY SessionAssumption
<1>2. applied \in Seq([id : StreamIds, gen : Nat, seq : Nat])
  BY EmptySeq DEF Init
<1>3. feeding \in BOOLEAN
  BY DEF Init
<1>4. QED  BY <1>1, <1>2, <1>3 DEF Init, TypeOK, NoGeneration

LEMMA TypeStep == TypeOK /\ [Next]_vars => TypeOK'
<1> SUFFICES ASSUME TypeOK, [Next]_vars PROVE TypeOK'
  OBVIOUS
<1> USE DEF streamVars, flowVars, history
<1>1. CASE Feed
  BY <1>1 DEF Feed, TypeOK
<1>2. CASE FeedReturn
  BY <1>2 DEF FeedReturn, TypeOK
<1>3. CASE CodecError
  <2>1. dropped' \in Nat /\ collected' \in Nat
    BY <1>3 DEF CodecError, TypeOK
  <2>2. feeding' \in BOOLEAN
    BY <1>3 DEF CodecError
  <2>3. QED  BY <1>3, <2>1, <2>2 DEF CodecError, TypeOK
<1>4. ASSUME NEW f \in Frame, ApplyHello(f) PROVE TypeOK'
  BY <1>4 DEF ApplyHello, TakeFrame, PushEvent, TypeOK
<1>5. ASSUME NEW f \in Frame, ApplyOpen(f) PROVE TypeOK'
  <2>1. f.stream_id \in StreamIds /\ f.stream_generation \in Nat
    BY <1>5, FrameFields DEF ApplyOpen, AcceptsOpen
  <2>2. 0 \in 0..MaxCredit
    BY SessionAssumption
  <2>3. QED  BY <1>5, <2>1, <2>2 DEF ApplyOpen, TakeFrame, PushEvent, TypeOK
<1>6. ASSUME NEW f \in Frame, ApplyCredit(f) PROVE TypeOK'
  <2>1. f.stream_id \in StreamIds /\ f.payload \in Nat
    BY <1>6, FrameFields, SessionAssumption
       DEF ApplyCredit, Applicable, AcceptsCredit, CreditFits, TypeOK
  <2>2. credit[f.stream_id] + f.payload \in 0..MaxCredit
    BY <1>6, <2>1, SessionAssumption
       DEF ApplyCredit, Applicable, AcceptsCredit, CreditFits, TypeOK
  <2>3. next_sequence' \in [StreamIds -> Nat]
    BY <1>6, AdvanceType DEF ApplyCredit, Applicable
  <2>4. applied' \in Seq([id : StreamIds, gen : Nat, seq : Nat])
    BY <1>6, AppliedGrows DEF ApplyCredit
  <2>5. credit' \in [StreamIds -> 0..MaxCredit] /\ granted' \in [StreamIds -> Nat]
    <3>1. credit' \in [StreamIds -> 0..MaxCredit]
      BY <1>6, <2>1, <2>2 DEF ApplyCredit, TypeOK
    <3>2. granted' \in [StreamIds -> Nat]
      BY <1>6, <2>1 DEF ApplyCredit, TypeOK
    <3> QED  BY <3>1, <3>2
  <2>6. collected' \in Nat /\ UNCHANGED <<feeding, dropped>>
    BY <1>6 DEF ApplyCredit, Applicable, PushEvent, TypeOK
  <2>7. QED  BY <1>6, <2>3, <2>4, <2>5, <2>6 DEF ApplyCredit, TypeOK
<1>7. ASSUME NEW f \in Frame, ApplyRequest(f) PROVE TypeOK'
  <2>1. f.token \in Tokens /\ f.payload \in Requests
    BY <1>7, FrameFields DEF ApplyRequest
  <2>2. next_sequence' \in [StreamIds -> Nat]
    BY <1>7, AdvanceType DEF ApplyRequest, Applicable
  <2>3. applied' \in Seq([id : StreamIds, gen : Nat, seq : Nat])
    BY <1>7, AppliedGrows DEF ApplyRequest
  <2>4. QED
    BY <1>7, <2>1, <2>2, <2>3 DEF ApplyRequest, Applicable, TakeFrame, PushEvent, TypeOK
<1>8. ASSUME NEW f \in Frame, ApplyClose(f) PROVE TypeOK'
  <2>1. f.stream_id \in StreamIds
    BY <1>8, FrameFields DEF ApplyClose
  <2>2. next_sequence' \in [StreamIds -> Nat]
    BY <1>8, AdvanceType DEF ApplyClose, Applicable
  <2>3. applied' \in Seq([id : StreamIds, gen : Nat, seq : Nat])
    BY <1>8, AppliedGrows DEF ApplyClose
  <2>4. state' \in {"accepted", "negotiated", "active", "closed"}
    BY <1>8 DEF ApplyClose
  <2>5. live' \subseteq StreamIds /\ retired' \in [StreamIds -> Nat \cup {NoGeneration}]
    BY <1>8, <2>1 DEF ApplyClose, TypeOK
  <2>6. collected' \in Nat /\ UNCHANGED <<feeding, dropped>>
    BY <1>8 DEF ApplyClose, Applicable, PushEvent, TypeOK
  <2>7. QED  BY <1>8, <2>2, <2>3, <2>4, <2>5, <2>6 DEF ApplyClose, TypeOK
<1>9. ASSUME NEW f \in Frame, ApplyOther(f) PROVE TypeOK'
  <2>1. next_sequence' \in [StreamIds -> Nat]
    BY <1>9, AdvanceType DEF ApplyOther, Applicable
  <2>2. applied' \in Seq([id : StreamIds, gen : Nat, seq : Nat])
    BY <1>9, AppliedGrows DEF ApplyOther
  <2>3. QED
    BY <1>9, <2>1, <2>2 DEF ApplyOther, Applicable, TakeFrame, PushEvent, TypeOK
<1>10. ASSUME NEW f \in Frame, Reject(f) PROVE TypeOK'
  <2>1. next_sequence' \in [StreamIds -> Nat]
    BY <1>10, AdvanceType DEF Reject, TypeOK
  <2>2. dropped' \in Nat /\ collected' \in Nat
    BY <1>10 DEF Reject, TypeOK
  <2>3. feeding' \in BOOLEAN /\ state' = "closed"
    BY <1>10 DEF Reject
  <2>4. UNCHANGED <<live, generation, credit, terminal_pending, retired, idempotency,
                    flowVars, history>>
    BY <1>10 DEF Reject
  <2>5. QED  BY <2>1, <2>2, <2>3, <2>4 DEF TypeOK
<1>11. ASSUME NEW s \in StreamIds, NEW n \in Amounts, SendCredit(s, n) PROVE TypeOK'
  <2>1. n \in Nat /\ credit[s] + n \in 0..MaxCredit
    BY <1>11, SessionAssumption DEF SendCredit, CreditFits, TypeOK
  <2>2. credit' \in [StreamIds -> 0..MaxCredit]
    BY <1>11, <2>1 DEF SendCredit, TypeOK
  <2>3. granted' \in [StreamIds -> Nat]
    BY <1>11, <2>1 DEF SendCredit, TypeOK
  <2>4. /\ UNCHANGED <<terminal_pending, sent, state, live, generation, next_sequence, retired, idempotency>>
        /\ UNCHANGED <<feeding, collected, history, dropped, frames>> /\ sends' = sends + 1
    BY <1>11 DEF SendCredit, Call
  <2>5. QED  BY <2>2, <2>3, <2>4 DEF TypeOK, history
<1>12. ASSUME NEW s \in StreamIds, NEW n \in Amounts, ReserveSend(s, n) PROVE TypeOK'
  <2>1. n \in Nat /\ credit[s] - n \in 0..MaxCredit
    BY <1>12, SessionAssumption DEF ReserveSend, TypeOK
  <2>2. credit' \in [StreamIds -> 0..MaxCredit]
    BY <1>12, <2>1 DEF ReserveSend, TypeOK
  <2>3. sent' \in [StreamIds -> Nat]
    BY <1>12, <2>1 DEF ReserveSend, TypeOK
  <2>4. /\ UNCHANGED <<terminal_pending, granted, state, live, generation, next_sequence, retired, idempotency>>
        /\ UNCHANGED <<feeding, collected, history, dropped, frames>> /\ sends' = sends + 1
    BY <1>12 DEF ReserveSend, Call
  <2>5. QED  BY <2>2, <2>3, <2>4 DEF TypeOK, history
<1>13. ASSUME NEW s \in StreamIds, NEW n \in Amounts, ReserveTerminal(s, n) PROVE TypeOK'
  BY <1>13 DEF ReserveTerminal, Call, TypeOK
<1>14. CASE UNCHANGED vars
  BY <1>14 DEF vars, TypeOK
<1>15. QED
  BY <1>1, <1>2, <1>3, <1>4, <1>5, <1>6, <1>7, <1>8, <1>9, <1>10, <1>11, <1>12, <1>13, <1>14
     DEF Next

\* The session's fields keep their types; in particular no sequence of
\* credits, sends and reopened streams takes a credit past the largest value.
THEOREM TypeCorrect == Spec => []TypeOK
  BY TypeInit, TypeStep, PTL DEF Spec

-----------------------------------------------------------------------------
(***************************************************************************)
(* The session's state and its stream table.                               *)
(***************************************************************************)
LEMMA ShapeStep ==
    ASSUME TypeOK, SessionShape, GenerationsGrow, [Next]_vars
    PROVE  SessionShape' /\ GenerationsGrow'
<1> USE DEF streamVars, flowVars, history
<1>1. CASE UNCHANGED <<live, generation, retired>> /\ state' \in {state, "closed"}
  BY <1>1 DEF SessionShape, GenerationsGrow
<1>2. CASE Feed \/ FeedReturn \/ UNCHANGED vars
  BY <1>1, <1>2 DEF Feed, FeedReturn, vars
<1>3. CASE CodecError
  BY <1>1, <1>3 DEF CodecError
<1>4. ASSUME NEW f \in Frame, ApplyHello(f) PROVE SessionShape' /\ GenerationsGrow'
  <2>1. live = {} /\ live' = {} /\ state' = "negotiated"
    BY <1>4 DEF ApplyHello, AcceptsHello, SessionShape
  <2>2. QED  BY <2>1 DEF SessionShape, GenerationsGrow
<1>5. ASSUME NEW f \in Frame, ApplyOpen(f) PROVE SessionShape' /\ GenerationsGrow'
  <2>1. live = {} /\ live' = {f.stream_id} /\ state' = "active"
    BY <1>5 DEF ApplyOpen, AcceptsOpen, IsOpening, SessionShape
  <2>2. f.stream_id \in StreamIds
    BY <1>5, FrameFields DEF ApplyOpen, AcceptsOpen
  <2>3. generation'[f.stream_id] > retired'[f.stream_id]
    BY <1>5, <2>2 DEF ApplyOpen, AcceptsOpen, Fresh, TypeOK
  <2>4. QED  BY <2>1, <2>3 DEF SessionShape, GenerationsGrow
<1>6. ASSUME NEW f \in Frame, ApplyCredit(f) PROVE SessionShape' /\ GenerationsGrow'
  BY <1>1, <1>6 DEF ApplyCredit
<1>7. ASSUME NEW f \in Frame, ApplyRequest(f) PROVE SessionShape' /\ GenerationsGrow'
  BY <1>1, <1>7 DEF ApplyRequest
<1>8. ASSUME NEW f \in Frame, ApplyClose(f) PROVE SessionShape' /\ GenerationsGrow'
  <2>1. f.stream_id \in live
    BY <1>8 DEF ApplyClose, Applicable, InSequence
  <2>2. live' = {}
    BY <1>8, <2>1 DEF ApplyClose, SessionShape
  <2>3. state' = "negotiated"
    BY <1>8, <2>2 DEF ApplyClose
  <2>4. QED  BY <2>2, <2>3 DEF SessionShape, GenerationsGrow
<1>9. ASSUME NEW f \in Frame, ApplyOther(f) PROVE SessionShape' /\ GenerationsGrow'
  BY <1>1, <1>9 DEF ApplyOther
<1>10. ASSUME NEW f \in Frame, Reject(f) PROVE SessionShape' /\ GenerationsGrow'
  BY <1>1, <1>10 DEF Reject
<1>11. ASSUME NEW s \in StreamIds, NEW n \in Amounts,
              SendCredit(s, n) \/ ReserveSend(s, n) \/ ReserveTerminal(s, n)
       PROVE  SessionShape' /\ GenerationsGrow'
  BY <1>1, <1>11 DEF SendCredit, ReserveSend, ReserveTerminal, Call
<1>12. QED
  BY <1>2, <1>3, <1>4, <1>5, <1>6, <1>7, <1>8, <1>9, <1>10, <1>11 DEF Next

-----------------------------------------------------------------------------
(***************************************************************************)
(* Replay.  A frame that is accepted on a stream is the one the stream     *)
(* expects, and everything accepted earlier lies behind it.                *)
(***************************************************************************)
LEMMA AcceptedIsNext ==
    ASSUME TypeOK, AppliedBehind, NoReplay, NEW f \in Frame, Applicable(f)
    PROVE  NoReplay'
<1>1. CASE f.stream_id = 0
  <2>1. applied' = applied
    BY <1>1, AppliedGrows
  <2>2. QED  BY <2>1 DEF NoReplay
<1>2. CASE f.stream_id # 0
  <2> DEFINE n == Len(applied)
  <2>1. n \in Nat /\ \A k \in 1..n : applied[k] \in [id : StreamIds, gen : Nat, seq : Nat]
    BY LenProperties, ElementOfSeq DEF TypeOK
  <2>2. /\ Len(applied') = n + 1
        /\ \A k \in 1..n : applied'[k] = applied[k]
        /\ applied'[n + 1].id = f.stream_id
        /\ applied'[n + 1].gen = f.stream_generation
        /\ applied'[n + 1].seq = f.sequence
    BY <1>2, AppliedGrows
  <2>3. /\ f.stream_id \in live
        /\ f.stream_generation = generation[f.stream_id]
        /\ f.sequence = next_sequence[f.stream_id]
    BY <1>2 DEF Applicable, InSequence
  <2>4. \A j \in 1..n : applied[j].id = f.stream_id =>
           \/ applied[j].gen < f.stream_generation
           \/ applied[j].gen = f.stream_generation /\ applied[j].seq < f.sequence
    BY <2>3 DEF AppliedBehind
  <2> HIDE DEF n
  <2>5. SUFFICES ASSUME NEW j \in 1..n+1, NEW k \in 1..n+1, j < k, applied'[j].id = applied'[k].id
                 PROVE  \/ applied'[j].gen < applied'[k].gen
                        \/ applied'[j].gen = applied'[k].gen /\ applied'[j].seq < applied'[k].seq
    BY <2>2 DEF NoReplay
  <2>6. j \in 1..n
    BY <2>1, <2>5
  <2>7. CASE k = n + 1
    BY <2>2, <2>4, <2>5, <2>6, <2>7
  <2>8. CASE k \in 1..n
    BY <2>2, <2>5, <2>6, <2>8 DEF NoReplay, n
  <2>9. QED  BY <2>1, <2>7, <2>8
<1>3. QED  BY <1>1, <1>2

\* A frame that leaves the stream table as it is.
LEMMA AcceptedLiesBehind ==
    ASSUME TypeOK, AppliedBehind, NEW f \in Frame, Applicable(f),
           UNCHANGED <<live, generation, retired>>
    PROVE  AppliedBehind'
<1> DEFINE n == Len(applied)
<1>1. n \in Nat /\ \A k \in 1..n : applied[k] \in [id : StreamIds, gen : Nat, seq : Nat]
  BY LenProperties, ElementOfSeq DEF TypeOK
<1>2. /\ next_sequence' \in [StreamIds -> Nat]
      /\ \A s \in StreamIds : next_sequence'[s] >= next_sequence[s]
      /\ \A s \in StreamIds : s = f.stream_id => next_sequence'[s] = next_sequence[s] + 1
  BY AdvanceType DEF Applicable
<1>3. /\ next_sequence \in [StreamIds -> Nat]
      /\ generation \in [StreamIds -> Nat]
      /\ live \subseteq StreamIds
  BY DEF TypeOK
<1>4. SUFFICES ASSUME NEW k \in 1..Len(applied')
               PROVE  IF applied'[k].id \in live
                      THEN \/ applied'[k].gen < generation[applied'[k].id]
                           \/ /\ applied'[k].gen = generation[applied'[k].id]
                              /\ applied'[k].seq < next_sequence'[applied'[k].id]
                      ELSE applied'[k].gen <= retired[applied'[k].id]
  BY DEF AppliedBehind
<1>5. CASE k \in 1..n /\ applied'[k] = applied[k]
  BY <1>1, <1>2, <1>3, <1>5 DEF AppliedBehind
<1>6. CASE f.stream_id = 0
  BY <1>4, <1>5, <1>6, AppliedGrows
<1>7. CASE f.stream_id # 0
  <2>1. /\ f.stream_id \in live
        /\ f.stream_generation = generation[f.stream_id]
        /\ f.sequence = next_sequence[f.stream_id]
    BY <1>7 DEF Applicable, InSequence
  <2>2. /\ Len(applied') = n + 1
        /\ \A j \in 1..n : applied'[j] = applied[j]
        /\ applied'[n + 1].id = f.stream_id
        /\ applied'[n + 1].gen = f.stream_generation
        /\ applied'[n + 1].seq = f.sequence
    BY <1>7, AppliedGrows
  <2> HIDE DEF n
  <2>3. CASE k = n + 1
    BY <1>2, <1>3, <2>1, <2>2, <2>3
  <2>4. CASE k \in 1..n
    BY <1>5, <2>2, <2>4
  <2>5. QED  BY <1>1, <1>4, <2>2, <2>3, <2>4
<1>8. QED  BY <1>6, <1>7

LEMMA ReplayStep ==
    ASSUME TypeOK, SessionShape, GenerationsGrow, AppliedBehind, NoReplay, [Next]_vars
    PROVE  AppliedBehind' /\ NoReplay'
<1> USE DEF streamVars, flowVars, history
<1> DEFINE Recorded == \A k \in 1..Len(applied) :
                          applied[k] \in [id : StreamIds, gen : Nat, seq : Nat]
<1>0. Recorded
  BY ElementOfSeq DEF TypeOK
<1>1. CASE UNCHANGED <<live, generation, retired, next_sequence, applied>>
  BY <1>1 DEF AppliedBehind, NoReplay
<1>2. CASE Feed \/ FeedReturn \/ UNCHANGED vars
  BY <1>1, <1>2 DEF Feed, FeedReturn, vars
<1>3. CASE CodecError
  BY <1>1, <1>3 DEF CodecError
<1>4. ASSUME NEW f \in Frame, ApplyHello(f) PROVE AppliedBehind' /\ NoReplay'
  BY <1>1, <1>4 DEF ApplyHello
<1>5. ASSUME NEW f \in Frame, ApplyOpen(f) PROVE AppliedBehind' /\ NoReplay'
  <2>1. live = {} /\ live' = {f.stream_id} /\ UNCHANGED <<applied, retired>>
    BY <1>5 DEF ApplyOpen, AcceptsOpen, IsOpening, SessionShape
  <2>2. f.stream_id \in StreamIds /\ f.stream_generation \in Nat
    BY <1>5, FrameFields DEF ApplyOpen, AcceptsOpen
  <2>3. /\ generation'[f.stream_id] = f.stream_generation
        /\ f.stream_generation > retired[f.stream_id]
    BY <1>5, <2>2 DEF ApplyOpen, AcceptsOpen, Fresh, TypeOK
  <2>4. \A k \in 1..Len(applied) : applied[k].gen <= retired[applied[k].id]
    BY <2>1 DEF AppliedBehind
  <2>5. \A k \in 1..Len(applied) :
           applied[k].id = f.stream_id => applied[k].gen < f.stream_generation
    <3>1. \A k \in 1..Len(applied) : applied[k].gen \in Nat
      BY <1>0
    <3>2. retired[f.stream_id] \in Int
      BY <2>2 DEF TypeOK, NoGeneration
    <3>3. QED  BY <2>2, <2>3, <2>4, <3>1, <3>2
  <2>6. AppliedBehind'
    BY <2>1, <2>3, <2>4, <2>5 DEF AppliedBehind
  <2>7. QED  BY <2>1, <2>6 DEF NoReplay
<1>6. ASSUME NEW f \in Frame, ApplyCredit(f) PROVE AppliedBehind' /\ NoReplay'
  BY <1>6, AcceptedIsNext, AcceptedLiesBehind DEF ApplyCredit
<1>7. ASSUME NEW f \in Frame, ApplyRequest(f) PROVE AppliedBehind' /\ NoReplay'
  BY <1>7, AcceptedIsNext, AcceptedLiesBehind DEF ApplyRequest
<1>8. ASSUME NEW f \in Frame, ApplyClose(f) PROVE AppliedBehind' /\ NoReplay'
  <2>1. Applicable(f) /\ f.stream_id \in StreamIds /\ f.stream_id # 0
    BY <1>8, FrameFields DEF ApplyClose
  <2>2. NoReplay'
    BY <2>1, AcceptedIsNext
  <2>3. f.stream_id \in live /\ f.stream_generation = generation[f.stream_id]
    BY <2>1 DEF Applicable, InSequence
  <2>4. live = {f.stream_id} /\ live' = {}
    BY <1>8, <2>3 DEF ApplyClose, SessionShape
  <2>5. /\ retired'[f.stream_id] = generation[f.stream_id]
        /\ \A s \in StreamIds \ {f.stream_id} : retired'[s] = retired[s]
    BY <1>8, <2>1 DEF ApplyClose, TypeOK
  <2>6. \A k \in 1..Len(applied) : applied[k].gen <= retired'[applied[k].id]
    <3>1. SUFFICES ASSUME NEW k \in 1..Len(applied)
                   PROVE  applied[k].gen <= retired'[applied[k].id]
      OBVIOUS
    <3>2. CASE applied[k].id = f.stream_id
      <4>1. applied[k].gen \in Nat /\ generation[f.stream_id] \in Nat
        BY <1>0, <2>1 DEF TypeOK
      <4>2. \/ applied[k].gen < generation[f.stream_id]
            \/ applied[k].gen = generation[f.stream_id]
        BY <2>4, <3>2 DEF AppliedBehind
      <4>3. QED  BY <2>5, <3>2, <4>1, <4>2
    <3>3. CASE applied[k].id # f.stream_id
      BY <1>0, <2>4, <2>5, <3>3 DEF AppliedBehind
    <3>4. QED  BY <3>2, <3>3
  <2>7. \A k \in 1..Len(applied') : applied'[k].gen <= retired'[applied'[k].id]
    <3>1. /\ Len(applied') = Len(applied) + 1
          /\ \A k \in 1..Len(applied) : applied'[k] = applied[k]
          /\ applied'[Len(applied) + 1].id = f.stream_id
          /\ applied'[Len(applied) + 1].gen = generation[f.stream_id]
      BY <2>1, <2>3, AppliedGrows
    <3>2. generation[f.stream_id] \in Nat /\ Len(applied) \in Nat
      BY <2>1, LenProperties DEF TypeOK
    <3>3. QED  BY <2>5, <2>6, <3>1, <3>2
  <2>8. QED  BY <2>2, <2>4, <2>7 DEF AppliedBehind
<1>9. ASSUME NEW f \in Frame, ApplyOther(f) PROVE AppliedBehind' /\ NoReplay'
  BY <1>9, AcceptedIsNext, AcceptedLiesBehind DEF ApplyOther
<1>10. ASSUME NEW f \in Frame, Reject(f) PROVE AppliedBehind' /\ NoReplay'
  <2>1. UNCHANGED <<live, generation, retired, applied>>
    BY <1>10 DEF Reject
  <2>2. /\ next_sequence \in [StreamIds -> Nat]
        /\ next_sequence' \in [StreamIds -> Nat]
        /\ \A s \in StreamIds : next_sequence'[s] >= next_sequence[s]
    <3>1. next_sequence \in [StreamIds -> Nat]
      BY DEF TypeOK
    <3>2. CASE Advance(f)
      BY <3>1, <3>2, AdvanceType
    <3>3. CASE UNCHANGED next_sequence
      BY <3>1, <3>3
    <3>4. QED  BY <1>10, <3>2, <3>3 DEF Reject
  <2>3. NoReplay'
    BY <2>1 DEF NoReplay
  <2>4. AppliedBehind'
    BY <1>0, <2>1, <2>2 DEF AppliedBehind
  <2>5. QED  BY <2>3, <2>4
<1>11. ASSUME NEW s \in StreamIds, NEW n \in Amounts,
              SendCredit(s, n) \/ ReserveSend(s, n) \/ ReserveTerminal(s, n)
       PROVE  AppliedBehind' /\ NoReplay'
  BY <1>1, <1>11 DEF SendCredit, ReserveSend, ReserveTerminal, Call
<1>12. QED
  BY <1>2, <1>3, <1>4, <1>5, <1>6, <1>7, <1>8, <1>9, <1>10, <1>11 DEF Next

-----------------------------------------------------------------------------
(***************************************************************************)
(* Idempotency tokens.                                                     *)
(***************************************************************************)
LEMMA TokenStep ==
    ASSUME TypeOK, RequestsRecorded, [Next]_vars
    PROVE  RequestsRecorded'
<1> USE DEF streamVars, flowVars, history
<1>1. CASE UNCHANGED <<idempotency, requests>>
  BY <1>1 DEF RequestsRecorded
<1>2. CASE Feed \/ FeedReturn \/ CodecError \/ UNCHANGED vars
  BY <1>1, <1>2 DEF Feed, FeedReturn, CodecError, vars
<1>3. ASSUME NEW f \in Frame, ApplyHello(f) \/ ApplyOpen(f) PROVE RequestsRecorded'
  BY <1>1, <1>3 DEF ApplyHello, ApplyOpen
<1>4. ASSUME NEW f \in Frame, ApplyCredit(f) \/ ApplyClose(f) \/ ApplyOther(f)
      PROVE  RequestsRecorded'
  BY <1>1, <1>4 DEF ApplyCredit, ApplyClose, ApplyOther
<1>5. ASSUME NEW f \in Frame, ApplyRequest(f) PROVE RequestsRecorded'
  <2>1. f.token \in Tokens /\ f.payload \in Requests
    BY <1>5, FrameFields DEF ApplyRequest
  <2>2. idempotency[f.token] \in {NoRequest, f.payload}
    BY <1>5 DEF ApplyRequest, Applicable, AcceptsRequest
  <2>3. /\ idempotency' = [idempotency EXCEPT ![f.token] = f.payload]
        /\ requests' = requests \cup {<<f.token, f.payload>>}
    BY <1>5 DEF ApplyRequest
  <2>4. SUFFICES ASSUME NEW r \in requests' PROVE idempotency'[r[1]] = r[2]
    BY DEF RequestsRecorded
  <2>5. CASE r = <<f.token, f.payload>>
    BY <2>1, <2>3, <2>5 DEF TypeOK
  <2>6. CASE r \in requests
    <3>1. r[1] \in Tokens /\ r[2] \in Requests /\ idempotency[r[1]] = r[2]
      BY <2>6 DEF RequestsRecorded, TypeOK
    <3>2. r[1] = f.token => r[2] = f.payload
      BY <2>2, <3>1, SessionAssumption
    <3>3. QED  BY <2>3, <3>1, <3>2 DEF TypeOK
  <2>7. QED  BY <2>3, <2>4, <2>5, <2>6
<1>6. ASSUME NEW f \in Frame, Reject(f) PROVE RequestsRecorded'
  BY <1>1, <1>6 DEF Reject
<1>7. ASSUME NEW s \in StreamIds, NEW n \in Amounts,
              SendCredit(s, n) \/ ReserveSend(s, n) \/ ReserveTerminal(s, n)
      PROVE  RequestsRecorded'
  BY <1>1, <1>7 DEF SendCredit, ReserveSend, ReserveTerminal, Call
<1>8. QED  BY <1>2, <1>3, <1>4, <1>5, <1>6, <1>7 DEF Next

-----------------------------------------------------------------------------
(***************************************************************************)
(* Credit.                                                                 *)
(***************************************************************************)
LEMMA CreditStep ==
    ASSUME TypeOK, SessionShape, CreditConserved, [Next]_vars
    PROVE  CreditConserved'
<1> USE DEF streamVars, flowVars, history
<1>0. /\ live \subseteq StreamIds
      /\ credit \in [StreamIds -> Nat]
      /\ granted \in [StreamIds -> Nat]
      /\ sent \in [StreamIds -> Nat]
  BY SessionAssumption DEF TypeOK
<1>1. CASE live' \subseteq live /\ UNCHANGED <<credit, granted, sent>>
  BY <1>1 DEF CreditConserved
<1>2. CASE Feed \/ FeedReturn \/ CodecError \/ UNCHANGED vars
  BY <1>1, <1>2 DEF Feed, FeedReturn, CodecError, vars
<1>3. ASSUME NEW f \in Frame, ApplyHello(f) PROVE CreditConserved'
  BY <1>1, <1>3 DEF ApplyHello
<1>4. ASSUME NEW f \in Frame, ApplyOpen(f) PROVE CreditConserved'
  <2>1. live' = {f.stream_id} /\ f.stream_id \in StreamIds
    BY <1>4, FrameFields DEF ApplyOpen, AcceptsOpen, IsOpening, SessionShape
  <2>2. /\ credit'[f.stream_id] = 0
        /\ granted'[f.stream_id] = 0
        /\ sent'[f.stream_id] = 0
    BY <1>0, <1>4, <2>1 DEF ApplyOpen
  <2>3. QED  BY <2>1, <2>2 DEF CreditConserved
<1>5. ASSUME NEW f \in Frame, ApplyCredit(f) PROVE CreditConserved'
  <2>1. f.stream_id \in live /\ f.payload \in Nat
    BY <1>5, FrameFields, SessionAssumption
       DEF ApplyCredit, Applicable, AcceptsCredit, CreditFits
  <2>2. /\ credit' = [credit EXCEPT ![f.stream_id] = @ + f.payload]
        /\ granted' = [granted EXCEPT ![f.stream_id] = @ + f.payload]
        /\ UNCHANGED <<live, sent>>
    BY <1>5 DEF ApplyCredit
  <2>3. QED  BY <1>0, <2>1, <2>2 DEF CreditConserved
<1>6. ASSUME NEW f \in Frame, ApplyRequest(f) \/ ApplyClose(f) \/ ApplyOther(f)
      PROVE  CreditConserved'
  BY <1>1, <1>6 DEF ApplyRequest, ApplyClose, ApplyOther
<1>7. ASSUME NEW f \in Frame, Reject(f) PROVE CreditConserved'
  BY <1>1, <1>7 DEF Reject
<1>8. ASSUME NEW s \in StreamIds, NEW n \in Amounts, SendCredit(s, n) PROVE CreditConserved'
  BY <1>0, <1>8, SessionAssumption DEF SendCredit, Call, CreditConserved
<1>9. ASSUME NEW s \in StreamIds, NEW n \in Amounts, ReserveSend(s, n) PROVE CreditConserved'
  BY <1>0, <1>9, SessionAssumption DEF ReserveSend, Call, CreditConserved
<1>10. ASSUME NEW s \in StreamIds, NEW n \in Amounts, ReserveTerminal(s, n)
       PROVE  CreditConserved'
  BY <1>1, <1>10 DEF ReserveTerminal, Call
<1>11. QED  BY <1>2, <1>3, <1>4, <1>5, <1>6, <1>7, <1>8, <1>9, <1>10 DEF Next

-----------------------------------------------------------------------------
(***************************************************************************)
(* The theorems.                                                           *)
(***************************************************************************)

\* The inductive invariant of feed, apply_frame, send_credit and reserve_send:
\* it holds of a new session and every frame and call preserves it.
THEOREM SessionInvariantHolds == Spec => []SessionInvariant
<1>1. Init => SessionInvariant
  <2> SUFFICES ASSUME Init PROVE SessionInvariant
    OBVIOUS
  <2>1. TypeOK
    BY TypeInit
  <2>2. live = {} /\ requests = {} /\ applied = <<>> /\ state = "accepted"
    BY DEF Init
  <2>3. SessionShape /\ GenerationsGrow /\ CreditConserved /\ NoOverCredit
    BY <2>2 DEF SessionShape, GenerationsGrow, CreditConserved, NoOverCredit
  <2>4. RequestsRecorded /\ OneMeaningPerToken
    BY <2>2 DEF RequestsRecorded, OneMeaningPerToken
  <2>5. 1..Len(applied) = {}
    BY <2>2
  <2>6. AppliedBehind /\ NoReplay
    BY <2>5 DEF AppliedBehind, NoReplay
  <2>7. QED  BY <2>1, <2>3, <2>4, <2>6 DEF SessionInvariant
<1>2. SessionInvariant /\ [Next]_vars => SessionInvariant'
  <2> SUFFICES ASSUME SessionInvariant, [Next]_vars PROVE SessionInvariant'
    OBVIOUS
  <2> USE DEF SessionInvariant
  <2>1. TypeOK'
    BY TypeStep
  <2>2. SessionShape' /\ GenerationsGrow'
    BY ShapeStep
  <2>3. AppliedBehind' /\ NoReplay'
    BY ReplayStep
  <2>4. RequestsRecorded' /\ CreditConserved'
    BY TokenStep, CreditStep
  <2>5. OneMeaningPerToken'
    BY <2>4 DEF RequestsRecorded, OneMeaningPerToken
  <2>6. (/\ live \subseteq StreamIds
         /\ credit \in [StreamIds -> Nat]
         /\ granted \in [StreamIds -> Nat]
         /\ sent \in [StreamIds -> Nat])'
    BY <2>1, SessionAssumption DEF TypeOK
  <2>7. NoOverCredit'
    BY <2>4, <2>6 DEF CreditConserved, NoOverCredit
  <2>8. QED  BY <2>1, <2>2, <2>3, <2>4, <2>5, <2>7
<1>3. QED  BY <1>1, <1>2, PTL DEF Spec

\* The session's state agrees with its stream table after every frame: an
\* active session has exactly one stream and a negotiated one none.
THEOREM SessionShapeHolds == Spec => []SessionShape
  BY SessionInvariantHolds, PTL DEF SessionInvariant

\* A stream id that is opened again has a newer generation than every earlier
\* use of it that was closed.
THEOREM GenerationsGrowHolds == Spec => []GenerationsGrow
  BY SessionInvariantHolds, PTL DEF SessionInvariant

\* apply_frame never accepts a frame twice, however often streams are closed
\* and opened again.
THEOREM NoReplayHolds == Spec => []NoReplay
  BY SessionInvariantHolds, PTL DEF SessionInvariant

\* A session never accepts two different requests under one token.
THEOREM OneMeaningPerTokenHolds == Spec => []OneMeaningPerToken
  BY SessionInvariantHolds, PTL DEF SessionInvariant

\* reserve_send never lets a stream overdraw the credit of its incarnation.
THEOREM NoOverCreditHolds == Spec => []NoOverCredit
  BY SessionInvariantHolds, PTL DEF SessionInvariant

\* No frame and no call brings a closed session back or has an effect on it.
THEOREM ClosedIsFinalHolds == Spec => ClosedIsFinal
<1>1. [Next]_vars =>
         [state = "closed" => /\ state' = "closed"
                              /\ UNCHANGED <<live, retired, idempotency, history>>]_vars
  <2> SUFFICES ASSUME Next, state = "closed"
               PROVE  state' = "closed" /\ UNCHANGED <<live, retired, idempotency, history>>
    OBVIOUS
  <2> USE DEF streamVars, flowVars, history
  <2>1. CASE Feed \/ FeedReturn \/ CodecError
    BY <2>1 DEF Feed, FeedReturn, CodecError
  <2>2. ASSUME NEW f \in Frame PROVE ~ApplyHello(f) /\ ~ApplyOpen(f) /\ ~Applicable(f)
    BY DEF ApplyHello, AcceptsHello, ApplyOpen, AcceptsOpen, IsOpening, Applicable, InSequence
  <2>3. ASSUME NEW f \in Frame,
               ApplyCredit(f) \/ ApplyRequest(f) \/ ApplyClose(f) \/ ApplyOther(f)
        PROVE  FALSE
    BY <2>2, <2>3 DEF ApplyCredit, ApplyRequest, ApplyClose, ApplyOther
  <2>4. ASSUME NEW f \in Frame, Reject(f)
        PROVE  state' = "closed" /\ UNCHANGED <<live, retired, idempotency, history>>
    BY <2>4 DEF Reject
  <2>5. ASSUME NEW s \in StreamIds, NEW n \in Amounts,
               SendCredit(s, n) \/ ReserveSend(s, n) \/ ReserveTerminal(s, n)
        PROVE  state' = "closed" /\ UNCHANGED <<live, retired, idempotency, history>>
    BY <2>5 DEF SendCredit, ReserveSend, ReserveTerminal, Call
  <2>6. QED  BY <2>1, <2>2, <2>3, <2>4, <2>5 DEF Next
<1>2. QED  BY <1>1, PTL DEF Spec, ClosedIsFinal

\* feed() loses the events of applied frames only in a session it closes.
THEOREM LossClosesHolds == Spec => []LossCloses
<1>1. Init => LossCloses
  BY DEF Init, LossCloses
<1>2. LossCloses /\ [Next]_vars => LossCloses'
  <2> SUFFICES ASSUME LossCloses, [Next]_vars, dropped' > 0 PROVE state' = "closed"
    BY DEF LossCloses
  <2> USE DEF LossCloses
  <2>1. CASE UNCHANGED vars
    BY <2>1 DEF vars
  <2>2. CASE Feed \/ FeedReturn \/ CodecError
    BY <2>2 DEF Feed, FeedReturn, CodecError
  <2>3. ASSUME NEW f \in Frame, ApplyHello(f) \/ ApplyOpen(f) PROVE FALSE
    BY <2>3 DEF ApplyHello, AcceptsHello, ApplyOpen, AcceptsOpen, IsOpening, PushEvent
  <2>4. ASSUME NEW f \in Frame, Applicable(f) PROVE FALSE
    BY <2>4 DEF Applicable, InSequence, PushEvent
  <2>5. ASSUME NEW f \in Frame,
               ApplyCredit(f) \/ ApplyRequest(f) \/ ApplyClose(f) \/ ApplyOther(f)
        PROVE  FALSE
    BY <2>4, <2>5 DEF ApplyCredit, ApplyRequest, ApplyClose, ApplyOther
  <2>6. ASSUME NEW f \in Frame, Reject(f) PROVE state' = "closed"
    BY <2>6 DEF Reject
  <2>7. ASSUME NEW s \in StreamIds, NEW n \in Amounts,
               SendCredit(s, n) \/ ReserveSend(s, n) \/ ReserveTerminal(s, n)
        PROVE  state' = "closed"
    BY <2>7 DEF SendCredit, ReserveSend, ReserveTerminal, Call
  <2>8. QED  BY <2>1, <2>2, <2>3, <2>5, <2>6, <2>7 DEF Next
<1>3. QED  BY <1>1, <1>2, PTL DEF Spec

=============================================================================
