----------------------------- MODULE FipcCodec -----------------------------
(***************************************************************************)
(* FipcCodec: frames to bytes and back.  feed() takes bytes as they come   *)
(* from a socket, split anywhere, keeps what does not make a frame yet and *)
(* returns at most one frame.                                              *)
(*                                                                         *)
(* A byte is known by the frame it was encoded from and its place in it.   *)
(* frame_len is what the length field says; intact is false when a         *)
(* checksum does not agree with what it covers.  Bytes that do not line up *)
(* with a frame have the checksums of nothing, so they fail them too.      *)
(***************************************************************************)
EXTENDS Naturals, Sequences

CONSTANTS
    kFrameHeaderSize,
    max_frame_bytes, max_single_allocation  \* Limits

ASSUME CodecAssumption ==
    /\ {kFrameHeaderSize, max_frame_bytes, max_single_allocation} \subseteq Nat \ {0}
    /\ kFrameHeaderSize <= max_frame_bytes

NewCodec == [buffer |-> <<>>, closed |-> FALSE]

LegalLength(f) == f.frame_len >= kFrameHeaderSize /\ f.frame_len <= max_frame_bytes

\* encode.  A frame with an illegal length comes from a peer that sends a
\* header and no more.
Encode(f) ==
    [i \in 1..(IF LegalLength(f) THEN f.frame_len ELSE kFrameHeaderSize) |->
        [frame |-> f, at |-> i]]

\* The checksums of the frame at the front of the buffer agree.  The limit on
\* the payload, max_payload_bytes, is equal to max_frame_bytes by default, so
\* that a frame of legal length is within it: it is left out.
Checked(buffer, f) ==
    f.intact /\ \A i \in 1..f.frame_len : buffer[i] = [frame |-> f, at |-> i]

NeedMore(buffer) == [state |-> "need_more", codec |-> [buffer |-> buffer, closed |-> FALSE]]
Closed(buffer) == [state |-> "closed", codec |-> [buffer |-> buffer, closed |-> TRUE]]

\* A variant with a mistake in it: the frame stays in the buffer.
NotErased(buffer, n) == buffer

After(buffer, n) == SubSeq(buffer, n + 1, Len(buffer))

\* The part of feed() behind the limit.
Decode(buffer) ==
    LET f == buffer[1].frame
    IN  IF Len(buffer) < kFrameHeaderSize THEN NeedMore(buffer)
        ELSE IF ~LegalLength(f) THEN Closed(buffer)
        ELSE IF Len(buffer) < f.frame_len THEN NeedMore(buffer)
        ELSE IF ~Checked(buffer, f) THEN Closed(buffer)
        ELSE [state |-> "frame", frame |-> f,
              codec |-> [buffer |-> After(buffer, f.frame_len), closed |-> FALSE]]

\* feed: the answer, and the codec that it leaves.
Feed(codec, data) ==
    IF codec.closed \/ Len(codec.buffer) + Len(data) > max_single_allocation
    THEN Closed(codec.buffer)
    ELSE Decode(codec.buffer \o data)

=============================================================================
