--------------------------- MODULE MCSocketDaemon ---------------------------
(***************************************************************************)
(* A header of two bytes, so that it can be split, and a payload of one.   *)
(* The peers repeat HELLO with another sequence, with a malformed frame    *)
(* pipelined behind it, ask for the status on the control stream, start    *)
(* without HELLO, and break off within a header.                           *)
(***************************************************************************)
EXTENDS SocketDaemon

HelloAgain == [Hello EXCEPT !.sequence = 1]
OnStream0 == [BuildRequest EXCEPT !.stream_id = 0]
Corrupt == [Hello EXCEPT !.intact = FALSE]

MCPeerBytes ==
    {Bytes(<<Hello, HelloAgain, Corrupt>>), Bytes(<<Hello, OnStream0>>), Bytes(<<OpenStream>>),
     SubSeq(Encode(Hello), 1, 1)}

=============================================================================
