---------------------------- MODULE SocketDaemon ----------------------------
(***************************************************************************)
(* The socket service: forged processes (Daemon, UnixSocketDaemon and the  *)
(* loop of forged_main) on one socket path, UnixSocketClient::status()     *)
(* calls, and peers that speak the protocol badly or not at all.           *)
(*                                                                         *)
(* A step is a system call that others can see, with what the process does *)
(* by itself around it.  A socket carries bytes in order; a recv() returns *)
(* any number of those that are there; when an end is closed the other     *)
(* reads what was sent and then its calls fail.  EINTR only repeats a call *)
(* and is left out.  Of the session (FipcSession) there is what HELLO,     *)
(* OPEN_STREAM and BUILD_REQUEST reach: its state, the control stream and  *)
(* one other.  Nobody here sends CREDIT or CLOSE_STREAM, opens a second    *)
(* stream or reuses a token with another request.                          *)
(***************************************************************************)
EXTENDS FipcCodec, SequencesExt

CONSTANTS
    Daemons,    \* forged processes, one at a time under each name
    Once,       \* those that run with --once
    Clients,    \* calls of status()
    Peers,      \* connections of other programs
    PeerBytes,  \* what a peer may send
    Backlog,    \* connections that wait for accept(); 16 in the code
    MaxStarts,  \* bound: calls of start()
    MaxFaults   \* bound: failing system calls and killed processes

None == "none"

ASSUME DaemonAssumption ==
    /\ {Backlog, MaxStarts, MaxFaults} \subseteq Nat /\ Once \subseteq Daemons
    /\ Clients \cap Peers = {} /\ None \notin Daemons \cup Clients \cup Peers
    /\ "stale" \notin Daemons
    /\ \A bytes \in PeerBytes : /\ bytes \in Seq(Range(bytes))
                                /\ \A b \in Range(bytes) : b.frame.frame_len \in Nat

VARIABLES
    forged,     \* by process: see Down
    path,       \* whose socket the path names: None, a process, "stale" if killed
    conn,       \* by connection: see Unconnected
    \* history
    robbed,     \* processes whose socket file another one has removed
    trouble,    \* a daemon ended with connections waiting, or failed on a peer
    starts, faults  \* counters behind the bounds

vars == <<forged, path, conn, robbed, trouble, starts, faults>>

Connections == Clients \cup Peers

\* A process: where it is, where it goes after stop(), DaemonState, listen_fd_
\* and who waits there, and the locals of serve_once().
NewSession == [state |-> "accepted", stream |-> 0, next_sequence |-> 0]
Down == [pc |-> "down", ret |-> "down", state |-> "initialized",
         listening |-> FALSE, waiting |-> <<>>,
         client |-> None, session |-> NewSession, codec |-> NewCodec, events |-> <<>>]

\* A connection: where its program is, the bytes on their way to the daemon
\* and back, whether the daemon's end is closed, the codec of status() and
\* what it returned.  History: the bytes sent, the frames the daemon decoded
\* and what it wrote.
Unconnected == [at |-> "idle", up |-> <<>>, down |-> <<>>, hung |-> FALSE,
                codec |-> NewCodec, answer |-> None,
                sent |-> <<>>, got |-> <<>>, replies |-> <<>>]

\* Nothing is left of a connection when both ends are closed.
Settled(x) ==
    IF x.hung /\ x.at \in {"answered", "error"}
    THEN [Unconnected EXCEPT !.at = x.at, !.hung = TRUE, !.answer = x.answer]
    ELSE x

At(d, place) == forged[d].pc = place
Served(d) == forged[d].client
Gone(c) == conn[c].at \in {"answered", "error"}     \* the client's end is closed

Frame(type, stream, token, size, payload) ==
    [type |-> type, stream_id |-> stream, request_token |-> token, sequence |-> 0,
     payload |-> payload, frame_len |-> kFrameHeaderSize + size, intact |-> TRUE]
Hello == Frame("hello", 0, 1, 0, None)
OpenStream == Frame("open_stream", 1, 1, 0, None)
BuildRequest == Frame("build_request", 1, 2, 1, "status")
Welcome(f) == Frame("welcome", 0, f.request_token, 0, None)
StatusEvent(f, state) == Frame("status_event", f.stream_id, f.request_token, 1, state)
Bytes(frames) == FlattenSeq([i \in DOMAIN frames |-> Encode(frames[i])])

Init ==
    /\ forged = [d \in Daemons |-> Down]
    /\ path = None
    /\ conn = [c \in Connections |-> Unconnected]
    /\ robbed = {}
    /\ trouble = FALSE
    /\ starts = 0 /\ faults = 0

Fault == faults < MaxFaults /\ faults' = faults + 1
CallStart == starts < MaxStarts /\ starts' = starts + 1

\* The daemon's ends of these connections are closed.
HangUp(cs) ==
    conn' = [c \in Connections |->
                IF c \in cs THEN Settled([conn[c] EXCEPT !.hung = TRUE, !.up = <<>>]) ELSE conn[c]]

\* A variant with a mistake in it.
KeepPath(d) == UNCHANGED <<path, robbed>>

\* unlink of the path by d, whoever bound it.
UnlinkPath(d) ==
    /\ path' = None
    /\ robbed' = (robbed \ {d}) \cup ({path} \cap (Daemons \ {d}))

-----------------------------------------------------------------------------
(***************************************************************************)
(* start() and stop().                                                     *)
(***************************************************************************)
OnlyForged == UNCHANGED <<conn, trouble>>

\* forged is started.
Launch(d) ==
    /\ At(d, "down") /\ CallStart
    /\ forged' = [forged EXCEPT ![d] = [Down EXCEPT !.pc = "start"]]
    /\ OnlyForged /\ UNCHANGED <<path, robbed, faults>>

Startable(d) == ~forged[d].listening /\ forged[d].state \in {"initialized", "stopped"}

StartRefused(d) ==
    /\ At(d, "start") /\ ~Startable(d)
    /\ forged' = [forged EXCEPT ![d].pc = "over"]
    /\ OnlyForged /\ UNCHANGED <<path, robbed, starts, faults>>

\* No directory, too long a path or no socket: the daemon is left running.
CreateFails(d) ==
    /\ At(d, "start") /\ Startable(d) /\ Fault
    /\ forged' = [forged EXCEPT ![d].state = "running", ![d].pc = "over"]
    /\ OnlyForged /\ UNCHANGED <<path, robbed, starts>>

\* The daemon is started, the socket made and an old one removed.
Start(d) ==
    /\ At(d, "start") /\ Startable(d)
    /\ forged' = [forged EXCEPT ![d].state = "running", ![d].listening = TRUE, ![d].pc = "bind"]
    /\ UnlinkPath(d)
    /\ OnlyForged /\ UNCHANGED <<starts, faults>>

Bind(d) ==
    /\ At(d, "bind") /\ path = None
    /\ path' = d
    /\ forged' = [forged EXCEPT ![d].pc = "listen"]
    /\ OnlyForged /\ UNCHANGED <<robbed, starts, faults>>

Listen(d) ==
    /\ At(d, "listen")
    /\ forged' = [forged EXCEPT ![d].pc = "ready"]
    /\ OnlyForged /\ UNCHANGED <<path, robbed, starts, faults>>

\* stop() closes the socket, which cuts off the connections that wait; when it
\* has returned the process is at ret.
Stop(d, ret) ==
    /\ forged' = [forged EXCEPT ![d].listening = FALSE, ![d].waiting = <<>>,
                     ![d].pc = "unlink", ![d].ret = ret]
    /\ HangUp(Range(forged[d].waiting))
    /\ trouble' = (trouble \/ forged[d].waiting # <<>>)
    /\ UNCHANGED <<path, robbed>>

\* It removes the path and stops the daemon.
StopUnlink(d) ==
    /\ At(d, "unlink")
    /\ UnlinkPath(d)
    /\ forged' = [forged EXCEPT ![d].state = "stopped", ![d].pc = forged[d].ret]
    /\ OnlyForged /\ UNCHANGED <<starts, faults>>

\* Another process has bound the path since it was removed.
BindFails(d) ==
    /\ At(d, "bind") /\ path # None
    /\ Stop(d, "over")
    /\ UNCHANGED <<starts, faults>>

ListenFails(d) ==
    /\ At(d, "bind") \/ At(d, "listen")
    /\ Stop(d, "over") /\ Fault
    /\ UNCHANGED starts

\* forged_main returns.  After --once it calls stop(), and the destructor does
\* so once more, as it does after an error.
Exit(d) ==
    /\ At(d, "over") \/ At(d, "done")
    /\ Stop(d, IF At(d, "done") THEN "over" ELSE "down")
    /\ UNCHANGED <<starts, faults>>

\* A program that embeds the daemon calls start() again, or stop() and start().
RetryStart(d) ==
    /\ At(d, "over") /\ ~forged[d].listening /\ CallStart
    /\ forged' = [forged EXCEPT ![d].pc = "start"]
    /\ OnlyForged /\ UNCHANGED <<path, robbed, faults>>

RetryAfterStop(d) ==
    /\ At(d, "over") /\ ~forged[d].listening /\ CallStart
    /\ Stop(d, "start")
    /\ UNCHANGED faults

\* The process is killed: the kernel closes what it had open, the path stays.
Kill(d) ==
    /\ ~At(d, "down") /\ Fault
    /\ HangUp(Range(forged[d].waiting) \cup ({Served(d)} \ {None}))
    /\ forged' = [forged EXCEPT ![d] = Down]
    /\ path' = IF path = d THEN "stale" ELSE path
    /\ robbed' = robbed \ {d}
    /\ trouble' = TRUE
    /\ UNCHANGED starts

-----------------------------------------------------------------------------
(***************************************************************************)
(* serve_once().                                                           *)
(***************************************************************************)
Accept(d) ==
    /\ At(d, "ready") /\ forged[d].waiting # <<>>
    /\ forged' = [forged EXCEPT ![d].client = Head(forged[d].waiting), ![d].waiting = Tail(@),
                     ![d].session = NewSession, ![d].codec = NewCodec, ![d].events = <<>>, ![d].pc = "recv"]
    /\ OnlyForged /\ UNCHANGED <<path, robbed, starts, faults>>

AcceptFails(d) ==
    /\ At(d, "ready") /\ Fault
    /\ forged' = [forged EXCEPT ![d].pc = "over"]
    /\ OnlyForged /\ UNCHANGED <<path, robbed, starts>>

\* A variant with a mistake in it: the connection stays open.
ServeFailsOpen(d) ==
    /\ forged' = [forged EXCEPT ![d].client = None, ![d].pc = "over"]
    /\ trouble' = (trouble \/ Served(d) \in Peers)
    /\ UNCHANGED conn

\* serve_once() closes the connection and returns an error, which ends forged.
ServeFails(d) ==
    /\ HangUp({Served(d)})
    /\ forged' = [forged EXCEPT ![d].client = None, ![d].pc = "over"]
    /\ trouble' = (trouble \/ Served(d) \in Peers)

\* apply_frame.  On the control stream, stream 0, no sequence is looked at and
\* every frame behind the first HELLO is accepted, but OPEN_STREAM.
OnControl(s, f) == f.stream_id = 0 /\ ~(s.state = "negotiated" /\ f.type = "open_stream")
Apply(s, f) ==
    CASE s.state = "accepted" /\ f.type = "hello" /\ f.stream_id = 0 /\ f.sequence = 0 ->
            [s EXCEPT !.state = "negotiated"]
      [] s.state = "negotiated" /\ f.type = "open_stream" /\ f.stream_id # 0 ->
            [s EXCEPT !.state = "active", !.stream = f.stream_id]
      [] s.state \in {"negotiated", "active"} /\ OnControl(s, f) -> s
      [] s.state = "active" /\ f.stream_id = s.stream /\ f.sequence = s.next_sequence ->
            [s EXCEPT !.next_sequence = @ + 1]
      [] OTHER -> [s EXCEPT !.state = "closed"]

\* What is written for the events of a feed(): up to the first build_request.
Answer(d, f) ==
    CASE f.type = "hello"         -> <<Welcome(f)>>
      [] f.type = "build_request" -> <<StatusEvent(f, forged[d].state)>>
      [] OTHER                    -> <<>>
Answers(d, events) ==
    LET last == SelectInSeq(events, LAMBDA f : f.type = "build_request")
        until == IF last = 0 THEN events ELSE SubSeq(events, 1, last)
    IN  FlattenSeq([i \in DOMAIN until |-> Answer(d, until[i])])

\* A variant with a mistake in it: one frame of a feed() is taken.
NothingLeft(r) == TRUE

\* The loop in the session's feed() is over.
FeedIsOver(r) == r.state = "need_more" \/ r.codec.buffer = <<>>

\* One turn of that loop: the codec has returned r and n bytes were received.
\* An error takes the place of all events.
SessionFeed(d, n, r) ==
    LET c == Served(d)
        frames == IF r.state = "frame" THEN <<r.frame>> ELSE <<>>
        s == IF r.state = "frame" THEN Apply(forged[d].session, r.frame) ELSE forged[d].session
    IN  /\ IF r.state = "closed" \/ s.state = "closed"
           THEN ServeFails(d)
           ELSE /\ forged' = [forged EXCEPT ![d].codec = r.codec, ![d].session = s,
                                 ![d].events = @ \o frames,
                                 ![d].pc = IF FeedIsOver(r) THEN "respond" ELSE "feed"]
                /\ conn' = [conn EXCEPT ![c].up = SubSeq(@, n + 1, Len(@)), ![c].got = @ \o frames]
                /\ UNCHANGED trouble
        /\ UNCHANGED <<path, robbed, starts, faults>>

Receive(d) ==
    /\ At(d, "recv")
    /\ \E n \in 1..Len(conn[Served(d)].up) :
       \E r \in {Feed(forged[d].codec, SubSeq(conn[Served(d)].up, 1, n))} : SessionFeed(d, n, r)

FeedOn(d) ==
    /\ At(d, "feed")
    /\ \E r \in {Feed(forged[d].codec, <<>>)} : SessionFeed(d, 0, r)

\* The loop over the events.  A client that has closed its end fails the write.
\* The writes and the close are one step: a write only adds to bytes of which
\* the client's recv() takes any part, and a client that leaves or a process
\* that is killed in between makes fewer of them arrive, as it does behind them.
Respond(d) ==
    LET c == Served(d)
    IN  /\ At(d, "respond")
        /\ \E answers \in {Answers(d, forged[d].events)} :
              LET done == \E f \in Range(answers) : f.type = "status_event"
              IN  IF answers # <<>> /\ Gone(c)
                  THEN ServeFails(d)
                  ELSE /\ conn' = [conn EXCEPT ![c].down = @ \o Bytes(answers), ![c].hung = done,
                                               ![c].replies = @ \o answers]
                       /\ forged' = [forged EXCEPT ![d].events = <<>>,
                                        ![d].client = IF done THEN None ELSE c,
                                        ![d].pc = IF ~done THEN "recv"
                                                  ELSE IF d \in Once THEN "done" ELSE "ready"]
                       /\ UNCHANGED trouble
        /\ UNCHANGED <<path, robbed, starts, faults>>

\* The client has closed its end.
ReceiveEnd(d) ==
    /\ At(d, "recv") /\ conn[Served(d)].up = <<>> /\ Gone(Served(d))
    /\ ServeFails(d)
    /\ UNCHANGED <<path, robbed, starts, faults>>

-----------------------------------------------------------------------------
(***************************************************************************)
(* status(), and the peers.                                                *)
(***************************************************************************)
OnlyConn == UNCHANGED <<forged, path, robbed, trouble, starts, faults>>

Reachable == path \in Daemons /\ forged[path].listening /\ ~At(path, "listen")

\* connect() waits while the backlog is full.
Connect(c) ==
    /\ conn[c].at = "idle" /\ Reachable
    /\ Len(forged[path].waiting) < Backlog
    /\ forged' = [forged EXCEPT ![path].waiting = Append(@, c)]
    /\ conn' = [conn EXCEPT ![c].at = "write"]
    /\ UNCHANGED <<path, robbed, trouble, starts, faults>>

ConnectFails(c) ==
    /\ conn[c].at = "idle" /\ ~Reachable
    /\ conn' = [conn EXCEPT ![c].at = "error"]
    /\ OnlyConn

\* The program closes its end.
Leave(x, place) == Settled([x EXCEPT !.at = place])

\* write_all.
Write(c, bytes) ==
    /\ conn[c].at = "write"
    /\ conn' = [conn EXCEPT ![c] = IF @.hung THEN Leave(@, "error")
                                   ELSE [@ EXCEPT !.at = "recv", !.up = bytes, !.sent = bytes]]
    /\ OnlyConn

WriteRequest(c) == c \in Clients /\ Write(c, Bytes(<<Hello, OpenStream, BuildRequest>>))

\* recv(), and one turn of the decoding loop; the first STATUS_EVENT is
\* returned.
StatusFeed(c, n, r) ==
    LET place == CASE r.state = "closed"    -> "error"
                   [] r.state = "need_more" -> "recv"
                   [] r.state = "frame"     -> IF r.frame.type = "status_event" THEN "answered"
                                               ELSE IF r.codec.buffer = <<>> THEN "recv" ELSE "decode"
    IN  Leave([conn[c] EXCEPT !.down = SubSeq(@, n + 1, Len(@)), !.codec = r.codec,
                  !.answer = IF place = "answered" THEN r.frame ELSE None], place)

ReceiveReply(c) ==
    /\ c \in Clients /\ conn[c].at = "recv"
    /\ \E n \in 1..Len(conn[c].down) :
       \E r \in {Feed(conn[c].codec, SubSeq(conn[c].down, 1, n))} :
          conn' = [conn EXCEPT ![c] = StatusFeed(c, n, r)]
    /\ OnlyConn

DecodeReply(c) ==
    /\ c \in Clients /\ conn[c].at = "decode"
    /\ \E r \in {Feed(conn[c].codec, <<>>)} : conn' = [conn EXCEPT ![c] = StatusFeed(c, 0, r)]
    /\ OnlyConn

ReplyEnds(c) ==
    /\ c \in Clients /\ conn[c].at = "recv" /\ conn[c].down = <<>> /\ conn[c].hung
    /\ conn' = [conn EXCEPT ![c] = Leave(@, "error")]
    /\ OnlyConn

\* A peer sends something, and leaves when it likes.
PeerWrites(c) == c \in Peers /\ \E bytes \in PeerBytes : Write(c, bytes)

PeerLeaves(c) ==
    /\ c \in Peers /\ conn[c].at \in {"write", "recv"}
    /\ conn' = [conn EXCEPT ![c] = Leave(@, "error")]
    /\ OnlyConn

-----------------------------------------------------------------------------
\* What a process does by itself, and what happens to it.
DaemonStep(d) ==
    \/ StartRefused(d) \/ Start(d) \/ Bind(d) \/ BindFails(d) \/ Listen(d)
    \/ Accept(d) \/ Receive(d) \/ FeedOn(d) \/ Respond(d) \/ ReceiveEnd(d)
    \/ Exit(d) \/ StopUnlink(d)
DaemonFault(d) == CreateFails(d) \/ ListenFails(d) \/ AcceptFails(d) \/ Kill(d)
Owner(d) == Launch(d) \/ RetryStart(d) \/ RetryAfterStop(d)

ConnStep(c) ==
    \/ WriteRequest(c) \/ ReceiveReply(c) \/ DecodeReply(c) \/ ReplyEnds(c)
    \/ PeerWrites(c) \/ PeerLeaves(c)

Next ==
    \/ \E d \in Daemons : DaemonStep(d) \/ DaemonFault(d) \/ Owner(d)
    \/ \E c \in Connections : Connect(c) \/ ConnectFails(c) \/ ConnStep(c)

\* The processes run.  No one has to start a daemon or to call status(); a
\* peer does not stay connected for ever without a word.
Fairness ==
    /\ \A d \in Daemons : WF_vars(DaemonStep(d))
    /\ \A c \in Connections : WF_vars(ConnStep(c))

Spec == Init /\ [][Next]_vars /\ Fairness

-----------------------------------------------------------------------------
(***************************************************************************)
(* Properties.                                                             *)
(***************************************************************************)
TypeOK ==
    /\ \A d \in Daemons :
          /\ forged[d].pc \in {"down", "start", "bind", "listen", "ready", "recv", "feed",
                               "respond", "over", "done", "unlink"}
          /\ forged[d].ret \in {"down", "over", "start"}
          /\ forged[d].state \in {"initialized", "running", "stopped"}
          /\ Len(forged[d].waiting) <= Backlog
          /\ Served(d) \in Connections \cup {None}
          /\ Served(d) # None <=> forged[d].pc \in {"recv", "feed", "respond"}
    /\ path \in Daemons \cup {None, "stale"}
    /\ \A c \in Connections : conn[c].at \in {"idle", "write", "recv", "decode", "answered", "error"}

\* start() failed behind the start of the Daemon and in front of the socket.
HalfStarted(d) ==
    /\ forged[d].state = "running" /\ ~forged[d].listening
    /\ forged[d].pc \in {"over", "start"}

\* listen_fd_ and DaemonState: a daemon that listens is running, and one that
\* runs without a socket is within stop(), or half started, which takes a
\* failing system call.
SocketIsRunning ==
    \A d \in Daemons :
        /\ forged[d].listening => forged[d].state = "running"
        /\ forged[d].state = "running" /\ ~forged[d].listening => At(d, "unlink") \/ HalfStarted(d)
        /\ HalfStarted(d) => faults > 0

\* The path is that of an open socket, or of a process that was killed.
PathIsOpen == path \in Daemons => forged[path].listening \/ At(path, "unlink")

\* An open socket that was bound has its path, unless another process has
\* removed that.
PathIsKept ==
    \A d \in Daemons :
        forged[d].listening /\ ~At(d, "bind") => (path = d <=> d \notin robbed)

\* What docs/DECISIONS.md:5, "cleanup after partial initialization", comes to.
\* Whatever fails, ends, is killed or is started a second time, socket file,
\* descriptor and state of a daemon disagree in two cases only: a start() that
\* fails in front of its socket leaves the daemon running without one
\* (HalfStarted), and a second forged on the path removes the file of one that
\* listens, which clients then do not reach (robbed).
DaemonInvariant == TypeOK /\ SocketIsRunning /\ PathIsOpen /\ PathIsKept

\* The processes and the places in their backlog, 0 for the one that is served,
\* where a connection is held.
HeldAt(c, d, i) ==
    \/ i = 0 /\ Served(d) = c
    \/ i \in 1..Len(forged[d].waiting) /\ forged[d].waiting[i] = c
Places(c) == {x \in Daemons \X (0..Backlog) : HeldAt(c, x[1], x[2])}

\* A connection whose daemon end is open waits at one listening socket or is
\* the one that is served; one that is closed does neither.  No way out of
\* serve_once() or stop() leaves a descriptor open or waits for a dead client.
NoOrphans ==
    \A c \in Connections :
        /\ conn[c].hung => Places(c) = {}
        /\ conn[c].at \in {"write", "recv", "decode"} /\ ~conn[c].hung =>
              \E x \in Places(c) : Places(c) = {x}

\* The frames that are answered.
Asked(frames) ==
    FlattenSeq([i \in DOMAIN frames |->
        IF frames[i].type \in {"hello", "build_request"} THEN <<frames[i]>> ELSE <<>>])

\* However the bytes were split, frames are decoded as sent, none lost or
\* doubled, and are answered in order: a WELCOME for each HELLO, repeated ones
\* too, and at most one STATUS_EVENT, the last, which carries the token of the
\* request and says that the daemon is running.
RepliesMatch ==
    \A c \in Connections :
        LET asked == Asked(conn[c].got)
        IN  /\ IsPrefix(Bytes(conn[c].got), conn[c].sent)
            /\ Len(conn[c].replies) <= Len(asked)
            /\ \A i \in 1..Len(conn[c].replies) :
                  conn[c].replies[i] = IF asked[i].type = "hello" THEN Welcome(asked[i])
                                  ELSE StatusEvent(asked[i], "running")
            /\ \A i \in 1..(Len(conn[c].replies) - 1) : conn[c].replies[i].type = "welcome"
            /\ conn[c].at = "answered" => conn[c].answer = StatusEvent(BuildRequest, "running")

\* Every call of status() that reached a daemon returns; with an error only if
\* a daemon was killed or ended while connections waited, or met a peer's error.
StatusReturns ==
    \A c \in Clients :
        conn[c].at = "write" ~> \/ conn[c].at = "answered"
                                \/ conn[c].at = "error" /\ trouble

=============================================================================
