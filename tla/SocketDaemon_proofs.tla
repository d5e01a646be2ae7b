------------------------ MODULE SocketDaemon_proofs ------------------------
(***************************************************************************)
(* The socket service with any number of processes, clients and peers: the *)
(* socket file, the descriptor and the state of a daemon agree, but in two *)
(* cases, no connection is left open or waited for by no one, and what is  *)
(* decoded and answered on each connection is what was sent and asked.     *)
(***************************************************************************)
EXTENDS SocketDaemon, Integers, SequenceTheorems, WellFoundedInduction, TLAPS

-----------------------------------------------------------------------------
(***************************************************************************)
(* A process.                                                              *)
(***************************************************************************)
ForgedFields == {"pc", "ret", "state", "listening", "waiting", "client", "session", "codec", "events"}
IsForged(x) == x = [f \in ForgedFields |-> x[f]]

Serving == {"recv", "feed", "respond"}
Open == {"bind", "listen", "ready", "done"} \cup Serving
NotOpen == {"down", "start", "unlink"}

\* What the descriptor, the state and the place of a process say of each other.
ForgedOK(x) ==
    /\ x.pc \in Open \cup NotOpen \cup {"over"}
    /\ x.ret \in {"down", "over", "start"}
    /\ x.state \in {"initialized", "running", "stopped"}
    /\ x.listening \in BOOLEAN
    /\ x.pc \in Open => x.listening
    /\ x.pc \in NotOpen => ~x.listening
    /\ x.pc = "down" => x.state # "running"
    /\ x.listening => x.state = "running"
    /\ x.waiting \in Seq(Connections) /\ Len(x.waiting) <= Backlog
    /\ ~x.listening => x.waiting = <<>>
    /\ x.client \in Connections \cup {None}
    /\ x.client # None <=> x.pc \in Serving

LEMMA Names ==
    /\ None \notin Daemons /\ None \notin Connections /\ "stale" \notin Daemons
    /\ Backlog \in Nat
BY DaemonAssumption DEF Connections

\* The fields of a record after the changes that the actions make.
LEMMA SetPc ==
    ASSUME NEW x, IsForged(x), NEW pc, NEW y, y = [x EXCEPT !.pc = pc]
    PROVE  /\ IsForged(y) /\ y.pc = pc /\ y.ret = x.ret /\ y.state = x.state
           /\ y.listening = x.listening /\ y.waiting = x.waiting /\ y.client = x.client
BY DEF IsForged, ForgedFields

LEMMA DownForged ==
    /\ IsForged(Down) /\ Down.pc = "down" /\ Down.ret = "down" /\ Down.state = "initialized"
    /\ Down.listening = FALSE /\ Down.waiting = <<>> /\ Down.client = None
BY DEF Down, IsForged, ForgedFields

-----------------------------------------------------------------------------
(***************************************************************************)
(* A connection.                                                           *)
(***************************************************************************)
ConnFields == {"at", "up", "down", "hung", "codec", "answer", "sent", "got", "replies"}
IsConn(x) == x = [f \in ConnFields |-> x[f]]

LEMMA UnconnectedIsConn == IsConn(Unconnected) /\ Unconnected.at = "idle" /\ Unconnected.hung = FALSE
BY DEF Unconnected, IsConn, ConnFields

LEMMA SettledKeeps ==
    ASSUME NEW x, IsConn(x)
    PROVE  IsConn(Settled(x)) /\ Settled(x).at = x.at /\ Settled(x).hung = x.hung
<1>1. CASE x.hung /\ x.at \in {"answered", "error"}
  <2>1. PICK y : y = [Unconnected EXCEPT !.at = x.at, !.hung = TRUE, !.answer = x.answer]
    OBVIOUS
  <2>2. IsConn(y) /\ y.at = x.at /\ y.hung = TRUE
    BY <2>1, UnconnectedIsConn DEF IsConn, ConnFields
  <2>3. Settled(x) = y
    BY <2>1, <1>1 DEF Settled
  <2> QED  BY <2>2, <2>3, <1>1
<1>2. CASE ~(x.hung /\ x.at \in {"answered", "error"})
  BY <1>2 DEF Settled
<1> QED  BY <1>1, <1>2

\* The daemon's ends are closed, and nothing else that matters here.
LEMMA HangUpEffect ==
    ASSUME \A c \in Connections : IsConn(conn[c]), NEW cs, HangUp(cs)
    PROVE  /\ conn' = [c \in Connections |-> conn'[c]]
           /\ \A c \in Connections : /\ IsConn(conn'[c]) /\ conn'[c].at = conn[c].at
                                     /\ conn'[c].hung = IF c \in cs THEN TRUE ELSE conn[c].hung
<1>1. conn' = [c \in Connections |->
                 IF c \in cs THEN Settled([conn[c] EXCEPT !.hung = TRUE, !.up = <<>>]) ELSE conn[c]]
  BY DEF HangUp
<1>2. ASSUME NEW c \in Connections
      PROVE  /\ IsConn(conn'[c]) /\ conn'[c].at = conn[c].at
             /\ conn'[c].hung = IF c \in cs THEN TRUE ELSE conn[c].hung
  <2>1. CASE c \in cs
    <3>1. PICK x : x = conn[c]
      OBVIOUS
    <3>2. PICK y : y = [x EXCEPT !.hung = TRUE, !.up = <<>>]
      OBVIOUS
    <3>3. IsConn(x)
      BY <3>1
    <3>4. IsConn(y) /\ y.at = x.at /\ y.hung = TRUE
      BY <3>2, <3>3 DEF IsConn, ConnFields
    <3>5. conn'[c] = Settled(y)
      BY <2>1, <3>1, <3>2, <1>1
    <3>6. IsConn(Settled(y)) /\ Settled(y).at = y.at /\ Settled(y).hung = y.hung
      BY <3>4, SettledKeeps
    <3> QED  BY <2>1, <3>1, <3>4, <3>5, <3>6
  <2>2. CASE c \notin cs
    <3>1. conn'[c] = conn[c]
      BY <2>2, <1>1
    <3> QED  BY <2>2, <3>1
  <2> QED  BY <2>1, <2>2
<1>3. conn' = [c \in Connections |-> conn'[c]]
  BY <1>1
<1> QED  BY <1>2, <1>3

-----------------------------------------------------------------------------
(***************************************************************************)
(* The inductive invariant.                                                *)
(***************************************************************************)
ForgedInd ==
    /\ forged = [d \in Daemons |-> forged[d]]
    /\ \A d \in Daemons : IsForged(forged[d]) /\ ForgedOK(forged[d])

PathInd == path \in Daemons \cup {None, "stale"} /\ PathIsOpen

Talking == {"write", "recv", "decode"}
ConnInd ==
    /\ conn = [c \in Connections |-> conn[c]]
    /\ \A c \in Connections :
          /\ IsConn(conn[c]) /\ conn[c].at \in Talking \cup {"idle", "answered", "error"}
          /\ conn[c].hung \in BOOLEAN
          /\ conn[c].at = "idle" => ~conn[c].hung

\* A connection is held at one place at most, at none before connect() and
\* after the daemon's end is closed, and at one as long as its program talks.
HeldOnce(c) ==
    \A d, e \in Daemons : \A i, j : HeldAt(c, d, i) /\ HeldAt(c, e, j) => d = e /\ i = j
HeldNowhere(c) == \A d \in Daemons : \A i : ~HeldAt(c, d, i)
HeldOK(c) ==
    /\ HeldOnce(c)
    /\ conn[c].hung \/ conn[c].at = "idle" => HeldNowhere(c)
    /\ conn[c].at \in Talking /\ ~conn[c].hung => ~HeldNowhere(c)
HeldInd == \A c \in Connections : HeldOK(c)

ServiceInd == ForgedInd /\ PathInd /\ ConnInd /\ HeldInd

LEMMA ServiceStarts ==
    ASSUME Init
    PROVE  ServiceInd
<1>1. /\ forged = [d \in Daemons |-> Down] /\ path = None
      /\ conn = [c \in Connections |-> Unconnected]
  BY DEF Init
<1>2. ForgedOK(Down)
  <2>1. Down.waiting \in Seq(Connections) /\ Len(Down.waiting) <= Backlog
    BY Names, DownForged
  <2> QED  BY <2>1, DownForged DEF ForgedOK, Open, NotOpen, Serving
<1>3. ForgedInd
  BY <1>1, <1>2, DownForged DEF ForgedInd
<1>4. PathInd
  BY <1>1, Names DEF PathInd, PathIsOpen
<1>5. ConnInd
  BY <1>1, UnconnectedIsConn DEF ConnInd
<1>6. HeldInd
  <2>1. ASSUME NEW c \in Connections
        PROVE  HeldOK(c)
    <3>1. conn[c].at = "idle"
      BY <1>1, UnconnectedIsConn
    <3>2. ASSUME NEW d \in Daemons, NEW i, HeldAt(c, d, i)
          PROVE  FALSE
      <4>1. forged[d] = Down
        BY <1>1
      <4>2. forged[d].client = None /\ forged[d].waiting = <<>>
        BY <4>1, DownForged
      <4>3. Len(forged[d].waiting) = 0
        BY <4>2
      <4> QED  BY <3>2, <4>2, <4>3, Names DEF HeldAt, Served
    <3> QED  BY <3>1, <3>2 DEF HeldOK, HeldOnce, HeldNowhere, Talking
  <2> QED  BY <2>1 DEF HeldInd
<1> QED  BY <1>3, <1>4, <1>5, <1>6 DEF ServiceInd

LEMMA ServiceIndImplies ==
    ASSUME ServiceInd
    PROVE  TypeOK /\ PathIsOpen /\ NoOrphans
<1>1. \A d \in Daemons : ForgedOK(forged[d])
  BY DEF ServiceInd, ForgedInd
<1>2. TypeOK
  <2>1. \A c \in Connections : conn[c].at \in {"idle", "write", "recv", "decode", "answered", "error"}
    BY DEF ServiceInd, ConnInd, Talking
  <2>2. path \in Daemons \cup {None, "stale"}
    BY DEF ServiceInd, PathInd
  <2> QED  BY <2>1, <2>2, <1>1 DEF TypeOK, ForgedOK, Open, NotOpen, Serving, Served
<1>3. PathIsOpen
  BY DEF ServiceInd, PathInd
<1>4. NoOrphans
  <2>1. ASSUME NEW c \in Connections, NEW d \in Daemons, NEW i, HeldAt(c, d, i)
        PROVE  i \in 0..Backlog
    <3>1. Len(forged[d].waiting) \in Nat /\ Len(forged[d].waiting) <= Backlog /\ Backlog \in Nat
      BY <1>1, Names DEF ForgedOK
    <3> QED  BY <2>1, <3>1 DEF HeldAt
  <2>2. ASSUME NEW c \in Connections
        PROVE  \A x : x \in Places(c) <=> \E d \in Daemons : \E i \in 0..Backlog : x = <<d, i>> /\ HeldAt(c, d, i)
    BY DEF Places
  <2>3. ASSUME NEW c \in Connections, conn[c].hung
        PROVE  Places(c) = {}
    <3>1. HeldNowhere(c)
      BY <2>3 DEF ServiceInd, HeldInd, HeldOK
    <3> QED  BY <2>2, <3>1 DEF HeldNowhere
  <2>4. ASSUME NEW c \in Connections, conn[c].at \in Talking, ~conn[c].hung
        PROVE  \E x \in Places(c) : Places(c) = {x}
    <3>1. HeldOnce(c) /\ ~HeldNowhere(c)
      BY <2>4 DEF ServiceInd, HeldInd, HeldOK
    <3>2. PICK d, i : d \in Daemons /\ HeldAt(c, d, i)
      BY <3>1 DEF HeldNowhere
    <3>3. i \in 0..Backlog
      BY <2>1, <3>2
    <3>4. <<d, i>> \in Places(c)
      BY <2>2, <3>2, <3>3
    <3>5. \A x \in Places(c) : x = <<d, i>>
      BY <2>2, <3>1, <3>2 DEF HeldOnce
    <3> QED  BY <3>4, <3>5
  <2> QED  BY <2>3, <2>4 DEF NoOrphans, Talking
<1> QED  BY <1>2, <1>3, <1>4

-----------------------------------------------------------------------------
(***************************************************************************)
(* The steps.  A step of a process changes its own record, and the path    *)
(* only to its own name or to no one's.                                    *)
(***************************************************************************)
Becomes(d, y) == forged' = [forged EXCEPT ![d] = y]
PathStep(d, y) ==
    /\ path' \in {path, None, "stale", d}
    /\ path' = d => y.listening \/ y.pc = "unlink"

LEMMA ProcessStep ==
    ASSUME ServiceInd, NEW d \in Daemons, NEW y, Becomes(d, y), IsForged(y), ForgedOK(y), PathStep(d, y)
    PROVE  /\ ForgedInd' /\ PathInd'
           /\ forged'[d] = y /\ \A e \in Daemons : e # d => forged'[e] = forged[e]
<1>1. forged = [e \in Daemons |-> forged[e]] /\ \A e \in Daemons : IsForged(forged[e]) /\ ForgedOK(forged[e])
  BY DEF ServiceInd, ForgedInd
<1>2. /\ forged' = [e \in Daemons |-> forged'[e]]
      /\ forged'[d] = y /\ \A e \in Daemons : e # d => forged'[e] = forged[e]
  BY <1>1 DEF Becomes
<1>3. \A e \in Daemons : IsForged(forged'[e]) /\ ForgedOK(forged'[e])
  BY <1>1, <1>2
<1>4. (\A e \in Daemons : IsForged(forged[e]) /\ ForgedOK(forged[e]))'
  BY <1>3 DEF IsForged, ForgedOK
<1>5. ForgedInd'
  BY <1>2, <1>4 DEF ForgedInd
<1>6. path' \in Daemons \cup {None, "stale"}
  BY DEF PathStep, ServiceInd, PathInd
<1>7. path' \in Daemons => forged'[path'].listening \/ forged'[path'].pc = "unlink"
  <2>1. CASE path' = d
    BY <2>1, <1>2 DEF PathStep
  <2>2. CASE path' # d /\ path' \in Daemons
    <3>1. path' = path
      BY <2>2, Names DEF PathStep
    <3>2. forged[path].listening \/ forged[path].pc = "unlink"
      BY <3>1, <2>2 DEF ServiceInd, PathInd, PathIsOpen, At
    <3> QED  BY <3>1, <3>2, <2>2, <1>2
  <2> QED  BY <2>1, <2>2
<1>8. PathInd'
  BY <1>6, <1>7 DEF PathInd, PathIsOpen, At
<1> QED  BY <1>2, <1>5, <1>8

\* The daemon's ends of cs are closed; what the programs do is not disturbed.
ConnAfter(cs) ==
    /\ conn' = [c \in Connections |-> conn'[c]]
    /\ \A c \in Connections : /\ IsConn(conn'[c]) /\ conn'[c].at = conn[c].at
                              /\ conn'[c].hung = IF c \in cs THEN TRUE ELSE conn[c].hung

\* A process gives up the connections cs, and closes just these.
LEMMA GivenUp ==
    ASSUME ServiceInd, NEW d \in Daemons, NEW cs, ConnAfter(cs),
           \A e \in Daemons : e # d => forged'[e] = forged[e],
           \A c \in Connections : \A i : HeldAt(c, d, i)' => HeldAt(c, d, i),
           \A c \in Connections : \A i : HeldAt(c, d, i) /\ ~HeldAt(c, d, i)' => c \in cs,
           \A c \in Connections : c \in cs => \E i : HeldAt(c, d, i) /\ ~HeldAt(c, d, i)'
    PROVE  ConnInd' /\ HeldInd'
<1>1. \A c \in Connections : \A e \in Daemons : \A i : e # d => (HeldAt(c, e, i)' <=> HeldAt(c, e, i))
  BY DEF HeldAt, Served
<1>2. \A c \in Connections : \A e \in Daemons : \A i : HeldAt(c, e, i)' => HeldAt(c, e, i)
  BY <1>1
<1>3. ASSUME NEW c \in Connections
      PROVE  /\ HeldOnce(c) /\ (conn[c].hung \/ conn[c].at = "idle" => HeldNowhere(c))
             /\ (conn[c].at \in Talking /\ ~conn[c].hung => ~HeldNowhere(c))
  BY <1>3 DEF ServiceInd, HeldInd, HeldOK
<1>4. ASSUME NEW c \in Connections
      PROVE  conn[c].hung \in BOOLEAN /\ (conn[c].at = "idle" => ~conn[c].hung)
             /\ conn[c].at \in Talking \cup {"idle", "answered", "error"}
  BY <1>4 DEF ServiceInd, ConnInd
<1>5. ASSUME NEW c \in Connections, c \in cs
      PROVE  conn[c].at # "idle" /\ HeldNowhere(c)'
  <2>1. PICK i : HeldAt(c, d, i) /\ ~HeldAt(c, d, i)'
    BY <1>5
  <2>2. ~HeldNowhere(c)
    BY <2>1 DEF HeldNowhere
  <2>3. \A e \in Daemons : \A j : ~HeldAt(c, e, j)'
    BY <2>1, <1>2, <1>3 DEF HeldOnce
  <2> QED  BY <2>2, <2>3, <1>3 DEF HeldNowhere
<1>6. ASSUME NEW c \in Connections, c \notin cs
      PROVE  HeldNowhere(c)' <=> HeldNowhere(c)
  <2>1. \A e \in Daemons : \A i : HeldAt(c, e, i)' <=> HeldAt(c, e, i)
    BY <1>1, <1>6
  <2> QED  BY <2>1 DEF HeldNowhere
<1>7. ASSUME NEW c \in Connections
      PROVE  HeldOnce(c)'
  BY <1>2, <1>3 DEF HeldOnce
<1>8. ASSUME NEW c \in Connections
      PROVE  HeldOK(c)'
  <2>1. CASE c \in cs
    <3>1. conn'[c].hung
      BY <2>1 DEF ConnAfter
    <3> QED  BY <2>1, <3>1, <1>5, <1>7 DEF HeldOK
  <2>2. CASE c \notin cs
    <3>1. conn'[c].hung = conn[c].hung /\ conn'[c].at = conn[c].at
      BY <2>2 DEF ConnAfter
    <3> QED  BY <2>2, <3>1, <1>3, <1>6, <1>7 DEF HeldOK
  <2> QED  BY <2>1, <2>2
<1>9. HeldInd'
  BY <1>8 DEF HeldInd
<1>10. ASSUME NEW c \in Connections
       PROVE  /\ IsConn(conn'[c]) /\ conn'[c].at \in Talking \cup {"idle", "answered", "error"}
              /\ conn'[c].hung \in BOOLEAN /\ (conn'[c].at = "idle" => ~conn'[c].hung)
  <2>1. IsConn(conn'[c]) /\ conn'[c].at = conn[c].at
        /\ conn'[c].hung = IF c \in cs THEN TRUE ELSE conn[c].hung
    BY DEF ConnAfter
  <2> QED  BY <2>1, <1>4, <1>5
<1>11. ConnInd'
  <2>1. conn' = [c \in Connections |-> conn'[c]]
    BY DEF ConnAfter
  <2> QED  BY <2>1, <1>10 DEF ConnInd, Talking, IsConn
<1> QED  BY <1>9, <1>11
\* A process keeps its backlog and its client, or gives up one of them or both.
Releases(x, y, cs) ==
    /\ y.client \in {x.client, None} /\ y.waiting \in {x.waiting, <<>>}
    /\ \A c \in Connections :
          c \in cs <=> \/ x.client = c /\ y.client # c
                       \/ y.waiting = <<>> /\ \E i \in 1..Len(x.waiting) : x.waiting[i] = c

LEMMA ReleaseStep ==
    ASSUME ServiceInd, NEW d \in Daemons, NEW y, NEW cs, Becomes(d, y), IsForged(y), ForgedOK(y),
           PathStep(d, y), Releases(forged[d], y, cs), ConnAfter(cs)
    PROVE  ServiceInd'
<1>1. /\ ForgedInd' /\ PathInd'
      /\ forged'[d] = y /\ \A e \in Daemons : e # d => forged'[e] = forged[e]
  BY ProcessStep
<1>2. PICK x : x = forged[d]
  OBVIOUS
<1>3. \A c, i : HeldAt(c, d, i) <=> (i = 0 /\ x.client = c) \/ (i \in 1..Len(x.waiting) /\ x.waiting[i] = c)
  BY <1>2 DEF HeldAt, Served
<1>4. \A c, i : HeldAt(c, d, i)' <=> (i = 0 /\ y.client = c) \/ (i \in 1..Len(y.waiting) /\ y.waiting[i] = c)
  BY <1>1 DEF HeldAt, Served
<1>5. Len(<<>>) = 0 /\ Len(x.waiting) \in Nat
  BY <1>2 DEF ServiceInd, ForgedInd, ForgedOK
<1>6. Releases(x, y, cs)
  BY <1>2
<1>7. \A c \in Connections : \A i : HeldAt(c, d, i)' => HeldAt(c, d, i)
  <2>1. ASSUME NEW c \in Connections, NEW i, HeldAt(c, d, i)'
        PROVE  HeldAt(c, d, i)
    <3>1. CASE i = 0 /\ y.client = c
      <4>1. x.client = c
        BY <3>1, <1>6, Names DEF Releases
      <4> QED  BY <3>1, <4>1, <1>3
    <3>2. CASE i \in 1..Len(y.waiting) /\ y.waiting[i] = c
      <4>1. y.waiting = x.waiting
        BY <3>2, <1>5, <1>6 DEF Releases
      <4> QED  BY <3>2, <4>1, <1>3
    <3> QED  BY <2>1, <3>1, <3>2, <1>4
  <2> QED  BY <2>1
<1>8. ASSUME NEW c \in Connections, NEW i, HeldAt(c, d, i), ~HeldAt(c, d, i)'
      PROVE  c \in cs
  <2>1. CASE i = 0 /\ x.client = c
    BY <2>1, <1>4, <1>6, <1>8 DEF Releases
  <2>2. CASE i \in 1..Len(x.waiting) /\ x.waiting[i] = c
    <3>1. y.waiting # x.waiting
      BY <2>2, <1>4, <1>8
    <3> QED  BY <3>1, <2>2, <1>6 DEF Releases
  <2> QED  BY <2>1, <2>2, <1>3, <1>8
<1>9. ASSUME NEW c \in Connections, c \in cs
      PROVE  \E i : HeldAt(c, d, i) /\ ~HeldAt(c, d, i)'
  <2>1. CASE x.client = c /\ y.client # c
    <3>1. HeldAt(c, d, 0) /\ ~HeldAt(c, d, 0)'
      BY <2>1, <1>3, <1>4
    <3> QED  BY <3>1
  <2>2. CASE y.waiting = <<>> /\ \E i \in 1..Len(x.waiting) : x.waiting[i] = c
    <3>1. PICK i \in 1..Len(x.waiting) : x.waiting[i] = c
      BY <2>2
    <3>2. HeldAt(c, d, i) /\ i # 0 /\ Len(y.waiting) = 0
      BY <2>2, <3>1, <1>3, <1>5
    <3>3. ~HeldAt(c, d, i)'
      BY <3>2, <1>4, <3>1, <1>5
    <3> QED  BY <3>2, <3>3
  <2> QED  BY <2>1, <2>2, <1>6, <1>9 DEF Releases
<1>10. ConnInd' /\ HeldInd'
  BY <1>1, <1>7, <1>8, <1>9, GivenUp
<1> QED  BY <1>1, <1>10 DEF ServiceInd

\* A process keeps what it holds.
LEMMA QuietStep ==
    ASSUME ServiceInd, NEW d \in Daemons, NEW y, Becomes(d, y), IsForged(y), ForgedOK(y),
           PathStep(d, y), ConnAfter({}),
           y.client = forged[d].client, y.waiting = forged[d].waiting
    PROVE  ServiceInd'
<1>1. Releases(forged[d], y, {})
  <2>1. Len(<<>>) = 0
    OBVIOUS
  <2>2. y.waiting = <<>> => ~\E i \in 1..Len(forged[d].waiting) : TRUE
    BY <2>1
  <2> QED  BY <2>2 DEF Releases
<1> QED  BY <1>1, ReleaseStep

LEMMA ConnUnchanged ==
    ASSUME ServiceInd, conn' = conn
    PROVE  ConnAfter({})
<1>1. conn = [c \in Connections |-> conn[c]] /\ \A c \in Connections : IsConn(conn[c])
  BY DEF ServiceInd, ConnInd
<1> QED  BY <1>1 DEF ConnAfter
LEMMA Own ==
    ASSUME ServiceInd, NEW d \in Daemons
    PROVE  /\ forged = [e \in Daemons |-> forged[e]]
           /\ IsForged(forged[d]) /\ ForgedOK(forged[d])
           /\ path = d => forged[d].listening \/ forged[d].pc = "unlink"
BY DEF ServiceInd, ForgedInd, PathInd, PathIsOpen, At

LEMMA LaunchStep ==
    ASSUME ServiceInd, NEW d \in Daemons, Launch(d)
    PROVE  ServiceInd'
<1>1. PICK y : y = [Down EXCEPT !.pc = "start"]
  OBVIOUS
<1>2. PICK x : x = forged[d]
  OBVIOUS
<1>3. IsForged(x) /\ ForgedOK(x) /\ (path = d => x.listening \/ x.pc = "unlink") /\ x.pc = "down"
  BY <1>2, Own DEF Launch, At
<1>4. /\ IsForged(y) /\ y.pc = "start" /\ y.ret = "down" /\ y.state = "initialized"
      /\ y.listening = FALSE /\ y.waiting = <<>> /\ y.client = None
  BY <1>1, DownForged, SetPc
<1>5. x.waiting = <<>> /\ x.client = None /\ path # d
  BY <1>3 DEF ForgedOK, Open, NotOpen, Serving
<1>6. <<>> \in Seq(Connections) /\ Len(<<>>) = 0 /\ Len(<<>>) <= Backlog
  BY Names
<1>7. ForgedOK(y)
  BY <1>4, <1>6 DEF ForgedOK, Open, NotOpen, Serving
<1>8. Becomes(d, y)
  BY <1>1 DEF Launch, Becomes
<1>9. PathStep(d, y)
  BY <1>5 DEF PathStep, Launch
<1>10. ConnAfter({})
  BY ConnUnchanged DEF Launch, OnlyForged
<1> QED  BY <1>2, <1>4, <1>5, <1>7, <1>8, <1>9, <1>10, QuietStep

\* What a process does without its connections: it goes from one place to
\* another, and its state or its descriptor changes.
LEMMA LocalStep ==
    ASSUME ServiceInd, NEW d \in Daemons,
           \/ StartRefused(d) \/ CreateFails(d) \/ Start(d) \/ Bind(d) \/ Listen(d)
           \/ StopUnlink(d) \/ AcceptFails(d) \/ RetryStart(d)
    PROVE  ServiceInd'
<1>1. PICK x : x = forged[d]
  OBVIOUS
<1>2. /\ forged = [e \in Daemons |-> forged[e]]
      /\ IsForged(x) /\ ForgedOK(x) /\ (path = d => x.listening \/ x.pc = "unlink")
  BY <1>1, Own
<1>3. ConnAfter({})
  BY ConnUnchanged DEF StartRefused, CreateFails, Start, Bind, Listen, StopUnlink, AcceptFails, RetryStart, OnlyForged
<1>4. SUFFICES \E y : /\ Becomes(d, y) /\ IsForged(y) /\ ForgedOK(y) /\ PathStep(d, y)
                      /\ y.client = x.client /\ y.waiting = x.waiting
  BY <1>1, <1>3, QuietStep
<1>5. CASE StartRefused(d)
  <2>1. PICK y : y = [x EXCEPT !.pc = "over"]
    OBVIOUS
  <2>2. Becomes(d, y)
    BY <1>1, <1>5, <2>1 DEF StartRefused, Becomes
  <2>3. IsForged(y) /\ y.pc = "over" /\ y.ret = x.ret /\ y.state = x.state
        /\ y.listening = x.listening /\ y.waiting = x.waiting /\ y.client = x.client
    BY <1>2, <2>1, SetPc
  <2>4. x.pc = "start"
    BY <1>1, <1>5 DEF StartRefused, At
  <2>5. ForgedOK(y)
    BY <2>3, <2>4, <1>2 DEF ForgedOK, Open, NotOpen, Serving
  <2>6. PathStep(d, y)
    BY <1>2, <1>5, <2>3, <2>4 DEF PathStep, StartRefused
  <2> QED  BY <2>2, <2>3, <2>5, <2>6
<1>6. CASE CreateFails(d)
  <2>1. PICK y : y = [x EXCEPT !.state = "running", !.pc = "over"]
    OBVIOUS
  <2>2. Becomes(d, y)
    BY <1>1, <1>2, <1>6, <2>1 DEF CreateFails, Becomes
  <2>3. IsForged(y) /\ y.pc = "over" /\ y.ret = x.ret /\ y.state = "running"
        /\ y.listening = x.listening /\ y.waiting = x.waiting /\ y.client = x.client
    BY <1>2, <2>1 DEF IsForged, ForgedFields
  <2>4. x.pc = "start"
    BY <1>1, <1>6 DEF CreateFails, At
  <2>5. ForgedOK(y)
    BY <2>3, <2>4, <1>2 DEF ForgedOK, Open, NotOpen, Serving
  <2>6. PathStep(d, y)
    BY <1>2, <1>6, <2>3, <2>4 DEF PathStep, CreateFails
  <2> QED  BY <2>2, <2>3, <2>5, <2>6
<1>7. CASE Start(d)
  <2>1. PICK y : y = [x EXCEPT !.state = "running", !.listening = TRUE, !.pc = "bind"]
    OBVIOUS
  <2>2. Becomes(d, y)
    BY <1>1, <1>2, <1>7, <2>1 DEF Start, Becomes
  <2>3. IsForged(y) /\ y.pc = "bind" /\ y.ret = x.ret /\ y.state = "running"
        /\ y.listening = TRUE /\ y.waiting = x.waiting /\ y.client = x.client
    BY <1>2, <2>1 DEF IsForged, ForgedFields
  <2>4. x.pc = "start"
    BY <1>1, <1>7 DEF Start, At
  <2>5. ForgedOK(y)
    BY <2>3, <2>4, <1>2 DEF ForgedOK, Open, NotOpen, Serving
  <2>6. PathStep(d, y)
    BY <1>7, <2>3 DEF PathStep, Start, UnlinkPath
  <2> QED  BY <2>2, <2>3, <2>5, <2>6
<1>8. CASE Bind(d) \/ Listen(d)
  <2>1. PICK to : to = IF Bind(d) THEN "listen" ELSE "ready"
    OBVIOUS
  <2>2. PICK y : y = [x EXCEPT !.pc = to]
    OBVIOUS
  <2>3. x.pc \in {"bind", "listen"} /\ to \in {"listen", "ready"}
    BY <1>1, <1>8, <2>1 DEF Bind, Listen, At
  <2>4. Becomes(d, y)
    BY <1>1, <1>8, <2>1, <2>2 DEF Bind, Listen, Becomes, At
  <2>5. IsForged(y) /\ y.pc = to /\ y.ret = x.ret /\ y.state = x.state
        /\ y.listening = x.listening /\ y.waiting = x.waiting /\ y.client = x.client
    BY <1>2, <2>2, SetPc
  <2>6. ForgedOK(y)
    BY <2>3, <2>5, <1>2 DEF ForgedOK, Open, NotOpen, Serving
  <2>7. y.listening
    BY <2>3, <2>5, <1>2 DEF ForgedOK, Open
  <2>8. PathStep(d, y)
    BY <1>8, <2>7 DEF PathStep, Bind, Listen
  <2> QED  BY <2>4, <2>5, <2>6, <2>8
<1>9. CASE StopUnlink(d)
  <2>1. PICK y : y = [x EXCEPT !.state = "stopped", !.pc = x.ret]
    OBVIOUS
  <2>2. Becomes(d, y)
    BY <1>1, <1>2, <1>9, <2>1 DEF StopUnlink, Becomes
  <2>3. IsForged(y) /\ y.pc = x.ret /\ y.ret = x.ret /\ y.state = "stopped"
        /\ y.listening = x.listening /\ y.waiting = x.waiting /\ y.client = x.client
    BY <1>2, <2>1 DEF IsForged, ForgedFields
  <2>4. x.pc = "unlink"
    BY <1>1, <1>9 DEF StopUnlink, At
  <2>5. ForgedOK(y)
    BY <2>3, <2>4, <1>2 DEF ForgedOK, Open, NotOpen, Serving
  <2>6. PathStep(d, y)
    BY <1>9, Names DEF PathStep, StopUnlink, UnlinkPath
  <2> QED  BY <2>2, <2>3, <2>5, <2>6
<1>10. CASE AcceptFails(d)
  <2>1. PICK y : y = [x EXCEPT !.pc = "over"]
    OBVIOUS
  <2>2. Becomes(d, y)
    BY <1>1, <1>10, <2>1 DEF AcceptFails, Becomes
  <2>3. IsForged(y) /\ y.pc = "over" /\ y.ret = x.ret /\ y.state = x.state
        /\ y.listening = x.listening /\ y.waiting = x.waiting /\ y.client = x.client
    BY <1>2, <2>1, SetPc
  <2>4. x.pc = "ready"
    BY <1>1, <1>10 DEF AcceptFails, At
  <2>5. ForgedOK(y) /\ y.listening
    BY <2>3, <2>4, <1>2 DEF ForgedOK, Open, NotOpen, Serving
  <2>6. PathStep(d, y)
    BY <1>10, <2>5 DEF PathStep, AcceptFails
  <2> QED  BY <2>2, <2>3, <2>5, <2>6
<1>11. CASE RetryStart(d)
  <2>1. PICK y : y = [x EXCEPT !.pc = "start"]
    OBVIOUS
  <2>2. Becomes(d, y)
    BY <1>1, <1>11, <2>1 DEF RetryStart, Becomes
  <2>3. IsForged(y) /\ y.pc = "start" /\ y.ret = x.ret /\ y.state = x.state
        /\ y.listening = x.listening /\ y.waiting = x.waiting /\ y.client = x.client
    BY <1>2, <2>1, SetPc
  <2>4. x.pc = "over" /\ ~x.listening
    BY <1>1, <1>11 DEF RetryStart, At
  <2>5. ForgedOK(y)
    BY <2>3, <2>4, <1>2 DEF ForgedOK, Open, NotOpen, Serving
  <2>6. PathStep(d, y)
    BY <1>2, <1>11, <2>4 DEF PathStep, RetryStart
  <2> QED  BY <2>2, <2>3, <2>5, <2>6
<1> QED  BY <1>5, <1>6, <1>7, <1>8, <1>9, <1>10, <1>11
LEMMA HangUpAfter ==
    ASSUME ServiceInd, NEW cs, HangUp(cs)
    PROVE  ConnAfter(cs)
<1>1. \A c \in Connections : IsConn(conn[c])
  BY DEF ServiceInd, ConnInd
<1> QED  BY <1>1, HangUpEffect DEF ConnAfter

LEMMA RangeOf ==
    ASSUME NEW S, NEW s \in Seq(S)
    PROVE  \A c : c \in Range(s) <=> \E i \in 1..Len(s) : s[i] = c
<1>1. DOMAIN s = 1..Len(s)
  OBVIOUS
<1> QED  BY <1>1 DEF Range

\* stop(): the connections that wait are cut off, and no one is served.
LEMMA StopStep ==
    ASSUME ServiceInd, NEW d \in Daemons, NEW ret \in {"down", "over", "start"}, Stop(d, ret),
           forged[d].pc \notin Serving
    PROVE  ServiceInd'
<1>1. PICK x : x = forged[d]
  OBVIOUS
<1>2. /\ forged = [e \in Daemons |-> forged[e]] /\ IsForged(x) /\ ForgedOK(x) /\ x.pc \notin Serving
  BY <1>1, Own
<1>3. PICK y : y = [x EXCEPT !.listening = FALSE, !.waiting = <<>>, !.pc = "unlink", !.ret = ret]
  OBVIOUS
<1>4. Becomes(d, y)
  BY <1>1, <1>2, <1>3 DEF Stop, Becomes
<1>5. /\ IsForged(y) /\ y.pc = "unlink" /\ y.ret = ret /\ y.state = x.state
      /\ y.listening = FALSE /\ y.waiting = <<>> /\ y.client = x.client
  BY <1>2, <1>3 DEF IsForged, ForgedFields
<1>6. <<>> \in Seq(Connections) /\ Len(<<>>) = 0 /\ Len(<<>>) <= Backlog
  BY Names
<1>7. ForgedOK(y)
  BY <1>2, <1>5, <1>6 DEF ForgedOK, Open, NotOpen, Serving
<1>8. PathStep(d, y)
  BY <1>5 DEF PathStep, Stop
<1>9. ConnAfter(Range(x.waiting))
  BY <1>1, HangUpAfter DEF Stop
<1>10. Releases(x, y, Range(x.waiting))
  <2>1. x.waiting \in Seq(Connections)
    BY <1>2 DEF ForgedOK
  <2>2. \A c : c \in Range(x.waiting) <=> \E i \in 1..Len(x.waiting) : x.waiting[i] = c
    BY <2>1, RangeOf
  <2> QED  BY <2>2, <1>5 DEF Releases
<1> QED  BY <1>1, <1>4, <1>5, <1>7, <1>8, <1>9, <1>10, ReleaseStep

LEMMA StopSteps ==
    ASSUME ServiceInd, NEW d \in Daemons,
           BindFails(d) \/ ListenFails(d) \/ Exit(d) \/ RetryAfterStop(d)
    PROVE  ServiceInd'
<1>1. forged[d].pc \in {"bind", "listen", "over", "done"}
  BY DEF BindFails, ListenFails, Exit, RetryAfterStop, At
<1>2. \E ret \in {"down", "over", "start"} : Stop(d, ret)
  BY DEF BindFails, ListenFails, Exit, RetryAfterStop
<1> QED  BY <1>1, <1>2, StopStep DEF Serving

LEMMA KillStep ==
    ASSUME ServiceInd, NEW d \in Daemons, Kill(d)
    PROVE  ServiceInd'
<1>1. PICK x : x = forged[d]
  OBVIOUS
<1>2. ForgedOK(x)
  BY <1>1, Own
<1>3. Becomes(d, Down) /\ IsForged(Down)
  BY DownForged DEF Kill, Becomes
<1>4. <<>> \in Seq(Connections) /\ Len(<<>>) = 0 /\ Len(<<>>) <= Backlog
  BY Names
<1>5. ForgedOK(Down)
  BY DownForged, <1>4 DEF ForgedOK, Open, NotOpen, Serving
<1>6. PathStep(d, Down)
  BY Names DEF PathStep, Kill
<1>7. PICK cs : cs = Range(x.waiting) \cup ({x.client} \ {None})
  OBVIOUS
<1>8. ConnAfter(cs)
  BY <1>1, <1>7, HangUpAfter DEF Kill, Served
<1>9. Releases(x, Down, cs)
  <2>1. x.waiting \in Seq(Connections)
    BY <1>2 DEF ForgedOK
  <2>2. \A c : c \in Range(x.waiting) <=> \E i \in 1..Len(x.waiting) : x.waiting[i] = c
    BY <2>1, RangeOf
  <2> QED  BY <2>2, <1>7, DownForged, Names DEF Releases
<1> QED  BY <1>1, <1>3, <1>5, <1>6, <1>8, <1>9, ReleaseStep

\* serve_once() returns an error.
LEMMA ServeFailsStep ==
    ASSUME ServiceInd, NEW d \in Daemons, ServeFails(d), forged[d].pc \in Serving, path' = path
    PROVE  ServiceInd'
<1>1. PICK x : x = forged[d]
  OBVIOUS
<1>2. forged = [e \in Daemons |-> forged[e]] /\ IsForged(x) /\ ForgedOK(x) /\ x.pc \in Serving
  BY <1>1, Own
<1>3. PICK y : y = [x EXCEPT !.client = None, !.pc = "over"]
  OBVIOUS
<1>4. Becomes(d, y)
  BY <1>1, <1>2, <1>3 DEF ServeFails, Becomes
<1>5. /\ IsForged(y) /\ y.pc = "over" /\ y.ret = x.ret /\ y.state = x.state
      /\ y.listening = x.listening /\ y.waiting = x.waiting /\ y.client = None
  BY <1>2, <1>3 DEF IsForged, ForgedFields
<1>6. ForgedOK(y) /\ y.listening
  BY <1>2, <1>5 DEF ForgedOK, Open, NotOpen, Serving
<1>7. PathStep(d, y)
  BY <1>6 DEF PathStep
<1>8. ConnAfter({x.client})
  BY <1>1, HangUpAfter DEF ServeFails, Served
<1>9. Releases(x, y, {x.client})
  <2>1. x.client # None
    BY <1>2 DEF ForgedOK
  <2>2. y.waiting = <<>> => ~\E i \in 1..Len(x.waiting) : TRUE
    BY <1>5
  <2> QED  BY <2>1, <2>2, <1>5, Names DEF Releases
<1> QED  BY <1>1, <1>4, <1>5, <1>6, <1>7, <1>8, <1>9, ReleaseStep
-----------------------------------------------------------------------------
(***************************************************************************)
(* accept() moves every connection of a backlog one place on.              *)
(***************************************************************************)
LEMMA AcceptStep ==
    ASSUME ServiceInd, NEW d \in Daemons, Accept(d)
    PROVE  ServiceInd'
<1>1. PICK x : x = forged[d]
  OBVIOUS
<1>2. forged = [e \in Daemons |-> forged[e]] /\ IsForged(x) /\ ForgedOK(x) /\ x.pc = "ready"
  BY <1>1, Own DEF Accept, At
<1>3. /\ x.waiting \in Seq(Connections) /\ x.waiting # <<>> /\ x.client = None /\ x.listening
      /\ Len(x.waiting) <= Backlog
  BY <1>1, <1>2 DEF ForgedOK, Open, NotOpen, Serving, Accept
<1>4. PICK c0, w : c0 = Head(x.waiting) /\ w = Tail(x.waiting)
  OBVIOUS
<1>5. /\ c0 \in Connections /\ w \in Seq(Connections) /\ Len(x.waiting) \in Nat \ {0}
      /\ Len(w) = Len(x.waiting) - 1 /\ c0 = x.waiting[1]
      /\ \A i \in 1..Len(w) : w[i] = x.waiting[i + 1]
  BY <1>3, <1>4
<1>6. PICK y : y = [x EXCEPT !.client = c0, !.waiting = w, !.session = NewSession, !.codec = NewCodec,
                             !.events = <<>>, !.pc = "recv"]
  OBVIOUS
<1>7. Becomes(d, y)
  BY <1>1, <1>2, <1>4, <1>6 DEF Accept, Becomes
<1>8. /\ IsForged(y) /\ y.pc = "recv" /\ y.ret = x.ret /\ y.state = x.state
      /\ y.listening = x.listening /\ y.waiting = w /\ y.client = c0
  BY <1>2, <1>6 DEF IsForged, ForgedFields
<1>9. Len(w) <= Backlog /\ c0 # None
  BY <1>3, <1>5, Names
<1>10. ForgedOK(y)
  BY <1>2, <1>3, <1>5, <1>8, <1>9 DEF ForgedOK, Open, NotOpen, Serving
<1>11. PathStep(d, y)
  BY <1>3, <1>8 DEF PathStep, Accept
<1>12. /\ ForgedInd' /\ PathInd'
       /\ forged'[d] = y /\ \A e \in Daemons : e # d => forged'[e] = forged[e]
  BY <1>7, <1>8, <1>10, <1>11, ProcessStep
<1>13. \A c \in Connections : \A e \in Daemons : \A i : e # d => (HeldAt(c, e, i)' <=> HeldAt(c, e, i))
  BY <1>12 DEF HeldAt, Served
<1>14. ASSUME NEW c \in Connections, NEW i
       PROVE  HeldAt(c, d, i) <=> i \in 1..Len(x.waiting) /\ x.waiting[i] = c
  BY <1>1, <1>3, Names DEF HeldAt, Served
<1>15. ASSUME NEW c \in Connections, NEW i
       PROVE  HeldAt(c, d, i)' <=> (i = 0 /\ c0 = c) \/ (i \in 1..Len(w) /\ w[i] = c)
  BY <1>12, <1>8 DEF HeldAt, Served
<1>16. ASSUME NEW c \in Connections, NEW i, HeldAt(c, d, i)'
       PROVE  i \in Nat /\ HeldAt(c, d, i + 1)
  <2>1. CASE i = 0 /\ c0 = c
    BY <2>1, <1>5, <1>14
  <2>2. CASE i \in 1..Len(w) /\ w[i] = c
    <3>1. i \in Nat /\ i + 1 \in 1..Len(x.waiting) /\ x.waiting[i + 1] = c
      BY <2>2, <1>5
    <3> QED  BY <3>1, <1>14
  <2> QED  BY <2>1, <2>2, <1>15, <1>16
<1>17. ASSUME NEW c \in Connections, NEW i, HeldAt(c, d, i)
       PROVE  \E j : HeldAt(c, d, j)'
  <2>1. i \in 1..Len(x.waiting) /\ x.waiting[i] = c
    BY <1>14, <1>17
  <2>2. CASE i = 1
    <3>1. HeldAt(c, d, 0)'
      BY <2>1, <2>2, <1>5, <1>15
    <3> QED  BY <3>1
  <2>3. CASE i # 1
    <3>1. i - 1 \in 1..Len(w) /\ w[i - 1] = x.waiting[(i - 1) + 1] /\ (i - 1) + 1 = i
      BY <2>1, <2>3, <1>5
    <3>2. HeldAt(c, d, i - 1)'
      BY <2>1, <3>1, <1>15
    <3> QED  BY <3>2
  <2> QED  BY <2>2, <2>3
<1>18. ASSUME NEW c \in Connections
       PROVE  HeldOK(c)'
  <2>1. /\ HeldOnce(c) /\ (conn[c].hung \/ conn[c].at = "idle" => HeldNowhere(c))
        /\ (conn[c].at \in Talking /\ ~conn[c].hung => ~HeldNowhere(c))
    BY DEF ServiceInd, HeldInd, HeldOK
  <2>2. HeldNowhere(c)' <=> HeldNowhere(c)
    <3>1. ASSUME NEW e \in Daemons, NEW i, HeldAt(c, e, i)
          PROVE  \E j : HeldAt(c, e, j)'
      BY <3>1, <1>13, <1>17
    <3>2. ASSUME NEW e \in Daemons, NEW i, HeldAt(c, e, i)'
          PROVE  \E j : HeldAt(c, e, j)
      BY <3>2, <1>13, <1>16
    <3> QED  BY <3>1, <3>2 DEF HeldNowhere
  <2>3. ASSUME NEW e \in Daemons, NEW g \in Daemons, NEW i, NEW j, HeldAt(c, e, i)', HeldAt(c, g, j)'
        PROVE  e = g /\ i = j
    <3>1. PICK i1 : HeldAt(c, e, i1) /\ (IF e = d THEN i \in Nat /\ i1 = i + 1 ELSE i1 = i)
      BY <2>3, <1>13, <1>16
    <3>2. PICK j1 : HeldAt(c, g, j1) /\ (IF g = d THEN j \in Nat /\ j1 = j + 1 ELSE j1 = j)
      BY <2>3, <1>13, <1>16
    <3>3. e = g /\ i1 = j1
      BY <3>1, <3>2, <2>1 DEF HeldOnce
    <3> QED  BY <3>1, <3>2, <3>3
  <2>4. HeldOnce(c)'
    BY <2>3 DEF HeldOnce
  <2>5. conn' = conn
    BY DEF Accept, OnlyForged
  <2> QED  BY <2>1, <2>2, <2>4, <2>5 DEF HeldOK
<1>19. ConnInd' /\ HeldInd'
  <2>1. conn' = conn
    BY DEF Accept, OnlyForged
  <2>2. ConnInd'
    BY <2>1 DEF ServiceInd, ConnInd
  <2> QED  BY <1>18, <2>2 DEF HeldInd
<1> QED  BY <1>12, <1>19 DEF ServiceInd

-----------------------------------------------------------------------------
(***************************************************************************)
(* connect() takes the next place of a backlog.                            *)
(***************************************************************************)
LEMMA ConnectStep ==
    ASSUME ServiceInd, NEW c0 \in Connections, Connect(c0)
    PROVE  ServiceInd'
<1>1. PICK d, x : d = path /\ x = forged[d]
  OBVIOUS
<1>2. d \in Daemons /\ x.listening /\ x.pc # "listen" /\ Len(x.waiting) < Backlog
  BY <1>1 DEF Connect, Reachable, At
<1>3. forged = [e \in Daemons |-> forged[e]] /\ IsForged(x) /\ ForgedOK(x)
  BY <1>1, <1>2, Own
<1>4. x.waiting \in Seq(Connections) /\ Len(x.waiting) \in Nat
  BY <1>3 DEF ForgedOK
<1>5. PICK w : w = Append(x.waiting, c0)
  OBVIOUS
<1>6. /\ w \in Seq(Connections) /\ Len(w) = Len(x.waiting) + 1 /\ w[Len(x.waiting) + 1] = c0
      /\ \A i \in 1..Len(x.waiting) : w[i] = x.waiting[i]
  BY <1>4, <1>5
<1>7. Len(w) <= Backlog
  BY <1>2, <1>4, <1>6, Names
<1>8. PICK y : y = [x EXCEPT !.waiting = w]
  OBVIOUS
<1>9. Becomes(d, y)
  BY <1>1, <1>2, <1>3, <1>5, <1>8 DEF Connect, Becomes
<1>10. /\ IsForged(y) /\ y.pc = x.pc /\ y.ret = x.ret /\ y.state = x.state
       /\ y.listening = x.listening /\ y.waiting = w /\ y.client = x.client
  BY <1>3, <1>8 DEF IsForged, ForgedFields
<1>11. ForgedOK(y)
  BY <1>2, <1>3, <1>6, <1>7, <1>10 DEF ForgedOK
<1>12. PathStep(d, y)
  BY <1>2, <1>10 DEF PathStep, Connect
<1>13. /\ ForgedInd' /\ PathInd'
       /\ forged'[d] = y /\ \A e \in Daemons : e # d => forged'[e] = forged[e]
  BY <1>2, <1>9, <1>10, <1>11, <1>12, ProcessStep
<1>14. PICK n : n = Len(x.waiting) + 1
  OBVIOUS
<1>15. ASSUME NEW c \in Connections, NEW e \in Daemons, NEW i
       PROVE  HeldAt(c, e, i)' <=> HeldAt(c, e, i) \/ (c = c0 /\ e = d /\ i = n)
  <2>1. CASE e # d
    BY <2>1, <1>13 DEF HeldAt, Served
  <2>2. CASE e = d
    <3>1. HeldAt(c, d, i) <=> (i = 0 /\ x.client = c) \/ (i \in 1..Len(x.waiting) /\ x.waiting[i] = c)
      BY <1>1 DEF HeldAt, Served
    <3>2. HeldAt(c, d, i)' <=> (i = 0 /\ x.client = c) \/ (i \in 1..Len(w) /\ w[i] = c)
      BY <1>10, <1>13 DEF HeldAt, Served
    <3>3. i \in 1..Len(w) /\ w[i] = c <=> (i \in 1..Len(x.waiting) /\ x.waiting[i] = c) \/ (c = c0 /\ i = n)
      BY <1>4, <1>6, <1>14
    <3> QED  BY <2>2, <3>1, <3>2, <3>3
  <2> QED  BY <2>1, <2>2
<1>16. /\ conn = [c \in Connections |-> conn[c]]
       /\ \A c \in Connections :
             /\ IsConn(conn[c]) /\ conn[c].at \in Talking \cup {"idle", "answered", "error"}
             /\ conn[c].hung \in BOOLEAN /\ (conn[c].at = "idle" => ~conn[c].hung)
  BY DEF ServiceInd, ConnInd
<1>17. conn[c0].at = "idle" /\ conn' = [conn EXCEPT ![c0].at = "write"]
  BY DEF Connect
<1>18. conn' = [c \in Connections |-> conn'[c]] /\ \A c \in Connections : c # c0 => conn'[c] = conn[c]
  BY <1>16, <1>17
<1>19. IsConn(conn'[c0]) /\ conn'[c0].at = "write" /\ conn'[c0].hung = conn[c0].hung
  <2>1. PICK z : z = conn[c0]
    OBVIOUS
  <2>2. PICK v : v = [z EXCEPT !.at = "write"]
    OBVIOUS
  <2>3. conn'[c0] = v
    BY <1>16, <1>17, <2>1, <2>2
  <2>4. IsConn(z)
    BY <1>16, <2>1
  <2>5. IsConn(v) /\ v.at = "write" /\ v.hung = z.hung
    BY <2>2, <2>4 DEF IsConn, ConnFields
  <2> QED  BY <2>1, <2>3, <2>5
<1>20. ConnInd'
  <2>1. \A c \in Connections :
             /\ IsConn(conn'[c]) /\ conn'[c].at \in Talking \cup {"idle", "answered", "error"}
             /\ conn'[c].hung \in BOOLEAN /\ (conn'[c].at = "idle" => ~conn'[c].hung)
    BY <1>16, <1>18, <1>19 DEF Talking
  <2> QED  BY <2>1, <1>18 DEF ConnInd, IsConn
<1>21. ASSUME NEW c \in Connections
       PROVE  HeldOK(c)'
  <2>1. /\ HeldOnce(c) /\ (conn[c].hung \/ conn[c].at = "idle" => HeldNowhere(c))
        /\ (conn[c].at \in Talking /\ ~conn[c].hung => ~HeldNowhere(c))
    BY DEF ServiceInd, HeldInd, HeldOK
  <2>2. CASE c # c0
    <3>1. \A e \in Daemons : \A i : HeldAt(c, e, i)' <=> HeldAt(c, e, i)
      BY <2>2, <1>15
    <3>2. (HeldNowhere(c)' <=> HeldNowhere(c)) /\ HeldOnce(c)'
      BY <3>1, <2>1 DEF HeldNowhere, HeldOnce
    <3>3. conn'[c] = conn[c]
      BY <2>2, <1>18
    <3> QED  BY <2>1, <3>2, <3>3 DEF HeldOK
  <2>3. CASE c = c0
    <3>1. \A e \in Daemons : \A i : HeldAt(c, e, i)' <=> e = d /\ i = n
      BY <2>1, <2>3, <1>15, <1>17 DEF HeldNowhere
    <3>2. HeldOnce(c)'
      BY <3>1 DEF HeldOnce
    <3>3. ~HeldNowhere(c)'
      BY <3>1, <1>2 DEF HeldNowhere
    <3>4. ~conn'[c].hung /\ conn'[c].at = "write"
      BY <2>3, <1>16, <1>17, <1>19
    <3> QED  BY <3>2, <3>3, <3>4 DEF HeldOK
  <2> QED  BY <2>2, <2>3
<1>22. HeldInd'
  BY <1>21 DEF HeldInd
<1> QED  BY <1>13, <1>20, <1>22 DEF ServiceInd
-----------------------------------------------------------------------------
(***************************************************************************)
(* serve_once() with its client.                                           *)
(***************************************************************************)
LEMMA ServedIsOpen ==
    ASSUME ServiceInd, NEW d \in Daemons, forged[d].pc \in Serving
    PROVE  /\ Served(d) \in Connections /\ Served(d) # None /\ forged[d].listening
           /\ conn[Served(d)].hung = FALSE
<1>1. ForgedOK(forged[d])
  BY Own
<1>2. Served(d) \in Connections /\ Served(d) # None /\ forged[d].listening
  BY <1>1 DEF ForgedOK, Served, Open
<1>3. ~HeldNowhere(Served(d))
  <2>1. HeldAt(Served(d), d, 0)
    BY DEF HeldAt
  <2> QED  BY <2>1 DEF HeldNowhere
<1> QED  BY <1>2, <1>3 DEF ServiceInd, HeldInd, HeldOK, ConnInd

\* The bytes, the frames and the replies of one connection change, and its
\* daemon's end is closed or not.
LEMMA Exchanged ==
    ASSUME ServiceInd, NEW c \in Connections, conn[c].hung = FALSE, NEW done \in BOOLEAN, NEW u, NEW v,
           \/ conn' = [conn EXCEPT ![c].down = u, ![c].hung = done, ![c].replies = v]
           \/ ~done /\ conn' = [conn EXCEPT ![c].up = u, ![c].got = v]
    PROVE  ConnAfter(IF done THEN {c} ELSE {})
<1>1. conn = [b \in Connections |-> conn[b]] /\ \A b \in Connections : IsConn(conn[b])
  BY DEF ServiceInd, ConnInd
<1>2. conn' = [b \in Connections |-> conn'[b]] /\ \A b \in Connections : b # c => conn'[b] = conn[b]
  BY <1>1
<1>3. PICK x : x = conn[c]
  OBVIOUS
<1>4. IsConn(x) /\ x.hung = FALSE
  BY <1>1, <1>3
<1>5. IsConn(conn'[c]) /\ conn'[c].at = x.at /\ conn'[c].hung = done
  <2>1. CASE conn' = [conn EXCEPT ![c].down = u, ![c].hung = done, ![c].replies = v]
    <3>1. PICK y : y = [x EXCEPT !.down = u, !.hung = done, !.replies = v]
      OBVIOUS
    <3>2. conn'[c] = y
      BY <2>1, <3>1, <1>1, <1>3
    <3>3. IsConn(y) /\ y.at = x.at /\ y.hung = done
      BY <3>1, <1>4 DEF IsConn, ConnFields
    <3> QED  BY <3>2, <3>3
  <2>2. CASE ~done /\ conn' = [conn EXCEPT ![c].up = u, ![c].got = v]
    <3>1. PICK y : y = [x EXCEPT !.up = u, !.got = v]
      OBVIOUS
    <3>2. conn'[c] = y
      BY <2>2, <3>1, <1>1, <1>3
    <3>3. IsConn(y) /\ y.at = x.at /\ y.hung = x.hung
      BY <3>1, <1>4 DEF IsConn, ConnFields
    <3> QED  BY <2>2, <3>2, <3>3, <1>4
  <2> QED  BY <2>1, <2>2
<1>6. ASSUME NEW b \in Connections
      PROVE  /\ IsConn(conn'[b]) /\ conn'[b].at = conn[b].at
             /\ conn'[b].hung = IF b \in (IF done THEN {c} ELSE {}) THEN TRUE ELSE conn[b].hung
  <2>1. CASE b = c
    BY <2>1, <1>3, <1>4, <1>5
  <2>2. CASE b # c
    BY <2>2, <1>1, <1>2
  <2> QED  BY <2>1, <2>2
<1> QED  BY <1>2, <1>6 DEF ConnAfter

\* One turn of the loop in feed().
LEMMA FeedStep ==
    ASSUME ServiceInd, NEW d \in Daemons, NEW n, NEW r, SessionFeed(d, n, r), forged[d].pc \in Serving
    PROVE  ServiceInd'
<1>1. PICK c, x : c = Served(d) /\ x = forged[d]
  OBVIOUS
<1>2. forged = [e \in Daemons |-> forged[e]] /\ IsForged(x) /\ ForgedOK(x) /\ x.pc \in Serving
  BY <1>1, Own
<1>3. c \in Connections /\ x.listening /\ conn[c].hung = FALSE /\ path' = path
  BY <1>1, ServedIsOpen DEF SessionFeed
<1>4. PICK frames, s :
         \/ ServeFails(d)
         \/ /\ forged' = [forged EXCEPT ![d].codec = r.codec, ![d].session = s, ![d].events = @ \o frames,
                             ![d].pc = IF FeedIsOver(r) THEN "respond" ELSE "feed"]
            /\ conn' = [conn EXCEPT ![c].up = SubSeq(@, n + 1, Len(@)), ![c].got = @ \o frames]
  BY <1>1 DEF SessionFeed
<1>5. CASE ServeFails(d)
  BY <1>3, <1>5, ServeFailsStep
<1>6. CASE /\ forged' = [forged EXCEPT ![d].codec = r.codec, ![d].session = s, ![d].events = @ \o frames,
                            ![d].pc = IF FeedIsOver(r) THEN "respond" ELSE "feed"]
           /\ conn' = [conn EXCEPT ![c].up = SubSeq(@, n + 1, Len(@)), ![c].got = @ \o frames]
  <2>1. PICK to, events : to = (IF FeedIsOver(r) THEN "respond" ELSE "feed") /\ events = x.events \o frames
    OBVIOUS
  <2>2. PICK y : y = [x EXCEPT !.codec = r.codec, !.session = s, !.events = events, !.pc = to]
    OBVIOUS
  <2>3. Becomes(d, y)
    BY <1>1, <1>2, <1>6, <2>1, <2>2 DEF Becomes
  <2>4. /\ IsForged(y) /\ y.pc = to /\ y.ret = x.ret /\ y.state = x.state
        /\ y.listening = x.listening /\ y.waiting = x.waiting /\ y.client = x.client
    BY <1>2, <2>2 DEF IsForged, ForgedFields
  <2>5. to \in Serving
    BY <2>1 DEF Serving
  <2>6. ForgedOK(y)
    BY <1>2, <2>4, <2>5 DEF ForgedOK, Open, NotOpen, Serving
  <2>7. PathStep(d, y)
    BY <1>3, <2>4 DEF PathStep
  <2>8. PICK u, v : u = SubSeq(conn[c].up, n + 1, Len(conn[c].up)) /\ v = conn[c].got \o frames
    OBVIOUS
  <2>9. conn' = [conn EXCEPT ![c].up = u, ![c].got = v]
    BY <1>6, <2>8 DEF ServiceInd, ConnInd
  <2>10. ConnAfter(IF FALSE THEN {c} ELSE {})
    BY <1>3, <2>9, Exchanged
  <2>11. ConnAfter({})
    BY <2>10
  <2> QED  BY <1>1, <2>3, <2>4, <2>6, <2>7, <2>11, QuietStep
<1> QED  BY <1>4, <1>5, <1>6

LEMMA FeedSteps ==
    ASSUME ServiceInd, NEW d \in Daemons, Receive(d) \/ FeedOn(d) \/ ReceiveEnd(d)
    PROVE  ServiceInd'
<1>1. forged[d].pc \in Serving
  BY DEF Receive, FeedOn, ReceiveEnd, At, Serving
<1>2. CASE Receive(d) \/ FeedOn(d)
  <2>1. PICK n, r : SessionFeed(d, n, r)
    BY <1>2 DEF Receive, FeedOn
  <2> QED  BY <1>1, <2>1, FeedStep
<1>3. CASE ReceiveEnd(d)
  <2>1. ServeFails(d) /\ path' = path
    BY <1>3 DEF ReceiveEnd
  <2> QED  BY <1>1, <2>1, ServeFailsStep
<1> QED  BY <1>2, <1>3

\* The answers are written, and after the last one the connection is closed.
LEMMA RespondStep ==
    ASSUME ServiceInd, NEW d \in Daemons, Respond(d)
    PROVE  ServiceInd'
<1>1. PICK c, x : c = Served(d) /\ x = forged[d]
  OBVIOUS
<1>2. x.pc = "respond" /\ x.pc \in Serving /\ path' = path
  BY <1>1 DEF Respond, At, Serving
<1>3. forged = [e \in Daemons |-> forged[e]] /\ IsForged(x) /\ ForgedOK(x)
  BY <1>1, Own
<1>4. c \in Connections /\ c # None /\ x.listening /\ conn[c].hung = FALSE
  BY <1>1, <1>2, ServedIsOpen
<1>5. PICK answers, done :
         /\ done \in BOOLEAN
         /\ \/ ServeFails(d)
            \/ /\ conn' = [conn EXCEPT ![c].down = @ \o Bytes(answers), ![c].hung = done,
                                       ![c].replies = @ \o answers]
               /\ forged' = [forged EXCEPT ![d].events = <<>>, ![d].client = IF done THEN None ELSE c,
                                ![d].pc = IF ~done THEN "recv" ELSE IF d \in Once THEN "done" ELSE "ready"]
  BY <1>1 DEF Respond
<1>6. CASE ServeFails(d)
  BY <1>1, <1>2, <1>6, ServeFailsStep
<1>7. CASE /\ conn' = [conn EXCEPT ![c].down = @ \o Bytes(answers), ![c].hung = done,
                                   ![c].replies = @ \o answers]
           /\ forged' = [forged EXCEPT ![d].events = <<>>, ![d].client = IF done THEN None ELSE c,
                            ![d].pc = IF ~done THEN "recv" ELSE IF d \in Once THEN "done" ELSE "ready"]
  <2>1. PICK to, client : /\ to = (IF ~done THEN "recv" ELSE IF d \in Once THEN "done" ELSE "ready")
                          /\ client = IF done THEN None ELSE c
    OBVIOUS
  <2>2. PICK y : y = [x EXCEPT !.events = <<>>, !.client = client, !.pc = to]
    OBVIOUS
  <2>3. Becomes(d, y)
    BY <1>1, <1>3, <1>7, <2>1, <2>2 DEF Becomes
  <2>4. /\ IsForged(y) /\ y.pc = to /\ y.ret = x.ret /\ y.state = x.state
        /\ y.listening = x.listening /\ y.waiting = x.waiting /\ y.client = client
    BY <1>3, <2>2 DEF IsForged, ForgedFields
  <2>5. ForgedOK(y)
    BY <1>3, <1>4, <2>1, <2>4 DEF ForgedOK, Open, NotOpen, Serving
  <2>6. PathStep(d, y)
    BY <1>2, <1>4, <2>4 DEF PathStep
  <2>7. PICK cs : cs = IF done THEN {c} ELSE {}
    OBVIOUS
  <2>8. PICK u, v : u = conn[c].down \o Bytes(answers) /\ v = conn[c].replies \o answers
    OBVIOUS
  <2>9. conn' = [conn EXCEPT ![c].down = u, ![c].hung = done, ![c].replies = v]
    BY <1>7, <2>8 DEF ServiceInd, ConnInd
  <2>10. ConnAfter(cs)
    <3>1. done \in BOOLEAN
      BY <1>5
    <3>2. ConnAfter(IF done THEN {c} ELSE {})
      BY <1>4, <2>9, <3>1, Exchanged
    <3> QED  BY <3>2, <2>7
  <2>11. Releases(x, y, cs)
    <3>1. x.client = c
      BY <1>1 DEF Served
    <3>2. y.waiting = <<>> => ~\E i \in 1..Len(x.waiting) : TRUE
      BY <2>4
    <3> QED  BY <3>1, <3>2, <1>4, <2>1, <2>4, <2>7, Names DEF Releases
  <2> QED  BY <1>1, <2>3, <2>4, <2>5, <2>6, <2>10, <2>11, ReleaseStep
<1> QED  BY <1>5, <1>6, <1>7
-----------------------------------------------------------------------------
(***************************************************************************)
(* The programs at the other end.                                          *)
(***************************************************************************)
LEMMA ProgramStep ==
    ASSUME ServiceInd, NEW c0 \in Connections, forged' = forged, path' = path,
           NEW y, conn' = [conn EXCEPT ![c0] = y], IsConn(y), y.hung = conn[c0].hung,
           y.at \in Talking \cup {"answered", "error"}, y.at \in Talking => conn[c0].at \in Talking
    PROVE  ServiceInd'
<1>1. /\ conn = [c \in Connections |-> conn[c]]
      /\ \A c \in Connections :
            /\ IsConn(conn[c]) /\ conn[c].at \in Talking \cup {"idle", "answered", "error"}
            /\ conn[c].hung \in BOOLEAN /\ (conn[c].at = "idle" => ~conn[c].hung)
  BY DEF ServiceInd, ConnInd
<1>2. /\ conn' = [c \in Connections |-> conn'[c]] /\ conn'[c0] = y
      /\ \A c \in Connections : c # c0 => conn'[c] = conn[c]
  BY <1>1
<1>3. ConnInd'
  <2>1. \A c \in Connections :
             /\ IsConn(conn'[c]) /\ conn'[c].at \in Talking \cup {"idle", "answered", "error"}
             /\ conn'[c].hung \in BOOLEAN /\ (conn'[c].at = "idle" => ~conn'[c].hung)
    BY <1>1, <1>2 DEF Talking
  <2> QED  BY <2>1, <1>2 DEF ConnInd, IsConn
<1>4. ForgedInd' /\ PathInd'
  BY DEF ServiceInd, ForgedInd, PathInd, PathIsOpen, At
<1>5. \A c, d, i : HeldAt(c, d, i)' <=> HeldAt(c, d, i)
  BY DEF HeldAt, Served
<1>6. ASSUME NEW c \in Connections
      PROVE  HeldOK(c)'
  <2>1. /\ HeldOnce(c) /\ (conn[c].hung \/ conn[c].at = "idle" => HeldNowhere(c))
        /\ (conn[c].at \in Talking /\ ~conn[c].hung => ~HeldNowhere(c))
    BY DEF ServiceInd, HeldInd, HeldOK
  <2>2. (HeldNowhere(c)' <=> HeldNowhere(c)) /\ HeldOnce(c)'
    BY <1>5, <2>1 DEF HeldNowhere, HeldOnce
  <2>3. /\ conn'[c].hung = conn[c].hung /\ (conn'[c].at = "idle" => conn[c].at = "idle")
        /\ (conn'[c].at \in Talking => conn[c].at \in Talking)
    BY <1>2 DEF Talking
  <2> QED  BY <2>1, <2>2, <2>3 DEF HeldOK
<1>7. HeldInd'
  BY <1>6 DEF HeldInd
<1> QED  BY <1>3, <1>4, <1>7 DEF ServiceInd

LEMMA LeaveKeeps ==
    ASSUME NEW x, IsConn(x), NEW place
    PROVE  IsConn(Leave(x, place)) /\ Leave(x, place).at = place /\ Leave(x, place).hung = x.hung
<1>1. PICK y : y = [x EXCEPT !.at = place]
  OBVIOUS
<1>2. IsConn(y) /\ y.at = place /\ y.hung = x.hung
  BY <1>1 DEF IsConn, ConnFields
<1>3. Leave(x, place) = Settled(y)
  BY <1>1 DEF Leave
<1>4. IsConn(Settled(y)) /\ Settled(y).at = y.at /\ Settled(y).hung = y.hung
  BY <1>2, SettledKeeps
<1> QED  BY <1>2, <1>3, <1>4

\* connect() fails, or the program closes its end.
LEMMA LeavingStep ==
    ASSUME ServiceInd, NEW c \in Connections, ConnectFails(c) \/ ReplyEnds(c) \/ PeerLeaves(c)
    PROVE  ServiceInd'
<1>1. PICK x : x = conn[c]
  OBVIOUS
<1>2. conn = [b \in Connections |-> conn[b]] /\ IsConn(x)
  BY <1>1 DEF ServiceInd, ConnInd
<1>3. forged' = forged /\ path' = path
  BY DEF ConnectFails, ReplyEnds, PeerLeaves, OnlyConn
<1>4. CASE ConnectFails(c)
  <2>1. PICK y : y = [x EXCEPT !.at = "error"]
    OBVIOUS
  <2>2. IsConn(y) /\ y.at = "error" /\ y.hung = x.hung
    BY <1>2, <2>1 DEF IsConn, ConnFields
  <2>3. conn' = [conn EXCEPT ![c] = y]
    BY <1>1, <1>4, <2>1 DEF ConnectFails
  <2> QED  BY <1>1, <1>3, <2>2, <2>3, ProgramStep DEF Talking
<1>5. CASE ReplyEnds(c) \/ PeerLeaves(c)
  <2>1. PICK y : y = Leave(x, "error")
    OBVIOUS
  <2>2. IsConn(y) /\ y.at = "error" /\ y.hung = x.hung
    BY <1>2, <2>1, LeaveKeeps
  <2>3. conn' = [conn EXCEPT ![c] = y]
    BY <1>1, <1>2, <1>5, <2>1 DEF ReplyEnds, PeerLeaves
  <2> QED  BY <1>1, <1>3, <2>2, <2>3, ProgramStep DEF Talking
<1> QED  BY <1>4, <1>5

LEMMA WriteStep ==
    ASSUME ServiceInd, NEW c \in Connections, NEW bytes, Write(c, bytes)
    PROVE  ServiceInd'
<1>1. PICK x : x = conn[c]
  OBVIOUS
<1>2. conn = [b \in Connections |-> conn[b]] /\ IsConn(x) /\ x.at = "write"
  BY <1>1 DEF ServiceInd, ConnInd, Write
<1>3. forged' = forged /\ path' = path
  BY DEF Write, OnlyConn
<1>4. PICK y : y = IF x.hung THEN Leave(x, "error") ELSE [x EXCEPT !.at = "recv", !.up = bytes, !.sent = bytes]
  OBVIOUS
<1>5. conn' = [conn EXCEPT ![c] = y]
  BY <1>1, <1>2, <1>4 DEF Write
<1>6. IsConn(y) /\ y.at \in {"recv", "error"} /\ y.hung = x.hung
  <2>1. CASE x.hung
    BY <2>1, <1>2, <1>4, LeaveKeeps
  <2>2. CASE ~x.hung
    <3>1. y = [x EXCEPT !.at = "recv", !.up = bytes, !.sent = bytes]
      BY <2>2, <1>4
    <3> QED  BY <3>1, <1>2 DEF IsConn, ConnFields
  <2> QED  BY <2>1, <2>2
<1> QED  BY <1>1, <1>2, <1>3, <1>5, <1>6, ProgramStep DEF Talking

LEMMA FeedAnswers ==
    ASSUME NEW codec, NEW data
    PROVE  Feed(codec, data).state \in {"closed", "need_more", "frame"}
<1>1. \A buffer : NeedMore(buffer).state = "need_more" /\ Closed(buffer).state = "closed"
  BY DEF NeedMore, Closed
<1>2. \A buffer : Decode(buffer).state \in {"closed", "need_more", "frame"}
  BY <1>1 DEF Decode
<1> QED  BY <1>1, <1>2 DEF Feed

\* One turn of the loop in status().
LEMMA StatusFeedKeeps ==
    ASSUME NEW c, IsConn(conn[c]), NEW n, NEW codec, NEW data, NEW r, r = Feed(codec, data),
           NEW fed, fed = StatusFeed(c, n, r)
    PROVE  /\ IsConn(fed) /\ fed.hung = conn[c].hung
           /\ fed.at \in {"error", "recv", "decode", "answered"}
<1>1. PICK x : x = conn[c]
  OBVIOUS
<1>2. IsConn(x)
  BY <1>1
<1>3. PICK place :
         place = CASE r.state = "closed"    -> "error"
                   [] r.state = "need_more" -> "recv"
                   [] r.state = "frame"     -> IF r.frame.type = "status_event" THEN "answered"
                                               ELSE IF r.codec.buffer = <<>> THEN "recv" ELSE "decode"
  OBVIOUS
<1>4. place \in {"error", "recv", "decode", "answered"}
  <2>1. r.state \in {"closed", "need_more", "frame"}
    BY FeedAnswers
  <2> QED  BY <1>3, <2>1
<1>5. PICK down, answer : /\ down = SubSeq(x.down, n + 1, Len(x.down))
                          /\ answer = IF place = "answered" THEN r.frame ELSE None
  OBVIOUS
<1>6. PICK y : y = [x EXCEPT !.down = down, !.codec = r.codec, !.answer = answer]
  OBVIOUS
<1>7. IsConn(y) /\ y.at = x.at /\ y.hung = x.hung
  BY <1>2, <1>6 DEF IsConn, ConnFields
<1>8. fed = Leave(y, place)
  BY <1>1, <1>3, <1>5, <1>6 DEF StatusFeed
<1>9. IsConn(Leave(y, place)) /\ Leave(y, place).at = place /\ Leave(y, place).hung = y.hung
  BY <1>7, LeaveKeeps
<1> QED  BY <1>1, <1>4, <1>7, <1>8, <1>9

LEMMA ReplySteps ==
    ASSUME ServiceInd, NEW c \in Connections, ReceiveReply(c) \/ DecodeReply(c)
    PROVE  ServiceInd'
<1>1. conn[c].at \in Talking /\ forged' = forged /\ path' = path /\ IsConn(conn[c])
  BY DEF ReceiveReply, DecodeReply, OnlyConn, Talking, ServiceInd, ConnInd
<1>2. PICK n, data, r, fed : /\ r = Feed(conn[c].codec, data) /\ fed = StatusFeed(c, n, r)
                             /\ conn' = [conn EXCEPT ![c] = fed]
  <2>1. CASE ReceiveReply(c)
    <3>1. PICK n : \E r \in {Feed(conn[c].codec, SubSeq(conn[c].down, 1, n))} :
                      conn' = [conn EXCEPT ![c] = StatusFeed(c, n, r)]
      BY <2>1 DEF ReceiveReply
    <3> QED  BY <3>1, Zenon
  <2>2. CASE DecodeReply(c)
    BY <2>2, Zenon DEF DecodeReply
  <2> QED  BY <2>1, <2>2
<1>3. IsConn(fed) /\ fed.hung = conn[c].hung /\ fed.at \in {"error", "recv", "decode", "answered"}
  BY <1>1, <1>2, StatusFeedKeeps
<1>4. conn' = [conn EXCEPT ![c] = fed]
  BY <1>2
<1> QED  BY <1>1, <1>3, <1>4, ProgramStep DEF Talking

-----------------------------------------------------------------------------
LEMMA ServiceStep ==
    ASSUME ServiceInd, [Next]_vars
    PROVE  ServiceInd'
<1>1. ASSUME NEW d \in Daemons, DaemonStep(d) \/ DaemonFault(d) \/ Owner(d)
      PROVE  ServiceInd'
  <2>1. CASE Launch(d)
    BY <2>1, LaunchStep
  <2>2. CASE \/ StartRefused(d) \/ CreateFails(d) \/ Start(d) \/ Bind(d) \/ Listen(d)
             \/ StopUnlink(d) \/ AcceptFails(d) \/ RetryStart(d)
    BY <2>2, LocalStep
  <2>3. CASE BindFails(d) \/ ListenFails(d) \/ Exit(d) \/ RetryAfterStop(d)
    BY <2>3, StopSteps
  <2>4. CASE Kill(d)
    BY <2>4, KillStep
  <2>5. CASE Accept(d)
    BY <2>5, AcceptStep
  <2>6. CASE Receive(d) \/ FeedOn(d) \/ ReceiveEnd(d)
    BY <2>6, FeedSteps
  <2>7. CASE Respond(d)
    BY <2>7, RespondStep
  <2> QED  BY <1>1, <2>1, <2>2, <2>3, <2>4, <2>5, <2>6, <2>7 DEF DaemonStep, DaemonFault, Owner
<1>2. ASSUME NEW c \in Connections, Connect(c) \/ ConnectFails(c) \/ ConnStep(c)
      PROVE  ServiceInd'
  <2>1. CASE Connect(c)
    BY <2>1, ConnectStep
  <2>2. CASE ConnectFails(c) \/ ReplyEnds(c) \/ PeerLeaves(c)
    BY <2>2, LeavingStep
  <2>3. CASE WriteRequest(c) \/ PeerWrites(c)
    <3>1. \E bytes : Write(c, bytes)
      BY <2>3 DEF WriteRequest, PeerWrites
    <3> QED  BY <3>1, WriteStep
  <2>4. CASE ReceiveReply(c) \/ DecodeReply(c)
    BY <2>4, ReplySteps
  <2> QED  BY <1>2, <2>1, <2>2, <2>3, <2>4 DEF ConnStep
<1>3. CASE UNCHANGED vars
  BY <1>3 DEF vars, ServiceInd, ForgedInd, PathInd, PathIsOpen, At, ConnInd, HeldInd, HeldOK, HeldOnce,
              HeldNowhere, HeldAt, Served, IsForged, ForgedOK, IsConn
<1> QED  BY <1>1, <1>2, <1>3 DEF Next

\* The inductive invariant: what start(), stop() and serve_once() keep.
THEOREM ServiceInvariant == Spec => []ServiceInd
<1>1. Init => ServiceInd
  BY ServiceStarts
<1>2. ServiceInd /\ [Next]_vars => ServiceInd'
  BY ServiceStep
<1> QED  BY <1>1, <1>2, PTL DEF Spec

-----------------------------------------------------------------------------
(***************************************************************************)
(* Which file is whose, and who is half started.  A process whose socket   *)
(* is bound has the path or was robbed of it; one in front of bind() has   *)
(* neither.                                                                *)
(***************************************************************************)
Bound(x) == x.listening /\ x.pc # "bind"
Half(x) == x.state = "running" /\ ~x.listening /\ x.pc \in {"over", "start"}

FileOK(d, x) ==
    /\ Bound(x) => (path = d <=> d \notin robbed)
    /\ x.pc = "bind" => d \notin robbed /\ path # d

RobbedInd ==
    /\ faults \in Nat
    /\ \A d \in Daemons : FileOK(d, forged[d]) /\ (Half(forged[d]) => faults > 0)

\* A step of a process, when it leaves the others what they have.
LEMMA RobbedStep ==
    ASSUME ServiceInd, RobbedInd, NEW d \in Daemons, NEW y, Becomes(d, y), faults' \in {faults, faults + 1},
           \A e \in Daemons : e # d =>
                /\ Bound(forged[e]) => (path' = e <=> e \notin robbed')
                /\ forged[e].pc = "bind" => e \notin robbed' /\ path' # e,
           Bound(y) => (path' = d <=> d \notin robbed'),
           y.pc = "bind" => d \notin robbed' /\ path' # d,
           Half(y) => faults' > 0
    PROVE  RobbedInd'
<1>1. forged = [e \in Daemons |-> forged[e]]
  BY Own
<1>2. forged'[d] = y /\ \A e \in Daemons : e # d => forged'[e] = forged[e]
  BY <1>1 DEF Becomes
<1>3. faults \in Nat /\ faults' \in Nat /\ faults' >= faults
  BY DEF RobbedInd
<1>4. ASSUME NEW e \in Daemons
      PROVE  FileOK(e, forged[e])' /\ (Half(forged[e])' => faults' > 0)
  <2>1. CASE e = d
    BY <2>1, <1>2 DEF FileOK, Bound, Half
  <2>2. CASE e # d
    <3>1. Half(forged[e]) => faults > 0
      BY DEF RobbedInd
    <3> QED  BY <2>2, <3>1, <1>2, <1>3 DEF FileOK, Bound, Half
  <2> QED  BY <2>1, <2>2
<1> QED  BY <1>3, <1>4 DEF RobbedInd

\* The path stays as it is, and the process gets no socket.
LEMMA RobbedQuiet ==
    ASSUME ServiceInd, RobbedInd, NEW d \in Daemons, NEW y, Becomes(d, y), faults' \in {faults, faults + 1},
           path' = path, robbed' = robbed, y.pc # "bind", Bound(y) => Bound(forged[d]),
           Half(y) => Half(forged[d]) \/ faults' = faults + 1
    PROVE  RobbedInd'
<1>1. \A e \in Daemons : FileOK(e, forged[e]) /\ (Half(forged[e]) => faults > 0)
  BY DEF RobbedInd
<1>2. faults \in Nat
  BY DEF RobbedInd
<1>3. \A e \in Daemons : e # d =>
          /\ Bound(forged[e]) => (path' = e <=> e \notin robbed')
          /\ forged[e].pc = "bind" => e \notin robbed' /\ path' # e
  BY <1>1 DEF FileOK
<1>4. Bound(y) => (path' = d <=> d \notin robbed')
  BY <1>1 DEF FileOK
<1>5. Half(y) => faults' > 0
  BY <1>1, <1>2
<1> QED  BY <1>3, <1>4, <1>5, RobbedStep

\* unlink() of the path by d.
LEMMA RobbedUnlink ==
    ASSUME ServiceInd, RobbedInd, NEW d \in Daemons, NEW y, Becomes(d, y), faults' = faults,
           UnlinkPath(d), ~Bound(y), ~Half(y)
    PROVE  RobbedInd'
<1>1. path' = None /\ robbed' = (robbed \ {d}) \cup ({path} \cap (Daemons \ {d}))
  BY DEF UnlinkPath
<1>2. \A e \in Daemons : path' # e
  BY <1>1, Names
<1>3. ASSUME NEW e \in Daemons, e # d
      PROVE  /\ Bound(forged[e]) => (path' = e <=> e \notin robbed')
             /\ forged[e].pc = "bind" => e \notin robbed' /\ path' # e
  <2>1. FileOK(e, forged[e])
    BY DEF RobbedInd
  <2>2. e \in robbed' <=> e \in robbed \/ path = e
    BY <1>1, <1>3
  <2> QED  BY <2>1, <2>2, <1>2 DEF FileOK
<1>4. d \notin robbed'
  BY <1>1
<1> QED  BY <1>2, <1>3, <1>4, RobbedStep

\* start() and stop().
LEMMA RobbedLocal ==
    ASSUME ServiceInd, RobbedInd, NEW d \in Daemons,
           \/ Launch(d) \/ StartRefused(d) \/ CreateFails(d) \/ Start(d) \/ Bind(d) \/ Listen(d)
           \/ StopUnlink(d) \/ AcceptFails(d) \/ RetryStart(d)
    PROVE  RobbedInd'
<1>1. PICK x : x = forged[d]
  OBVIOUS
<1>2. forged = [e \in Daemons |-> forged[e]] /\ IsForged(x) /\ ForgedOK(x)
  BY <1>1, Own
<1>3. CASE Launch(d)
  <2>1. PICK y : y = [Down EXCEPT !.pc = "start"]
    OBVIOUS
  <2>2. y.pc = "start" /\ y.state = "initialized" /\ y.listening = FALSE
    BY <2>1, DownForged, SetPc
  <2>3. Becomes(d, y) /\ path' = path /\ robbed' = robbed /\ faults' = faults
    BY <1>3, <2>1 DEF Launch, Becomes
  <2> QED  BY <2>2, <2>3, RobbedQuiet DEF Bound, Half
<1>4. CASE StartRefused(d) \/ AcceptFails(d) \/ RetryStart(d) \/ Listen(d)
  <2>1. PICK to : to = IF RetryStart(d) THEN "start" ELSE IF Listen(d) THEN "ready" ELSE "over"
    OBVIOUS
  <2>2. PICK y : y = [x EXCEPT !.pc = to]
    OBVIOUS
  <2>3. y.pc = to /\ y.state = x.state /\ y.listening = x.listening
    BY <1>2, <2>2, SetPc
  <2>4. /\ x.pc \in {"start", "ready", "over", "listen"} /\ to \in {"start", "ready", "over"}
        /\ x.pc \in {"ready", "listen"} => x.listening
    BY <1>1, <1>2, <1>4, <2>1 DEF StartRefused, AcceptFails, RetryStart, Listen, At, ForgedOK, Open
  <2>5. path' = path /\ robbed' = robbed /\ faults' \in {faults, faults + 1}
    BY <1>4 DEF StartRefused, AcceptFails, RetryStart, Listen, Fault
  <2>6. Becomes(d, y)
    BY <1>1, <1>2, <1>4, <2>1, <2>2 DEF Becomes, StartRefused, AcceptFails, RetryStart, Listen, At
  <2>7. (Bound(y) => Bound(x)) /\ (Half(y) => Half(x)) /\ y.pc # "bind"
    BY <2>3, <2>4 DEF Bound, Half
  <2> QED  BY <1>1, <2>5, <2>6, <2>7, RobbedQuiet
<1>5. CASE CreateFails(d)
  <2>1. PICK y : y = [x EXCEPT !.state = "running", !.pc = "over"]
    OBVIOUS
  <2>2. y.pc = "over" /\ y.listening = x.listening
    BY <1>2, <2>1 DEF IsForged, ForgedFields
  <2>3. Becomes(d, y) /\ path' = path /\ robbed' = robbed /\ faults' = faults + 1 /\ ~x.listening
    BY <1>1, <1>2, <1>5, <2>1 DEF CreateFails, Becomes, Fault, Startable
  <2> QED  BY <2>2, <2>3, RobbedQuiet DEF Bound
<1>6. CASE Start(d)
  <2>1. PICK y : y = [x EXCEPT !.state = "running", !.listening = TRUE, !.pc = "bind"]
    OBVIOUS
  <2>2. y.pc = "bind" /\ y.listening = TRUE
    BY <1>2, <2>1 DEF IsForged, ForgedFields
  <2>3. Becomes(d, y) /\ UnlinkPath(d) /\ faults' = faults
    BY <1>1, <1>2, <1>6, <2>1 DEF Start, Becomes
  <2> QED  BY <2>2, <2>3, RobbedUnlink DEF Bound, Half
<1>7. CASE StopUnlink(d)
  <2>1. PICK y : y = [x EXCEPT !.state = "stopped", !.pc = x.ret]
    OBVIOUS
  <2>2. y.state = "stopped" /\ y.listening = x.listening
    BY <1>2, <2>1 DEF IsForged, ForgedFields
  <2>3. ~x.listening
    BY <1>1, <1>2, <1>7 DEF StopUnlink, At, ForgedOK, NotOpen
  <2>4. Becomes(d, y) /\ UnlinkPath(d) /\ faults' = faults
    BY <1>1, <1>2, <1>7, <2>1 DEF StopUnlink, Becomes
  <2> QED  BY <2>2, <2>3, <2>4, RobbedUnlink DEF Bound, Half
<1>8. CASE Bind(d)
  <2>1. PICK y : y = [x EXCEPT !.pc = "listen"]
    OBVIOUS
  <2>2. y.pc = "listen"
    BY <1>2, <2>1, SetPc
  <2>3. /\ Becomes(d, y) /\ path = None /\ path' = d /\ robbed' = robbed /\ faults' = faults
        /\ forged[d].pc = "bind"
    BY <1>1, <1>8, <2>1 DEF Bind, Becomes, At
  <2>4. d \notin robbed
    BY <2>3 DEF RobbedInd, FileOK
  <2>5. ASSUME NEW e \in Daemons, e # d
        PROVE  /\ Bound(forged[e]) => (path' = e <=> e \notin robbed')
               /\ forged[e].pc = "bind" => e \notin robbed' /\ path' # e
    <3>1. FileOK(e, forged[e]) /\ path # e
      BY <2>3, Names DEF RobbedInd
    <3> QED  BY <3>1, <2>3, <2>5 DEF FileOK
  <2>6. ~Half(y) /\ y.pc # "bind"
    BY <2>2 DEF Half
  <2> QED  BY <2>3, <2>4, <2>5, <2>6, RobbedStep
<1> QED  BY <1>3, <1>4, <1>5, <1>6, <1>7, <1>8

LEMMA RobbedStop ==
    ASSUME ServiceInd, RobbedInd, NEW d \in Daemons,
           BindFails(d) \/ ListenFails(d) \/ Exit(d) \/ RetryAfterStop(d) \/ Kill(d)
    PROVE  RobbedInd'
<1>1. PICK x : x = forged[d]
  OBVIOUS
<1>2. forged = [e \in Daemons |-> forged[e]] /\ IsForged(x)
  BY <1>1, Own
<1>3. CASE Kill(d)
  <2>1. Becomes(d, Down) /\ faults' = faults + 1
    BY <1>3 DEF Kill, Becomes, Fault
  <2>2. ASSUME NEW e \in Daemons, e # d
        PROVE  /\ Bound(forged[e]) => (path' = e <=> e \notin robbed')
               /\ forged[e].pc = "bind" => e \notin robbed' /\ path' # e
    <3>1. FileOK(e, forged[e])
      BY DEF RobbedInd
    <3>2. (path' = e <=> path = e) /\ (e \in robbed' <=> e \in robbed)
      BY <1>3, <2>2, Names DEF Kill
    <3> QED  BY <3>1, <3>2 DEF FileOK
  <2>3. ~Bound(Down) /\ ~Half(Down) /\ Down.pc # "bind"
    BY DownForged DEF Bound, Half
  <2> QED  BY <2>1, <2>2, <2>3, RobbedStep
<1>4. CASE BindFails(d) \/ ListenFails(d) \/ Exit(d) \/ RetryAfterStop(d)
  <2>1. PICK ret : Stop(d, ret)
    BY <1>4 DEF BindFails, ListenFails, Exit, RetryAfterStop
  <2>2. faults' \in {faults, faults + 1}
    BY <1>4 DEF BindFails, ListenFails, Exit, RetryAfterStop, Fault
  <2>3. PICK y : y = [x EXCEPT !.listening = FALSE, !.waiting = <<>>, !.pc = "unlink", !.ret = ret]
    OBVIOUS
  <2>4. y.pc = "unlink" /\ y.listening = FALSE
    BY <1>2, <2>3 DEF IsForged, ForgedFields
  <2>5. Becomes(d, y) /\ path' = path /\ robbed' = robbed
    BY <1>1, <1>2, <2>1, <2>3 DEF Stop, Becomes
  <2> QED  BY <2>2, <2>4, <2>5, RobbedQuiet DEF Bound, Half
<1> QED  BY <1>3, <1>4

\* serve_once() ends in no place where the socket would be another.
LEMMA RobbedServing ==
    ASSUME ServiceInd, RobbedInd, NEW d \in Daemons,
           Accept(d) \/ Receive(d) \/ FeedOn(d) \/ ReceiveEnd(d) \/ Respond(d)
    PROVE  RobbedInd'
<1>1. PICK x : x = forged[d]
  OBVIOUS
<1>2. forged = [e \in Daemons |-> forged[e]] /\ IsForged(x) /\ ForgedOK(x)
  BY <1>1, Own
<1>3. x.pc \in Serving \cup {"ready"}
  BY <1>1 DEF Accept, Receive, FeedOn, ReceiveEnd, Respond, At, Serving
<1>4. Bound(x)
  BY <1>2, <1>3 DEF Bound, ForgedOK, Open, Serving
<1>5. path' = path /\ robbed' = robbed /\ faults' = faults
  BY DEF Accept, Receive, FeedOn, ReceiveEnd, Respond, SessionFeed
<1>6. SUFFICES \E y : Becomes(d, y) /\ y.pc # "bind" /\ y.listening = x.listening
  BY <1>1, <1>4, <1>5, RobbedQuiet DEF Bound, Half
<1>7. CASE ServeFails(d)
  <2>1. PICK y : y = [x EXCEPT !.client = None, !.pc = "over"]
    OBVIOUS
  <2>2. y.pc = "over" /\ y.listening = x.listening
    BY <1>2, <2>1 DEF IsForged, ForgedFields
  <2>3. Becomes(d, y)
    BY <1>1, <1>2, <1>7, <2>1 DEF ServeFails, Becomes
  <2> QED  BY <2>2, <2>3
<1>8. CASE Accept(d)
  <2>1. PICK y : y = [x EXCEPT !.client = Head(x.waiting), !.waiting = Tail(x.waiting),
                               !.session = NewSession, !.codec = NewCodec, !.events = <<>>, !.pc = "recv"]
    OBVIOUS
  <2>2. y.pc = "recv" /\ y.listening = x.listening
    BY <1>2, <2>1 DEF IsForged, ForgedFields
  <2>3. Becomes(d, y)
    BY <1>1, <1>2, <1>8, <2>1 DEF Accept, Becomes
  <2> QED  BY <2>2, <2>3
<1>9. CASE (Receive(d) \/ FeedOn(d)) /\ ~ServeFails(d)
  <2>1. PICK n, r : SessionFeed(d, n, r)
    BY <1>9 DEF Receive, FeedOn
  <2>2. PICK frames, s :
           forged' = [forged EXCEPT ![d].codec = r.codec, ![d].session = s, ![d].events = @ \o frames,
                         ![d].pc = IF FeedIsOver(r) THEN "respond" ELSE "feed"]
    BY <1>9, <2>1 DEF SessionFeed
  <2>3. PICK to, events : to = (IF FeedIsOver(r) THEN "respond" ELSE "feed") /\ events = x.events \o frames
    OBVIOUS
  <2>4. PICK y : y = [x EXCEPT !.codec = r.codec, !.session = s, !.events = events, !.pc = to]
    OBVIOUS
  <2>5. Becomes(d, y)
    BY <1>1, <1>2, <2>2, <2>3, <2>4 DEF Becomes
  <2>6. y.pc # "bind" /\ y.listening = x.listening
    BY <1>2, <2>3, <2>4 DEF IsForged, ForgedFields
  <2> QED  BY <2>5, <2>6
<1>10. CASE Respond(d) /\ ~ServeFails(d)
  <2>1. PICK done, c :
           forged' = [forged EXCEPT ![d].events = <<>>, ![d].client = IF done THEN None ELSE c,
                         ![d].pc = IF ~done THEN "recv" ELSE IF d \in Once THEN "done" ELSE "ready"]
    BY <1>10 DEF Respond
  <2>2. PICK to, client : /\ to = (IF ~done THEN "recv" ELSE IF d \in Once THEN "done" ELSE "ready")
                          /\ client = IF done THEN None ELSE c
    OBVIOUS
  <2>3. PICK y : y = [x EXCEPT !.events = <<>>, !.client = client, !.pc = to]
    OBVIOUS
  <2>4. Becomes(d, y)
    BY <1>1, <1>2, <2>1, <2>2, <2>3 DEF Becomes
  <2>5. y.pc # "bind" /\ y.listening = x.listening
    BY <1>2, <2>2, <2>3 DEF IsForged, ForgedFields
  <2> QED  BY <2>4, <2>5
<1>11. ReceiveEnd(d) => ServeFails(d)
  BY DEF ReceiveEnd
<1> QED  BY <1>7, <1>8, <1>9, <1>10, <1>11

\* connect(), and the programs at the other end.
LEMMA RobbedPrograms ==
    ASSUME ServiceInd, RobbedInd, NEW c \in Connections, Connect(c) \/ ConnectFails(c) \/ ConnStep(c)
    PROVE  RobbedInd'
<1>1. CASE Connect(c)
  <2>1. PICK d, x : d = path /\ x = forged[d]
    OBVIOUS
  <2>2. d \in Daemons /\ path' = path /\ robbed' = robbed /\ faults' = faults
    BY <1>1, <2>1 DEF Connect, Reachable
  <2>3. forged = [e \in Daemons |-> forged[e]] /\ IsForged(x)
    BY <2>1, <2>2, Own
  <2>4. PICK y : y = [x EXCEPT !.waiting = Append(x.waiting, c)]
    OBVIOUS
  <2>5. Becomes(d, y)
    BY <1>1, <2>1, <2>2, <2>3, <2>4 DEF Connect, Becomes
  <2>6. y.pc = x.pc /\ y.listening = x.listening /\ y.state = x.state
    BY <2>3, <2>4 DEF IsForged, ForgedFields
  <2>7. FileOK(d, x) /\ x.pc # "bind"
    BY <2>1, <2>2 DEF RobbedInd, FileOK
  <2> QED  BY <2>1, <2>2, <2>5, <2>6, <2>7, RobbedQuiet DEF Bound, Half
<1>2. CASE ConnectFails(c) \/ ConnStep(c)
  <2>1. forged' = forged /\ path' = path /\ robbed' = robbed /\ faults' = faults
    BY <1>2 DEF ConnectFails, ConnStep, WriteRequest, ReceiveReply, DecodeReply, ReplyEnds,
                PeerWrites, PeerLeaves, Write, OnlyConn
  <2> QED  BY <2>1 DEF RobbedInd, FileOK, Bound, Half
<1> QED  BY <1>1, <1>2

\* Whoever unlinks, binds, fails or is killed (UnixSocketDaemon::start, stop):
\* the part of the inductive invariant that tells the file from the socket.
THEOREM RobbedInvariant == Spec => []RobbedInd
<1>1. Init => RobbedInd
  <2>1. SUFFICES ASSUME Init PROVE RobbedInd
    OBVIOUS
  <2>2. faults = 0 /\ \A d \in Daemons : forged[d] = Down
    BY <2>1 DEF Init
  <2>3. ~Bound(Down) /\ ~Half(Down) /\ Down.pc # "bind"
    BY DownForged DEF Bound, Half
  <2> QED  BY <2>2, <2>3 DEF RobbedInd, FileOK
<1>2. ServiceInd /\ RobbedInd /\ [Next]_vars => RobbedInd'
  <2>1. SUFFICES ASSUME ServiceInd, RobbedInd, [Next]_vars PROVE RobbedInd'
    OBVIOUS
  <2>2. ASSUME NEW d \in Daemons, DaemonStep(d) \/ DaemonFault(d) \/ Owner(d)
        PROVE  RobbedInd'
    <3>1. CASE \/ Launch(d) \/ StartRefused(d) \/ CreateFails(d) \/ Start(d) \/ Bind(d) \/ Listen(d)
               \/ StopUnlink(d) \/ AcceptFails(d) \/ RetryStart(d)
      BY <2>1, <3>1, RobbedLocal
    <3>2. CASE BindFails(d) \/ ListenFails(d) \/ Exit(d) \/ RetryAfterStop(d) \/ Kill(d)
      BY <2>1, <3>2, RobbedStop
    <3>3. CASE Accept(d) \/ Receive(d) \/ FeedOn(d) \/ ReceiveEnd(d) \/ Respond(d)
      BY <2>1, <3>3, RobbedServing
    <3> QED  BY <2>2, <3>1, <3>2, <3>3 DEF DaemonStep, DaemonFault, Owner
  <2>3. CASE UNCHANGED vars
    BY <2>1, <2>3 DEF vars, RobbedInd, FileOK, Bound, Half
  <2> QED  BY <2>1, <2>2, <2>3, RobbedPrograms DEF Next
<1> QED  BY <1>1, <1>2, ServiceInvariant, PTL DEF Spec

LEMMA RobbedImplies ==
    ASSUME ServiceInd, RobbedInd
    PROVE  DaemonInvariant
<1>1. ASSUME NEW d \in Daemons
      PROVE  /\ ForgedOK(forged[d]) /\ FileOK(d, forged[d])
             /\ Half(forged[d]) <=> HalfStarted(d)
             /\ HalfStarted(d) => faults > 0
  BY Own DEF RobbedInd, Half, HalfStarted
<1>2. SocketIsRunning
  BY <1>1 DEF SocketIsRunning, HalfStarted, ForgedOK, Open, NotOpen, Serving, At
<1>3. PathIsKept
  BY <1>1 DEF PathIsKept, FileOK, Bound, At
<1> QED  BY <1>2, <1>3, ServiceIndImplies DEF DaemonInvariant

\* For any processes that start, fail, are killed or take the path from each
\* other, and any clients and peers, after UnixSocketDaemon::start, stop and
\* serve_once: a daemon that listens is running and has its path, but for one
\* whose file another process removed; one that runs without a socket is
\* within stop(), or a failing call left it half started; and the path names
\* an open socket, or that of a process that was killed.
THEOREM DaemonsConsistent == Spec => []DaemonInvariant
<1>1. ServiceInd /\ RobbedInd => DaemonInvariant
  BY RobbedImplies
<1> QED  BY <1>1, ServiceInvariant, RobbedInvariant, PTL

\* A connection whose daemon end is open has one place, in one backlog or in
\* one serve_once(); one that was closed has none.  No way out of serve_once()
\* or stop() leaks a descriptor or keeps a closed one.
THEOREM NoConnectionOrphaned == Spec => []NoOrphans
<1>1. ServiceInd => NoOrphans
  BY ServiceIndImplies
<1> QED  BY <1>1, ServiceInvariant, PTL

-----------------------------------------------------------------------------
(***************************************************************************)
(* Sequences put together from parts: bytes from frames, replies from what *)
(* each frame is answered.                                                 *)
(***************************************************************************)
LEMMA FromZeroOn ==
    ASSUME NEW S, S \subseteq Nat, 0 \in S, \A n \in S : n + 1 \in S
    PROVE  S = Nat
<1> SUFFICES ASSUME Nat \ S # {}
             PROVE  FALSE
  OBVIOUS
<1>1. IsWellFoundedOn(OpToRel(<, Nat), Nat)
  BY NatLessThanWellFounded
<1>2. PICK n \in Nat \ S : \A m \in Nat \ S : ~(<<m, n>> \in OpToRel(<, Nat))
  BY <1>1, WFMin
<1>3. \A m \in Nat \ S : ~(m < n)
  BY <1>2 DEF OpToRel
<1>4. n # 0 /\ n - 1 \in Nat /\ n - 1 \in S
  BY <1>3
<1> QED  BY <1>4

\* The loop of FlattenSeq over the first k parts.
WithPart(f, parts, i) == IF i = 1 THEN parts[i] ELSE f[i - 1] \o parts[i]
IsFlat(f, parts, k) ==
    f = [i \in 1..k |-> f[i]] /\ \A i \in 1..k : f[i] = WithPart(f, parts, i)
FlatEquation(f, parts) ==
    f = [i \in 1..Len(parts) |-> IF i = 1 THEN parts[i] ELSE f[i - 1] \o parts[i]]

LEMMA FlatExists ==
    ASSUME NEW parts, NEW k \in Nat
    PROVE  \E f : IsFlat(f, parts, k)
<1> DEFINE S == {n \in Nat : \E f : IsFlat(f, parts, n)}
<1>1. 0 \in S
  <2>1. PICK f : f = [i \in 1..0 |-> 0]
    OBVIOUS
  <2>2. IsFlat(f, parts, 0)
    BY <2>1 DEF IsFlat
  <2> QED  BY <2>2
<1>2. ASSUME NEW n \in S
      PROVE  n + 1 \in S
  <2>1. PICK f : IsFlat(f, parts, n)
    OBVIOUS
  <2>2. PICK x : x = WithPart(f, parts, n + 1)
    OBVIOUS
  <2>3. PICK g : g = [i \in 1..(n + 1) |-> IF i <= n THEN f[i] ELSE x]
    OBVIOUS
  <2>4. g[n + 1] = x /\ \A i \in 1..n : g[i] = f[i]
    BY <2>3
  <2>5. ASSUME NEW i \in 1..(n + 1)
        PROVE  g[i] = WithPart(g, parts, i)
    <3>1. i = 1 \/ (i # 1 /\ i - 1 \in 1..n)
      OBVIOUS
    <3>2. WithPart(g, parts, i) = WithPart(f, parts, i)
      BY <3>1, <2>4 DEF WithPart
    <3>3. CASE i \in 1..n
      BY <3>2, <3>3, <2>1, <2>4 DEF IsFlat
    <3>4. CASE i = n + 1
      BY <3>2, <3>4, <2>2, <2>4
    <3> QED  BY <3>3, <3>4
  <2>6. IsFlat(g, parts, n + 1)
    BY <2>3, <2>5 DEF IsFlat
  <2> QED  BY <2>6
<1> HIDE DEF S
<1>3. S = Nat
  <2>1. S \subseteq Nat
    BY DEF S
  <2> QED  BY <2>1, <1>1, <1>2, FromZeroOn
<1> QED  BY <1>3 DEF S

LEMMA FlattenIsFlat ==
    ASSUME NEW parts, Len(parts) \in Nat \ {0}
    PROVE  \E f : IsFlat(f, parts, Len(parts)) /\ FlattenSeq(parts) = f[Len(parts)]
<1>1. PICK f : IsFlat(f, parts, Len(parts))
  BY FlatExists
<1>2. FlatEquation(f, parts)
  <2> DEFINE body(i) == IF i = 1 THEN parts[i] ELSE f[i - 1] \o parts[i]
  <2>1. \A i \in 1..Len(parts) : f[i] = body(i)
    BY <1>1 DEF IsFlat, WithPart
  <2>2. f = [i \in 1..Len(parts) |-> f[i]]
    BY <1>1 DEF IsFlat
  <2> HIDE DEF body
  <2>3. f = [i \in 1..Len(parts) |-> body(i)]
    BY <2>1, <2>2
  <2> QED  BY <2>3 DEF FlatEquation, body
<1>3. PICK g : g = CHOOSE h : FlatEquation(h, parts)
  OBVIOUS
<1>4. FlatEquation(g, parts)
  BY <1>2, <1>3
<1>5. FlattenSeq(parts) = g[Len(parts)]
  BY <1>3 DEF FlattenSeq, FlatEquation
<1>6. IsFlat(g, parts, Len(parts))
  <2> DEFINE body(i) == IF i = 1 THEN parts[i] ELSE g[i - 1] \o parts[i]
  <2>1. g = [i \in 1..Len(parts) |-> body(i)]
    BY <1>4 DEF FlatEquation
  <2> HIDE DEF body
  <2>2. \A i \in 1..Len(parts) : g[i] = body(i)
    BY <2>1
  <2>3. g = [i \in 1..Len(parts) |-> g[i]]
    BY <2>1
  <2>4. \A i \in 1..Len(parts) : g[i] = WithPart(g, parts, i)
    BY <2>2 DEF body, WithPart
  <2> QED  BY <2>3, <2>4 DEF IsFlat
<1> QED  BY <1>5, <1>6

LEMMA Regroup ==
    ASSUME NEW S, NEW x \in Seq(S), NEW y \in Seq(S), NEW z \in Seq(S)
    PROVE  (x \o y) \o z = x \o (y \o z)
BY ConcatAssociative

\* Two loops over the same parts agree.
SameParts(p, q, n) == \A i \in 1..n : p[i] = q[i]
LEMMA FlatUnique ==
    ASSUME NEW n \in Nat, NEW m \in Nat, n <= m, NEW p, NEW q, SameParts(p, q, n),
           NEW f, IsFlat(f, p, n), NEW g, IsFlat(g, q, m)
    PROVE  SameParts(f, g, n)
<1> DEFINE S == {k \in Nat : k \in 1..n => f[k] = g[k]}
<1>1. 0 \in S
  OBVIOUS
<1>2. ASSUME NEW k \in S
      PROVE  k + 1 \in S
  <2> SUFFICES ASSUME k + 1 \in 1..n
               PROVE  f[k + 1] = g[k + 1]
    OBVIOUS
  <2>1. /\ k + 1 \in 1..m /\ (k + 1) - 1 = k /\ (k + 1 # 1 => k \in 1..n)
        /\ p[k + 1] = q[k + 1]
    BY DEF SameParts
  <2>2. f[k + 1] = WithPart(f, p, k + 1) /\ g[k + 1] = WithPart(g, q, k + 1)
    BY <2>1 DEF IsFlat
  <2>3. k + 1 # 1 => f[k] = g[k]
    BY <2>1
  <2> QED  BY <2>1, <2>2, <2>3 DEF WithPart
<1> HIDE DEF S
<1>3. S = Nat
  <2>1. S \subseteq Nat
    BY DEF S
  <2> QED  BY <2>1, <1>1, <1>2, FromZeroOn
<1> QED  BY <1>3 DEF S, SameParts

LEMMA FlattenEmpty == FlattenSeq(<<>>) = <<>>
BY DEF FlattenSeq

LEMMA FlattenAppend ==
    ASSUME NEW S, NEW parts \in Seq(Seq(S)), NEW part \in Seq(S)
    PROVE  FlattenSeq(Append(parts, part)) = FlattenSeq(parts) \o part
<1>1. PICK q, n : q = Append(parts, part) /\ n = Len(parts)
  OBVIOUS
<1>2. /\ n \in Nat /\ Len(q) = n + 1 /\ q[n + 1] = part
      /\ \A i \in 1..n : parts[i] = q[i]
  BY <1>1
<1>3. PICK g : IsFlat(g, q, n + 1) /\ FlattenSeq(q) = g[n + 1]
  BY <1>2, FlattenIsFlat
<1>4. g[n + 1] = WithPart(g, q, n + 1)
  BY <1>2, <1>3 DEF IsFlat
<1>5. CASE n = 0
  <2>1. parts = <<>>
    BY <1>1, <1>5, EmptySeq
  <2>2. FlattenSeq(q) = part
    BY <1>2, <1>3, <1>4, <1>5 DEF WithPart
  <2> QED  BY <1>1, <2>1, <2>2, FlattenEmpty, ConcatEmptySeq
<1>6. CASE n # 0
  <2>1. PICK f : IsFlat(f, parts, n) /\ FlattenSeq(parts) = f[n]
    BY <1>1, <1>2, <1>6, FlattenIsFlat
  <2>2. f[n] = g[n]
    <3>1. n + 1 \in Nat /\ n <= n + 1 /\ n \in 1..n
      BY <1>2, <1>6
    <3>2. SameParts(parts, q, n)
      BY <1>2 DEF SameParts
    <3>3. SameParts(f, g, n)
      BY <3>1, <3>2, <1>2, <1>3, <2>1, FlatUnique
    <3> QED  BY <3>1, <3>3 DEF SameParts
  <2>3. g[n + 1] = g[n] \o part
    BY <1>2, <1>4, <1>6 DEF WithPart
  <2> QED  BY <1>1, <1>3, <2>1, <2>2, <2>3
<1> QED  BY <1>5, <1>6

LEMMA FlattenOne ==
    ASSUME NEW S, NEW part \in Seq(S)
    PROVE  FlattenSeq(<<part>>) = part
<1>1. <<>> \in Seq(Seq(S)) /\ Append(<<>>, part) = <<part>>
  OBVIOUS
<1>2. FlattenSeq(Append(<<>>, part)) = FlattenSeq(<<>>) \o part
  BY <1>1, FlattenAppend
<1> QED  BY <1>1, <1>2, FlattenEmpty, ConcatEmptySeq

\* The parts up to a place, and the next one.
LEMMA NextPlace ==
    ASSUME NEW S, NEW s \in Seq(S), NEW k \in Nat, k + 1 <= Len(s)
    PROVE  /\ SubSeq(s, 1, k) \in Seq(S) /\ s[k + 1] \in S
           /\ SubSeq(s, 1, k + 1) = Append(SubSeq(s, 1, k), s[k + 1])
<1>1. k + 1 \in 1..Len(s) /\ k + 1 \in 1..(k + 1) /\ 1 \in 1..Len(s) /\ (k + 1) - 1 = k
  OBVIOUS
<1>2. s[k + 1] \in S /\ \A i \in 1..k : s[i] \in S
  BY <1>1
<1>3. SubSeq(s, 1, k) \in Seq(S)
  BY <1>2, SubSeqProperties
<1>4. k + 1 \in 1..Len(s)
  BY <1>1
<1>5. SubSeq(s, 1, k + 1) = SubSeq(s, 1, (k + 1) - 1) \o <<s[k + 1]>>
  BY <1>1, SubSeqRecursiveSecond
<1>6. Append(SubSeq(s, 1, k), s[k + 1]) = SubSeq(s, 1, k) \o <<s[k + 1]>>
  BY <1>2, <1>3, AppendIsConcat
<1> QED  BY <1>1, <1>2, <1>3, <1>5, <1>6

LEMMA Places0 ==
    ASSUME NEW S, NEW s \in Seq(S)
    PROVE  SubSeq(s, 1, 0) = <<>> /\ SubSeq(s, 1, Len(s)) = s /\ Len(s) \in Nat
BY SubSeqEmpty, SubSeqFull

LEMMA FlattenType ==
    ASSUME NEW S, NEW parts \in Seq(Seq(S))
    PROVE  FlattenSeq(parts) \in Seq(S)
<1> DEFINE T == {k \in Nat : k <= Len(parts) => FlattenSeq(SubSeq(parts, 1, k)) \in Seq(S)}
<1>1. 0 \in T
  <2>1. SubSeq(parts, 1, 0) = <<>>
    BY Places0
  <2>2. <<>> \in Seq(S)
    BY EmptySeq
  <2> QED  BY <2>1, <2>2, FlattenEmpty
<1>2. ASSUME NEW k \in T
      PROVE  k + 1 \in T
  <2> SUFFICES ASSUME k + 1 <= Len(parts)
               PROVE  FlattenSeq(SubSeq(parts, 1, k + 1)) \in Seq(S)
    OBVIOUS
  <2>1. /\ SubSeq(parts, 1, k) \in Seq(Seq(S)) /\ parts[k + 1] \in Seq(S)
        /\ SubSeq(parts, 1, k + 1) = Append(SubSeq(parts, 1, k), parts[k + 1])
    BY NextPlace
  <2>2. PICK a, b : a = SubSeq(parts, 1, k) /\ b = parts[k + 1]
    OBVIOUS
  <2>3. FlattenSeq(Append(a, b)) = FlattenSeq(a) \o b
    BY <2>1, <2>2, FlattenAppend
  <2>4. FlattenSeq(a) \in Seq(S)
    BY <2>2
  <2>5. FlattenSeq(a) \o b \in Seq(S)
    BY <2>1, <2>2, <2>4, ConcatProperties
  <2> QED  BY <2>1, <2>2, <2>3, <2>5
<1> HIDE DEF T
<1>3. T = Nat
  <2>1. T \subseteq Nat
    BY DEF T
  <2> QED  BY <2>1, <1>1, <1>2, FromZeroOn
<1>4. Len(parts) \in T /\ Len(parts) <= Len(parts)
  BY <1>3, Places0
<1> QED  BY <1>4, Places0 DEF T

LEMMA ConcatAppend ==
    ASSUME NEW P, NEW s \in Seq(P), NEW t \in Seq(P), NEW p \in P
    PROVE  s \o t \in Seq(P) /\ s \o Append(t, p) = Append(s \o t, p)
<1>1. s \o t \in Seq(P)
  BY ConcatProperties
<1>2. Append(t, p) = t \o <<p>> /\ <<p>> \in Seq(P)
  BY AppendIsConcat
<1>3. Append(s \o t, p) = (s \o t) \o <<p>>
  BY <1>1, AppendIsConcat
<1>4. (s \o t) \o <<p>> = s \o (t \o <<p>>)
  BY <1>2, Regroup
<1> QED  BY <1>1, <1>2, <1>3, <1>4

LEMMA FlattenConcatStep ==
    ASSUME NEW S, NEW a \in Seq(Seq(S)), NEW t \in Seq(Seq(S)), NEW p \in Seq(S),
           FlattenSeq(a \o t) = FlattenSeq(a) \o FlattenSeq(t)
    PROVE  FlattenSeq(a \o Append(t, p)) = FlattenSeq(a) \o FlattenSeq(Append(t, p))
<1>1. PICK P : P = Seq(S)
  OBVIOUS
<1>2. a \in Seq(P) /\ t \in Seq(P) /\ p \in P
  BY <1>1
<1>3. PICK u : u = a \o t
  OBVIOUS
<1>4. u \in Seq(P) /\ a \o Append(t, p) = Append(u, p)
  BY <1>2, <1>3, ConcatAppend
<1>5. u \in Seq(Seq(S))
  BY <1>1, <1>4
<1>6. FlattenSeq(Append(u, p)) = FlattenSeq(u) \o p
  BY <1>5, FlattenAppend
<1>7. FlattenSeq(Append(t, p)) = FlattenSeq(t) \o p
  BY FlattenAppend
<1>8. PICK x, y : x = FlattenSeq(a) /\ y = FlattenSeq(t)
  OBVIOUS
<1>9. x \in Seq(S) /\ y \in Seq(S)
  BY <1>8, FlattenType
<1>10. (x \o y) \o p = x \o (y \o p)
  BY <1>9, Regroup
<1> QED  BY <1>3, <1>4, <1>6, <1>7, <1>8, <1>10

LEMMA FlattenConcat ==
    ASSUME NEW S, NEW a \in Seq(Seq(S)), NEW b \in Seq(Seq(S))
    PROVE  FlattenSeq(a \o b) = FlattenSeq(a) \o FlattenSeq(b)
<1> DEFINE Good(t) == FlattenSeq(a \o t) = FlattenSeq(a) \o FlattenSeq(t)
<1> DEFINE T == {k \in Nat : k <= Len(b) => Good(SubSeq(b, 1, k))}
<1>1. 0 \in T
  <2>1. FlattenSeq(a) \in Seq(S)
    BY FlattenType
  <2>2. Good(<<>>)
    BY <2>1, FlattenEmpty, ConcatEmptySeq
  <2> HIDE DEF Good
  <2> QED  BY <2>2, Places0
<1>2. ASSUME NEW k \in T
      PROVE  k + 1 \in T
  <2> SUFFICES ASSUME k + 1 <= Len(b)
               PROVE  Good(SubSeq(b, 1, k + 1))
    OBVIOUS
  <2>1. PICK t, p, u : t = SubSeq(b, 1, k) /\ p = b[k + 1] /\ u = SubSeq(b, 1, k + 1)
    OBVIOUS
  <2>2. t \in Seq(Seq(S)) /\ p \in Seq(S) /\ u = Append(t, p)
    BY <2>1, NextPlace
  <2>3. FlattenSeq(a \o t) = FlattenSeq(a) \o FlattenSeq(t)
    BY <2>1
  <2>4. FlattenSeq(a \o Append(t, p)) = FlattenSeq(a) \o FlattenSeq(Append(t, p))
    BY <2>2, <2>3, FlattenConcatStep
  <2> QED  BY <2>1, <2>2, <2>4
<1> HIDE DEF T
<1>3. T = Nat
  <2>1. T \subseteq Nat
    BY DEF T
  <2> QED  BY <2>1, <1>1, <1>2, FromZeroOn
<1>4. Len(b) \in T /\ Len(b) <= Len(b)
  BY <1>3, Places0
<1> QED  BY <1>4, Places0 DEF T

\* The parts that e makes of the elements of s, put together.
Mapped(e, s) == FlattenSeq([i \in DOMAIN s |-> e[s[i]]])
Maps(e, F, P) == e \in [F -> P]
Joins(u, s, t) == u = s \o t
IsMap(m, e, s) == m = [i \in DOMAIN s |-> e[s[i]]]

LEMMA MappedParts ==
    ASSUME NEW F, NEW P, NEW e, Maps(e, F, P), NEW s \in Seq(F),
           NEW m, IsMap(m, e, s)
    PROVE  m \in Seq(P) /\ Len(m) = Len(s) /\ \A i \in 1..Len(s) : m[i] = e[s[i]]
<1>1. DOMAIN s = 1..Len(s) /\ Len(s) \in Nat
  OBVIOUS
<1>2. m = [i \in 1..Len(s) |-> e[s[i]]]
  BY <1>1 DEF IsMap
<1>3. \A i \in 1..Len(s) : e[s[i]] \in P
  BY DEF Maps
<1>4. m \in Seq(P)
  BY <1>1, <1>2, <1>3, IsASeq
<1>5. Len(m) = Len(s)
  BY <1>1, <1>2, <1>4
<1> QED  BY <1>2, <1>4, <1>5

LEMMA MappedType ==
    ASSUME NEW F, NEW B, NEW e, Maps(e, F, Seq(B)), NEW s \in Seq(F)
    PROVE  Mapped(e, s) \in Seq(B)
<1>1. PICK m : IsMap(m, e, s)
  BY DEF IsMap
<1>2. PICK P : P = Seq(B)
  OBVIOUS
<1>3. Maps(e, F, P)
  BY <1>2
<1>4. m \in Seq(P)
  BY <1>1, <1>3, MappedParts
<1>5. m \in Seq(Seq(B))
  BY <1>2, <1>4
<1>6. FlattenSeq(m) \in Seq(B)
  BY <1>5, FlattenType
<1> QED  BY <1>1, <1>6 DEF Mapped, IsMap

LEMMA MapConcat ==
    ASSUME NEW F, NEW P, NEW e, Maps(e, F, P), NEW s \in Seq(F), NEW t \in Seq(F), NEW u \in Seq(F), Joins(u, s, t),
           NEW m, IsMap(m, e, s), NEW n, IsMap(n, e, t), NEW k, IsMap(k, e, u)
    PROVE  m \in Seq(P) /\ n \in Seq(P) /\ k = m \o n
<1>1. /\ u \in Seq(F) /\ Len(u) = Len(s) + Len(t) /\ Len(s) \in Nat /\ Len(t) \in Nat
      /\ \A i \in 1..Len(u) : u[i] = IF i <= Len(s) THEN s[i] ELSE t[i - Len(s)]
  BY ConcatProperties DEF Joins
<1>2. m \in Seq(P) /\ Len(m) = Len(s) /\ \A i \in 1..Len(s) : m[i] = e[s[i]]
  BY MappedParts
<1>3. n \in Seq(P) /\ Len(n) = Len(t) /\ \A i \in 1..Len(t) : n[i] = e[t[i]]
  BY MappedParts
<1>4. k \in Seq(P) /\ Len(k) = Len(u) /\ \A i \in 1..Len(u) : k[i] = e[u[i]]
  BY MappedParts
<1>5. k = m \o n
  <2>1. PICK j : j = m \o n
    OBVIOUS
  <2>2. /\ j \in Seq(P) /\ Len(j) = Len(m) + Len(n)
        /\ \A i \in 1..(Len(m) + Len(n)) : j[i] = IF i <= Len(m) THEN m[i] ELSE n[i - Len(m)]
    <3>1. m \in Seq(P) /\ n \in Seq(P)
      BY <1>2, <1>3
    <3> QED  BY <3>1, <2>1, ConcatProperties
  <2>3. Len(k) = Len(j)
    BY <1>1, <1>2, <1>3, <1>4, <2>2
  <2>4. ASSUME NEW i \in 1..Len(k)
        PROVE  k[i] = j[i]
    <3>1. i \in 1..Len(u) /\ i \in 1..(Len(m) + Len(n))
      BY <1>4, <2>2, <2>3
    <3>2. CASE i <= Len(s)
      <4>1. i \in 1..Len(s)
        BY <1>1, <3>1, <3>2
      <4>2. j[i] = m[i] /\ u[i] = s[i]
        BY <3>1, <3>2, <1>1, <1>2, <2>2
      <4> QED  BY <4>1, <4>2, <3>1, <1>2, <1>4
    <3>3. CASE ~(i <= Len(s))
      <4>1. i - Len(s) \in 1..Len(t)
        BY <1>1, <3>1, <3>3
      <4>2. j[i] = n[i - Len(s)] /\ u[i] = t[i - Len(s)]
        BY <3>1, <3>3, <1>1, <1>2, <2>2
      <4> QED  BY <4>1, <4>2, <3>1, <1>3, <1>4
    <3> QED  BY <3>2, <3>3
  <2>5. k = j
    BY <1>4, <2>2, <2>3, <2>4, SeqEqual
  <2> QED  BY <2>1, <2>5
<1> QED  BY <1>2, <1>3, <1>5

LEMMA MappedConcat ==
    ASSUME NEW F, NEW B, NEW e, Maps(e, F, Seq(B)), NEW s \in Seq(F), NEW t \in Seq(F)
    PROVE  Mapped(e, s \o t) = Mapped(e, s) \o Mapped(e, t)
<1>1. PICK P, u : P = Seq(B) /\ u = s \o t
  OBVIOUS
<1>2. PICK m, n, k : IsMap(m, e, s) /\ IsMap(n, e, t) /\ IsMap(k, e, u)
  BY DEF IsMap
<1>3. Maps(e, F, P)
  BY <1>1
<1>4. m \in Seq(P) /\ n \in Seq(P) /\ k = m \o n
  <2>1. u \in Seq(F) /\ Joins(u, s, t)
    BY <1>1, ConcatProperties DEF Joins
  <2> QED  BY <2>1, <1>2, <1>3, MapConcat
<1>5. m \in Seq(Seq(B)) /\ n \in Seq(Seq(B))
  BY <1>1, <1>4
<1>6. FlattenSeq(m \o n) = FlattenSeq(m) \o FlattenSeq(n)
  BY <1>5, FlattenConcat
<1> QED  BY <1>1, <1>2, <1>4, <1>6 DEF Mapped, IsMap

LEMMA MappedFew ==
    ASSUME NEW F, NEW B, NEW e, Maps(e, F, Seq(B))
    PROVE  Mapped(e, <<>>) = <<>> /\ \A f \in F : Mapped(e, <<f>>) = e[f]
<1>1. Mapped(e, <<>>) = <<>>
  <2>1. PICK m : m = [i \in DOMAIN <<>> |-> e[<<>>[i]]]
    OBVIOUS
  <2>2. m = <<>>
    BY <2>1
  <2> QED  BY <2>1, <2>2, FlattenEmpty DEF Mapped
<1>2. ASSUME NEW f \in F
      PROVE  Mapped(e, <<f>>) = e[f]
  <2>1. PICK x, s : x = e[f] /\ s = <<f>>
    OBVIOUS
  <2>2. PICK m : m = [i \in DOMAIN s |-> e[s[i]]]
    OBVIOUS
  <2>3. x \in Seq(B)
    BY <2>1 DEF Maps
  <2>4. m = <<x>>
    BY <2>1, <2>2
  <2>5. FlattenSeq(<<x>>) = x
    BY <2>3, FlattenOne
  <2> QED  BY <2>1, <2>2, <2>4, <2>5 DEF Mapped
<1> QED  BY <1>1, <1>2

-----------------------------------------------------------------------------
(***************************************************************************)
(* Frames and bytes.  B is a set of bytes, F the frames that they are of,  *)
(* and every byte of such a frame is in B.                                 *)
(***************************************************************************)
ByteSet(B, F) ==
    /\ \A b \in B : b.frame \in F
    /\ \A f \in F : f.frame_len \in Nat /\ \A i \in Nat : [frame |-> f, at |-> i] \in B

LEMMA HeaderSize == kFrameHeaderSize \in Nat \ {0}
BY CodecAssumption

LEMMA EncodeIs ==
    ASSUME NEW B, NEW F, ByteSet(B, F), NEW f \in F
    PROVE  /\ Encode(f) \in Seq(B)
           /\ LegalLength(f) => Len(Encode(f)) = f.frame_len
           /\ \A i \in 1..Len(Encode(f)) : Encode(f)[i] = [frame |-> f, at |-> i]
<1>1. f.frame_len \in Nat /\ \A i \in Nat : [frame |-> f, at |-> i] \in B
  BY DEF ByteSet
<1>2. PICK n : n = IF LegalLength(f) THEN f.frame_len ELSE kFrameHeaderSize
  OBVIOUS
<1>3. n \in Nat
  BY <1>1, <1>2, HeaderSize
<1>4. PICK s : s = Encode(f)
  OBVIOUS
<1>5. s = [i \in 1..n |-> [frame |-> f, at |-> i]]
  BY <1>2, <1>4 DEF Encode
<1>6. \A i \in 1..n : [frame |-> f, at |-> i] \in B
  BY <1>1, <1>3
<1>7. s \in Seq(B)
  BY <1>3, <1>5, <1>6, IsASeq
<1>8. Len(s) = n
  BY <1>3, <1>5, <1>7
<1> QED  BY <1>2, <1>4, <1>5, <1>7, <1>8

LEMMA BytesMapped ==
    ASSUME NEW B, NEW F, ByteSet(B, F)
    PROVE  \E e : /\ Maps(e, F, Seq(B)) /\ \A s \in Seq(F) : Bytes(s) = Mapped(e, s)
                  /\ \A f \in F : e[f] = Encode(f)
<1>1. PICK e : e = [f \in F |-> Encode(f)]
  OBVIOUS
<1>2. Maps(e, F, Seq(B))
  BY <1>1, EncodeIs DEF Maps
<1>3. ASSUME NEW s \in Seq(F)
      PROVE  Bytes(s) = Mapped(e, s)
  <2>1. \A i \in DOMAIN s : s[i] \in F /\ e[s[i]] = Encode(s[i])
    BY <1>1
  <2>2. [i \in DOMAIN s |-> e[s[i]]] = [i \in DOMAIN s |-> Encode(s[i])]
    BY <2>1
  <2> QED  BY <2>2 DEF Bytes, Mapped
<1> QED  BY <1>1, <1>2, <1>3

LEMMA BytesType ==
    ASSUME NEW B, NEW F, ByteSet(B, F), NEW s \in Seq(F)
    PROVE  Bytes(s) \in Seq(B)
<1>1. PICK e : Maps(e, F, Seq(B)) /\ \A t \in Seq(F) : Bytes(t) = Mapped(e, t)
  BY BytesMapped
<1> QED  BY <1>1, MappedType

LEMMA BytesConcat ==
    ASSUME NEW B, NEW F, ByteSet(B, F), NEW s \in Seq(F), NEW t \in Seq(F)
    PROVE  Bytes(s \o t) = Bytes(s) \o Bytes(t)
<1>1. PICK e : Maps(e, F, Seq(B)) /\ \A u \in Seq(F) : Bytes(u) = Mapped(e, u)
  BY BytesMapped
<1>2. s \o t \in Seq(F)
  BY ConcatProperties
<1>3. Mapped(e, s \o t) = Mapped(e, s) \o Mapped(e, t)
  <2>1. Maps(e, F, Seq(B))
    BY <1>1
  <2> QED  BY <2>1, MappedConcat
<1> QED  BY <1>1, <1>2, <1>3

LEMMA BytesFew ==
    ASSUME NEW B, NEW F, ByteSet(B, F)
    PROVE  Bytes(<<>>) = <<>> /\ \A f \in F : Bytes(<<f>>) = Encode(f)
<1>1. PICK e : /\ Maps(e, F, Seq(B)) /\ \A s \in Seq(F) : Bytes(s) = Mapped(e, s)
               /\ \A f \in F : e[f] = Encode(f)
  BY BytesMapped
<1>2. <<>> \in Seq(F) /\ \A f \in F : <<f>> \in Seq(F)
  OBVIOUS
<1>3. Mapped(e, <<>>) = <<>> /\ \A f \in F : Mapped(e, <<f>>) = e[f]
  <2>1. Maps(e, F, Seq(B))
    BY <1>1
  <2> QED  BY <2>1, MappedFew
<1> QED  BY <1>1, <1>2, <1>3

\* feed() takes a frame off the buffer just as it was encoded, or leaves the
\* bytes as they are.
LEMMA DecodeTakes ==
    ASSUME NEW B, NEW F, ByteSet(B, F), NEW buffer \in Seq(B), NEW r, r = Decode(buffer)
    PROVE  /\ r.state \in {"closed", "need_more", "frame"} /\ r.codec.buffer \in Seq(B)
           /\ r.state = "need_more" => r.codec.buffer = buffer
           /\ r.state = "frame" => r.frame \in F /\ buffer = Encode(r.frame) \o r.codec.buffer
<1>1. PICK f : f = buffer[1].frame
  OBVIOUS
<1>2. /\ NeedMore(buffer).state = "need_more" /\ NeedMore(buffer).codec.buffer = buffer
      /\ Closed(buffer).state = "closed" /\ Closed(buffer).codec.buffer = buffer
  BY DEF NeedMore, Closed
<1>3. CASE r = NeedMore(buffer) \/ r = Closed(buffer)
  BY <1>2, <1>3
<1>4. CASE r # NeedMore(buffer) /\ r # Closed(buffer)
  <2>1. /\ ~(Len(buffer) < kFrameHeaderSize) /\ LegalLength(f) /\ ~(Len(buffer) < f.frame_len)
        /\ Checked(buffer, f)
        /\ r = [state |-> "frame", frame |-> f,
                codec |-> [buffer |-> After(buffer, f.frame_len), closed |-> FALSE]]
    BY <1>1, <1>4 DEF Decode
  <2>2. r.state = "frame" /\ r.frame = f /\ r.codec.buffer = After(buffer, f.frame_len)
    BY <2>1
  <2>3. Len(buffer) \in Nat /\ 1 \in 1..Len(buffer)
    BY <2>1, HeaderSize
  <2>4. f \in F
    <3>1. buffer[1] \in B
      BY <2>3
    <3> QED  BY <1>1, <3>1 DEF ByteSet
  <2>5. PICK n : n = f.frame_len
    OBVIOUS
  <2>6. n \in Nat /\ n <= Len(buffer)
    BY <2>1, <2>3, <2>4, <2>5 DEF ByteSet
  <2>7. PICK s, t : s = Encode(f) /\ t = After(buffer, n)
    OBVIOUS
  <2>8. s \in Seq(B) /\ Len(s) = n /\ \A i \in 1..n : s[i] = buffer[i]
    <3>1. /\ Encode(f) \in Seq(B) /\ Len(Encode(f)) = f.frame_len
          /\ \A i \in 1..Len(Encode(f)) : Encode(f)[i] = [frame |-> f, at |-> i]
      BY <2>1, <2>4, EncodeIs
    <3>2. \A i \in 1..n : buffer[i] = [frame |-> f, at |-> i]
      BY <2>1, <2>5 DEF Checked
    <3> QED  BY <3>1, <3>2, <2>5, <2>7
  <2>9. /\ t \in Seq(B) /\ Len(t) = Len(buffer) - n
        /\ \A i \in 1..(Len(buffer) - n) : t[i] = buffer[n + i]
    <3>1. \A i \in (n + 1)..Len(buffer) : buffer[i] \in B
      BY <2>3, <2>6
    <3>2. t = SubSeq(buffer, n + 1, Len(buffer))
      BY <2>7 DEF After
    <3>3. n + 1 \in Int /\ Len(buffer) \in Int /\ Len(buffer) - (n + 1) + 1 = Len(buffer) - n
      BY <2>3, <2>6
    <3>4. /\ t \in Seq(B) /\ Len(t) = IF n + 1 <= Len(buffer) THEN Len(buffer) - (n + 1) + 1 ELSE 0
          /\ \A i \in 1..(Len(buffer) - (n + 1) + 1) : t[i] = buffer[(n + 1) + i - 1]
      BY <3>1, <3>2, <3>3, SubSeqProperties
    <3>5. Len(t) = Len(buffer) - n
      BY <3>4, <2>3, <2>6
    <3>6. ASSUME NEW i \in 1..(Len(buffer) - n)
          PROVE  t[i] = buffer[n + i]
      <4>1. i \in 1..(Len(buffer) - (n + 1) + 1) /\ (n + 1) + i - 1 = n + i
        BY <3>3, <2>3, <2>6
      <4> QED  BY <3>4, <4>1
    <3> QED  BY <3>4, <3>5, <3>6
  <2>10. buffer = s \o t
    <3>1. PICK u : u = s \o t
      OBVIOUS
    <3>2. /\ u \in Seq(B) /\ Len(u) = Len(s) + Len(t)
          /\ \A i \in 1..(Len(s) + Len(t)) : u[i] = IF i <= Len(s) THEN s[i] ELSE t[i - Len(s)]
      BY <3>1, <2>8, <2>9, ConcatProperties
    <3>3. Len(u) = Len(buffer)
      BY <3>2, <2>3, <2>6, <2>8, <2>9
    <3>4. ASSUME NEW i \in 1..Len(buffer)
          PROVE  u[i] = buffer[i]
      <4>1. u[i] = IF i <= n THEN s[i] ELSE t[i - n]
        BY <3>2, <3>3, <2>8
      <4>2. CASE i <= n
        BY <4>1, <4>2, <2>6, <2>8
      <4>3. CASE ~(i <= n)
        <5>1. i - n \in 1..(Len(buffer) - n) /\ n + (i - n) = i
          BY <4>3, <2>3, <2>6
        <5> QED  BY <4>1, <4>3, <5>1, <2>9
      <4> QED  BY <4>2, <4>3
    <3>5. u = buffer
      BY <3>2, <3>3, <3>4, SeqEqual
    <3> QED  BY <3>1, <3>5
  <2> QED  BY <2>2, <2>4, <2>5, <2>7, <2>9, <2>10
<1> QED  BY <1>3, <1>4

Takes(B, F, codec, data, r) ==
    /\ r.state \in {"closed", "need_more", "frame"} /\ r.codec.buffer \in Seq(B)
    /\ r.state = "need_more" => r.codec.buffer = codec.buffer \o data
    /\ r.state = "frame" => r.frame \in F /\ codec.buffer \o data = Encode(r.frame) \o r.codec.buffer

LEMMA FeedTakes ==
    ASSUME NEW B, NEW F, ByteSet(B, F), NEW codec, codec.buffer \in Seq(B), NEW data \in Seq(B),
           NEW r, r = Feed(codec, data)
    PROVE  Takes(B, F, codec, data, r)
<1>1. PICK whole : whole = codec.buffer \o data
  OBVIOUS
<1>2. whole \in Seq(B)
  BY <1>1, ConcatProperties
<1>3. r = Closed(codec.buffer) \/ r = Decode(whole)
  BY <1>1 DEF Feed
<1>4. Closed(codec.buffer).state = "closed" /\ Closed(codec.buffer).codec.buffer = codec.buffer
  BY DEF Closed
<1>5. CASE r = Closed(codec.buffer)
  BY <1>4, <1>5 DEF Takes
<1>6. CASE r = Decode(whole)
  BY <1>1, <1>2, <1>6, DecodeTakes DEF Takes
<1> QED  BY <1>3, <1>5, <1>6

-----------------------------------------------------------------------------
(***************************************************************************)
(* What is asked, and what is answered.                                    *)
(***************************************************************************)
AskedOf(F) == {f \in F : f.type \in {"hello", "build_request"}}
ReplyTo(f) == IF f.type = "hello" THEN Welcome(f) ELSE StatusEvent(f, "running")
RepliesOf(F) == {ReplyTo(f) : f \in AskedOf(F)}

LEMMA AskedMapped ==
    ASSUME NEW F
    PROVE  \E e : /\ Maps(e, F, Seq(AskedOf(F))) /\ \A s \in Seq(F) : Asked(s) = Mapped(e, s)
                  /\ \A f \in F : e[f] = IF f \in AskedOf(F) THEN <<f>> ELSE <<>>
<1>1. PICK e : e = [f \in F |-> IF f.type \in {"hello", "build_request"} THEN <<f>> ELSE <<>>]
  OBVIOUS
<1>2. \A f \in F : e[f] = IF f \in AskedOf(F) THEN <<f>> ELSE <<>>
  BY <1>1 DEF AskedOf
<1>3. Maps(e, F, Seq(AskedOf(F)))
  <2>1. ASSUME NEW f \in F
        PROVE  e[f] \in Seq(AskedOf(F))
    <3>1. f \in AskedOf(F) => <<f>> \in Seq(AskedOf(F))
      OBVIOUS
    <3>2. <<>> \in Seq(AskedOf(F))
      OBVIOUS
    <3>3. e[f] = IF f \in AskedOf(F) THEN <<f>> ELSE <<>>
      BY <1>2
    <3> QED  BY <3>1, <3>2, <3>3
  <2>2. e = [f \in F |-> e[f]]
    BY <1>1
  <2> QED  BY <2>1, <2>2 DEF Maps
<1>4. ASSUME NEW s \in Seq(F)
      PROVE  Asked(s) = Mapped(e, s)
  <2>1. \A i \in DOMAIN s : s[i] \in F
    OBVIOUS
  <2>2. [i \in DOMAIN s |-> e[s[i]]] =
        [i \in DOMAIN s |-> IF s[i].type \in {"hello", "build_request"} THEN <<s[i]>> ELSE <<>>]
    BY <1>1, <2>1
  <2> QED  BY <2>2 DEF Asked, Mapped
<1> QED  BY <1>2, <1>3, <1>4

LEMMA AskedType ==
    ASSUME NEW F, NEW s \in Seq(F)
    PROVE  Asked(s) \in Seq(AskedOf(F))
<1>1. PICK e : Maps(e, F, Seq(AskedOf(F))) /\ \A t \in Seq(F) : Asked(t) = Mapped(e, t)
  BY AskedMapped
<1>2. PICK A : A = AskedOf(F)
  OBVIOUS
<1>3. Maps(e, F, Seq(A))
  BY <1>1, <1>2
<1>4. Mapped(e, s) \in Seq(A)
  BY <1>3, MappedType
<1> QED  BY <1>1, <1>2, <1>4

LEMMA AskedConcat ==
    ASSUME NEW F, NEW s \in Seq(F), NEW t \in Seq(F)
    PROVE  Asked(s \o t) = Asked(s) \o Asked(t)
<1>1. PICK e : Maps(e, F, Seq(AskedOf(F))) /\ \A u \in Seq(F) : Asked(u) = Mapped(e, u)
  BY AskedMapped
<1>2. s \o t \in Seq(F)
  BY ConcatProperties
<1>3. PICK A : A = AskedOf(F)
  OBVIOUS
<1>4. Maps(e, F, Seq(A))
  BY <1>1, <1>3
<1>5. Mapped(e, s \o t) = Mapped(e, s) \o Mapped(e, t)
  BY <1>4, MappedConcat
<1> QED  BY <1>1, <1>2, <1>5

LEMMA AskedFew ==
    ASSUME NEW F
    PROVE  Asked(<<>>) = <<>> /\ \A f \in F : Asked(<<f>>) = IF f \in AskedOf(F) THEN <<f>> ELSE <<>>
<1>1. PICK e : /\ Maps(e, F, Seq(AskedOf(F))) /\ \A s \in Seq(F) : Asked(s) = Mapped(e, s)
               /\ \A f \in F : e[f] = IF f \in AskedOf(F) THEN <<f>> ELSE <<>>
  BY AskedMapped
<1>2. <<>> \in Seq(F) /\ \A f \in F : <<f>> \in Seq(F)
  OBVIOUS
<1>3. PICK A : A = AskedOf(F)
  OBVIOUS
<1>4. Maps(e, F, Seq(A))
  BY <1>1, <1>3
<1>5. Mapped(e, <<>>) = <<>> /\ \A f \in F : Mapped(e, <<f>>) = e[f]
  BY <1>4, MappedFew
<1> QED  BY <1>1, <1>2, <1>5

\* As many replies as questions, each to its own.
Echo(replies, asked) ==
    Len(replies) = Len(asked) /\ \A i \in 1..Len(asked) : replies[i] = ReplyTo(asked[i])

LEMMA EchoConcat ==
    ASSUME NEW R, NEW a \in Seq(R), NEW b \in Seq(R), NEW A, NEW p \in Seq(A), NEW q \in Seq(A),
           Echo(a, p), Echo(b, q)
    PROVE  Echo(a \o b, p \o q)
<1>1. PICK x, y : x = a \o b /\ y = p \o q
  OBVIOUS
<1>2. /\ x \in Seq(R) /\ Len(x) = Len(a) + Len(b)
      /\ \A i \in 1..(Len(a) + Len(b)) : x[i] = IF i <= Len(a) THEN a[i] ELSE b[i - Len(a)]
  BY <1>1, ConcatProperties
<1>3. /\ y \in Seq(A) /\ Len(y) = Len(p) + Len(q)
      /\ \A i \in 1..(Len(p) + Len(q)) : y[i] = IF i <= Len(p) THEN p[i] ELSE q[i - Len(p)]
  BY <1>1, ConcatProperties
<1>4. Len(a) = Len(p) /\ Len(b) = Len(q) /\ Len(p) \in Nat /\ Len(q) \in Nat
  BY DEF Echo
<1>5. ASSUME NEW i \in 1..Len(y)
      PROVE  x[i] = ReplyTo(y[i])
  <2>1. CASE i <= Len(p)
    <3>1. i \in 1..Len(p) /\ x[i] = a[i] /\ y[i] = p[i]
      BY <2>1, <1>2, <1>3, <1>4
    <3> QED  BY <3>1 DEF Echo
  <2>2. CASE ~(i <= Len(p))
    <3>1. i - Len(p) \in 1..Len(q) /\ x[i] = b[i - Len(p)] /\ y[i] = q[i - Len(p)]
      BY <2>2, <1>2, <1>3, <1>4
    <3> QED  BY <3>1 DEF Echo
  <2> QED  BY <2>1, <2>2
<1>6. Len(x) = Len(y)
  BY <1>2, <1>3, <1>4
<1>7. Echo(x, y)
  BY <1>5, <1>6 DEF Echo
<1> QED  BY <1>1, <1>7

\* What the loop writes for each of some frames.
Written(d, events) == FlattenSeq([i \in DOMAIN events |-> Answer(d, events[i])])

LEMMA WrittenMapped ==
    ASSUME NEW d, forged[d].state = "running", NEW F
    PROVE  \E e : /\ Maps(e, F, Seq(RepliesOf(F))) /\ \A s \in Seq(F) : Written(d, s) = Mapped(e, s)
                  /\ \A f \in F : e[f] = IF f \in AskedOf(F) THEN <<ReplyTo(f)>> ELSE <<>>
<1>1. PICK e : e = [f \in F |-> Answer(d, f)]
  OBVIOUS
<1>2. \A f \in F : e[f] = IF f \in AskedOf(F) THEN <<ReplyTo(f)>> ELSE <<>>
  <2>1. \A f \in F : Answer(d, f) = IF f \in AskedOf(F) THEN <<ReplyTo(f)>> ELSE <<>>
    BY DEF AskedOf, Answer, ReplyTo
  <2> QED  BY <1>1, <2>1
<1>3. Maps(e, F, Seq(RepliesOf(F)))
  <2>1. \A f \in AskedOf(F) : ReplyTo(f) \in RepliesOf(F)
    BY DEF RepliesOf
  <2>2. ASSUME NEW f \in F
        PROVE  e[f] \in Seq(RepliesOf(F))
    <3>1. PICK x : x = ReplyTo(f)
      OBVIOUS
    <3>2. x \in RepliesOf(F) => <<x>> \in Seq(RepliesOf(F))
      OBVIOUS
    <3>3. <<>> \in Seq(RepliesOf(F))
      OBVIOUS
    <3>4. e[f] = IF f \in AskedOf(F) THEN <<x>> ELSE <<>>
      BY <1>2, <3>1
    <3> QED  BY <2>1, <3>1, <3>2, <3>3, <3>4
  <2>3. e = [f \in F |-> e[f]]
    BY <1>1
  <2> QED  BY <2>2, <2>3 DEF Maps
<1>4. ASSUME NEW s \in Seq(F)
      PROVE  Written(d, s) = Mapped(e, s)
  <2>1. \A i \in DOMAIN s : e[s[i]] = Answer(d, s[i])
    BY <1>1
  <2>2. [i \in DOMAIN s |-> e[s[i]]] = [i \in DOMAIN s |-> Answer(d, s[i])]
    BY <2>1
  <2> QED  BY <2>2 DEF Written, Mapped
<1> QED  BY <1>2, <1>3, <1>4

LEMMA WrittenConcat ==
    ASSUME NEW d, forged[d].state = "running", NEW F, NEW s \in Seq(F), NEW t \in Seq(F)
    PROVE  Written(d, s) \in Seq(RepliesOf(F)) /\ Written(d, s \o t) = Written(d, s) \o Written(d, t)
<1>1. PICK e : Maps(e, F, Seq(RepliesOf(F))) /\ \A u \in Seq(F) : Written(d, u) = Mapped(e, u)
  BY WrittenMapped
<1>2. s \o t \in Seq(F)
  BY ConcatProperties
<1>3. PICK A : A = RepliesOf(F)
  OBVIOUS
<1>4. Maps(e, F, Seq(A))
  BY <1>1, <1>3
<1>5. Mapped(e, s \o t) = Mapped(e, s) \o Mapped(e, t)
  BY <1>4, MappedConcat
<1>6. Mapped(e, s) \in Seq(A)
  BY <1>4, MappedType
<1> QED  BY <1>1, <1>2, <1>3, <1>5, <1>6

LEMMA WrittenFew ==
    ASSUME NEW d, forged[d].state = "running", NEW F
    PROVE  /\ Written(d, <<>>) = <<>>
           /\ \A f \in F : Written(d, <<f>>) = IF f \in AskedOf(F) THEN <<ReplyTo(f)>> ELSE <<>>
<1>1. PICK e : /\ Maps(e, F, Seq(RepliesOf(F))) /\ \A s \in Seq(F) : Written(d, s) = Mapped(e, s)
               /\ \A f \in F : e[f] = IF f \in AskedOf(F) THEN <<ReplyTo(f)>> ELSE <<>>
  BY WrittenMapped
<1>2. <<>> \in Seq(F) /\ \A f \in F : <<f>> \in Seq(F)
  OBVIOUS
<1>3. PICK A : A = RepliesOf(F)
  OBVIOUS
<1>4. Maps(e, F, Seq(A))
  BY <1>1, <1>3
<1>5. Mapped(e, <<>>) = <<>> /\ \A f \in F : Mapped(e, <<f>>) = e[f]
  BY <1>4, MappedFew
<1> QED  BY <1>1, <1>2, <1>5

LEMMA WrittenEchoes ==
    ASSUME NEW d, forged[d].state = "running", NEW F, NEW s \in Seq(F)
    PROVE  Echo(Written(d, s), Asked(s))
<1> DEFINE Good(t) == Echo(Written(d, t), Asked(t))
<1> DEFINE T == {k \in Nat : k <= Len(s) => Good(SubSeq(s, 1, k))}
<1>1. 0 \in T
  <2>1. Written(d, <<>>) = <<>> /\ Asked(<<>>) = <<>>
    BY AskedFew, WrittenFew
  <2>2. Good(<<>>)
    BY <2>1 DEF Echo
  <2> HIDE DEF Good
  <2> QED  BY <2>2, Places0
<1>2. ASSUME NEW k \in T
      PROVE  k + 1 \in T
  <2> SUFFICES ASSUME k + 1 <= Len(s)
               PROVE  Good(SubSeq(s, 1, k + 1))
    OBVIOUS
  <2>1. PICK t, f, u : t = SubSeq(s, 1, k) /\ f = s[k + 1] /\ u = SubSeq(s, 1, k + 1)
    OBVIOUS
  <2>2. t \in Seq(F) /\ f \in F /\ u = Append(t, f)
    BY <2>1, NextPlace
  <2>3. u = t \o <<f>> /\ <<f>> \in Seq(F)
    BY <2>2, AppendIsConcat
  <2>4. PICK o : o = <<f>>
    OBVIOUS
  <2>5. /\ Written(d, t) \in Seq(RepliesOf(F)) /\ Written(d, o) \in Seq(RepliesOf(F))
        /\ Written(d, t \o o) = Written(d, t) \o Written(d, o)
    BY <2>2, <2>3, <2>4, WrittenConcat
  <2>6. /\ Asked(t) \in Seq(AskedOf(F)) /\ Asked(o) \in Seq(AskedOf(F))
        /\ Asked(t \o o) = Asked(t) \o Asked(o)
    BY <2>2, <2>3, <2>4, AskedType, AskedConcat
  <2>7. Echo(Written(d, o), Asked(o))
    <3>1. /\ Written(d, o) = IF f \in AskedOf(F) THEN <<ReplyTo(f)>> ELSE <<>>
          /\ Asked(o) = IF f \in AskedOf(F) THEN <<f>> ELSE <<>>
      BY <2>2, <2>4, AskedFew, WrittenFew
    <3> QED  BY <3>1 DEF Echo
  <2>8. Echo(Written(d, t), Asked(t))
    BY <2>1
  <2>9. Echo(Written(d, t) \o Written(d, o), Asked(t) \o Asked(o))
    BY <2>5, <2>6, <2>7, <2>8, EchoConcat
  <2> QED  BY <2>1, <2>3, <2>4, <2>5, <2>6, <2>9
<1> HIDE DEF T
<1>3. T = Nat
  <2>1. T \subseteq Nat
    BY DEF T
  <2> QED  BY <2>1, <1>1, <1>2, FromZeroOn
<1>4. Len(s) \in T /\ Len(s) <= Len(s)
  BY <1>3, Places0
<1> QED  BY <1>4, Places0 DEF T

LEMMA SmallestNat ==
    ASSUME NEW I, I \subseteq Nat, I # {}
    PROVE  Min(I) \in I /\ \A i \in I : Min(I) <= i
<1>1. IsWellFoundedOn(OpToRel(<, Nat), Nat)
  BY NatLessThanWellFounded
<1>2. PICK n \in I : \A m \in I : ~(<<m, n>> \in OpToRel(<, Nat))
  BY <1>1, WFMin
<1>3. ASSUME NEW m \in I
      PROVE  n <= m
  <2>1. m \in Nat /\ n \in Nat
    OBVIOUS
  <2>2. ~(m < n)
    BY <1>2, <2>1 DEF OpToRel
  <2> QED  BY <2>1, <2>2
<1>4. \E x \in I : \A y \in I : x <= y
  BY <1>3
<1> QED  BY <1>4 DEF Min

\* The place of the first build_request, 0 if there is none.
IsRequest(f) == f.type = "build_request"
FirstRequest(events, last) ==
    \/ last = 0 /\ \A i \in 1..Len(events) : ~IsRequest(events[i])
    \/ last \in 1..Len(events) /\ IsRequest(events[last]) /\ \A i \in 1..(last - 1) : ~IsRequest(events[i])

LEMMA AnswersUntil ==
    ASSUME NEW d, NEW F, NEW events \in Seq(F)
    PROVE  \E last : /\ FirstRequest(events, last)
                     /\ Answers(d, events) = Written(d, IF last = 0 THEN events ELSE SubSeq(events, 1, last))
<1>1. PICK I : I = {i \in 1..Len(events) : events[i].type = "build_request"}
  OBVIOUS
<1>2. PICK last : last = IF I # {} THEN Min(I) ELSE 0
  OBVIOUS
<1>3. Len(events) \in Nat
  OBVIOUS
<1>4. FirstRequest(events, last)
  <2>1. CASE I = {}
    BY <2>1, <1>1, <1>2 DEF FirstRequest, IsRequest
  <2>2. CASE I # {}
    <3>1. I \subseteq Nat
      BY <1>1
    <3>2. last \in I /\ \A i \in I : last <= i
      BY <2>2, <3>1, <1>2, SmallestNat
    <3>3. last \in 1..Len(events) /\ IsRequest(events[last])
      BY <3>2, <1>1 DEF IsRequest
    <3>4. ASSUME NEW i \in 1..(last - 1)
          PROVE  ~IsRequest(events[i])
      <4>1. i \in 1..Len(events) /\ ~(last <= i)
        BY <3>3, <1>3
      <4> QED  BY <4>1, <3>2, <1>1 DEF IsRequest
    <3> QED  BY <3>3, <3>4 DEF FirstRequest
  <2> QED  BY <2>1, <2>2
<1>5. PICK until : until = IF last = 0 THEN events ELSE SubSeq(events, 1, last)
  OBVIOUS
<1>6. Answers(d, events) = FlattenSeq([i \in DOMAIN until |-> Answer(d, until[i])])
  BY <1>1, <1>2, <1>5 DEF Answers, SelectInSeq
<1> QED  BY <1>4, <1>5, <1>6 DEF Written

AllHello(asked) == \A i \in 1..Len(asked) : asked[i].type = "hello"

\* Replies to the first questions, of which at most the last is not HELLO.
Paired(replies, asked) ==
    /\ Len(replies) <= Len(asked)
    /\ \A i \in 1..Len(replies) : replies[i] = ReplyTo(asked[i])
    /\ \A i \in 1..(Len(replies) - 1) : asked[i].type = "hello"

LEMMA NoRequest ==
    ASSUME NEW F, NEW s \in Seq(F), \A i \in 1..Len(s) : ~IsRequest(s[i])
    PROVE  AllHello(Asked(s))
<1>1. PICK G : G = {f \in F : ~IsRequest(f)}
  OBVIOUS
<1>2. s \in Seq(G)
  <2>1. s \in [1..Len(s) -> G] /\ Len(s) \in Nat
    BY <1>1
  <2> QED  BY <2>1
<1>3. Asked(s) \in Seq(AskedOf(G))
  BY <1>2, AskedType
<1>4. \A f \in AskedOf(G) : f.type = "hello"
  BY <1>1 DEF AskedOf, IsRequest
<1> QED  BY <1>3, <1>4 DEF AllHello

LEMMA PairedAll ==
    ASSUME NEW R, NEW replies \in Seq(R), NEW A, NEW asked \in Seq(A), Echo(replies, asked), AllHello(asked)
    PROVE  Paired(replies, asked)
BY DEF Echo, AllHello, Paired

LEMMA PairedMore ==
    ASSUME NEW R, NEW replies \in Seq(R), NEW A, NEW p \in Seq(A), NEW q \in Seq(A), Paired(replies, p)
    PROVE  Paired(replies, p \o q)
<1>1. PICK w : w = p \o q
  OBVIOUS
<1>2. Len(w) = Len(p) + Len(q) /\ Len(p) \in Nat /\ Len(q) \in Nat /\ Len(replies) \in Nat
  BY <1>1, ConcatProperties
<1>3. \A i \in 1..Len(p) : w[i] = p[i]
  BY <1>1, ConcatProperties
<1>4. Paired(replies, w)
  <2>1. Len(replies) <= Len(w)
    BY <1>2 DEF Paired
  <2>2. \A i \in 1..Len(replies) : i \in 1..Len(p)
    BY <1>2 DEF Paired
  <2>3. \A i \in 1..(Len(replies) - 1) : i \in 1..Len(p)
    BY <1>2 DEF Paired
  <2> QED  BY <2>1, <2>2, <2>3, <1>3 DEF Paired
<1> QED  BY <1>1, <1>4

\* The replies to all that was asked before, and those to some of the rest.
LEMMA PairedConcat ==
    ASSUME NEW R, NEW a \in Seq(R), NEW b \in Seq(R), NEW A, NEW p \in Seq(A), NEW q \in Seq(A),
           Echo(a, p), AllHello(p), Paired(b, q)
    PROVE  Paired(a \o b, p \o q)
<1>1. PICK x, y : x = a \o b /\ y = p \o q
  OBVIOUS
<1>2. /\ x \in Seq(R) /\ Len(x) = Len(a) + Len(b)
      /\ \A i \in 1..(Len(a) + Len(b)) : x[i] = IF i <= Len(a) THEN a[i] ELSE b[i - Len(a)]
  BY <1>1, ConcatProperties
<1>3. /\ y \in Seq(A) /\ Len(y) = Len(p) + Len(q)
      /\ \A i \in 1..(Len(p) + Len(q)) : y[i] = IF i <= Len(p) THEN p[i] ELSE q[i - Len(p)]
  BY <1>1, ConcatProperties
<1>4. /\ Len(a) = Len(p) /\ Len(b) <= Len(q) /\ Len(p) \in Nat /\ Len(q) \in Nat /\ Len(b) \in Nat
  BY DEF Echo, Paired
<1>5. ASSUME NEW i \in 1..Len(x)
      PROVE  x[i] = ReplyTo(y[i])
  <2>1. CASE i <= Len(p)
    <3>1. i \in 1..Len(p) /\ x[i] = a[i] /\ y[i] = p[i]
      BY <2>1, <1>2, <1>3, <1>4
    <3> QED  BY <3>1 DEF Echo
  <2>2. CASE ~(i <= Len(p))
    <3>1. i - Len(p) \in 1..Len(b) /\ x[i] = b[i - Len(p)] /\ y[i] = q[i - Len(p)]
      BY <2>2, <1>2, <1>3, <1>4
    <3> QED  BY <3>1 DEF Paired
  <2> QED  BY <2>1, <2>2
<1>6. ASSUME NEW i \in 1..(Len(x) - 1)
      PROVE  y[i].type = "hello"
  <2>1. CASE i <= Len(p)
    <3>1. i \in 1..Len(p) /\ y[i] = p[i]
      BY <2>1, <1>2, <1>3, <1>4
    <3> QED  BY <3>1 DEF AllHello
  <2>2. CASE ~(i <= Len(p))
    <3>1. i - Len(p) \in 1..(Len(b) - 1) /\ y[i] = q[i - Len(p)]
      BY <2>2, <1>2, <1>3, <1>4
    <3> QED  BY <3>1 DEF Paired
  <2> QED  BY <2>1, <2>2
<1>7. Len(x) <= Len(y)
  BY <1>2, <1>3, <1>4
<1>8. Paired(x, y)
  BY <1>5, <1>6, <1>7 DEF Paired
<1> QED  BY <1>1, <1>8

LEMMA ReplyTypes ==
    ASSUME NEW f
    PROVE  /\ f.type = "hello" => ReplyTo(f) = Welcome(f) /\ ReplyTo(f).type = "welcome"
           /\ f.type # "hello" => /\ ReplyTo(f) = StatusEvent(f, "running")
                                  /\ ReplyTo(f).type = "status_event"
BY DEF ReplyTo, Welcome, StatusEvent, Frame

\* The answers to a feed(): one for each frame that asks, up to the first
\* build_request.
LEMMA AnswersPaired ==
    ASSUME NEW d, forged[d].state = "running", NEW F, NEW events \in Seq(F),
           NEW answers, answers = Answers(d, events)
    PROVE  /\ answers \in Seq(RepliesOf(F)) /\ Paired(answers, Asked(events))
           /\ \/ Echo(answers, Asked(events)) /\ AllHello(Asked(events))
              \/ \E i \in 1..Len(answers) : answers[i].type = "status_event"
<1>1. PICK last : /\ FirstRequest(events, last)
                  /\ answers = Written(d, IF last = 0 THEN events ELSE SubSeq(events, 1, last))
  BY AnswersUntil
<1>2. CASE last = 0
  <2>1. answers = Written(d, events) /\ \A i \in 1..Len(events) : ~IsRequest(events[i])
    BY <1>1, <1>2 DEF FirstRequest
  <2>2. AllHello(Asked(events))
    BY <2>1, NoRequest
  <2>3. answers \in Seq(RepliesOf(F)) /\ Echo(answers, Asked(events))
    BY <2>1, WrittenConcat, WrittenEchoes
  <2>4. PICK A, asked, R : A = AskedOf(F) /\ asked = Asked(events) /\ R = RepliesOf(F)
    OBVIOUS
  <2>5. asked \in Seq(A) /\ answers \in Seq(R) /\ Echo(answers, asked) /\ AllHello(asked)
    BY <2>2, <2>3, <2>4, AskedType
  <2>6. Paired(answers, asked)
    BY <2>5, PairedAll
  <2> QED  BY <2>2, <2>3, <2>4, <2>6
<1>3. CASE last # 0
  <2>1. /\ last \in 1..Len(events) /\ Len(events) \in Nat /\ IsRequest(events[last])
        /\ \A i \in 1..(last - 1) : ~IsRequest(events[i])
    BY <1>1, <1>3 DEF FirstRequest
  <2>2. PICK u, b, until, rest : /\ u = SubSeq(events, 1, last - 1) /\ b = events[last]
                                 /\ until = SubSeq(events, 1, last)
                                 /\ rest = SubSeq(events, last + 1, Len(events))
    OBVIOUS
  <2>3. u \in Seq(F) /\ b \in F /\ until = Append(u, b)
    <3>1. PICK k : k = last - 1
      OBVIOUS
    <3>2. k \in Nat /\ k + 1 <= Len(events) /\ k + 1 = last
      BY <2>1, <3>1
    <3>3. /\ SubSeq(events, 1, k) \in Seq(F) /\ events[k + 1] \in F
          /\ SubSeq(events, 1, k + 1) = Append(SubSeq(events, 1, k), events[k + 1])
      BY <3>2, NextPlace
    <3> QED  BY <2>2, <3>1, <3>2, <3>3
  <2>4. until = u \o <<b>> /\ until \in Seq(F) /\ <<b>> \in Seq(F)
    BY <2>3, AppendIsConcat
  <2>5. rest \in Seq(F) /\ events = until \o rest
    <3>1. \A i \in (last + 1)..Len(events) : events[i] \in F
      BY <2>1
    <3>2. rest \in Seq(F)
      BY <2>1, <2>2, <3>1, SubSeqProperties
    <3>3. 1 \in 1..(Len(events) + 1) /\ last \in (1 - 1)..Len(events) /\ Len(events) \in last..Len(events)
      BY <2>1
    <3>4. SubSeq(events, 1, last) \o SubSeq(events, last + 1, Len(events)) = SubSeq(events, 1, Len(events))
      BY <3>3, ConcatAdjacentSubSeq
    <3> QED  BY <2>2, <3>2, <3>4, SubSeqFull
  <2>6. AllHello(Asked(u))
    <3>1. Len(u) = last - 1 /\ \A i \in 1..(last - 1) : u[i] = events[i]
      BY <2>1, <2>2
    <3>2. \A i \in 1..Len(u) : ~IsRequest(u[i])
      BY <2>1, <3>1
    <3> QED  BY <2>3, <3>2, NoRequest
  <2>7. Asked(until) = Asked(u) \o <<b>>
    <3>1. b \in AskedOf(F)
      BY <2>1, <2>2, <2>3 DEF AskedOf, IsRequest
    <3>2. Asked(<<b>>) = <<b>>
      BY <2>3, <3>1, AskedFew
    <3>3. PICK o : o = <<b>>
      OBVIOUS
    <3>4. Asked(u \o o) = Asked(u) \o Asked(o)
      BY <2>3, <2>4, <3>3, AskedConcat
    <3> QED  BY <2>4, <3>2, <3>3, <3>4
  <2>8. Asked(events) = Asked(until) \o Asked(rest)
    BY <2>4, <2>5, AskedConcat
  <2>9. PICK A, R, p, w, v : /\ A = AskedOf(F) /\ R = RepliesOf(F)
                             /\ p = Asked(u) /\ w = Asked(until) /\ v = Asked(rest)
    OBVIOUS
  <2>10. p \in Seq(A) /\ w \in Seq(A) /\ v \in Seq(A) /\ w = p \o <<b>>
    BY <2>3, <2>4, <2>5, <2>7, <2>9, AskedType
  <2>11. Len(w) = Len(p) + 1 /\ w[Len(p) + 1] = b /\ Len(p) \in Nat /\ \A i \in 1..Len(p) : w[i] = p[i]
    BY <2>10
  <2>12. answers \in Seq(R) /\ Echo(answers, w)
    <3>1. answers = Written(d, until)
      BY <1>1, <1>3, <2>2
    <3> QED  BY <2>4, <2>9, <3>1, WrittenConcat, WrittenEchoes
  <2>13. Paired(answers, w)
    <3>1. Len(answers) = Len(p) + 1
      BY <2>11, <2>12 DEF Echo
    <3>2. \A i \in 1..(Len(answers) - 1) : w[i].type = "hello"
      BY <3>1, <2>6, <2>9, <2>11 DEF AllHello
    <3> QED  BY <3>1, <3>2, <2>11, <2>12 DEF Paired, Echo
  <2>14. Paired(answers, w \o v)
    BY <2>10, <2>12, <2>13, PairedMore
  <2>15. \E i \in 1..Len(answers) : answers[i].type = "status_event"
    <3>1. Len(p) + 1 \in 1..Len(answers) /\ answers[Len(p) + 1] = ReplyTo(b)
      BY <2>11, <2>12 DEF Echo
    <3>2. b.type # "hello"
      BY <2>1, <2>2 DEF IsRequest
    <3>3. ReplyTo(b).type = "status_event"
      BY <3>2, ReplyTypes
    <3> QED  BY <3>1, <3>3
  <2> QED  BY <2>8, <2>9, <2>12, <2>14, <2>15
<1> QED  BY <1>2, <1>3

-----------------------------------------------------------------------------
(***************************************************************************)
(* What may be on a line, up to the daemon and down again.                 *)
(***************************************************************************)
PeerByte == UNION {Range(bytes) : bytes \in PeerBytes}
Request == <<Hello, OpenStream, BuildRequest>>
UpFrames(c) == IF c \in Clients THEN {Hello, OpenStream, BuildRequest} ELSE {b.frame : b \in PeerByte}
UpBytes(c) == [frame : UpFrames(c), at : Nat] \cup (IF c \in Clients THEN {} ELSE PeerByte)
DownFrames(c) == RepliesOf(UpFrames(c))
DownBytes(c) == [frame : DownFrames(c), at : Nat]

LEMMA FrameLength ==
    ASSUME NEW type, NEW stream, NEW token, NEW size \in Nat, NEW payload
    PROVE  /\ Frame(type, stream, token, size, payload).frame_len \in Nat
           /\ Frame(type, stream, token, size, payload).type = type
BY HeaderSize DEF Frame

LEMMA UpByteSet ==
    ASSUME NEW c
    PROVE  ByteSet(UpBytes(c), UpFrames(c))
<1>1. \A b \in UpBytes(c) : b.frame \in UpFrames(c)
  BY DEF UpBytes, UpFrames
<1>2. ASSUME NEW f \in UpFrames(c)
      PROVE  f.frame_len \in Nat
  <2>1. CASE c \in Clients
    BY <2>1, FrameLength DEF UpFrames, Hello, OpenStream, BuildRequest
  <2>2. CASE c \notin Clients
    <3>1. PICK b \in PeerByte : f = b.frame
      BY <2>2 DEF UpFrames
    <3>2. PICK bytes \in PeerBytes : b \in Range(bytes)
      BY DEF PeerByte
    <3> QED  BY <3>1, <3>2, DaemonAssumption
  <2> QED  BY <2>1, <2>2
<1>3. \A f \in UpFrames(c), i \in Nat : [frame |-> f, at |-> i] \in UpBytes(c)
  BY DEF UpBytes
<1> QED  BY <1>1, <1>2, <1>3 DEF ByteSet

LEMMA DownByteSet ==
    ASSUME NEW c
    PROVE  ByteSet(DownBytes(c), DownFrames(c))
<1>1. \A b \in DownBytes(c) : b.frame \in DownFrames(c)
  BY DEF DownBytes
<1>2. ASSUME NEW f \in DownFrames(c)
      PROVE  f.frame_len \in Nat
  <2>1. PICK g : f = ReplyTo(g)
    BY DEF DownFrames, RepliesOf
  <2> QED  BY <2>1, FrameLength DEF ReplyTo, Welcome, StatusEvent
<1>3. \A f \in DownFrames(c), i \in Nat : [frame |-> f, at |-> i] \in DownBytes(c)
  BY DEF DownBytes
<1> QED  BY <1>1, <1>2, <1>3 DEF ByteSet

LEMMA OnlyStatus ==
    ASSUME NEW c \in Clients, NEW f \in DownFrames(c), f.type = "status_event"
    PROVE  f = StatusEvent(BuildRequest, "running")
<1>1. PICK g \in AskedOf(UpFrames(c)) : f = ReplyTo(g)
  BY DEF DownFrames, RepliesOf
<1>2. g.type # "hello" /\ f = StatusEvent(g, "running")
  BY <1>1, ReplyTypes
<1>3. g \in {Hello, OpenStream, BuildRequest} /\ g.type \in {"hello", "build_request"}
  BY DEF AskedOf, UpFrames
<1>4. Hello.type = "hello" /\ OpenStream.type = "open_stream"
  BY FrameLength DEF Hello, OpenStream
<1> QED  BY <1>2, <1>3, <1>4

LEMMA WhatIsSent ==
    ASSUME NEW c \in Connections
    PROVE  /\ c \in Clients => Bytes(Request) \in Seq(UpBytes(c))
           /\ c \in Peers => \A bytes \in PeerBytes : bytes \in Seq(UpBytes(c))
<1>1. ASSUME c \in Clients
      PROVE  Bytes(Request) \in Seq(UpBytes(c))
  <2>1. Request \in Seq(UpFrames(c))
    <3>1. PICK F : F = UpFrames(c)
      OBVIOUS
    <3>2. Hello \in F /\ OpenStream \in F /\ BuildRequest \in F
      BY <1>1, <3>1 DEF UpFrames
    <3>3. <<Hello, OpenStream, BuildRequest>> \in Seq(F)
      BY <3>2
    <3> QED  BY <3>1, <3>3 DEF Request
  <2> QED  BY <2>1, UpByteSet, BytesType
<1>2. ASSUME c \in Peers, NEW bytes \in PeerBytes
      PROVE  bytes \in Seq(UpBytes(c))
  <2>1. c \notin Clients
    BY <1>2, DaemonAssumption
  <2>2. bytes \in Seq(Range(bytes))
    BY DaemonAssumption
  <2>3. Range(bytes) \subseteq UpBytes(c)
    BY <2>1 DEF UpBytes, PeerByte
  <2>4. PICK S, T : S = Range(bytes) /\ T = UpBytes(c)
    OBVIOUS
  <2>5. S \subseteq T /\ bytes \in Seq(S)
    BY <2>2, <2>3, <2>4
  <2>6. bytes \in Seq(T)
    BY <2>5, SeqMonotonic
  <2> QED  BY <2>4, <2>6
<1> QED  BY <1>1, <1>2

-----------------------------------------------------------------------------
(***************************************************************************)
(* The inductive invariant of the conversation.                            *)
(***************************************************************************)
LineTypes(c, x) ==
    /\ x.got \in Seq(UpFrames(c)) /\ x.sent \in Seq(UpBytes(c)) /\ x.up \in Seq(UpBytes(c))
    /\ x.replies \in Seq(DownFrames(c)) /\ x.down \in Seq(DownBytes(c))
    /\ x.codec.buffer \in Seq(DownBytes(c))

\* The frames that were decoded are the first of what was sent.
Prefixed(c, x) == \E rest \in Seq(UpBytes(c)) : Bytes(x.got) \o rest = x.sent

\* Nothing was received from it yet.
Fresh(x) == x.got = <<>> /\ x.replies = <<>> /\ x.up = x.sent

Line(c, x) ==
    /\ LineTypes(c, x) /\ Prefixed(c, x)
    /\ Paired(x.replies, Asked(x.got))
    /\ x.at \in {"idle", "write"} => x.sent = <<>>
    /\ x.at = "idle" => Fresh(x)
    /\ x.at = "answered" => x.answer = StatusEvent(BuildRequest, "running")

\* All the frames before those of this feed() were answered with WELCOME.
Replied(c, x, events) ==
    \E old \in Seq(UpFrames(c)) :
        x.got = old \o events /\ Echo(x.replies, Asked(old)) /\ AllHello(Asked(old))

\* The connection that is served: the frames that were decoded, the bytes in
\* the codec and those on the way are what was sent.
Serve(c, y, x) ==
    /\ y.codec.buffer \in Seq(UpBytes(c)) /\ y.events \in Seq(UpFrames(c))
    /\ Bytes(x.got) \o (y.codec.buffer \o x.up) = x.sent
    /\ Replied(c, x, y.events)

Waits(c, y) == \E i \in 1..Len(y.waiting) : y.waiting[i] = c
Holds(c, y) == y.client = c \/ Waits(c, y)
HoldOK(c, y, x) == (y.client = c => Serve(c, y, x)) /\ (Waits(c, y) => Fresh(x))

TalkInd ==
    /\ \A c \in Connections : Line(c, conn[c])
    /\ \A d \in Daemons : \A c \in Connections : HoldOK(c, forged[d], conn[c])

\* A record with nothing in it.
LEMMA LineOfNothing ==
    ASSUME NEW c, NEW x, x.got = <<>>, x.sent = <<>>, x.up = <<>>, x.replies = <<>>, x.down = <<>>,
           x.codec.buffer = <<>>, x.at = "answered" => x.answer = StatusEvent(BuildRequest, "running")
    PROVE  Line(c, x)
<1>1. LineTypes(c, x)
  BY EmptySeq DEF LineTypes
<1>2. Bytes(<<>>) = <<>> /\ Asked(<<>>) = <<>>
  BY UpByteSet, BytesFew, AskedFew
<1>3. Prefixed(c, x)
  <2>1. <<>> \in Seq(UpBytes(c)) /\ <<>> \o <<>> = <<>>
    BY EmptySeq, ConcatEmptySeq
  <2>2. Bytes(x.got) \o <<>> = x.sent
    BY <1>2, <2>1
  <2> QED  BY <2>1, <2>2 DEF Prefixed
<1>4. Paired(x.replies, Asked(x.got))
  BY <1>2 DEF Paired
<1> QED  BY <1>1, <1>3, <1>4 DEF Line, Fresh

LEMMA TalkStarts ==
    ASSUME Init
    PROVE  TalkInd
<1>1. /\ forged = [d \in Daemons |-> Down] /\ conn = [c \in Connections |-> Unconnected]
  BY DEF Init
<1>2. PICK x : x = Unconnected
  OBVIOUS
<1>3. /\ x.got = <<>> /\ x.sent = <<>> /\ x.up = <<>> /\ x.replies = <<>> /\ x.down = <<>>
      /\ x.codec.buffer = <<>> /\ x.at = "idle"
  BY <1>2 DEF Unconnected, NewCodec
<1>4. \A c \in Connections : Line(c, conn[c])
  BY <1>1, <1>2, <1>3, LineOfNothing
<1>5. ASSUME NEW d \in Daemons, NEW c \in Connections
      PROVE  HoldOK(c, forged[d], conn[c])
  <2>1. forged[d].client = None /\ forged[d].waiting = <<>>
    BY <1>1, DownForged
  <2>2. Len(<<>>) = 0
    OBVIOUS
  <2> QED  BY <2>1, <2>2, Names DEF HoldOK, Waits
<1> QED  BY <1>4, <1>5 DEF TalkInd

\* Who is held is held once, and its daemon's end is open.
LEMMA HeldBy ==
    ASSUME ServiceInd, NEW c \in Connections, NEW d \in Daemons, Holds(c, forged[d])
    PROVE  /\ conn[c].hung = FALSE /\ conn[c].at # "idle"
           /\ \A e \in Daemons : Holds(c, forged[e]) => e = d
           /\ forged[d].client = c => ~Waits(c, forged[d])
<1>1. ASSUME NEW e \in Daemons, Holds(c, forged[e])
      PROVE  \E i : HeldAt(c, e, i)
  BY <1>1 DEF Holds, Waits, HeldAt, Served
<1>2. HeldOK(c) /\ conn[c].hung \in BOOLEAN
  BY DEF ServiceInd, HeldInd, ConnInd
<1>3. ~HeldNowhere(c)
  BY <1>1 DEF HeldNowhere
<1>4. \A e \in Daemons : Holds(c, forged[e]) => e = d
  BY <1>1, <1>2 DEF HeldOK, HeldOnce
<1>5. forged[d].client = c => ~Waits(c, forged[d])
  <2>1. ASSUME forged[d].client = c, NEW i \in 1..Len(forged[d].waiting), forged[d].waiting[i] = c
        PROVE  FALSE
    <3>1. HeldAt(c, d, 0) /\ HeldAt(c, d, i)
      BY <2>1 DEF HeldAt, Served
    <3>2. i # 0
      BY <2>1
    <3> QED  BY <3>1, <3>2, <1>2 DEF HeldOK, HeldOnce
  <2> QED  BY <2>1 DEF Waits
<1> QED  BY <1>2, <1>3, <1>4, <1>5 DEF HeldOK

LEMMA HeldByNext ==
    ASSUME ServiceInd', NEW c \in Connections, NEW d \in Daemons, Holds(c, forged'[d])
    PROVE  conn'[c].hung = FALSE
<1>1. \E i : HeldAt(c, d, i)'
  BY DEF Holds, Waits, HeldAt, Served
<1>2. HeldOK(c)' /\ conn'[c].hung \in BOOLEAN
  BY DEF ServiceInd, HeldInd, ConnInd
<1>3. ~HeldNowhere(c)'
  BY <1>1 DEF HeldNowhere
<1> QED  BY <1>2, <1>3 DEF HeldOK

LEMMA TalkNext ==
    ASSUME \A c \in Connections : Line(c, conn'[c]),
           \A d \in Daemons : \A c \in Connections : HoldOK(c, forged'[d], conn'[c])
    PROVE  TalkInd'
BY DEF TalkInd, Line, LineTypes, Prefixed, Fresh, HoldOK, Serve, Replied, Waits, ReplyTo, Paired, Echo

\* A process that serves no one after the step, and the lines it has closed.
LEMMA QuietTalk ==
    ASSUME TalkInd, ServiceInd', NEW d \in Daemons,
           \A e \in Daemons : e # d => forged'[e] = forged[e],
           forged'[d].pc \notin Serving, forged'[d].waiting \in {forged[d].waiting, <<>>},
           \A c \in Connections : Line(c, conn'[c]) /\ (conn'[c] = conn[c] \/ conn'[c].hung = TRUE)
    PROVE  TalkInd'
<1>1. ASSUME NEW e \in Daemons, NEW c \in Connections
      PROVE  HoldOK(c, forged'[e], conn'[c])
  <2> SUFFICES ASSUME Holds(c, forged'[e])
               PROVE  HoldOK(c, forged'[e], conn'[c])
    BY DEF HoldOK, Holds
  <2>1. conn'[c] = conn[c]
    BY HeldByNext
  <2>2. HoldOK(c, forged[e], conn[c])
    BY DEF TalkInd
  <2>3. CASE e # d
    BY <2>1, <2>2, <2>3
  <2>4. CASE e = d
    <3>1. ForgedOK(forged[d])'
      BY DEF ServiceInd, ForgedInd
    <3>2. forged'[d].client # c
      BY <3>1, Names DEF ForgedOK
    <3>3. Waits(c, forged'[d])
      BY <2>4, <3>2 DEF Holds
    <3>4. forged'[d].waiting = forged[d].waiting
      BY <3>3, EmptySeq DEF Waits
    <3>5. Waits(c, forged[d])
      BY <3>3, <3>4 DEF Waits
    <3> QED  BY <2>1, <2>2, <2>4, <3>2, <3>5 DEF HoldOK
  <2> QED  BY <2>3, <2>4
<1>2. \A c \in Connections : Line(c, conn'[c])
  OBVIOUS
<1> QED  BY <1>1, <1>2, TalkNext

-----------------------------------------------------------------------------
(***************************************************************************)
(* Lines that are closed.                                                  *)
(***************************************************************************)
LEMMA LineSettled ==
    ASSUME NEW c, NEW x, IsConn(x), Line(c, x)
    PROVE  Line(c, Settled(x)) /\ (x.hung = FALSE => Settled(x) = x)
<1>1. CASE x.hung /\ x.at \in {"answered", "error"}
  <2>1. PICK y : y = [Unconnected EXCEPT !.at = x.at, !.hung = TRUE, !.answer = x.answer]
    OBVIOUS
  <2>2. Settled(x) = y
    BY <1>1, <2>1 DEF Settled
  <2>3. /\ y.got = <<>> /\ y.sent = <<>> /\ y.up = <<>> /\ y.replies = <<>> /\ y.down = <<>>
        /\ y.codec.buffer = <<>> /\ y.at = x.at /\ y.answer = x.answer
    BY <2>1 DEF Unconnected, NewCodec
  <2>4. y.at = "answered" => y.answer = StatusEvent(BuildRequest, "running")
    BY <2>3 DEF Line
  <2>5. Line(c, y)
    BY <2>3, <2>4, LineOfNothing
  <2> QED  BY <1>1, <2>2, <2>5
<1>2. CASE ~(x.hung /\ x.at \in {"answered", "error"})
  BY <1>2 DEF Settled
<1> QED  BY <1>1, <1>2

Left(c, x, y) ==
    /\ IsConn(y) /\ Line(c, y)
    /\ x.hung = FALSE => y.got = x.got /\ y.sent = x.sent /\ y.up = x.up /\ y.replies = x.replies

\* The program closes its end, or goes on at another place.
LEMMA LineLeaves ==
    ASSUME NEW c, NEW x, IsConn(x), Line(c, x), NEW place, place \notin {"idle", "write"},
           place = "answered" => x.answer = StatusEvent(BuildRequest, "running"),
           NEW y, y = Leave(x, place)
    PROVE  Left(c, x, y)
<1>1. PICK z : z = [x EXCEPT !.at = place]
  OBVIOUS
<1>2. /\ IsConn(z) /\ z.at = place /\ z.hung = x.hung /\ z.got = x.got /\ z.sent = x.sent /\ z.up = x.up
      /\ z.replies = x.replies /\ z.down = x.down /\ z.codec = x.codec /\ z.answer = x.answer
  BY <1>1 DEF IsConn, ConnFields
<1>3. Line(c, z)
  BY <1>2 DEF Line, LineTypes, Prefixed
<1>4. y = Settled(z)
  BY <1>1 DEF Leave
<1>5. Line(c, Settled(z)) /\ (z.hung = FALSE => Settled(z) = z)
  BY <1>2, <1>3, LineSettled
<1>6. IsConn(Settled(z))
  BY <1>2, SettledKeeps
<1> QED  BY <1>2, <1>4, <1>5, <1>6 DEF Left

LEMMA HungLines ==
    ASSUME ServiceInd, TalkInd, NEW cs, HangUp(cs)
    PROVE  \A c \in Connections : Line(c, conn'[c]) /\ (conn'[c] = conn[c] \/ conn'[c].hung = TRUE)
<1>1. ASSUME NEW c \in Connections
      PROVE  Line(c, conn'[c]) /\ (conn'[c] = conn[c] \/ conn'[c].hung = TRUE)
  <2>1. conn'[c] = IF c \in cs THEN Settled([conn[c] EXCEPT !.hung = TRUE, !.up = <<>>]) ELSE conn[c]
    BY DEF HangUp
  <2>2. PICK x : x = conn[c]
    OBVIOUS
  <2>3. IsConn(x) /\ Line(c, x)
    BY <2>2 DEF ServiceInd, ConnInd, TalkInd
  <2>4. CASE c \notin cs
    BY <2>1, <2>2, <2>3, <2>4
  <2>5. CASE c \in cs
    <3>1. PICK y : y = [x EXCEPT !.hung = TRUE, !.up = <<>>]
      OBVIOUS
    <3>2. /\ IsConn(y) /\ y.at = x.at /\ y.hung = TRUE /\ y.got = x.got /\ y.sent = x.sent /\ y.up = <<>>
          /\ y.replies = x.replies /\ y.down = x.down /\ y.codec = x.codec /\ y.answer = x.answer
      BY <2>3, <3>1 DEF IsConn, ConnFields
    <3>3. <<>> \in Seq(UpBytes(c))
      BY EmptySeq
    <3>4. Line(c, y)
      <4>1. LineTypes(c, y) /\ Prefixed(c, y)
        BY <2>3, <3>2, <3>3 DEF Line, LineTypes, Prefixed
      <4>2. y.at = "idle" => Fresh(y)
        BY <2>3, <3>2 DEF Line, Fresh
      <4> QED  BY <4>1, <4>2, <2>3, <3>2 DEF Line
    <3>5. conn'[c] = Settled(y)
      BY <2>1, <2>2, <2>5, <3>1
    <3>6. Line(c, Settled(y))
      BY <3>2, <3>4, LineSettled
    <3>7. Settled(y).hung = TRUE
      BY <3>2, SettledKeeps
    <3> QED  BY <3>5, <3>6, <3>7
  <2> QED  BY <2>4, <2>5
<1> QED  BY <1>1

LEMMA SameLines ==
    ASSUME TalkInd, conn' = conn
    PROVE  \A c \in Connections : Line(c, conn'[c]) /\ (conn'[c] = conn[c] \/ conn'[c].hung = TRUE)
BY DEF TalkInd

-----------------------------------------------------------------------------
(***************************************************************************)
(* The steps of a process after which it serves no one.                    *)
(***************************************************************************)
LEMMA LocalTalk ==
    ASSUME ServiceInd, TalkInd, ServiceInd', NEW d \in Daemons,
           \/ Launch(d) \/ StartRefused(d) \/ CreateFails(d) \/ Start(d) \/ Bind(d) \/ Listen(d)
           \/ StopUnlink(d) \/ AcceptFails(d) \/ RetryStart(d)
    PROVE  TalkInd'
<1>1. PICK x : x = forged[d]
  OBVIOUS
<1>2. /\ forged = [e \in Daemons |-> forged[e]] /\ IsForged(x) /\ ForgedOK(x)
  BY <1>1, Own
<1>3. conn' = conn
  BY DEF Launch, StartRefused, CreateFails, Start, Bind, Listen, StopUnlink, AcceptFails, RetryStart, OnlyForged
<1>4. \A c \in Connections : Line(c, conn'[c]) /\ (conn'[c] = conn[c] \/ conn'[c].hung = TRUE)
  BY <1>3, SameLines
<1>5. PICK y : Becomes(d, y) /\ y.pc \notin Serving /\ y.waiting \in {x.waiting, <<>>}
  <2>1. CASE Launch(d)
    <3>1. PICK y : y = [Down EXCEPT !.pc = "start"]
      OBVIOUS
    <3>2. Becomes(d, y)
      BY <2>1, <3>1 DEF Launch, Becomes
    <3>3. y.pc = "start" /\ y.waiting = <<>>
      BY <3>1, DownForged, SetPc
    <3> QED  BY <3>2, <3>3 DEF Serving
  <2>2. CASE StartRefused(d) \/ Bind(d) \/ Listen(d) \/ AcceptFails(d) \/ RetryStart(d)
    <3>1. PICK to : to \in {"over", "listen", "ready", "start"} /\ forged' = [forged EXCEPT ![d].pc = to]
      BY <2>2 DEF StartRefused, Bind, Listen, AcceptFails, RetryStart
    <3>2. PICK y : y = [x EXCEPT !.pc = to]
      OBVIOUS
    <3>3. Becomes(d, y)
      BY <1>1, <3>1, <3>2 DEF Becomes
    <3>4. y.pc = to /\ y.waiting = x.waiting
      BY <1>2, <3>2, SetPc
    <3> QED  BY <3>1, <3>3, <3>4 DEF Serving
  <2>3. CASE CreateFails(d)
    <3>1. PICK y : y = [x EXCEPT !.state = "running", !.pc = "over"]
      OBVIOUS
    <3>2. Becomes(d, y)
      BY <1>1, <1>2, <2>3, <3>1 DEF CreateFails, Becomes
    <3>3. y.pc = "over" /\ y.waiting = x.waiting
      BY <1>2, <3>1 DEF IsForged, ForgedFields
    <3> QED  BY <3>2, <3>3 DEF Serving
  <2>4. CASE Start(d)
    <3>1. PICK y : y = [x EXCEPT !.state = "running", !.listening = TRUE, !.pc = "bind"]
      OBVIOUS
    <3>2. Becomes(d, y)
      BY <1>1, <1>2, <2>4, <3>1 DEF Start, Becomes
    <3>3. y.pc = "bind" /\ y.waiting = x.waiting
      BY <1>2, <3>1 DEF IsForged, ForgedFields
    <3> QED  BY <3>2, <3>3 DEF Serving
  <2>5. CASE StopUnlink(d)
    <3>1. PICK y : y = [x EXCEPT !.state = "stopped", !.pc = x.ret]
      OBVIOUS
    <3>2. Becomes(d, y)
      BY <1>1, <1>2, <2>5, <3>1 DEF StopUnlink, Becomes
    <3>3. y.pc = x.ret /\ y.waiting = x.waiting
      BY <1>2, <3>1 DEF IsForged, ForgedFields
    <3>4. x.ret \notin Serving
      BY <1>2 DEF ForgedOK, Serving
    <3> QED  BY <3>2, <3>3, <3>4
  <2> QED  BY <2>1, <2>2, <2>3, <2>4, <2>5
<1>6. forged'[d] = y /\ \A e \in Daemons : e # d => forged'[e] = forged[e]
  BY <1>2, <1>5 DEF Becomes
<1> QED  BY <1>1, <1>4, <1>5, <1>6, QuietTalk

\* stop(), the end of a process and an error in serve_once().
LEMMA ClosingTalk ==
    ASSUME ServiceInd, TalkInd, ServiceInd', NEW d \in Daemons,
           \/ \E ret : Stop(d, ret)
           \/ Kill(d)
           \/ ServeFails(d)
    PROVE  TalkInd'
<1>1. PICK x : x = forged[d]
  OBVIOUS
<1>2. /\ forged = [e \in Daemons |-> forged[e]] /\ IsForged(x) /\ ForgedOK(x)
  BY <1>1, Own
<1>3. \E cs : HangUp(cs)
  BY DEF Stop, Kill, ServeFails
<1>4. \A c \in Connections : Line(c, conn'[c]) /\ (conn'[c] = conn[c] \/ conn'[c].hung = TRUE)
  BY <1>3, HungLines
<1>5. PICK y : Becomes(d, y) /\ y.pc \notin Serving /\ y.waiting \in {x.waiting, <<>>}
  <2>1. CASE \E ret : Stop(d, ret)
    <3>1. PICK ret : Stop(d, ret)
      BY <2>1
    <3>2. PICK y : y = [x EXCEPT !.listening = FALSE, !.waiting = <<>>, !.pc = "unlink", !.ret = ret]
      OBVIOUS
    <3>3. Becomes(d, y)
      BY <1>1, <1>2, <3>1, <3>2 DEF Stop, Becomes
    <3>4. y.pc = "unlink" /\ y.waiting = <<>>
      BY <1>2, <3>2 DEF IsForged, ForgedFields
    <3> QED  BY <3>3, <3>4 DEF Serving
  <2>2. CASE Kill(d)
    <3>1. Becomes(d, Down)
      BY <2>2 DEF Kill, Becomes
    <3> QED  BY <3>1, DownForged DEF Serving
  <2>3. CASE ServeFails(d)
    <3>1. PICK y : y = [x EXCEPT !.client = None, !.pc = "over"]
      OBVIOUS
    <3>2. Becomes(d, y)
      BY <1>1, <1>2, <2>3, <3>1 DEF ServeFails, Becomes
    <3>3. y.pc = "over" /\ y.waiting = x.waiting
      BY <1>2, <3>1 DEF IsForged, ForgedFields
    <3> QED  BY <3>2, <3>3 DEF Serving
  <2> QED  BY <2>1, <2>2, <2>3
<1>6. forged'[d] = y /\ \A e \in Daemons : e # d => forged'[e] = forged[e]
  BY <1>2, <1>5 DEF Becomes
<1> QED  BY <1>1, <1>4, <1>5, <1>6, QuietTalk

-----------------------------------------------------------------------------
(***************************************************************************)
(* accept() and connect().                                                 *)
(***************************************************************************)
LEMMA AcceptTalk ==
    ASSUME ServiceInd, TalkInd, NEW d \in Daemons, Accept(d)
    PROVE  TalkInd'
<1>1. PICK x : x = forged[d]
  OBVIOUS
<1>2. forged = [e \in Daemons |-> forged[e]] /\ IsForged(x) /\ ForgedOK(x)
  BY <1>1, Own
<1>3. x.waiting \in Seq(Connections) /\ x.waiting # <<>> /\ conn' = conn
  BY <1>1, <1>2 DEF ForgedOK, Accept, OnlyForged
<1>4. PICK c0, w : c0 = Head(x.waiting) /\ w = Tail(x.waiting)
  OBVIOUS
<1>5. /\ c0 \in Connections /\ w \in Seq(Connections) /\ Len(x.waiting) \in Nat \ {0}
      /\ Len(w) = Len(x.waiting) - 1 /\ c0 = x.waiting[1]
      /\ \A i \in 1..Len(w) : w[i] = x.waiting[i + 1]
  BY <1>3, <1>4
<1>6. PICK y : y = [x EXCEPT !.client = c0, !.waiting = w, !.session = NewSession, !.codec = NewCodec,
                             !.events = <<>>, !.pc = "recv"]
  OBVIOUS
<1>7. Becomes(d, y)
  BY <1>1, <1>2, <1>4, <1>6 DEF Accept, Becomes
<1>8. y.waiting = w /\ y.client = c0 /\ y.codec.buffer = <<>> /\ y.events = <<>>
  BY <1>2, <1>6 DEF IsForged, ForgedFields, NewCodec
<1>9. forged'[d] = y /\ \A e \in Daemons : e # d => forged'[e] = forged[e]
  BY <1>2, <1>7 DEF Becomes
<1>10. ASSUME NEW c \in Connections
       PROVE  HoldOK(c, y, conn[c])
  <2>1. Line(c, conn[c]) /\ HoldOK(c, x, conn[c])
    BY <1>1 DEF TalkInd
  <2>2. ASSUME Waits(c, y)
        PROVE  Waits(c, x)
    <3>1. PICK i \in 1..Len(w) : w[i] = c
      BY <2>2, <1>8 DEF Waits
    <3>2. i + 1 \in 1..Len(x.waiting) /\ x.waiting[i + 1] = c
      BY <3>1, <1>5
    <3> QED  BY <3>2 DEF Waits
  <2>3. ASSUME c0 = c
        PROVE  Serve(c, y, conn[c])
    <3>1. Waits(c, x)
      <4>1. 1 \in 1..Len(x.waiting)
        BY <1>5
      <4> QED  BY <2>3, <4>1, <1>5 DEF Waits
    <3>2. PICK z : z = conn[c]
      OBVIOUS
    <3>3. Fresh(z) /\ Line(c, z)
      BY <2>1, <3>1, <3>2 DEF HoldOK
    <3>4. z.got = <<>> /\ z.replies = <<>> /\ z.up = z.sent /\ z.sent \in Seq(UpBytes(c))
      BY <3>3 DEF Fresh, Line, LineTypes
    <3>5. Bytes(<<>>) = <<>> /\ Asked(<<>>) = <<>>
      BY UpByteSet, BytesFew, AskedFew
    <3>6. <<>> \in Seq(UpBytes(c)) /\ <<>> \in Seq(UpFrames(c)) /\ <<>> \o <<>> = <<>>
      BY EmptySeq, ConcatEmptySeq
    <3>7. <<>> \o z.up = z.sent
      BY <3>4, ConcatEmptySeq
    <3>8. Bytes(z.got) \o (y.codec.buffer \o z.up) = z.sent
      BY <3>4, <3>5, <3>7, <1>8
    <3>9. Echo(z.replies, Asked(<<>>)) /\ AllHello(Asked(<<>>))
      BY <3>4, <3>5, EmptySeq DEF Echo, AllHello
    <3>10. Replied(c, z, y.events)
      BY <3>4, <3>6, <3>9, <1>8 DEF Replied
    <3> QED  BY <3>2, <3>6, <3>8, <3>10, <1>8 DEF Serve
  <2> QED  BY <2>1, <2>2, <2>3, <1>8 DEF HoldOK
<1>11. ASSUME NEW e \in Daemons, NEW c \in Connections
       PROVE  HoldOK(c, forged'[e], conn'[c])
  <2>1. HoldOK(c, forged[e], conn[c])
    BY DEF TalkInd
  <2> QED  BY <2>1, <1>3, <1>9, <1>10
<1>12. \A c \in Connections : Line(c, conn'[c])
  BY <1>3 DEF TalkInd
<1> QED  BY <1>11, <1>12, TalkNext

LEMMA ConnectTalk ==
    ASSUME ServiceInd, TalkInd, NEW c0 \in Connections, Connect(c0)
    PROVE  TalkInd'
<1>1. PICK d, x : d = path /\ x = forged[d]
  OBVIOUS
<1>2. d \in Daemons
  BY <1>1 DEF Connect, Reachable
<1>3. forged = [e \in Daemons |-> forged[e]] /\ IsForged(x) /\ ForgedOK(x)
  BY <1>1, <1>2, Own
<1>4. x.waiting \in Seq(Connections) /\ Len(x.waiting) \in Nat
  BY <1>3 DEF ForgedOK
<1>5. PICK w : w = Append(x.waiting, c0)
  OBVIOUS
<1>6. /\ Len(w) = Len(x.waiting) + 1 /\ w[Len(x.waiting) + 1] = c0
      /\ \A i \in 1..Len(x.waiting) : w[i] = x.waiting[i]
  BY <1>4, <1>5
<1>7. PICK y : y = [x EXCEPT !.waiting = w]
  OBVIOUS
<1>8. Becomes(d, y)
  BY <1>1, <1>2, <1>3, <1>5, <1>7 DEF Connect, Becomes
<1>9. y.waiting = w /\ y.client = x.client /\ y.codec = x.codec /\ y.events = x.events
  BY <1>3, <1>7 DEF IsForged, ForgedFields
<1>10. forged'[d] = y /\ \A e \in Daemons : e # d => forged'[e] = forged[e]
  BY <1>2, <1>3, <1>8 DEF Becomes
<1>11. conn = [c \in Connections |-> conn[c]] /\ \A c \in Connections : IsConn(conn[c])
  BY DEF ServiceInd, ConnInd
<1>12. conn[c0].at = "idle" /\ conn' = [conn EXCEPT ![c0].at = "write"]
  BY DEF Connect
<1>13. PICK z : z = conn[c0]
  OBVIOUS
<1>14. PICK v : v = [z EXCEPT !.at = "write"]
  OBVIOUS
<1>15. conn'[c0] = v /\ \A c \in Connections : c # c0 => conn'[c] = conn[c]
  BY <1>11, <1>12, <1>13, <1>14
<1>16. /\ v.at = "write" /\ v.got = z.got /\ v.sent = z.sent /\ v.up = z.up
       /\ v.replies = z.replies /\ v.down = z.down /\ v.codec = z.codec /\ v.answer = z.answer
  <2>1. IsConn(z)
    BY <1>11, <1>13
  <2> QED  BY <2>1, <1>14 DEF IsConn, ConnFields
<1>17. Line(c0, z) /\ Fresh(z) /\ z.at = "idle"
  BY <1>12, <1>13 DEF TalkInd, Line
<1>18. Line(c0, v) /\ Fresh(v)
  BY <1>16, <1>17 DEF Line, LineTypes, Prefixed, Fresh
<1>19. \A c \in Connections : Line(c, conn'[c])
  BY <1>15, <1>18 DEF TalkInd
<1>20. ASSUME NEW e \in Daemons, NEW c \in Connections
       PROVE  HoldOK(c, forged'[e], conn'[c])
  <2>1. HoldOK(c, forged[e], conn[c])
    BY DEF TalkInd
  <2>2. CASE c = c0
    <3>1. ~Holds(c, forged[e])
      BY <2>2, <1>12, HeldBy
    <3>2. forged'[e].client # c
      BY <3>1, <1>1, <1>9, <1>10 DEF Holds
    <3> QED  BY <2>2, <3>2, <1>15, <1>18 DEF HoldOK
  <2>3. CASE c # c0 /\ e # d
    BY <2>1, <2>3, <1>10, <1>15
  <2>4. CASE c # c0 /\ e = d
    <3>1. ASSUME Waits(c, y)
          PROVE  Waits(c, x)
      <4>1. PICK i \in 1..Len(w) : w[i] = c
        BY <3>1, <1>9 DEF Waits
      <4>2. i # Len(x.waiting) + 1
        BY <2>4, <4>1, <1>6
      <4>3. i \in 1..Len(x.waiting)
        BY <4>1, <4>2, <1>4, <1>6
      <4> QED  BY <4>1, <4>3, <1>6 DEF Waits
    <3>2. HoldOK(c, x, conn[c])
      BY <2>1, <2>4, <1>1
    <3>3. HoldOK(c, y, conn[c])
      BY <3>1, <3>2, <1>9 DEF HoldOK, Serve
    <3> QED  BY <2>4, <3>3, <1>10, <1>15
  <2> QED  BY <2>2, <2>3, <2>4
<1> QED  BY <1>19, <1>20, TalkNext

-----------------------------------------------------------------------------
(***************************************************************************)
(* serve_once(): one turn of the loop in feed().                           *)
(***************************************************************************)
\* The connection that a process serves changes, and what the process keeps
\* of it.
LEMMA ServedTalk ==
    ASSUME ServiceInd, TalkInd, NEW d \in Daemons, NEW c \in Connections, forged[d].client = c,
           NEW y, forged'[d] = y, \A e \in Daemons : e # d => forged'[e] = forged[e],
           NEW z, conn'[c] = z, \A b \in Connections : b # c => conn'[b] = conn[b],
           y.waiting = forged[d].waiting, y.client \in {c, None},
           Line(c, z), y.client = c => Serve(c, y, z)
    PROVE  TalkInd'
<1>1. \A b \in Connections : Line(b, conn'[b])
  BY DEF TalkInd
<1>2. ASSUME NEW e \in Daemons, NEW b \in Connections
      PROVE  HoldOK(b, forged'[e], conn'[b])
  <2>1. HoldOK(b, forged[e], conn[b])
    BY DEF TalkInd
  <2>2. Holds(c, forged[d])
    BY DEF Holds
  <2>3. (\A a \in Daemons : Holds(c, forged[a]) => a = d) /\ ~Waits(c, forged[d])
    BY <2>2, HeldBy
  <2>4. CASE e # d /\ b # c
    BY <2>1, <2>4
  <2>5. CASE e # d /\ b = c
    <3>1. ~Holds(c, forged'[e])
      BY <2>3, <2>5
    <3> QED  BY <2>5, <3>1 DEF HoldOK, Holds
  <2>6. CASE e = d /\ b # c
    <3>1. y.client # b
      BY <2>6, Names
    <3>2. Waits(b, y) => Waits(b, forged[d])
      BY DEF Waits
    <3> QED  BY <2>1, <2>6, <3>1, <3>2 DEF HoldOK
  <2>7. CASE e = d /\ b = c
    <3>1. ~Waits(c, y)
      BY <2>3 DEF Waits
    <3> QED  BY <2>7, <3>1 DEF HoldOK
  <2> QED  BY <2>4, <2>5, <2>6, <2>7
<1> QED  BY <1>1, <1>2, TalkNext

\* The two parts of a sequence.
Halves(S, s, a, b) == a \in Seq(S) /\ b \in Seq(S) /\ a \o b = s

LEMMA Glued ==
    ASSUME NEW S, NEW s \in Seq(S), NEW n \in 0..Len(s), NEW a \in Seq(S), NEW b \in Seq(S),
           Len(a) = n, Len(b) = Len(s) - n,
           \A i \in 1..n : a[i] = s[i], \A i \in 1..(Len(s) - n) : b[i] = s[n + i]
    PROVE  Halves(S, s, a, b)
<1>1. Len(s) \in Nat /\ n \in Nat
  OBVIOUS
<1>2. /\ a \o b \in Seq(S) /\ Len(a \o b) = Len(s)
      /\ \A i \in 1..Len(s) : (a \o b)[i] = IF i <= n THEN a[i] ELSE b[i - n]
  BY <1>1, ConcatProperties
<1>3. ASSUME NEW i \in 1..Len(s)
      PROVE  (a \o b)[i] = s[i]
  <2>1. CASE i <= n
    BY <2>1, <1>1, <1>2
  <2>2. CASE ~(i <= n)
    <3>1. i - n \in 1..(Len(s) - n) /\ n + (i - n) = i
      BY <2>2, <1>1
    <3> QED  BY <2>2, <3>1, <1>2
  <2> QED  BY <2>1, <2>2
<1>4. a \o b = s
  BY <1>2, <1>3, SeqEqual
<1> QED  BY <1>4 DEF Halves

LEMMA SplitAt ==
    ASSUME NEW S, NEW s \in Seq(S), NEW n \in 0..Len(s),
           NEW a, NEW b, a = SubSeq(s, 1, n), b = SubSeq(s, n + 1, Len(s))
    PROVE  Halves(S, s, a, b)
<1>1. Len(s) \in Nat /\ n \in Nat
  OBVIOUS
<1>2. a \in Seq(S) /\ Len(a) = n /\ \A i \in 1..n : a[i] = s[i]
  BY <1>1
<1>3. b \in Seq(S) /\ Len(b) = Len(s) - n /\ \A i \in 1..(Len(s) - n) : b[i] = s[n + i]
  BY <1>1
<1> QED  BY <1>2, <1>3, Glued

Regroups(x, y, z) == (x \o y) \o z = x \o (y \o z)

LEMMA Regrouped ==
    ASSUME NEW S, NEW x \in Seq(S), NEW y \in Seq(S), NEW z \in Seq(S)
    PROVE  Regroups(x, y, z)
BY Regroup DEF Regroups

Regroups4(g, e, left, rest) == (g \o e) \o (left \o rest) = g \o ((e \o left) \o rest)

LEMMA Regroup4 ==
    ASSUME NEW S, NEW g \in Seq(S), NEW e \in Seq(S), NEW left \in Seq(S), NEW rest \in Seq(S)
    PROVE  Regroups4(g, e, left, rest)
<1>1. PICK t : t = left \o rest
  OBVIOUS
<1>2. t \in Seq(S)
  BY <1>1, ConcatProperties
<1>3. Regroups(g, e, t) /\ Regroups(e, left, rest)
  BY <1>2, Regrouped
<1> QED  BY <1>1, <1>3 DEF Regroups, Regroups4

\* A frame e and what is left are the bytes that were there.
Requeues(g, e, left, rest, buffer, data) == (g \o e) \o (left \o rest) = g \o (buffer \o (data \o rest))

LEMMA Requeued ==
    ASSUME NEW S, NEW g \in Seq(S), NEW e \in Seq(S), NEW left \in Seq(S), NEW rest \in Seq(S),
           NEW buffer \in Seq(S), NEW data \in Seq(S), NEW w, Joins(w, buffer, data), Joins(w, e, left)
    PROVE  Requeues(g, e, left, rest, buffer, data)
<1>1. Regroups4(g, e, left, rest)
  BY Regroup4
<1>2. Regroups(buffer, data, rest)
  BY Regrouped
<1> QED  BY <1>1, <1>2 DEF Joins, Regroups, Regroups4, Requeues

Grows(F, got, f) == <<f>> \in Seq(F) /\ Bytes(got \o <<f>>) = Bytes(got) \o Encode(f)

LEMMA BytesMore ==
    ASSUME NEW B, NEW F, ByteSet(B, F), NEW got \in Seq(F), NEW f \in F
    PROVE  Grows(F, got, f)
<1>1. PICK s : s = <<f>>
  OBVIOUS
<1>2. s \in Seq(F)
  BY <1>1
<1>3. Bytes(s) = Encode(f)
  BY <1>1, BytesFew
<1>4. Bytes(got \o s) = Bytes(got) \o Bytes(s)
  BY <1>2, BytesConcat
<1> QED  BY <1>1, <1>2, <1>3, <1>4 DEF Grows

\* The frames of one turn of the loop.
Decoded(r, frames) == frames = IF r.state = "frame" THEN <<r.frame>> ELSE <<>>

Fed(B, F, got, codec, data, rest, r, frames) ==
    /\ frames \in Seq(F) /\ r.codec.buffer \in Seq(B)
    /\ Bytes(got \o frames) \o (r.codec.buffer \o rest) = Bytes(got) \o (codec.buffer \o (data \o rest))

\* The codec loses nothing and doubles nothing.
LEMMA FedIsSent ==
    ASSUME NEW B, NEW F, ByteSet(B, F), NEW got \in Seq(F), NEW codec, codec.buffer \in Seq(B),
           NEW data \in Seq(B), NEW rest \in Seq(B), NEW r, r = Feed(codec, data), r.state # "closed",
           NEW frames, Decoded(r, frames)
    PROVE  Fed(B, F, got, codec, data, rest, r, frames)
<1>1. /\ r.state \in {"closed", "need_more", "frame"} /\ r.codec.buffer \in Seq(B)
      /\ r.state = "need_more" => r.codec.buffer = codec.buffer \o data
      /\ r.state = "frame" => r.frame \in F /\ codec.buffer \o data = Encode(r.frame) \o r.codec.buffer
  <2>1. Takes(B, F, codec, data, r)
    BY FeedTakes
  <2> QED  BY <2>1 DEF Takes
<1>2. PICK buffer, left : buffer = codec.buffer /\ left = r.codec.buffer
  OBVIOUS
<1>3. Bytes(got) \in Seq(B) /\ buffer \in Seq(B) /\ left \in Seq(B)
  BY <1>1, <1>2, BytesType
<1>4. CASE r.state = "need_more"
  <2>1. frames = <<>> /\ left = buffer \o data
    BY <1>1, <1>2, <1>4 DEF Decoded
  <2>2. <<>> \in Seq(F) /\ got \o <<>> = got
    BY EmptySeq, ConcatEmptySeq
  <2>3. left \o rest = buffer \o (data \o rest)
    <3>1. Regroups(buffer, data, rest)
      BY <1>3, Regrouped
    <3> QED  BY <2>1, <3>1 DEF Regroups
  <2> QED  BY <1>1, <1>2, <2>1, <2>2, <2>3 DEF Fed
<1>5. CASE r.state = "frame"
  <2>1. PICK f, e : f = r.frame /\ e = Encode(f)
    OBVIOUS
  <2>2. frames = <<f>> /\ f \in F /\ buffer \o data = e \o left
    BY <1>1, <1>2, <1>5, <2>1 DEF Decoded
  <2>3. e \in Seq(B)
    BY <2>1, <2>2, EncodeIs
  <2>4. Grows(F, got, f)
    BY <2>2, BytesMore
  <2>6. frames \in Seq(F) /\ Bytes(got \o frames) = Bytes(got) \o e
    BY <2>1, <2>2, <2>4 DEF Grows
  <2>7. PICK g : g = Bytes(got)
    OBVIOUS
  <2>8. PICK w : Joins(w, buffer, data) /\ Joins(w, e, left)
    BY <2>2 DEF Joins
  <2>9. Requeues(g, e, left, rest, buffer, data)
    BY <1>3, <2>3, <2>7, <2>8, Requeued
  <2> QED  BY <1>1, <1>2, <2>6, <2>7, <2>9 DEF Requeues, Fed
<1> QED  BY <1>1, <1>4, <1>5

\* What one more feed() does to the questions.
LEMMA PairedFed ==
    ASSUME NEW R, NEW replies \in Seq(R), NEW F, NEW got \in Seq(F), NEW frames \in Seq(F),
           Paired(replies, Asked(got))
    PROVE  Paired(replies, Asked(got \o frames))
<1>1. PICK p, q, all : p = Asked(got) /\ q = Asked(frames) /\ all = Asked(got \o frames)
  OBVIOUS
<1>2. p \in Seq(AskedOf(F)) /\ q \in Seq(AskedOf(F))
  BY <1>1, AskedType
<1>3. all = p \o q
  BY <1>1, AskedConcat
<1>4. Paired(replies, p)
  BY <1>1
<1>5. Paired(replies, p \o q)
  BY <1>2, <1>4, PairedMore
<1> QED  BY <1>1, <1>3, <1>5

LEMMA RepliedFed ==
    ASSUME NEW c, NEW x, NEW events \in Seq(UpFrames(c)), Replied(c, x, events), NEW frames \in Seq(UpFrames(c)),
           NEW z, z.got = x.got \o frames, z.replies = x.replies, NEW more, more = events \o frames
    PROVE  Replied(c, z, more)
<1>1. PICK old \in Seq(UpFrames(c)) :
         x.got = old \o events /\ Echo(x.replies, Asked(old)) /\ AllHello(Asked(old))
  BY DEF Replied
<1>2. Regroups(old, events, frames)
  BY Regrouped
<1>3. z.got = old \o more
  BY <1>1, <1>2 DEF Regroups
<1>4. Echo(z.replies, Asked(old)) /\ AllHello(Asked(old))
  BY <1>1
<1> QED  BY <1>3, <1>4 DEF Replied

LEMMA LineFed ==
    ASSUME NEW c, NEW x, Line(c, x), x.at # "idle", NEW y, Serve(c, y, x), NEW n \in 0..Len(x.up),
           NEW data, data = SubSeq(x.up, 1, n), NEW r, r = Feed(y.codec, data), r.state # "closed",
           NEW frames, Decoded(r, frames), NEW rest, rest = SubSeq(x.up, n + 1, Len(x.up)),
           NEW z, z.at = x.at, z.sent = x.sent, z.replies = x.replies, z.down = x.down, z.codec = x.codec,
           z.answer = x.answer, z.up = rest, z.got = x.got \o frames,
           NEW v, v.codec = r.codec, v.events = y.events \o frames
    PROVE  Line(c, z) /\ Serve(c, v, z)
<1>1. PICK B, F, up, codec, got : /\ B = UpBytes(c) /\ F = UpFrames(c) /\ up = x.up
                                  /\ codec = y.codec /\ got = x.got
  OBVIOUS
<1>2. ByteSet(B, F)
  BY <1>1, UpByteSet
<1>3. /\ up \in Seq(B) /\ got \in Seq(F) /\ codec.buffer \in Seq(B) /\ y.events \in Seq(F)
      /\ Bytes(got) \o (codec.buffer \o up) = x.sent
  BY <1>1 DEF Line, LineTypes, Serve
<1>4. Halves(B, up, data, rest)
  BY <1>1, <1>3, SplitAt
<1>5. data \in Seq(B) /\ rest \in Seq(B) /\ data \o rest = up
  BY <1>4 DEF Halves
<1>6. Fed(B, F, got, codec, data, rest, r, frames)
  BY <1>1, <1>2, <1>3, <1>5, FedIsSent
<1>7. /\ frames \in Seq(F) /\ r.codec.buffer \in Seq(B)
      /\ Bytes(z.got) \o (r.codec.buffer \o rest) = z.sent
  BY <1>1, <1>3, <1>5, <1>6 DEF Fed
<1>8. z.got \in Seq(F) /\ v.events \in Seq(F) /\ r.codec.buffer \o rest \in Seq(B)
  <2>1. got \o frames \in Seq(F) /\ y.events \o frames \in Seq(F)
    BY <1>3, <1>7, ConcatProperties
  <2>2. r.codec.buffer \o rest \in Seq(B)
    BY <1>5, <1>7, ConcatProperties
  <2> QED  BY <2>1, <2>2, <1>1
<1>9. LineTypes(c, z)
  BY <1>1, <1>5, <1>8 DEF Line, LineTypes
<1>10. Prefixed(c, z)
  BY <1>1, <1>7, <1>8 DEF Prefixed
<1>11. Paired(z.replies, Asked(z.got))
  <2>1. x.replies \in Seq(DownFrames(c)) /\ Paired(x.replies, Asked(x.got))
    BY DEF Line, LineTypes
  <2>2. Paired(x.replies, Asked(got \o frames))
    BY <2>1, <1>1, <1>3, <1>7, PairedFed
  <2> QED  BY <2>2, <1>1
<1>12. Line(c, z)
  BY <1>9, <1>10, <1>11 DEF Line
<1>13. Replied(c, z, v.events)
  <2>1. Replied(c, x, y.events)
    BY DEF Serve
  <2> QED  BY <2>1, <1>1, <1>3, <1>7, RepliedFed
<1>14. Serve(c, v, z)
  BY <1>1, <1>7, <1>8, <1>13 DEF Serve
<1> QED  BY <1>12, <1>14

LEMMA FeedTalk ==
    ASSUME ServiceInd, TalkInd, ServiceInd', NEW d \in Daemons, forged[d].pc \in Serving,
           NEW n \in 0..Len(conn[Served(d)].up), NEW data, data = SubSeq(conn[Served(d)].up, 1, n),
           NEW r, r = Feed(forged[d].codec, data), SessionFeed(d, n, r)
    PROVE  TalkInd'
<1>1. PICK c, x, y : c = Served(d) /\ x = conn[c] /\ y = forged[d]
  OBVIOUS
<1>2. forged = [e \in Daemons |-> forged[e]] /\ IsForged(y)
  BY <1>1, Own
<1>3. c \in Connections /\ y.client = c /\ conn = [b \in Connections |-> conn[b]] /\ IsConn(x)
  BY <1>1, ServedIsOpen DEF Served, ServiceInd, ConnInd
<1>4. PICK frames, s :
         /\ Decoded(r, frames)
         /\ \/ ServeFails(d)
            \/ /\ r.state # "closed"
               /\ forged' = [forged EXCEPT ![d].codec = r.codec, ![d].session = s, ![d].events = @ \o frames,
                                ![d].pc = IF FeedIsOver(r) THEN "respond" ELSE "feed"]
               /\ conn' = [conn EXCEPT ![c].up = SubSeq(@, n + 1, Len(@)), ![c].got = @ \o frames]
  <2>1. PICK frames : Decoded(r, frames)
    BY DEF Decoded
  <2>2. PICK s : s = IF r.state = "frame" THEN Apply(forged[d].session, r.frame) ELSE forged[d].session
    OBVIOUS
  <2>3. \/ ServeFails(d)
        \/ /\ r.state # "closed"
           /\ forged' = [forged EXCEPT ![d].codec = r.codec, ![d].session = s, ![d].events = @ \o frames,
                            ![d].pc = IF FeedIsOver(r) THEN "respond" ELSE "feed"]
           /\ conn' = [conn EXCEPT ![c].up = SubSeq(@, n + 1, Len(@)), ![c].got = @ \o frames]
    BY <1>1, <2>1, <2>2 DEF SessionFeed, Decoded
  <2> QED  BY <2>1, <2>3
<1>5. CASE ServeFails(d)
  BY <1>5, ClosingTalk
<1>6. CASE /\ r.state # "closed"
           /\ forged' = [forged EXCEPT ![d].codec = r.codec, ![d].session = s, ![d].events = @ \o frames,
                            ![d].pc = IF FeedIsOver(r) THEN "respond" ELSE "feed"]
           /\ conn' = [conn EXCEPT ![c].up = SubSeq(@, n + 1, Len(@)), ![c].got = @ \o frames]
  <2>1. PICK to, events, rest, got : /\ to = (IF FeedIsOver(r) THEN "respond" ELSE "feed")
                                     /\ events = y.events \o frames
                                     /\ rest = SubSeq(x.up, n + 1, Len(x.up)) /\ got = x.got \o frames
    OBVIOUS
  <2>2. PICK v, z : /\ v = [y EXCEPT !.codec = r.codec, !.session = s, !.events = events, !.pc = to]
                    /\ z = [x EXCEPT !.up = rest, !.got = got]
    OBVIOUS
  <2>3. forged'[d] = v /\ \A e \in Daemons : e # d => forged'[e] = forged[e]
    BY <1>1, <1>2, <1>6, <2>1, <2>2
  <2>4. conn'[c] = z /\ \A b \in Connections : b # c => conn'[b] = conn[b]
    BY <1>1, <1>3, <1>6, <2>1, <2>2
  <2>5. v.waiting = y.waiting /\ v.client = c /\ v.codec = r.codec /\ v.events = events
    BY <1>2, <1>3, <2>2 DEF IsForged, ForgedFields
  <2>6. /\ z.at = x.at /\ z.sent = x.sent /\ z.replies = x.replies /\ z.down = x.down /\ z.codec = x.codec
        /\ z.answer = x.answer /\ z.up = rest /\ z.got = got
    BY <1>3, <2>2 DEF IsConn, ConnFields
  <2>7. Line(c, x) /\ Serve(c, y, x)
    BY <1>1, <1>3 DEF TalkInd, HoldOK
  <2>8. x.at # "idle"
    BY <1>1, <1>3, HeldBy DEF Holds
  <2>9. data = SubSeq(x.up, 1, n) /\ n \in 0..Len(x.up) /\ r = Feed(y.codec, data)
    BY <1>1
  <2>10. Line(c, z) /\ Serve(c, v, z)
    <3>1. Decoded(r, frames) /\ r.state # "closed" /\ rest = SubSeq(x.up, n + 1, Len(x.up))
      BY <1>4, <1>6, <2>1
    <3>2. z.got = x.got \o frames /\ v.events = y.events \o frames /\ v.codec = r.codec
      BY <2>1, <2>5, <2>6
    <3> HIDE <1>6
    <3> QED  BY <3>1, <3>2, <2>6, <2>7, <2>8, <2>9, LineFed
  <2> QED  BY <1>1, <1>3, <2>3, <2>4, <2>5, <2>10, ServedTalk
<1> QED  BY <1>4, <1>5, <1>6

LEMMA FeedsTalk ==
    ASSUME ServiceInd, TalkInd, ServiceInd', NEW d \in Daemons, Receive(d) \/ FeedOn(d)
    PROVE  TalkInd'
<1>1. forged[d].pc \in Serving
  BY DEF Receive, FeedOn, At, Serving
<1>2. PICK up : up = conn[Served(d)].up
  OBVIOUS
<1>3. Served(d) \in Connections
  BY <1>1, ServedIsOpen
<1>4. up \in Seq(UpBytes(Served(d)))
  BY <1>2, <1>3 DEF TalkInd, Line, LineTypes
<1>5. Len(up) \in Nat /\ SubSeq(up, 1, 0) = <<>>
  BY <1>4, Places0
<1>6. PICK n \in 0..Len(up) : \E r \in {Feed(forged[d].codec, SubSeq(up, 1, n))} : SessionFeed(d, n, r)
  <2>1. CASE Receive(d)
    <3>1. PICK n \in 1..Len(up) : \E r \in {Feed(forged[d].codec, SubSeq(up, 1, n))} : SessionFeed(d, n, r)
      BY <2>1, <1>2 DEF Receive
    <3>2. n \in 0..Len(up)
      BY <3>1, <1>5
    <3> QED  BY <3>1, <3>2
  <2>2. CASE FeedOn(d)
    <3>1. \E r \in {Feed(forged[d].codec, <<>>)} : SessionFeed(d, 0, r)
      BY <2>2 DEF FeedOn
    <3>2. 0 \in 0..Len(up)
      BY <1>5
    <3> QED  BY <3>1, <3>2, <1>5
  <2> QED  BY <2>1, <2>2
<1>7. PICK data, r : data = SubSeq(up, 1, n) /\ r = Feed(forged[d].codec, data) /\ SessionFeed(d, n, r)
  BY <1>6
<1> QED  BY <1>1, <1>2, <1>6, <1>7, FeedTalk

-----------------------------------------------------------------------------
(***************************************************************************)
(* serve_once(): the answers are written.                                  *)
(***************************************************************************)
LEMMA AllHelloConcat ==
    ASSUME NEW A, NEW p \in Seq(A), NEW q \in Seq(A), AllHello(p), AllHello(q)
    PROVE  AllHello(p \o q)
<1>1. PICK all : all = p \o q
  OBVIOUS
<1>2. /\ Len(p) \in Nat /\ Len(q) \in Nat /\ Len(all) = Len(p) + Len(q)
      /\ \A i \in 1..(Len(p) + Len(q)) : all[i] = IF i <= Len(p) THEN p[i] ELSE q[i - Len(p)]
  BY <1>1, ConcatProperties
<1>3. ASSUME NEW i \in 1..Len(all)
      PROVE  all[i].type = "hello"
  <2>1. CASE i <= Len(p)
    BY <2>1, <1>2 DEF AllHello
  <2>2. CASE ~(i <= Len(p))
    <3>1. i - Len(p) \in 1..Len(q)
      BY <2>2, <1>2
    <3> QED  BY <2>2, <3>1, <1>2 DEF AllHello
  <2> QED  BY <2>1, <2>2
<1> QED  BY <1>1, <1>3 DEF AllHello

LEMMA RepliedMore ==
    ASSUME NEW F, NEW R, NEW old \in Seq(F), NEW events \in Seq(F), NEW replies \in Seq(R), NEW answers \in Seq(R),
           NEW got, Joins(got, old, events), Echo(replies, Asked(old)), AllHello(Asked(old))
    PROVE  /\ Paired(answers, Asked(events)) => Paired(replies \o answers, Asked(got))
           /\ Echo(answers, Asked(events)) /\ AllHello(Asked(events)) =>
                 Echo(replies \o answers, Asked(got)) /\ AllHello(Asked(got))
<1>1. PICK p, q, A : p = Asked(old) /\ q = Asked(events) /\ A = AskedOf(F)
  OBVIOUS
<1>2. p \in Seq(A) /\ q \in Seq(A)
  BY <1>1, AskedType
<1>3. Asked(old \o events) = Asked(old) \o Asked(events)
  BY AskedConcat
<1>4. Asked(got) = p \o q
  BY <1>1, <1>3 DEF Joins
<1>5. Echo(replies, p) /\ AllHello(p)
  BY <1>1
<1>6. ASSUME Paired(answers, q)
      PROVE  Paired(replies \o answers, p \o q)
  BY <1>2, <1>5, <1>6, PairedConcat
<1>7. ASSUME Echo(answers, q), AllHello(q)
      PROVE  Echo(replies \o answers, p \o q) /\ AllHello(p \o q)
  <2>1. Echo(replies \o answers, p \o q)
    BY <1>2, <1>5, <1>7, EchoConcat
  <2>2. AllHello(p \o q)
    BY <1>2, <1>5, <1>7, AllHelloConcat
  <2> QED  BY <2>1, <2>2
<1> QED  BY <1>1, <1>4, <1>6, <1>7

NoStatus(answers) == \A i \in 1..Len(answers) : answers[i].type # "status_event"

LEMMA LineAnswered ==
    ASSUME NEW c, NEW x, Line(c, x), x.at # "idle", NEW y, Serve(c, y, x), NEW d, forged[d].state = "running",
           NEW answers, answers = Answers(d, y.events),
           NEW z, z.at = x.at, z.sent = x.sent, z.got = x.got, z.up = x.up, z.codec = x.codec,
           z.answer = x.answer, z.down = x.down \o Bytes(answers), z.replies = x.replies \o answers,
           NEW v, v.codec = y.codec, v.events = <<>>
    PROVE  /\ Line(c, z)
           /\ NoStatus(answers) => Serve(c, v, z)
<1>1. PICK F, R, events, replies : /\ F = UpFrames(c) /\ R = DownFrames(c) /\ events = y.events
                                   /\ replies = x.replies
  OBVIOUS
<1>2. /\ x.got \in Seq(F) /\ events \in Seq(F) /\ replies \in Seq(R) /\ R = RepliesOf(F)
      /\ x.down \in Seq(DownBytes(c))
  BY <1>1 DEF Line, LineTypes, Serve, DownFrames
<1>3. /\ answers \in Seq(RepliesOf(F)) /\ Paired(answers, Asked(events))
      /\ \/ Echo(answers, Asked(events)) /\ AllHello(Asked(events))
         \/ \E i \in 1..Len(answers) : answers[i].type = "status_event"
  BY <1>1, <1>2, AnswersPaired
<1>4. answers \in Seq(R)
  BY <1>2, <1>3
<1>5. PICK old \in Seq(F) : Joins(x.got, old, events) /\ Echo(replies, Asked(old)) /\ AllHello(Asked(old))
  BY <1>1 DEF Serve, Replied, Joins
<1>6. /\ Paired(answers, Asked(events)) => Paired(replies \o answers, Asked(x.got))
      /\ Echo(answers, Asked(events)) /\ AllHello(Asked(events)) =>
            Echo(replies \o answers, Asked(x.got)) /\ AllHello(Asked(x.got))
  BY <1>2, <1>4, <1>5, RepliedMore
<1>7. z.replies \in Seq(R) /\ z.down \in Seq(DownBytes(c))
  <2>1. ByteSet(DownBytes(c), R)
    BY <1>1, DownByteSet
  <2>2. Bytes(answers) \in Seq(DownBytes(c))
    BY <2>1, <1>4, BytesType
  <2>3. replies \o answers \in Seq(R)
    BY <1>2, <1>4, ConcatProperties
  <2>4. x.down \o Bytes(answers) \in Seq(DownBytes(c))
    BY <2>2, <1>2, ConcatProperties
  <2> QED  BY <2>3, <2>4, <1>1
<1>8. Line(c, z)
  <2>1. LineTypes(c, z) /\ Prefixed(c, z)
    BY <1>1, <1>7 DEF Line, LineTypes, Prefixed
  <2>2. Paired(z.replies, Asked(z.got))
    BY <1>1, <1>3, <1>6
  <2> QED  BY <2>1, <2>2 DEF Line
<1>9. ASSUME NoStatus(answers)
      PROVE  Serve(c, v, z)
  <2>1. Echo(z.replies, Asked(z.got)) /\ AllHello(Asked(z.got))
    BY <1>1, <1>3, <1>6, <1>9 DEF NoStatus
  <2>2. z.got = z.got \o <<>> /\ z.got \in Seq(UpFrames(c)) /\ <<>> \in Seq(UpFrames(c))
    BY <1>1, <1>2, EmptySeq, ConcatEmptySeq
  <2>3. Replied(c, z, v.events)
    BY <2>1, <2>2 DEF Replied
  <2>4. v.codec.buffer \in Seq(UpBytes(c)) /\ Bytes(z.got) \o (v.codec.buffer \o z.up) = z.sent
    BY DEF Serve
  <2> QED  BY <2>2, <2>3, <2>4 DEF Serve
<1> QED  BY <1>8, <1>9

LEMMA RespondTalk ==
    ASSUME ServiceInd, TalkInd, ServiceInd', NEW d \in Daemons, Respond(d)
    PROVE  TalkInd'
<1>1. PICK c, x, y : c = Served(d) /\ x = conn[c] /\ y = forged[d]
  OBVIOUS
<1>2. y.pc = "respond" /\ y.pc \in Serving
  BY <1>1 DEF Respond, At, Serving
<1>3. forged = [e \in Daemons |-> forged[e]] /\ IsForged(y) /\ ForgedOK(y)
  BY <1>1, Own
<1>4. /\ c \in Connections /\ c # None /\ y.client = c /\ y.state = "running"
      /\ conn = [b \in Connections |-> conn[b]] /\ IsConn(x)
  <2>1. c \in Connections /\ c # None /\ y.listening
    BY <1>1, <1>2, ServedIsOpen
  <2> QED  BY <2>1, <1>1, <1>3 DEF Served, ServiceInd, ConnInd, ForgedOK
<1>5. PICK answers, done :
         /\ answers = Answers(d, y.events) /\ done = (\E f \in Range(answers) : f.type = "status_event")
         /\ \/ ServeFails(d)
            \/ /\ conn' = [conn EXCEPT ![c].down = @ \o Bytes(answers), ![c].hung = done,
                                       ![c].replies = @ \o answers]
               /\ forged' = [forged EXCEPT ![d].events = <<>>, ![d].client = IF done THEN None ELSE c,
                                ![d].pc = IF ~done THEN "recv" ELSE IF d \in Once THEN "done" ELSE "ready"]
  BY <1>1 DEF Respond
<1>6. CASE ServeFails(d)
  BY <1>6, ClosingTalk
<1>7. CASE /\ conn' = [conn EXCEPT ![c].down = @ \o Bytes(answers), ![c].hung = done,
                                   ![c].replies = @ \o answers]
           /\ forged' = [forged EXCEPT ![d].events = <<>>, ![d].client = IF done THEN None ELSE c,
                            ![d].pc = IF ~done THEN "recv" ELSE IF d \in Once THEN "done" ELSE "ready"]
  <2>1. PICK to, client, down, replies :
           /\ to = (IF ~done THEN "recv" ELSE IF d \in Once THEN "done" ELSE "ready")
           /\ client = IF done THEN None ELSE c
           /\ down = x.down \o Bytes(answers) /\ replies = x.replies \o answers
    OBVIOUS
  <2>2. PICK v, z : /\ v = [y EXCEPT !.events = <<>>, !.client = client, !.pc = to]
                    /\ z = [x EXCEPT !.down = down, !.hung = done, !.replies = replies]
    OBVIOUS
  <2>3. forged'[d] = v /\ \A e \in Daemons : e # d => forged'[e] = forged[e]
    BY <1>1, <1>3, <1>7, <2>1, <2>2
  <2>4. conn'[c] = z /\ \A b \in Connections : b # c => conn'[b] = conn[b]
    BY <1>1, <1>4, <1>7, <2>1, <2>2
  <2>5. v.waiting = y.waiting /\ v.client = client /\ v.codec = y.codec /\ v.events = <<>>
    BY <1>3, <2>2 DEF IsForged, ForgedFields
  <2>6. /\ z.at = x.at /\ z.sent = x.sent /\ z.got = x.got /\ z.up = x.up /\ z.codec = x.codec
        /\ z.answer = x.answer /\ z.down = down /\ z.replies = replies
    BY <1>4, <2>2 DEF IsConn, ConnFields
  <2>7. Line(c, x) /\ Serve(c, y, x)
    BY <1>1, <1>4 DEF TalkInd, HoldOK
  <2>8. x.at # "idle"
    BY <1>1, <1>4, HeldBy DEF Holds
  <2>9. /\ Line(c, z)
        /\ NoStatus(answers) => Serve(c, v, z)
    <3>1. answers = Answers(d, y.events) /\ forged[d].state = "running"
      BY <1>1, <1>4, <1>5
    <3>2. z.down = x.down \o Bytes(answers) /\ z.replies = x.replies \o answers
      BY <2>1, <2>6
    <3> HIDE <1>7
    <3> QED  BY <3>1, <3>2, <2>5, <2>6, <2>7, <2>8, LineAnswered
  <2>10. ASSUME v.client = c
         PROVE  NoStatus(answers)
    <3>1. ~done
      BY <2>10, <2>1, <2>5, <1>4
    <3>2. \A f \in Range(answers) : f.type # "status_event"
      BY <3>1, <1>5
    <3>3. answers \in Seq(RepliesOf(UpFrames(c)))
      <4>1. y.events \in Seq(UpFrames(c))
        BY <2>7 DEF Serve
      <4>2. answers = Answers(d, y.events) /\ forged[d].state = "running"
        BY <1>1, <1>4, <1>5
      <4> HIDE <1>7
      <4> QED  BY <4>1, <4>2, AnswersPaired
    <3> QED  BY <3>2, <3>3, RangeOf DEF NoStatus
  <2>11. v.client \in {c, None}
    BY <2>1, <2>5
  <2> QED  BY <1>1, <1>4, <2>3, <2>4, <2>5, <2>9, <2>10, <2>11, ServedTalk
<1> QED  BY <1>5, <1>6, <1>7

-----------------------------------------------------------------------------
(***************************************************************************)
(* The programs at the other end.                                          *)
(***************************************************************************)
LEMMA ProgramTalk ==
    ASSUME ServiceInd, TalkInd, NEW c0 \in Connections, forged' = forged, NEW y, conn' = [conn EXCEPT ![c0] = y],
           Line(c0, y), conn[c0].hung = FALSE => \A d \in Daemons : HoldOK(c0, forged[d], y)
    PROVE  TalkInd'
<1>1. conn = [c \in Connections |-> conn[c]]
  BY DEF ServiceInd, ConnInd
<1>2. conn'[c0] = y /\ \A c \in Connections : c # c0 => conn'[c] = conn[c]
  BY <1>1
<1>3. \A c \in Connections : Line(c, conn'[c])
  BY <1>2 DEF TalkInd
<1>4. ASSUME NEW d \in Daemons, NEW c \in Connections
      PROVE  HoldOK(c, forged'[d], conn'[c])
  <2>1. HoldOK(c, forged[d], conn[c])
    BY DEF TalkInd
  <2>2. CASE c # c0
    BY <2>1, <2>2, <1>2
  <2>3. CASE c = c0 /\ Holds(c, forged[d])
    <3>1. conn[c0].hung = FALSE
      BY <2>3, HeldBy
    <3> QED  BY <2>3, <3>1, <1>2
  <2>4. CASE ~Holds(c, forged[d])
    BY <2>4 DEF HoldOK, Holds
  <2> QED  BY <2>2, <2>3, <2>4
<1> QED  BY <1>3, <1>4, TalkNext

\* What the daemon's side depends on stays as it is.
LEMMA SameTalk ==
    ASSUME ServiceInd, TalkInd, NEW c \in Connections, forged' = forged, NEW y, conn' = [conn EXCEPT ![c] = y],
           Line(c, y),
           conn[c].hung = FALSE => /\ y.got = conn[c].got /\ y.sent = conn[c].sent
                                   /\ y.up = conn[c].up /\ y.replies = conn[c].replies
    PROVE  TalkInd'
<1>1. PICK x : x = conn[c]
  OBVIOUS
<1>2. ASSUME x.hung = FALSE, NEW d \in Daemons
      PROVE  HoldOK(c, forged[d], y)
  <2>1. HoldOK(c, forged[d], x)
    BY <1>1 DEF TalkInd
  <2>2. y.got = x.got /\ y.sent = x.sent /\ y.up = x.up /\ y.replies = x.replies
    BY <1>1, <1>2
  <2> QED  BY <2>1, <2>2 DEF HoldOK, Serve, Replied, Fresh
<1>3. conn[c].hung = FALSE => \A d \in Daemons : HoldOK(c, forged[d], y)
  BY <1>1, <1>2
<1> QED  BY <1>3, ProgramTalk

LEMMA LeavingTalk ==
    ASSUME ServiceInd, TalkInd, NEW c \in Connections, ConnectFails(c) \/ ReplyEnds(c) \/ PeerLeaves(c)
    PROVE  TalkInd'
<1>1. PICK x : x = conn[c]
  OBVIOUS
<1>2. conn = [b \in Connections |-> conn[b]] /\ IsConn(x) /\ Line(c, x) /\ forged' = forged
  BY <1>1 DEF ServiceInd, ConnInd, TalkInd, ConnectFails, ReplyEnds, PeerLeaves, OnlyConn
<1>3. CASE ConnectFails(c)
  <2>1. PICK y : y = [x EXCEPT !.at = "error"]
    OBVIOUS
  <2>2. conn' = [conn EXCEPT ![c] = y]
    BY <1>1, <1>3, <2>1 DEF ConnectFails
  <2>3. /\ y.at = "error" /\ y.got = x.got /\ y.sent = x.sent /\ y.up = x.up
        /\ y.replies = x.replies /\ y.down = x.down /\ y.codec = x.codec
    BY <1>2, <2>1 DEF IsConn, ConnFields
  <2>4. Line(c, y)
    BY <1>2, <2>3 DEF Line, LineTypes, Prefixed
  <2> QED  BY <1>1, <1>2, <2>2, <2>3, <2>4, SameTalk
<1>4. CASE ReplyEnds(c) \/ PeerLeaves(c)
  <2>1. PICK y, place : y = Leave(x, place) /\ place = "error"
    OBVIOUS
  <2>2. conn' = [conn EXCEPT ![c] = y]
    BY <1>1, <1>2, <1>4, <2>1 DEF ReplyEnds, PeerLeaves
  <2>3. Left(c, x, y)
    BY <1>2, <2>1, LineLeaves
  <2>4. /\ Line(c, y)
        /\ x.hung = FALSE => y.got = x.got /\ y.sent = x.sent /\ y.up = x.up /\ y.replies = x.replies
    BY <2>3 DEF Left
  <2> QED  BY <1>1, <1>2, <2>2, <2>4, SameTalk
<1> QED  BY <1>3, <1>4

\* Before anything was sent nothing was decoded, and nothing is on the way.
LEMMA NothingSent ==
    ASSUME NEW B, NEW a \in Seq(B), NEW b \in Seq(B), a \o b = <<>>
    PROVE  a = <<>> /\ b = <<>>
BY ConcatProperties

LEMMA WriteTalk ==
    ASSUME ServiceInd, TalkInd, NEW c \in Connections, NEW bytes \in Seq(UpBytes(c)), Write(c, bytes)
    PROVE  TalkInd'
<1>1. PICK x : x = conn[c]
  OBVIOUS
<1>2. /\ conn = [b \in Connections |-> conn[b]] /\ IsConn(x) /\ x.at = "write" /\ x.hung \in BOOLEAN
      /\ Line(c, x) /\ forged' = forged
  BY <1>1 DEF ServiceInd, ConnInd, Write, TalkInd, OnlyConn
<1>3. CASE x.hung
  <2>1. PICK y, place : y = Leave(x, place) /\ place = "error"
    OBVIOUS
  <2>2. conn' = [conn EXCEPT ![c] = y]
    BY <1>1, <1>2, <1>3, <2>1 DEF Write
  <2>3. Left(c, x, y)
    BY <1>2, <2>1, LineLeaves
  <2>4. /\ Line(c, y)
        /\ x.hung = FALSE => y.got = x.got /\ y.sent = x.sent /\ y.up = x.up /\ y.replies = x.replies
    BY <2>3 DEF Left
  <2> QED  BY <1>1, <1>2, <2>2, <2>4, SameTalk
<1>4. CASE ~x.hung
  <2>1. PICK y : y = [x EXCEPT !.at = "recv", !.up = bytes, !.sent = bytes]
    OBVIOUS
  <2>2. conn' = [conn EXCEPT ![c] = y]
    BY <1>1, <1>2, <1>4, <2>1 DEF Write
  <2>3. /\ y.at = "recv" /\ y.got = x.got /\ y.sent = bytes /\ y.up = bytes
        /\ y.replies = x.replies /\ y.down = x.down /\ y.codec = x.codec
    BY <1>2, <2>1 DEF IsConn, ConnFields
  <2>4. PICK B, g : B = UpBytes(c) /\ g = Bytes(x.got)
    OBVIOUS
  <2>5. bytes \in Seq(B) /\ g \in Seq(B) /\ x.sent = <<>>
    <3>1. x.got \in Seq(UpFrames(c)) /\ x.sent = <<>>
      BY <1>2 DEF Line, LineTypes
    <3> QED  BY <2>4, <3>1, UpByteSet, BytesType
  <2>6. g = <<>>
    <3>1. PICK rest \in Seq(B) : g \o rest = <<>>
      BY <1>2, <2>4, <2>5 DEF Line, Prefixed
    <3> QED  BY <2>5, <3>1, NothingSent
  <2>7. <<>> \o bytes = bytes
    BY <2>5, ConcatEmptySeq
  <2>8. Line(c, y)
    <3>1. LineTypes(c, y)
      BY <1>2, <2>3 DEF Line, LineTypes
    <3>2. Prefixed(c, y)
      BY <2>3, <2>4, <2>6, <2>7 DEF Prefixed
    <3>3. Paired(y.replies, Asked(y.got))
      BY <1>2, <2>3 DEF Line
    <3> QED  BY <3>1, <3>2, <3>3, <2>3 DEF Line
  <2>9. ASSUME NEW d \in Daemons
        PROVE  HoldOK(c, forged[d], y)
    <3>1. HoldOK(c, forged[d], x)
      BY <1>1 DEF TalkInd
    <3>2. ASSUME forged[d].client = c
          PROVE  Serve(c, forged[d], y)
      <4>1. PICK buffer, v : buffer = v.codec.buffer /\ v = forged[d]
        OBVIOUS
      <4>2. Serve(c, v, x)
        BY <3>1, <3>2, <4>1 DEF HoldOK
      <4>3. buffer \in Seq(B) /\ x.up \in Seq(B) /\ g \o (buffer \o x.up) = <<>>
        BY <4>1, <4>2, <2>4, <2>5, <1>2 DEF Serve, Line, LineTypes
      <4>4. buffer \o x.up \in Seq(B)
        BY <4>3, ConcatProperties
      <4>5. buffer \o x.up = <<>>
        BY <4>3, <4>4, <2>5, NothingSent
      <4>6. buffer = <<>>
        BY <4>3, <4>5, NothingSent
      <4>7. Bytes(y.got) \o (buffer \o y.up) = y.sent
        BY <4>6, <2>3, <2>4, <2>6, <2>7
      <4>8. Replied(c, y, v.events)
        BY <4>2, <2>3 DEF Serve, Replied
      <4> QED  BY <4>1, <4>2, <4>7, <4>8 DEF Serve
    <3>3. Waits(c, forged[d]) => Fresh(y)
      BY <3>1, <2>3 DEF HoldOK, Fresh
    <3> QED  BY <3>2, <3>3 DEF HoldOK
  <2> QED  BY <1>1, <1>2, <2>2, <2>8, <2>9, ProgramTalk
<1> QED  BY <1>2, <1>3, <1>4

LEMMA WritesTalk ==
    ASSUME ServiceInd, TalkInd, NEW c \in Connections, WriteRequest(c) \/ PeerWrites(c)
    PROVE  TalkInd'
<1>1. CASE WriteRequest(c)
  <2>1. c \in Clients /\ Write(c, Bytes(Request))
    BY <1>1 DEF WriteRequest, Request
  <2>2. Bytes(Request) \in Seq(UpBytes(c))
    BY <2>1, WhatIsSent
  <2> QED  BY <2>1, <2>2, WriteTalk
<1>2. CASE PeerWrites(c)
  <2>1. PICK bytes \in PeerBytes : c \in Peers /\ Write(c, bytes)
    BY <1>2 DEF PeerWrites
  <2>2. bytes \in Seq(UpBytes(c))
    BY <2>1, WhatIsSent
  <2> QED  BY <2>1, <2>2, WriteTalk
<1> QED  BY <1>1, <1>2

\* One turn of the loop in status(): the only STATUS_EVENT it can meet.
LEMMA StatusTalk ==
    ASSUME NEW c \in Clients, IsConn(conn[c]), Line(c, conn[c]), conn[c].at \in {"recv", "decode"},
           NEW n \in 0..Len(conn[c].down), NEW data, data = SubSeq(conn[c].down, 1, n),
           NEW r, r = Feed(conn[c].codec, data), NEW fed, fed = StatusFeed(c, n, r)
    PROVE  /\ Line(c, fed)
           /\ conn[c].hung = FALSE => /\ fed.got = conn[c].got /\ fed.sent = conn[c].sent
                                      /\ fed.up = conn[c].up /\ fed.replies = conn[c].replies
<1>1. PICK x, B, F, codec : x = conn[c] /\ B = DownBytes(c) /\ F = DownFrames(c) /\ codec = x.codec
  OBVIOUS
<1>2. IsConn(x) /\ ByteSet(B, F) /\ x.down \in Seq(B) /\ codec.buffer \in Seq(B) /\ Line(c, x)
  BY <1>1, DownByteSet DEF Line, LineTypes
<1>3. PICK rest, stream : stream = x.down /\ rest = SubSeq(stream, n + 1, Len(stream))
  OBVIOUS
<1>4. Halves(B, stream, data, rest)
  BY <1>1, <1>2, <1>3, SplitAt
<1>5. data \in Seq(B) /\ rest \in Seq(B)
  BY <1>4 DEF Halves
<1>6. Takes(B, F, codec, data, r)
  BY <1>1, <1>2, <1>5, FeedTakes
<1>7. /\ r.state \in {"closed", "need_more", "frame"} /\ r.codec.buffer \in Seq(B)
      /\ r.state = "frame" => r.frame \in F
  BY <1>6 DEF Takes
<1>8. PICK place :
         place = CASE r.state = "closed"    -> "error"
                   [] r.state = "need_more" -> "recv"
                   [] r.state = "frame"     -> IF r.frame.type = "status_event" THEN "answered"
                                               ELSE IF r.codec.buffer = <<>> THEN "recv" ELSE "decode"
  OBVIOUS
<1>9. /\ place \in {"error", "recv", "decode", "answered"}
      /\ place = "answered" => r.state = "frame" /\ r.frame.type = "status_event"
  BY <1>7, <1>8
<1>10. PICK answer : answer = IF place = "answered" THEN r.frame ELSE None
  OBVIOUS
<1>11. PICK y : y = [x EXCEPT !.down = rest, !.codec = r.codec, !.answer = answer]
  OBVIOUS
<1>12. /\ IsConn(y) /\ y.at = x.at /\ y.hung = x.hung /\ y.got = x.got /\ y.sent = x.sent /\ y.up = x.up
       /\ y.replies = x.replies /\ y.down = rest /\ y.codec = r.codec /\ y.answer = answer
  BY <1>2, <1>11 DEF IsConn, ConnFields
<1>13. fed = Leave(y, place)
  BY <1>1, <1>3, <1>8, <1>10, <1>11 DEF StatusFeed
<1>14. y.at \in {"recv", "decode"}
  BY <1>1, <1>12
<1>15. Line(c, y)
  <2>1. LineTypes(c, y)
    BY <1>1, <1>2, <1>5, <1>7, <1>12 DEF Line, LineTypes
  <2>2. Prefixed(c, y) /\ Paired(y.replies, Asked(y.got))
    BY <1>2, <1>12 DEF Line, Prefixed
  <2> QED  BY <2>1, <2>2, <1>14 DEF Line
<1>16. place = "answered" => y.answer = StatusEvent(BuildRequest, "running")
  <2>1. ASSUME place = "answered"
        PROVE  r.frame = StatusEvent(BuildRequest, "running")
    <3>1. r.frame \in DownFrames(c) /\ r.frame.type = "status_event"
      BY <2>1, <1>1, <1>7, <1>9
    <3> QED  BY <3>1, OnlyStatus
  <2> QED  BY <2>1, <1>10, <1>12
<1>17. place \notin {"idle", "write"}
  BY <1>9
<1>18. Left(c, y, fed)
  BY <1>12, <1>13, <1>15, <1>16, <1>17, LineLeaves
<1>19. /\ Line(c, fed)
       /\ y.hung = FALSE => fed.got = y.got /\ fed.sent = y.sent /\ fed.up = y.up /\ fed.replies = y.replies
  BY <1>18 DEF Left
<1> QED  BY <1>1, <1>12, <1>19

LEMMA RepliesTalk ==
    ASSUME ServiceInd, TalkInd, NEW c \in Connections, ReceiveReply(c) \/ DecodeReply(c)
    PROVE  TalkInd'
<1>1. /\ c \in Clients /\ conn[c].at \in {"recv", "decode"} /\ forged' = forged
      /\ IsConn(conn[c]) /\ Line(c, conn[c])
  BY DEF ReceiveReply, DecodeReply, OnlyConn, ServiceInd, ConnInd, TalkInd
<1>2. PICK stream : stream = conn[c].down
  OBVIOUS
<1>3. stream \in Seq(DownBytes(c))
  BY <1>1, <1>2 DEF Line, LineTypes
<1>4. Len(stream) \in Nat /\ SubSeq(stream, 1, 0) = <<>>
  BY <1>3, Places0
<1>5. PICK n \in 0..Len(stream) : \E r \in {Feed(conn[c].codec, SubSeq(stream, 1, n))} :
                                     conn' = [conn EXCEPT ![c] = StatusFeed(c, n, r)]
  <2>1. CASE ReceiveReply(c)
    <3>1. PICK n \in 1..Len(stream) : \E r \in {Feed(conn[c].codec, SubSeq(stream, 1, n))} :
                                         conn' = [conn EXCEPT ![c] = StatusFeed(c, n, r)]
      BY <2>1, <1>2 DEF ReceiveReply
    <3>2. n \in 0..Len(stream)
      BY <3>1, <1>4
    <3> QED  BY <3>1, <3>2
  <2>2. CASE DecodeReply(c)
    <3>1. \E r \in {Feed(conn[c].codec, <<>>)} : conn' = [conn EXCEPT ![c] = StatusFeed(c, 0, r)]
      BY <2>2 DEF DecodeReply
    <3>2. 0 \in 0..Len(stream)
      BY <1>4
    <3> QED  BY <3>1, <3>2, <1>4
  <2> QED  BY <2>1, <2>2
<1>6. PICK data, r, fed : /\ data = SubSeq(stream, 1, n) /\ r = Feed(conn[c].codec, data)
                          /\ fed = StatusFeed(c, n, r) /\ conn' = [conn EXCEPT ![c] = fed]
  BY <1>5, Zenon
<1>7. /\ Line(c, fed)
      /\ conn[c].hung = FALSE => /\ fed.got = conn[c].got /\ fed.sent = conn[c].sent
                                 /\ fed.up = conn[c].up /\ fed.replies = conn[c].replies
  <2>1. data = SubSeq(conn[c].down, 1, n) /\ r = Feed(conn[c].codec, data) /\ fed = StatusFeed(c, n, r)
    BY <1>2, <1>6
  <2>2. n \in 0..Len(conn[c].down)
    BY <1>2, <1>5
  <2> QED  BY <1>1, <2>1, <2>2, StatusTalk
<1>8. conn' = [conn EXCEPT ![c] = fed]
  BY <1>6
<1> QED  BY <1>1, <1>7, <1>8, SameTalk

-----------------------------------------------------------------------------
LEMMA TalkStep ==
    ASSUME ServiceInd, TalkInd, [Next]_vars
    PROVE  TalkInd'
<1>1. ServiceInd'
  BY ServiceStep
<1>2. ASSUME NEW d \in Daemons, DaemonStep(d) \/ DaemonFault(d) \/ Owner(d)
      PROVE  TalkInd'
  <2>1. CASE \/ Launch(d) \/ StartRefused(d) \/ CreateFails(d) \/ Start(d) \/ Bind(d) \/ Listen(d)
             \/ StopUnlink(d) \/ AcceptFails(d) \/ RetryStart(d)
    BY <1>1, <2>1, LocalTalk
  <2>2. CASE BindFails(d) \/ ListenFails(d) \/ Exit(d) \/ RetryAfterStop(d)
    <3>1. \E ret : Stop(d, ret)
      BY <2>2 DEF BindFails, ListenFails, Exit, RetryAfterStop
    <3> QED  BY <1>1, <3>1, ClosingTalk
  <2>3. CASE Kill(d) \/ ReceiveEnd(d)
    <3>1. Kill(d) \/ ServeFails(d)
      BY <2>3 DEF ReceiveEnd
    <3> QED  BY <1>1, <3>1, ClosingTalk
  <2>4. CASE Accept(d)
    BY <2>4, AcceptTalk
  <2>5. CASE Receive(d) \/ FeedOn(d)
    BY <1>1, <2>5, FeedsTalk
  <2>6. CASE Respond(d)
    BY <1>1, <2>6, RespondTalk
  <2> QED  BY <1>2, <2>1, <2>2, <2>3, <2>4, <2>5, <2>6 DEF DaemonStep, DaemonFault, Owner
<1>3. ASSUME NEW c \in Connections, Connect(c) \/ ConnectFails(c) \/ ConnStep(c)
      PROVE  TalkInd'
  <2>1. CASE Connect(c)
    BY <2>1, ConnectTalk
  <2>2. CASE ConnectFails(c) \/ ReplyEnds(c) \/ PeerLeaves(c)
    BY <2>2, LeavingTalk
  <2>3. CASE WriteRequest(c) \/ PeerWrites(c)
    BY <2>3, WritesTalk
  <2>4. CASE ReceiveReply(c) \/ DecodeReply(c)
    BY <2>4, RepliesTalk
  <2> QED  BY <1>3, <2>1, <2>2, <2>3, <2>4 DEF ConnStep
<1>4. CASE UNCHANGED vars
  <2>1. forged' = forged /\ conn' = conn
    BY <1>4 DEF vars
  <2>2. \A c \in Connections : Line(c, conn'[c])
    BY <2>1 DEF TalkInd
  <2>3. \A d \in Daemons : \A c \in Connections : HoldOK(c, forged'[d], conn'[c])
    BY <2>1 DEF TalkInd
  <2> QED  BY <2>2, <2>3, TalkNext
<1> QED  BY <1>2, <1>3, <1>4 DEF Next

LEMMA FirstPart ==
    ASSUME NEW B, NEW a \in Seq(B), NEW b \in Seq(B)
    PROVE  IsPrefix(a, a \o b)
<1>1. PICK s : s = a \o b
  OBVIOUS
<1>2. /\ s \in Seq(B) /\ Len(s) = Len(a) + Len(b) /\ Len(a) \in Nat /\ Len(b) \in Nat
      /\ \A i \in 1..(Len(a) + Len(b)) : s[i] = IF i <= Len(a) THEN a[i] ELSE b[i - Len(a)]
  BY <1>1, ConcatProperties
<1>3. Len(a) <= Len(s) /\ \A i \in 1..Len(a) : s[i] = a[i]
  BY <1>2
<1>4. PICK t : t = SubSeq(s, 1, Len(a))
  OBVIOUS
<1>5. t \in Seq(B) /\ Len(t) = Len(a) /\ \A i \in 1..Len(a) : t[i] = s[i]
  BY <1>2, <1>3, <1>4
<1>6. t = a
  BY <1>3, <1>5, SeqEqual
<1> QED  BY <1>1, <1>3, <1>4, <1>6 DEF IsPrefix

LEMMA TalkImplies ==
    ASSUME TalkInd
    PROVE  RepliesMatch
<1>1. ASSUME NEW c \in Connections, NEW x, x = conn[c], NEW asked, asked = Asked(x.got)
      PROVE  /\ IsPrefix(Bytes(x.got), x.sent)
             /\ Len(x.replies) <= Len(asked)
             /\ \A i \in 1..Len(x.replies) :
                   x.replies[i] = IF asked[i].type = "hello" THEN Welcome(asked[i])
                                  ELSE StatusEvent(asked[i], "running")
             /\ \A i \in 1..(Len(x.replies) - 1) : x.replies[i].type = "welcome"
             /\ x.at = "answered" => x.answer = StatusEvent(BuildRequest, "running")
  <2>1. Line(c, x)
    BY <1>1 DEF TalkInd
  <2>2. IsPrefix(Bytes(x.got), x.sent)
    <3>1. PICK rest \in Seq(UpBytes(c)) : Bytes(x.got) \o rest = x.sent
      BY <2>1 DEF Line, Prefixed
    <3>2. x.got \in Seq(UpFrames(c))
      BY <2>1 DEF Line, LineTypes
    <3>3. Bytes(x.got) \in Seq(UpBytes(c))
      BY <3>2, UpByteSet, BytesType
    <3>4. IsPrefix(Bytes(x.got), Bytes(x.got) \o rest)
      BY <3>3, FirstPart
    <3> QED  BY <3>1, <3>4
  <2>3. Paired(x.replies, asked)
    BY <1>1, <2>1 DEF Line
  <2>4. Len(x.replies) \in Nat
    BY <2>1 DEF Line, LineTypes
  <2>5. \A i \in 1..(Len(x.replies) - 1) : x.replies[i].type = "welcome"
    <3>1. ASSUME NEW i \in 1..(Len(x.replies) - 1)
          PROVE  x.replies[i].type = "welcome"
      <4>1. i \in 1..Len(x.replies)
        BY <2>4
      <4>2. x.replies[i] = ReplyTo(asked[i]) /\ asked[i].type = "hello"
        BY <4>1, <2>3 DEF Paired
      <4> QED  BY <4>2, ReplyTypes
    <3> QED  BY <3>1
  <2>6. \A i \in 1..Len(x.replies) :
           x.replies[i] = IF asked[i].type = "hello" THEN Welcome(asked[i]) ELSE StatusEvent(asked[i], "running")
    BY <2>3 DEF Paired, ReplyTo
  <2>7. Len(x.replies) <= Len(asked)
    BY <2>3 DEF Paired
  <2>8. x.at = "answered" => x.answer = StatusEvent(BuildRequest, "running")
    BY <2>1 DEF Line
  <2> QED  BY <2>2, <2>5, <2>6, <2>7, <2>8
<1> QED  BY <1>1 DEF RepliesMatch

\* For any clients and peers, any bytes that a peer sends, however recv() and
\* the codec split them, and whenever a daemon fails, is stopped or killed: the
\* frames serve_once() decodes are the first of those that were sent, each
\* HELLO has its WELCOME in order, at most one STATUS_EVENT follows, which has
\* the token of the request, and status() returns the answer to its own.
THEOREM RepliesFollowRequests == Spec => []RepliesMatch
<1>1. Init => TalkInd
  BY TalkStarts
<1>2. ServiceInd /\ TalkInd /\ [Next]_vars => TalkInd'
  BY TalkStep
<1>3. TalkInd => RepliesMatch
  BY TalkImplies
<1> QED  BY <1>1, <1>2, <1>3, ServiceInvariant, PTL DEF Spec
=============================================================================
