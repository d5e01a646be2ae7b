SPECIFICATION Spec
CONSTANTS
    kFrameHeaderSize = 2
    max_frame_bytes = 4
    max_single_allocation = 12
    Daemons = {d1, d2}
    Once = {d2}
    Clients = {c1}
    Peers = {p1}
    PeerBytes <- MCPeerBytes
    Backlog = 1
    MaxStarts = 2
    MaxFaults = 1
INVARIANTS
    DaemonInvariant
    NoOrphans
    RepliesMatch
PROPERTIES
    StatusReturns
CHECK_DEADLOCK FALSE
