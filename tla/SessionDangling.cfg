CONSTANTS
    RTP_MAX_PEERS = 2
    Addrs = {a1, a2, a3}
    Ssrcs = {1, 3}
    NULL = NULL
    Losable = {}
    Retry = {}
    Leavers = {1, 3}
    Initiators = {}
SPECIFICATION Spec
INVARIANT PeerPointerIsValid
