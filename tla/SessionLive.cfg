CONSTANTS
    RTP_MAX_PEERS = 3
    Addrs = {a1, a2, a3}
    Ssrcs = {1, 4}
    NULL = NULL
    Losable = {}
    Retry = {}
    Leavers = {}
    Initiators = {}
SPECIFICATION FairSpec
PROPERTY CyclesThroughAllPeers
