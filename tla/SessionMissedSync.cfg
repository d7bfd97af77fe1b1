CONSTANTS
    RTP_MAX_PEERS = 2
    Addrs = {a1, a2, a3}
    Ssrcs = {1}
    NULL = NULL
    Losable = {"CK"}
    Retry = {}
    Leavers = {}
    Initiators = {}
SPECIFICATION FairSpec
PROPERTY MissedSyncIsRetried
