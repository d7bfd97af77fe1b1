CONSTANTS
    RTP_MAX_PEERS = 3
    Addrs = {a1, a2}
    Ssrcs = {1, 4}
    NULL = NULL
    Losable = {"IN", "OK", "CK"}
    Retry = {"control"}
    Leavers = {1, 4}
    Initiators = {1}
SPECIFICATION Spec
SYMMETRY MCSymmetry
INVARIANTS TypeOK TableOwnsPeers SessionsAgree
PROPERTY DanglesOnlyByLeaving
