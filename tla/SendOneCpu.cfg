\* As Send.cfg, on one CPU with processes only.
CONSTANTS
    RTP_MAX_PEERS = 3
    Addrs = {a1, a2}
    Ssrcs = {1, 4}
    NULL = NULL
    Inputs = {i1, i2}
    Events <- MCEvents
    Lists <- MCLists
    SeqMod = 3
    Leavers = {1}
    OwnSsrc = 70000
    MaxEvents = 3
    RX = RX
    Cpus = {k1}
    Machines <- OneCpu
SPECIFICATION Spec
INVARIANTS SendsToPeers
CHECK_DEADLOCK FALSE
