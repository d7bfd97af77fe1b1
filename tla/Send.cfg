\* Two inputs, two clients whose identifiers collide in the table, numbers
\* that wrap around; the run ends when all events are delivered.
CONSTANTS
    RTP_MAX_PEERS = 3
    Addrs = {a1, a2}
    Ssrcs = {1, 4}
    NULL = NULL
    Inputs = {i1, i2}
    Events <- MCEvents
    Lists <- MCLists
    SeqMod = 3
    Leavers = {1}
    OwnSsrc = 70000
    MaxEvents = 3
    RX = RX
    Cpus = {k1, k2}
    Machines <- LockedOut
SPECIFICATION FairSpec
INVARIANTS TypeOK NumberedFromOne PayloadRoundTrips
PROPERTIES SendingIsBroadcast EveryNoteIsSent
CHECK_DEADLOCK FALSE
