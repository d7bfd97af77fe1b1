\* Every call may fail; one client is invited up to three times, once more than the
\* table has room.  After a fault or a race the driver is not loaded again.
\* The clock has rates with and without the factors of NSEC_PER_SEC, and the default;
\* with 999 the product of the late times exceeds U64.
CONSTANTS
    RTP_MAX_PEERS = 2
    Addrs = {a1, a2, a3}
    Ssrcs = {3}
    NULL = NULL
    MayFail <- MCCalls
    MaxInvitations = 3
    U32 = 1024
    NSEC_PER_SEC = 1000
    Rates = {0, 1, 2, 3, 7, 8, 10, 14, 15, 40, 64, 90, 100, 125, 999, 1000}
    Times <- MCTimes
SPECIFICATION FairSpec
INVARIANTS TypeOK OnlyClockAndTimerStay SessionOutlivesUsers ClockKeepsTime
PROPERTIES OnlyKnownFaults UnloadEnds
CHECK_DEADLOCK FALSE
