SPECIFICATION FairTrackedSpec
CONSTANTS
    Second = 1
    MaxTTL = 4
    Handler = {h1, h2}
    Request <- MCRequest
    Upstream = {"u1"}
    Reply <- MCReply
    FreshId = {100}
    Lists <- MCLists
    Tries = 1
    TCPOnly = TRUE
    Tracking = TRUE
    Line = {1, 2}
    Capacity = 1
    FlushLen = 2
    MaxEntries = 3
INVARIANTS
    LogTypeOK
    LogIsExact
    BufferIsBounded
PROPERTIES
    ImplementsTracker
    EntriesAreWritten
    RequestsAreAnswered
