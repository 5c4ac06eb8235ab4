SPECIFICATION CachedSpec
CONSTANTS
    Second = 1
    MaxTTL = 4
    Handler = {h1}
    Request <- MCRequest
    Upstream = {"u1", "u2"}
    Reply <- MCReply
    FreshId = {100}
    Lists <- MCLists
    Tries = 2
    TCPOnly = FALSE
    Tracking = TRUE
INVARIANT
    AdsAreDenied
