SPECIFICATION Spec
CONSTANTS
    Handler = {h1, h2}
    Query <- MCQuery
    Protocol = {"google", "ietf"}
    NoECS = FALSE
    Timeout = 2
    MaxTime = 4
INVARIANT
    NetworkErrorIsSilent
