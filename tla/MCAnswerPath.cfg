SPECIFICATION Spec
CONSTANTS
    Second = 2
    MaxTTL = 4
    Message <- MCMessage
    Foreign <- MCForeign
    Netmask = {0, 24, 56, 128, 255}
    UdpSize = 1200
    Id = 5
    MaxTime = 12
INVARIANTS
    TypeOK
    AnswerSurvives
    TTLIsWhatIsLeft
    CachedUntilFirstExpiry
    
