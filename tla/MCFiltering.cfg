SPECIFICATION FairSpec
CONSTANTS
    Domain = {d1}
    Width <- MCWidth
    BufSize = 3
    Main = main
    Reloader = {g1}
    Handler = {h1, h2}
    Content <- MCContent
    Answers <- OneRecord
    MaxNumber <- MCMaxNumber
    DiskFails = TRUE
INVARIANTS
    TypeOK
    LookupIsAtomic
    DeniedStaysDenied
    WhitelistedStaysResolved
PROPERTIES
    ImplementsAnswerFilter
    RereadEnds
    AnswerEnds
