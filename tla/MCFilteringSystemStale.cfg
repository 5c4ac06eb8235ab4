SPECIFICATION SystemSpec
CONSTANTS
    d1 = d1
    Domain <- MCDomain
    Width <- MCWidth
    BufSize = 8
    Main = main
    Reloader = {g1, g2}
    Handler = {}
    Content <- MCContent
    Answers = {}
    MaxNumber <- MCMaxNumber
    DiskFails = FALSE
    Updater = {u1}
    Nobody = nobody
    Feed <- MCFeed
    Keep = 3
INVARIANT
    LargestNumberIsUsed
