SPECIFICATION Spec
CONSTANTS
    d1 = d1
    d2 = d2
    Domain <- MCDomain
    Width <- MCWidth
    BufSize = 8
    Updater = {u1, u2}
    Nobody = nobody
    Feed <- MCFeed
    Keep = 1
    MaxNumber <- MCMaxNumber
SYMMETRY Symmetry
INVARIANTS
    TypeOK
    PublishedListIsComplete
PROPERTIES
    ImplementsDirectory
    NewestAreKept
