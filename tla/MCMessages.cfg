CONSTANTS
    Nil = Nil
    Masked = Masked
    Edited = Edited
    Me = Me
    Peer = Peer
    Nonces = {c1, c2}
    TextOf <- MCTextOf
    t1 = t1
    PageSize = 2
    InitRows = 3
    MaxRows = 5
    MaxOps = 3
    MaxRetries = 1
    MAX_RESYNC_PAGES = 2
    OpeningOps = 2
SYMMETRY NonceSymmetry
SPECIFICATION MCSpec
CHECK_DEADLOCK FALSE
INVARIANTS
    TypeOK
    NoGap
    NoTwin
    SendingIsWatched
    RestInsertsOnce
PROPERTIES
    ConfirmedStays
