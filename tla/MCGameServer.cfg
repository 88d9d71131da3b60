SPECIFICATION Spec
CONSTANTS
    c1 = c1
    c2 = c2
    p1 = p1
    p2 = p2
    m1 = m1
    m2 = m2
    Channels <- MCChannels
    Players <- MCPlayers
    Maps <- MCMaps
    DefaultMap = m1
    MaxHp = 1
    None = None
    DbThreads = 2
    HaveDao = TRUE
    HaveRedis = FALSE
    LoginRequests <- Once
    StrandBound = 1
SYMMETRY Symmetry
INVARIANTS
    TypeOK
    SessionOnlyOpen
    EntityOwned
    LogoutIsLast
    SavedOrRecorded
    LogoutDurable
    NoOrphanEntity
CHECK_DEADLOCK FALSE
