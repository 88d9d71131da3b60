SPECIFICATION FairSpec
CONSTANTS
    c1 = c1
    c2 = c2
    p1 = p1
    p2 = p2
    m1 = m1
    m2 = m2
    Channels <- MCChannels
    Players <- MCPlayers
    Maps <- OneMap
    DefaultMap = m1
    MaxHp = 1
    None = None
    DbThreads = 1
    HaveDao = TRUE
    HaveRedis = TRUE
    LoginRequests <- AgainOnFirst
    StrandBound = 1
INVARIANTS
    SavesOwnCharacter
PROPERTIES
    LogoutSettles
CHECK_DEADLOCK FALSE
