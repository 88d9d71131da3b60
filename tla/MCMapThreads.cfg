CONSTANTS
    Maps <- MCMaps
    Channels = {c1}
    MaxMonsters = 1
    SpawnBatch = 3
    MaxOps = 2
SPECIFICATION FairSpec
INVARIANTS
    MonsterCap
    NoUseAfterErase
    TableAgrees
    ChatOrder
PROPERTIES
    ChatReachesMaps
    StopEnds
