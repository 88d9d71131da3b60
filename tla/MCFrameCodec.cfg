CONSTANTS
    Cmds <- MCCmds
    Payloads <- MCPayloads
    Noise <- MCNoise
    crc32 <- MCcrc32
    MaxFrameBytes = 20
    MaxFrames = 2
SPECIFICATION Spec
INVARIANTS
    CutsInvisible
    DamageContained
    HeaderUnprotected
    BufferBounded
CHECK_DEADLOCK FALSE
