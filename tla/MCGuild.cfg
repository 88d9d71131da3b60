SPECIFICATION Spec
CONSTANTS
    c1 = c1
    c2 = c2
    c3 = c3
    Channels <- MCChannels
    MaxGuilds = 5
INVARIANTS
    TypeOK
    Agreement
    NoEmptyGuild
PROPERTIES
    IdsNotReused
CHECK_DEADLOCK FALSE
