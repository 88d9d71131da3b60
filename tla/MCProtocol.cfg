SPECIFICATION Spec
CONSTANTS
    Values <- MCValues
    After <- MCAfter
INVARIANTS
    RoundTrip
    TruncationRefused
