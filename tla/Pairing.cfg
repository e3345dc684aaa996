\* Two revocations, a reset and a restart in any order, with a network that
\* may fail and codes that may run out; sessions do not end early.
CONSTANTS
    MaxRevokes = 2
    MaxResets = 1
    MaxRestarts = 1
    MaxCodes = 2
    MaxChannels = 5
    DialFails = TRUE
    CodesRunOut = TRUE
    EarlyEnd = FALSE
SPECIFICATION Spec
INVARIANTS
    TypeOK
    PairedIsTrue
    PairingIsHeard
    RevocationIsHeard
    CacheIsCurrent
CHECK_DEADLOCK FALSE
