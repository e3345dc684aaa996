\* Polls during a revocation, pairings, a reset and a restart; sessions may end
\* early and codes may run out.
CONSTANTS
    MaxRevokes = 1
    MaxResets = 1
    MaxRestarts = 1
    MaxCodes = 2
    MaxChannels = 4
    DialFails = TRUE
    CodesRunOut = TRUE
    EarlyEnd = TRUE
SPECIFICATION StatusSpec
INVARIANT
    ReadyIsTrue
CHECK_DEADLOCK FALSE
