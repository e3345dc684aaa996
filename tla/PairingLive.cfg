\* A working network, a restart and a phone that revokes twice.
CONSTANTS
    MaxRevokes = 2
    MaxResets = 0
    MaxRestarts = 1
    MaxCodes = 2
    MaxChannels = 4
    DialFails = FALSE
    CodesRunOut = FALSE
    EarlyEnd = FALSE
SPECIFICATION FairSpec
PROPERTY
    RevokedShowsQR
CHECK_DEADLOCK FALSE
