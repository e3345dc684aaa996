\* Up to two calls, and the effects of others between them, before the call under
\* examination and those that repeat or undo it.
CONSTANTS
    home = home
    other = other
    hello = hello
    bye = bye
    Group <- MCGroup
    HomeGroup = home
    Text <- MCText
    Incoming <- MCIncoming
    MaxLinks = 3
    MaxSent = 2
    MaxAsked = 2
    MaxCalls = 2
SYMMETRY TextSymmetry
SPECIFICATION Spec
INVARIANTS
    TypeOK
    HintsAreTrue
    RepeatsSettle
    UndoneAsPromised
CHECK_DEADLOCK FALSE
