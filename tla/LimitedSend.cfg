\* Three concurrent calls to a group and to a person by LID, who may write to us
\* under the LID or the number; two sends and one cold send per two-tick hour, up
\* to a tick from the admission to the wire.
CONSTANTS
    c1 = c1
    c2 = c2
    c3 = c3
    family = family
    number = number
    lid = lid
    Call <- MCCall
    Recipient <- MCRecipient
    Group <- MCGroup
    NumberOf <- MCNumberOf
    Asked <- MixedCalls
    StoreOutcome <- StoreMayFail
    MaxDelay = 1
    MinSendInterval = 0
    MaxSendsPerHour = 2
    NonContactMinInterval = 0
    NonContactMaxPerHour = 1
    MaxUsyncPerMinute = 1
    Hour = 2
    Minute = 1
    Horizon = 4
SYMMETRY CallSymmetry
SPECIFICATION LSpec
INVARIANTS
    OTypeOK
    WireIsAccountedFor
    CapsReachTheWire
PROPERTIES
    ImplementsOutboundSend
CHECK_DEADLOCK FALSE
