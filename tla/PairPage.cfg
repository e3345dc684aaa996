\* Two tabs and two forms under way.
CONSTANTS
    a = a
    b = b
    x = x
    y = y
    Tab <- MCTab
    Slot <- MCSlot
    Period = 5
    Cost <- MCCost
    Burst <- MCBurst
    RetryAfter <- MCRetryAfter
    MaxOpens = 3
SYMMETRY Interchange
SPECIFICATION Spec
INVARIANTS
    TypeOK
    LimitsAreFair
    FormsAreHonest
CHECK_DEADLOCK FALSE
