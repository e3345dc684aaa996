\* Two sends, of them one to a non-contact, per three-tick hour, floors of one
\* and two ticks, and one lookup per minute of one tick; the clock runs long enough
\* for each window to fill, empty and fill again.
CONSTANTS
    MinSendInterval = 1
    MaxSendsPerHour = 2
    NonContactMinInterval = 2
    NonContactMaxPerHour = 1
    MaxUsyncPerMinute = 1
    Hour = 3
    Minute = 1
    Horizon = 5
SPECIFICATION RSpec
INVARIANTS
    TypeOK
    DecisionExact
    RetryAfterIsNecessary
    Promises
PROPERTY
    ImplementsSendBudget
