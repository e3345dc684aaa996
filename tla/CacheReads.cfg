\* Pages of one or two rows, contexts of one or two, batches of two at most, one
\* request open at a time, and two rows that come without one.
CONSTANTS
    Chat <- MCChat
    NamesOf <- MCNamesOf
    Histories <- MCHistories
    Filter <- MCFilter
    DefaultLimit = 1
    MaxLimit = 2
    DefaultContext = 1
    DefaultCount = 2
    Asked <- MCAsked
    MaxRequests = 1
    MaxHeard = 2
SPECIFICATION Spec
INVARIANTS
    TypeOK
    PagingSkipsNothing
    ContextIsAround
    WalkLeavesNoHole
CHECK_DEADLOCK FALSE
