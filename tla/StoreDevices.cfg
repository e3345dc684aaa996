\* A vote from the phone and a later one from a second device.
CONSTANTS
    ann = ann
    bob = bob
    club = club
    yes = yes
    no = no
    Person <- MCPerson
    Group <- MCGroup
    Mapped <- MCMapped
    Option <- MCOption
    Events <- DeviceEvents
    Conversations <- None
    Calls <- None
    Outcome <- StoreWorks
    MaxCrashes = 0
    Horizon = 1
SPECIFICATION Spec
INVARIANTS
    VoteStands
CHECK_DEADLOCK FALSE
