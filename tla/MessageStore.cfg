\* Events in any order and again, a history and a poll of ours, with writes that
\* may fail and a crash.
CONSTANTS
    ann = ann
    bob = bob
    club = club
    yes = yes
    no = no
    Person <- MCPerson
    Group <- MCGroup
    Mapped <- MCMapped
    Option <- MCOption
    Events <- MixedEvents
    Conversations <- MixedConversations
    Calls <- MixedCalls
    Outcome <- StoreMayFail
    MaxCrashes = 1
    Horizon = 1
SPECIFICATION Spec
INVARIANTS
    TypeOK
    VoteStands
    NoVoterIsLockedOut
    PollStaysTallied
    OneChatPerPerson
CHECK_DEADLOCK FALSE
