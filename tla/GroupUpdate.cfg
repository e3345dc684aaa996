\* Lists of one or two addresses of two people, any group, any replies, a request
\* that fails or whose answer is lost, and one change by others meanwhile.
CONSTANTS
    me = me
    ann = ann
    bob = bob
    Person <- MCPerson
    Self = me
    Action <- MCAction
    Wish <- MCWish
    Facts <- MCFacts
    MaxChanges = 1
SYMMETRY OthersSymmetry
SPECIFICATION Spec
INVARIANTS
    TypeOK
    ReportIsTrue
    InvitesArePaidAndTheirs
CHECK_DEADLOCK FALSE
