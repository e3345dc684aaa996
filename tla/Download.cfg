\* Two callers that download two messages again and again, every failing step, and one crash
\* or one change of an output file by the user.
CONSTANTS
    c1 = c1
    c2 = c2
    m1 = m1
    m2 = m2
    near = near
    far = far
    None = None
    Call <- MCCall
    Msg <- MCMsg
    Output <- MCOutput
    Abroad <- MCAbroad
    MaxTrouble = 1
SYMMETRY DownloadSymmetry
SPECIFICATION Spec
INVARIANTS
    TypeOK
    ReadBackIsTheirs
    DiskIsSound
PROPERTIES
    ImplementsMediaFile
    OutputIsKept
CHECK_DEADLOCK FALSE
