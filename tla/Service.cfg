SPECIFICATION FairSpec
CONSTANTS
    c1 = c1
    c2 = c2
    null = null
    Commands <- CommandLines
    Conns <- Two
    Callers <- Two
    Main = main
    Nobody = nobody
    NoValue = null
    Plans <- ThreePlans
INVARIANTS
    TypeOK
    RightHandler
    NoFreedUse
    WholeRequest
    StatusAgrees
    AckedShown
    CrashNeedsReject
PROPERTIES
    ArgumentsEnd
    Answered
    Stops
\* The process ends.
CHECK_DEADLOCK FALSE
