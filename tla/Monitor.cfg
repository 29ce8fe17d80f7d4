SPECIFICATION FairSpec
CONSTANTS
    c1 = c1
    Conns <- OneClient
    Worlds <- BothWorlds
    MaxSetups = 2
    MaxMoves = 2
    MaxLost = 1
    MaxFails = 1
INVARIANTS
    TypeOK
    RunningAsTold
    ListensAsTold
    CrashNeedsMove
PROPERTIES
    CalmSignalEnds
    CalmSetupTakesEffect
    CalmReconnects
    RequestsAnswered
    RestartHonoured
\* The process ends.
CHECK_DEADLOCK FALSE
