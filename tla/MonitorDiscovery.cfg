SPECIFICATION FairSpec
CONSTANTS
    c1 = c1
    Conns <- OneClient
    Worlds <- SetupWorld
    MaxSetups = 2
    MaxMoves = 2
    MaxLost = 1
    MaxFails = 1
PROPERTIES
    SetupTakesEffect
\* The process ends.
CHECK_DEADLOCK FALSE
