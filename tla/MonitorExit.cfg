SPECIFICATION FairSpec
CONSTANTS
    c1 = c1
    Conns <- OneClient
    Worlds <- CreatingWorld
    MaxSetups = 2
    MaxMoves = 2
    MaxLost = 1
    MaxFails = 1
PROPERTIES
    SignalEnds
\* The process ends.
CHECK_DEADLOCK FALSE
