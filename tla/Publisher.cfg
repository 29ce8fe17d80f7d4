SPECIFICATION Spec
CONSTANTS
    Groups = 2
    Rates = {1, 3}
    Wrap = 64
    Dates = {11}
    Jumps <- BackAndForth
    Busy = 1
    MaxClock = 24
    MaxEvents = 3
INVARIANTS
    TypeOK
    Prompt
PROPERTIES
    Quota
CHECK_DEADLOCK FALSE
