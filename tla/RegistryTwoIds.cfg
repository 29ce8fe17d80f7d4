SPECIFICATION Spec
CONSTANTS
    s1 = s1
    s2 = s2
    c1 = c1
    c2 = c2
    Sensors = {s1, s2}
    NGroups = 2
    Conns = {c1}
    Main = main
    Requests <- TwoIdRequests
INVARIANTS
    ListsResolve
