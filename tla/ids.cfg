SPECIFICATION Spec
CONSTANTS
    p1 = p1
    p2 = p2
    p3 = p3
    None = None
    Proc = {p1, p2}
    AliasLength = 60
    InitialCounters = {995, 997}
    InitialDirs = {996, 998}
    HandMade = {999}
    MaxCounter = 1000
SYMMETRY Symm
INVARIANTS
    IssuedIncreasing
    OwnDirectory
