SPECIFICATION Spec
CONSTANTS
    p1 = p1
    p2 = p2
    i1 = i1
    i2 = i2
    Proc = {p1, p2}
    Item = {i1, i2}
    Faults = {"docker", "git", "capture", "crash"}
    MaxWrites = 4
SYMMETRY Symm
INVARIANT UntrackedSurvives
INVARIANT DiffSurvivesAlone
INVARIANT OutputFresh
INVARIANT BundleComplete
