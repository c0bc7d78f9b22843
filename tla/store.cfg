SPECIFICATION Spec
CONSTANTS
    p1 = p1
    p2 = p2
    p3 = p3
    None = None
    Proc = {p1, p2}
    MaxCount = 2
SYMMETRY Symm
INVARIANTS
    NeverTorn
    NoLostUpdate
PROPERTY UpdatesAreAtomic
