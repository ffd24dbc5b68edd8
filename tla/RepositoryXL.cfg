SPECIFICATION SpecXL
CONSTANTS
    a = a
    b = b
    IDs = {a, b}
    Wrappers = {w1, w2, w3}
    Args = {1}
    None = None
    Below <- Layers
    Permanents = {a}
    MayDeleteUsed = FALSE
    Cells = {c1, c2}
    Ranges = {r1, r2, r3}
    VBA = VBA
SYMMETRY Symmetric
INVARIANTS
    NamesResolve
    ResidesWhereStored
    ResidentsAreStored
    OrphansCollected
PROPERTIES
    OnlyOrphansCollected
