SPECIFICATION SpecS
CONSTANTS
    a = a
    b = b
    c = c
    IDs = {a, b, c}
    Wrappers = {w1, w2, w3}
    Args = {1, 2}
    None = None
    Below <- Layers
    Permanents = {a}
    MayDeleteUsed = FALSE
    Saves <- Pairs
    Generated = {a, b, c}
SYMMETRY Symmetric
INVARIANTS
    TypeOK
    ObservesPrecedents
    CleanIsCurrent
    NoHiddenWrapper
PROPERTIES
    ImplementsStore
    LoadRestores
