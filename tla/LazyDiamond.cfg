SPECIFICATION Spec
CONSTANTS
    q1 = q1
    A = A
    B = B
    C = C
    h1 = h1
    e1 = e1
    Quotes = {q1}
    Lazies = {A, B, C}
    Links = {}
    Eagers = {e1}
    Values = {1, 2}
    Null = Null
    Graphs <- Diamonds
    Targets = {}
    Unread = Unread
    Failed = Failed
INVARIANTS
    TypeOK
    CachedIsCurrent
    ViewIsCurrent
    FreezeSurvives
PROPERTIES
    FrozenKeepsResult
