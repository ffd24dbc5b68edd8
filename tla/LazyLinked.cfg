SPECIFICATION FairSpec
CONSTANTS
    q1 = q1
    A = A
    B = B
    C = C
    h1 = h1
    e1 = e1
    Quotes = {q1}
    Lazies = {A, C}
    Links = {h1}
    Eagers = {e1}
    Values = {1, 2}
    Null = Null
    Graphs <- Linked
    Targets = {q1, A}
    Unread = Unread
    Failed = Failed
INVARIANTS
    CachedIsCurrent
PROPERTIES
    CallsEnd
