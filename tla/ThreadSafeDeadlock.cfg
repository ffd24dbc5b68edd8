SPECIFICATION Spec
CONSTANTS
    worker = worker
    other = other
    o1 = o1
    o2 = o2
    h1 = h1
    h2 = h2
    None = None
    Threads = {worker, other}
    Observers = {o1}
    Observables = {h1, h2}
    Operations <- Switching
    MayWatch <- Layers
    Forward <- Forwards
    MaxConnections = 2
    MayThrow = FALSE
    MayDropSome = TRUE
INVARIANT NoDeadlock
