SPECIFICATION Spec
CONSTANTS
    worker = worker
    other = other
    o1 = o1
    o2 = o2
    h1 = h1
    h2 = h2
    None = None
    Threads = {worker, other}
    Observers = {o1, o2}
    Observables = {h1, h2}
    Operations <- Collecting
    MayWatch <- Layers
    Forward <- Forwards
    MaxConnections = 2
    MayThrow = TRUE
    MayDropSome = FALSE
INVARIANTS
    UpdatesLiveObjects
    NoDeadlock
    NoLostDeferral
    RegistrationsAgree
