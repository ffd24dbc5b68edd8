SPECIFICATION Spec
CONSTANTS
    Observers = {o1, o2, o3}
    Observables = {h1, h2}
    MayDowngrade = FALSE
    MayDropSome = FALSE
    MayDestroyInEnable = FALSE
SYMMETRY Symmetric
INVARIANTS
    TypeOK
    RegistrationsAgree
    NoUnregisteredUpdate
    NoLostDeferral
    EveryoneReached
