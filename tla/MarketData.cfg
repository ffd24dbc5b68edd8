SPECIFICATION Spec
CONSTANTS
    EUR = EUR
    FRF = FRF
    USD = USD
    GBP = GBP
    Currencies = {EUR, FRF, USD, GBP}
    NoLink = NoLink
    Link <- Triangulation
    KnownRates <- Known
    Quotations <- Quoted
    MaxRates = 4
    Names = {n1}
    Swaps = {s1, s2}
    NameOf <- Named
    FixingDates <- Fixed
    Dates = {1, 2, 3}
    Holidays = {2}
    Values = {v1, v2}
    Levels = {l1}
    Observables = {o1, o2, o3}
    None = None
    Failed = Failed
    MayClear = FALSE
    MayEnforceLate = FALSE
SYMMETRY Symmetric
INVARIANTS
    SwapIsCurrent
    AddsWhatItCan
    LookupComplete
    RatesConvert
