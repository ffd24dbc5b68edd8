SPECIFICATION Spec
CONSTANTS
    h1 = h1
    h2 = h2
    i1 = i1
    e1 = e1
    e2 = e2
    Helpers = {h2}
    Relative = {}
    Pillar <- Pillars
    Instruments = {i1}
    Maturity <- Maturities
    WatchDate = {i1}
    Eagers = {e1}
    Watched <- Watching
    Dates = {1, 2, 3}
    Today = 1
    Values = {5}
    None = None
    Zero = Zero
    Failed = Failed
    EvaluationDate = EvaluationDate
    Curve = Curve
    Engine = Engine
INVARIANT CurveIsCurrent
