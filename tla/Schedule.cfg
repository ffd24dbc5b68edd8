SPECIFICATION Spec
CONSTANTS
    MonthLengths <- Window
    FirstMonth = 9
    FirstWeekday = 5
    Markable <- Marks
    Requests <- Reqs
    Cuts <- CutDates
    Probes <- ProbeDates
    NoDate = NoDate
INVARIANTS
    PeriodsFollow
    RegularPeriods
    AdjustInOrder
    AdvanceCounts
    LessIsSound
PROPERTIES
    SpansTerm
