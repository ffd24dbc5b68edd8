SPECIFICATION Spec
CONSTANTS
    MonthLengths <- Window
    FirstMonth = 9
    FirstWeekday = 5
    Markable <- Marks
    Requests <- Overtaken
    Cuts <- CutDates
    Probes <- ProbeDates
    NoDate = NoDate
INVARIANT
    OneTenor
