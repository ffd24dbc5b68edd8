---------------------------- MODULE MCSchedule ----------------------------
(* Small instances of Schedule for TLC.                                    *)
EXTENDS Schedule

\* September 2011, which begins on a Thursday, to May 2013.
Window == <<30, 31, 30, 31, 31, 29, 31, 30, 31, 30, 31, 31, 30, 31, 30, 31, 31, 28, 31, 30, 31>>

On(day, m) == Before[m + 4] + day   \* of month m of 2012

Ask(effectives, terminations, tenors, conventions, finals, rules, eoms, firsts, nexts) ==
    [effective : effectives, termination : terminations, tenor : tenors,
     convention : conventions, terminationConvention : finals, rule : rules,
     endOfMonth : eoms, first : firsts, nextToLast : nexts]

\* By months: ends of months long and short, weekends, stubs at both ends.
Monthly ==
    Ask({On(31, 1), On(16, 2)}, {On(29, 6), On(30, 6), On(1, 7)}, {Period(1, "Months")},
        {"Unadjusted", "Following", "ModifiedFollowing"},
        {"Unadjusted", "Following", "ModifiedFollowing"},
        {"Backward", "Forward"}, BOOLEAN, {NoDate, On(15, 3)}, {NoDate, On(15, 5), On(30, 6)})
\* By days and weeks, with dates that fall together on a weekend.
Daily ==
    Ask({On(10, 2), On(11, 2)}, {On(18, 2), On(19, 2), On(20, 2)},
        {Period(1, "Days"), Period(2, "Days"), Period(1, "Weeks"), Period(0, "Days")},
        {"Unadjusted", "Following", "Preceding"}, {"Unadjusted", "Nearest"},
        {"Zero", "Backward", "Forward"}, {FALSE}, {NoDate, On(13, 2)}, {NoDate, On(11, 2)})
\* The twentieth, the third Wednesday, and what the constructor refuses.
Twentieths ==
    Ask({On(1, 2), On(20, 3)}, {On(18, 6), On(20, 6)},
        {Period(1, "Months"), Period(3, "Months"), Period(4, "Weeks")},
        {"Unadjusted", "Following"}, {"Unadjusted", "ModifiedPreceding"},
        {"Twentieth", "TwentiethIMM", "OldCDS", "CDS", "ThirdWednesday"}, BOOLEAN,
        {NoDate, On(21, 3)}, {NoDate, On(16, 5)})
\* An end date that is not adjusted, with a month's end before it that is.
Overtaken ==
    Ask({On(31, 1), On(16, 2)}, {On(29, 6), On(30, 6), On(1, 7)}, {Period(1, "Months")},
        {"Following"}, {"Unadjusted"}, {"Backward", "Forward"}, {FALSE}, {NoDate}, {NoDate, On(30, 6)})
Reqs == Monthly \cup Daily \cup Twentieths
CutDates == {On(15, 2), On(1, 5)}
\* A Friday at the end of March, a Sunday at the start of April.
Marks == {On(30, 3), On(1, 4)}
ProbeDates == On(20, 2)..On(20, 4)
=============================================================================
