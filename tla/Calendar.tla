----------------------------- MODULE Calendar -----------------------------
(***************************************************************************)
(* Date arithmetic and business days: QuantLib/ql/time/date.cpp,           *)
(* period.cpp, calendar.hpp and calendar.cpp, for a market that is closed  *)
(* on weekends, and whose holidays clients may add and remove.             *)
(*                                                                         *)
(* A date is its serial number, counted from the first day of a window of  *)
(* whole months of the real calendar: MonthLengths, FirstMonth and         *)
(* FirstWeekday say which.                                                 *)
(***************************************************************************)
EXTENDS Integers, Sequences, FiniteSets, FiniteSetsExt

CONSTANTS
    MonthLengths, \* of the months of the window
    FirstMonth,   \* the first of them, 1 to 12
    FirstWeekday, \* of the first day, 1 (Sunday) to 7
    Markable      \* the dates clients add to or remove from the holidays

VARIABLES
    addedHolidays,  \* Calendar::Impl::addedHolidays
    removedHolidays \* Calendar::Impl::removedHolidays

calendar == <<addedHolidays, removedHolidays>>

-----------------------------------------------------------------------------
(* Dates.                                                                  *)

Months == 1..Len(MonthLengths)
\* The number of days before month k of the window.
Before[k \in 1..Len(MonthLengths) + 1] ==
    IF k = 1 THEN 0 ELSE Before[k - 1] + MonthLengths[k - 1]
Dates == 1..Before[Len(MonthLengths) + 1]

MonthOf == [d \in Dates |-> CHOOSE k \in Months : Before[k] < d /\ d <= Before[k + 1]]
dayOfMonth == [d \in Dates |-> d - Before[MonthOf[d]]]
\* The number of month k in its year.
month(k) == ((k + FirstMonth - 2) % 12) + 1
weekday(d) == ((d + FirstWeekday - 2) % 7) + 1
DateAt(day, k) == Before[k] + day

EndOfMonth(d) == Before[MonthOf[d] + 1]

\* Date::advance by months: the day is cut to the length of the month.
AddMonths(d, n) ==
    LET k == MonthOf[d] + n
    IN  DateAt(IF dayOfMonth[d] > MonthLengths[k] THEN MonthLengths[k] ELSE dayOfMonth[d], k)

\* Date::advance
Advance(d, n, unit) ==
    CASE unit = "Days" -> d + n
      [] unit = "Weeks" -> d + 7 * n
      [] unit = "Months" -> AddMonths(d, n)
      [] unit = "Years" -> AddMonths(d, 12 * n)

-----------------------------------------------------------------------------
(* Periods.                                                                *)

Period(n, unit) == [length |-> n, unit |-> unit]

daysMinMax(p) ==
    CASE p.unit = "Days" -> <<p.length, p.length>>
      [] p.unit = "Weeks" -> <<7 * p.length, 7 * p.length>>
      [] p.unit = "Months" -> <<28 * p.length, 31 * p.length>>
      [] p.unit = "Years" -> <<365 * p.length, 366 * p.length>>

\* Mutant: four weeks make a month.
LessByMonthsOf28(p, q) ==
    IF daysMinMax(p)[1] < daysMinMax(q)[1] THEN "yes" ELSE "no"

\* operator<: "yes", "no", or an exception if it cannot be decided.
Less(p, q) ==
    LET exact == [Days |-> 1, Weeks |-> 7, Months |-> 1, Years |-> 12]
        Small(u) == u \in {"Days", "Weeks"}
        YesNo(b) == IF b THEN "yes" ELSE "no"
    IN  IF p.length = 0 \/ q.length = 0 THEN YesNo(p.length < q.length)
        ELSE IF Small(p.unit) = Small(q.unit)
             THEN YesNo(exact[p.unit] * p.length < exact[q.unit] * q.length)
        ELSE IF daysMinMax(p)[2] < daysMinMax(q)[1] THEN "yes"
        ELSE IF daysMinMax(p)[1] > daysMinMax(q)[2] THEN "no" ELSE "undecidable"

-----------------------------------------------------------------------------
(* Business days, of a calendar: that of the market with the holidays      *)
(* clients changed, or the NullCalendar, which has no holiday.             *)

market == [weekends |-> TRUE, added |-> addedHolidays, removed |-> removedHolidays]
NullCalendar == [weekends |-> FALSE, added |-> {}, removed |-> {}]

isWeekend(d) == weekday(d) \in {1, 7}
\* Calendar::isBusinessDay
isBusinessDay(cal, d) ==
    d \notin cal.added /\ (d \in cal.removed \/ ~(cal.weekends /\ isWeekend(d)))
isHoliday(cal, d) == ~isBusinessDay(cal, d)

RECURSIVE Roll(_, _, _)
\* The loops while (isHoliday(d)) d++ and d--.
Roll(cal, d, step) == IF isHoliday(cal, d) THEN Roll(cal, d + step, step) ELSE d

RECURSIVE RollBoth(_, _, _)
RollBoth(cal, d1, d2) ==
    IF isHoliday(cal, d1) /\ isHoliday(cal, d2) THEN RollBoth(cal, d1 + 1, d2 - 1)
    ELSE IF isHoliday(cal, d1) THEN d2 ELSE d1

\* Mutant: the modified conventions do not look at the month.
AdjustAcross(cal, d, c) ==
    IF c = "Unadjusted" THEN d
    ELSE IF c \in {"Following", "ModifiedFollowing", "HalfMonthModifiedFollowing"} THEN Roll(cal, d, 1)
    ELSE IF c \in {"Preceding", "ModifiedPreceding"} THEN Roll(cal, d, -1)
    ELSE RollBoth(cal, d, d)

\* The convention's choice between the business days on either side of d.
Convene(d, c, next, previous) ==
    CASE c = "Following" -> next
      [] c = "ModifiedFollowing" -> IF MonthOf[next] # MonthOf[d] THEN previous ELSE next
      [] c = "HalfMonthModifiedFollowing" ->
            IF \/ MonthOf[next] # MonthOf[d]
               \/ dayOfMonth[d] <= 15 /\ dayOfMonth[next] > 15
            THEN previous ELSE next
      [] c = "Preceding" -> previous
      [] c = "ModifiedPreceding" -> IF MonthOf[previous] # MonthOf[d] THEN next ELSE previous

\* Calendar::adjust
adjust(cal, d, c) ==
    CASE c = "Unadjusted" -> d
      [] c = "Nearest" -> RollBoth(cal, d, d)
      [] OTHER -> Convene(d, c, Roll(cal, d, 1), Roll(cal, d, -1))

\* Calendar::isEndOfMonth, endOfMonth
isEndOfMonth(cal, d) == MonthOf[d] # MonthOf[adjust(cal, d + 1, "Following")]
endOfMonth(cal, d) == adjust(cal, EndOfMonth(d), "Preceding")

RECURSIVE AdvanceDays(_, _, _)
\* Calendar::advance by n business days.
AdvanceDays(cal, d, n) ==
    IF n = 0 THEN d
    ELSE IF n > 0 THEN AdvanceDays(cal, Roll(cal, d + 1, 1), n - 1)
    ELSE AdvanceDays(cal, Roll(cal, d - 1, -1), n + 1)

\* Calendar::advance
advance(cal, d, n, unit, c, eom) ==
    IF n = 0 THEN adjust(cal, d, c)
    ELSE IF unit = "Days" THEN AdvanceDays(cal, d, n)
    ELSE IF eom /\ unit \in {"Months", "Years"} /\ isEndOfMonth(cal, d)
         THEN endOfMonth(cal, Advance(d, n, unit))
    ELSE adjust(cal, Advance(d, n, unit), c)

\* Mutant: the last day is counted when it should not be.
CountBoth(cal, from, to, includeFirst, includeLast) ==
    LET low == IF from < to THEN from ELSE to
        high == IF from < to THEN to ELSE from
        wd == Cardinality({d \in low..high : isBusinessDay(cal, d)})
    IN  IF from = to THEN 0 ELSE IF from > to THEN -wd ELSE wd

\* Calendar::businessDaysBetween
businessDaysBetween(cal, from, to, includeFirst, includeLast) ==
    LET low == IF from < to THEN from ELSE to
        high == IF from < to THEN to ELSE from
        wd == Cardinality({d \in low..high : isBusinessDay(cal, d)})
              - (IF isBusinessDay(cal, from) /\ ~includeFirst THEN 1 ELSE 0)
              - (IF isBusinessDay(cal, to) /\ ~includeLast THEN 1 ELSE 0)
    IN  IF from = to THEN 0 ELSE IF from > to THEN -wd ELSE wd

-----------------------------------------------------------------------------
addHoliday(d) ==
    /\ removedHolidays' = removedHolidays \ {d}
    /\ addedHolidays' = IF isWeekend(d) THEN addedHolidays ELSE addedHolidays \cup {d}

removeHoliday(d) ==
    /\ addedHolidays' = addedHolidays \ {d}
    /\ removedHolidays' = IF isWeekend(d) THEN removedHolidays \cup {d} ELSE removedHolidays

InitCalendar == addedHolidays = {} /\ removedHolidays = {}
=============================================================================
