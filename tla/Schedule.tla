----------------------------- MODULE Schedule -----------------------------
(***************************************************************************)
(* Payment schedules: QuantLib/ql/time/schedule.cpp, the rule-based        *)
(* constructor of Schedule and until(), on a calendar whose holidays may   *)
(* change between one schedule and the next.                               *)
(*                                                                         *)
(* A schedule is a sequence of dates and, for each period between two of   *)
(* them, whether it is regular.                                            *)
(***************************************************************************)
EXTENDS Calendar, SequencesExt

CONSTANTS
    Requests, \* the arguments clients build schedules from
    Cuts,     \* the dates at which they truncate them
    Probes,   \* the dates at which the calendar's answers are compared
    NoDate    \* the null date; no schedule

\* With rule Zero and end of month the code looks at a seed date it never set.
ASSUME RequestsAssumption == \A r \in Requests : r.rule = "Zero" => ~r.endOfMonth

VARIABLES
    request,  \* the arguments of the last schedule built, NoDate if none
    schedule  \* that schedule, NoDate if none was built or the constructor threw

vars == <<addedHolidays, removedHolidays, request, schedule>>

TwentiethRules == {"Twentieth", "TwentiethIMM", "OldCDS", "CDS"}
MainCycle == {"TwentiethIMM", "OldCDS", "CDS"}

-----------------------------------------------------------------------------
(* The twentieth of a month, of a quarter month for the rules that say so. *)

Twentieth(k) == DateAt(20, k)

nextTwentieth(d, rule) ==
    LET k == IF Twentieth(MonthOf[d]) < d THEN MonthOf[d] + 1 ELSE MonthOf[d]
        m == month(k) % 3
    IN  Twentieth(IF rule \in MainCycle /\ m # 0 THEN k + 3 - m ELSE k)

previousTwentieth(d, rule) ==
    LET k == IF Twentieth(MonthOf[d]) > d THEN MonthOf[d] - 1 ELSE MonthOf[d]
    IN  Twentieth(IF rule \in MainCycle THEN k - (month(k) % 3) ELSE k)

ThirdWednesday(d) ==
    CHOOSE x \in DateAt(15, MonthOf[d])..DateAt(21, MonthOf[d]) : weekday(x) = 4

-----------------------------------------------------------------------------
(* A schedule under construction: its dates, which periods are regular,    *)
(* and the date the steps are counted from.                                *)

Start(d) == [dates |-> <<d>>, isRegular |-> <<>>, seed |-> d]
Push(s, d, regular) ==
    [s EXCEPT !.dates = Append(@, d), !.isRegular = Append(@, regular)]
PushFront(s, d, regular) ==
    [s EXCEPT !.dates = <<d>> \o @, !.isRegular = <<regular>> \o @]

\* Two dates that fall together once adjusted.
Same(d, e, c) == adjust(market, d, c) = adjust(market, e, c)

\* nullCalendar.advance by n tenors.
Steps(a, eom, d, n) ==
    advance(NullCalendar, d, n * a.tenor.length, a.tenor.unit, a.convention, eom)

\* Mutant: dates that fall together are kept.
BackwardKeep(a, s, temp) == PushFront(s, temp, TRUE)

\* "skip dates that would result in duplicates after adjustment"
BackwardPush(a, s, temp) ==
    IF Same(s.dates[1], temp, a.convention) THEN s ELSE PushFront(s, temp, TRUE)

RECURSIVE BackwardLoop(_, _, _, _, _)
BackwardLoop(a, eom, exitDate, s, periods) ==
    LET temp == Steps(a, eom, s.seed, -periods)
    IN  IF temp < exitDate
        THEN IF a.first # NoDate /\ ~Same(s.dates[1], a.first, a.convention)
             THEN PushFront(s, a.first, FALSE) ELSE s
        ELSE BackwardLoop(a, eom, exitDate, BackwardPush(a, s, temp), periods + 1)

\* With a next-to-last date the steps are counted from there.
BackwardStart(a, eom, s) ==
    IF a.nextToLast = NoDate THEN s
    ELSE [PushFront(s, a.nextToLast, Steps(a, eom, s.seed, -1) = a.nextToLast)
          EXCEPT !.seed = a.nextToLast]

BackwardEnd(a, s) ==
    IF Same(s.dates[1], a.effective, a.convention) THEN s ELSE PushFront(s, a.effective, FALSE)

Backward(a, eom) ==
    BackwardEnd(a, BackwardLoop(a, eom, IF a.first = NoDate THEN a.effective ELSE a.first,
                                BackwardStart(a, eom, Start(a.termination)), 1))

RECURSIVE ForwardLoop(_, _, _, _, _)
ForwardLoop(a, eom, exitDate, s, periods) ==
    LET temp == Steps(a, eom, s.seed, periods)
    IN  IF temp > exitDate
        THEN IF a.nextToLast # NoDate /\ ~Same(Last(s.dates), a.nextToLast, a.convention)
             THEN Push(s, a.nextToLast, FALSE) ELSE s
        ELSE ForwardLoop(a, eom, exitDate,
                 IF Same(Last(s.dates), temp, a.convention) THEN s ELSE Push(s, temp, TRUE),
                 periods + 1)

\* The first twentieth after the effective date; for OldCDS a stub of less than
\* 30 days is joined to the next period.
FirstTwentieth(a) ==
    LET next == nextTwentieth(a.effective, a.rule)
    IN  IF a.rule = "OldCDS" /\ next - a.effective < 30 THEN nextTwentieth(next + 1, a.rule) ELSE next

\* With a first date, given or a twentieth, the steps are counted from there.
ForwardStart(a, eom, s) ==
    LET Stub(d, regular) == [Push(s, d, regular) EXCEPT !.seed = d]
    IN  IF a.first # NoDate THEN Stub(a.first, Steps(a, eom, s.seed, 1) = a.first)
        ELSE IF a.rule \in TwentiethRules /\ FirstTwentieth(a) # a.effective
             THEN Stub(FirstTwentieth(a), FALSE)
        ELSE s

ForwardEnd(a, s) ==
    IF Same(Last(s.dates), a.termination, a.terminationConvention) THEN s
    ELSE IF a.rule \in TwentiethRules
         THEN Push(s, nextTwentieth(a.termination, a.rule), TRUE)
    ELSE Push(s, a.termination, FALSE)

Forward(a, eom) ==
    LET start == IF a.rule = "CDS" THEN previousTwentieth(a.effective, "CDS") ELSE a.effective
    IN  ForwardEnd(a, ForwardLoop(a, eom, IF a.nextToLast = NoDate THEN a.termination ELSE a.nextToLast,
                                  ForwardStart(a, eom, Start(start)), 1))

-----------------------------------------------------------------------------
(* Adjustments.                                                            *)

Map(s, Middle(_), First(_), Final(_)) ==
    [s EXCEPT !.dates = [k \in DOMAIN @ |->
        IF k = 1 THEN First(@[k]) ELSE IF k = Len(@) THEN Final(@[k]) ELSE Middle(@[k])]]

Keep(d) == d

\* To the end of the month, when the steps are counted from one.
ToEndOfMonth(a, s) ==
    LET Month(d) == endOfMonth(market, d)
        Middle(d) == IF a.convention = "Unadjusted" THEN EndOfMonth(d) ELSE Month(d)
    IN  IF a.terminationConvention # "Unadjusted" THEN Map(s, Middle, Month, Month)
        ELSE IF a.rule = "Backward" THEN Map(s, Middle, Keep, EndOfMonth)
        ELSE Map(s, Middle, EndOfMonth, Keep)

ToBusinessDays(a, s) ==
    LET Middle(d) == adjust(market, d, a.convention)
        First(d) == IF a.rule = "OldCDS" THEN d ELSE Middle(d)
        Final(d) == adjust(market, d, a.terminationConvention)
    IN  Map(s, Middle, First, Final)

\* Mutant: the end date is dropped.
DropEnd(s) ==
    LET n == Len(s.dates)
    IN  IF n >= 2 /\ s.dates[n - 1] >= s.dates[n]
        THEN [s EXCEPT !.dates = Front(@), !.isRegular = Front(@)]
        ELSE s

\* "Final safety checks to remove extra next-to-last date": the end date takes
\* the place of a date that is not before it.  The flag written for the period
\* is that of the last one, which is dropped.
DropBeyondEnd(s) ==
    LET n == Len(s.dates)
    IN  IF n >= 2 /\ s.dates[n - 1] >= s.dates[n]
        THEN [s EXCEPT !.dates = Append(SubSeq(@, 1, n - 2), @[n]), !.isRegular = Front(@)]
        ELSE s

\* The same at the start, where the flag written is kept.
DropBeforeStart(s) ==
    LET n == Len(s.dates)
    IN  IF n >= 2 /\ s.dates[2] <= s.dates[1]
        THEN [s EXCEPT !.dates = <<@[1]>> \o SubSeq(@, 3, n),
                       !.isRegular = [k \in 1..Len(@) - 1 |->
                           IF k = 1 THEN s.dates[2] = s.dates[1] ELSE @[k + 1]]]
        ELSE s

\* The conditions under which the constructor throws at once.
Refused(a) ==
    \/ a.effective >= a.termination
    \/ Less(a.tenor, Period(1, "Months")) = "undecidable"
    \/ a.tenor.length < 0
    \/ \E d \in {a.first, a.nextToLast} \ {NoDate} :
          CASE a.rule \in {"Backward", "Forward"} -> ~(a.effective < d /\ d < a.termination)
            [] a.rule = "ThirdWednesday" -> d # ThirdWednesday(d)
            [] OTHER -> TRUE
    \/ a.endOfMonth /\ Less(a.tenor, Period(1, "Months")) = "no"
       /\ a.rule \in TwentiethRules \cup {"ThirdWednesday"}

\* The arguments with what the constructor makes of them first.
Arguments(r) ==
    [r EXCEPT !.first = IF @ = r.effective THEN NoDate ELSE @,
              !.nextToLast = IF @ = r.termination THEN NoDate ELSE @,
              !.rule = IF r.tenor.length = 0 THEN "Zero" ELSE @]

\* The dates by the rule, before any adjustment.
Unadjusted(a, eom) ==
    CASE a.rule = "Zero" -> Push(Start(a.effective), a.termination, TRUE)
      [] a.rule = "Backward" -> Backward(a, eom)
      [] OTHER -> Forward(a, eom)

ToWednesdays(a, s) == IF a.rule = "ThirdWednesday" THEN Map(s, ThirdWednesday, Keep, Keep) ELSE s

Adjusted(a, eom, s) ==
    IF eom /\ isEndOfMonth(market, s.seed) THEN ToEndOfMonth(a, s) ELSE ToBusinessDays(a, s)

\* "degenerate single date" is the last thing the constructor looks for.
Checked(s) == IF Len(s.dates) = 1 THEN NoDate ELSE [dates |-> s.dates, isRegular |-> s.isRegular]

Built(a, eom) ==
    Checked(DropBeforeStart(DropBeyondEnd(
        Adjusted(a, eom, ToWednesdays(a, Unadjusted(a, eom))))))

\* Schedule::Schedule for the arguments r; NoDate if it throws.
Build(r) ==
    LET a == Arguments(r)
    IN  IF Refused(a) THEN NoDate
        ELSE Built(a, a.endOfMonth /\ Less(a.tenor, Period(1, "Months")) = "no")

\* Mutant: the flag of the period that is cut short stays.
UntilKeepsFlags(s, cut) ==
    LET kept == SelectSeq(s.dates, LAMBDA d : d <= cut)
    IN  IF cut >= Last(s.dates) THEN s
        ELSE IF Last(kept) = cut THEN [dates |-> kept, isRegular |-> SubSeq(s.isRegular, 1, Len(kept) - 1)]
        ELSE [dates |-> Append(kept, cut), isRegular |-> SubSeq(s.isRegular, 1, Len(kept))]

\* Schedule::until, for a date after the first one (it throws for others).  The
\* inspectors of the arguments, which it also brings up to date, are left out.
UntilDate(s, cut) ==
    LET kept == SelectSeq(s.dates, LAMBDA d : d <= cut)
        flags == SubSeq(s.isRegular, 1, Len(kept) - 1)
    IN  IF cut >= Last(s.dates) THEN s
        ELSE IF Last(kept) = cut THEN [dates |-> kept, isRegular |-> flags]
        ELSE [dates |-> Append(kept, cut), isRegular |-> Append(flags, FALSE)]

-----------------------------------------------------------------------------
Construct(r) ==
    /\ request = NoDate
    /\ request' = r
    /\ schedule' = Build(r)
    /\ UNCHANGED calendar

until(cut) ==
    /\ schedule # NoDate
    /\ cut > schedule.dates[1]
    /\ schedule' = UntilDate(schedule, cut)
    /\ UNCHANGED <<calendar, request>>

Discard ==
    /\ request # NoDate
    /\ request' = NoDate /\ schedule' = NoDate
    /\ UNCHANGED calendar

\* A schedule is a value: a change of the holidays while it exists does nothing
\* to it, so they are changed between one schedule and the next.
Mark(d) ==
    /\ request = NoDate
    /\ addHoliday(d) \/ removeHoliday(d)
    /\ UNCHANGED <<request, schedule>>

Init == InitCalendar /\ request = NoDate /\ schedule = NoDate

Next ==
    \/ \E r \in Requests : Construct(r)
    \/ \E cut \in Cuts : until(cut)
    \/ Discard
    \/ \E d \in Markable : Mark(d)

Spec == Init /\ [][Next]_vars

-----------------------------------------------------------------------------
(* Properties.                                                             *)

Stubs(r) == {r.first, r.nextToLast} \ {NoDate}

\* What the constructor neither checks nor copes with: a first date after the
\* next-to-last one, two dates of a month that both go to its third Wednesday,
\* and a stub date that is moved to the end of its month.
Ordinary(r) ==
    /\ Stubs(r) # {} => ~r.endOfMonth /\ r.rule # "ThirdWednesday"
    /\ NoDate \notin {r.first, r.nextToLast} => r.first < r.nextToLast
    /\ r.rule = "ThirdWednesday" => r.tenor.unit = "Months"

Increasing(dates) == \A k \in 1..Len(dates) - 1 : dates[k] < dates[k + 1]

\* The dates of a schedule follow one another, however the steps and the given
\* dates fall once adjusted to business days, to the twentieth, to the third
\* Wednesday or to the end of the month, and wherever until() cuts it:
\* schedule.cpp:242, "skip dates that would result in duplicates after
\* adjustment".  That is said of Ordinary requests alone: it leaves out stub
\* dates that go together with the end of the month or with third Wednesdays,
\* stub dates in the wrong order, and third Wednesdays by days or weeks.  Of any
\* request there are at least two dates, with one flag per period, whatever the
\* clean-up at the end of the constructor or until() has taken away.
PeriodsFollow ==
    schedule # NoDate =>
        /\ Len(schedule.dates) > 1
        /\ Len(schedule.isRegular) = Len(schedule.dates) - 1
        /\ Ordinary(request) => Increasing(schedule.dates)

\* The dates counted from the seed, before any adjustment.
Cycle(r, n) ==
    IF r.rule = "Backward"
    THEN Steps(r, FALSE, IF r.nextToLast = NoDate THEN r.termination ELSE r.nextToLast, -n)
    ELSE Steps(r, FALSE, IF r.first = NoDate THEN r.effective ELSE r.first, n)

\* The unadjusted periods of one tenor.
Regular(r) ==
    LET N == 0..Len(schedule.dates)
    IN  {IF r.rule = "Backward" THEN <<Cycle(r, n + 1), Cycle(r, n)>>
         ELSE <<Cycle(r, n), Cycle(r, n + 1)>> : n \in N}
        \cup {<<Steps(r, FALSE, r.termination, -1), r.termination>>,
              <<r.effective, Steps(r, FALSE, r.effective, 1)>>}

\* A period said to be regular is one tenor long, its ends adjusted: the coupon
\* builders take such a period for its own reference period
\* (fixedratecoupon.cpp:242).  The code does not keep to it if the end is
\* adjusted in another way than the rest: schedule.cpp:409 clears the flag that
\* pop_back then drops, and a last period cut short keeps the flag of the one
\* that the end date took over.
OneTenor ==
    schedule # NoDate /\ Ordinary(request) /\ ~request.endOfMonth
        /\ request.rule \in {"Backward", "Forward"} /\ request.tenor.unit = "Months" =>
        \A k \in DOMAIN schedule.isRegular : schedule.isRegular[k] =>
            \E p \in Regular(request) :
                /\ adjust(market, p[1], request.convention) = schedule.dates[k]
                /\ \E c \in {request.convention, request.terminationConvention} :
                      adjust(market, p[2], c) = schedule.dates[k + 1]

\* When all the dates are adjusted alike, OneTenor does hold: an end date that
\* falls together with a stub and takes its place, a stub itself and a period cut
\* short by until() leave no such flag behind.
RegularPeriods ==
    (request # NoDate => request.convention = request.terminationConvention) => OneTenor

\* A schedule just built spans the term that was asked for: no stub, duplicate
\* or safety check loses either end.
SpansTerm ==
    [][schedule = NoDate /\ schedule' # NoDate /\ Ordinary(request') /\ ~request'.endOfMonth
       /\ request'.rule \in {"Zero", "Backward", "Forward"} =>
         /\ schedule'.dates[1] = adjust(market, request'.effective, request'.convention)
         /\ Last(schedule'.dates) =
                adjust(market, request'.termination, request'.terminationConvention)]_vars

(* The calendar's answers, with the holidays as they are between schedules *)
(* (the schedules do not change them).                                     *)

Tenors == {Period(n, u) : n \in 1..5, u \in {"Weeks", "Months"}}
    \cup {Period(n, "Days") : n \in 27..32} \cup {Period(1, "Years")}

Conventions == {"Following", "ModifiedFollowing", "HalfMonthModifiedFollowing",
                "Preceding", "ModifiedPreceding", "Nearest"}

\* The dates a convention may move d to, and how it ranks them: what lies on its
\* own side first, the nearest before the others; of two equally near dates
\* Nearest takes the later.
MayMove(d, c, x) ==
    CASE c = "Following" -> x >= d
      [] c = "Preceding" -> x <= d
      [] c \in {"ModifiedFollowing", "ModifiedPreceding"} -> MonthOf[x] = MonthOf[d]
      [] c = "HalfMonthModifiedFollowing" ->
            MonthOf[x] = MonthOf[d] /\ (dayOfMonth[x] > 15) = (dayOfMonth[d] > 15)
      [] c = "Nearest" -> TRUE

Reach == 7   \* days each way; no run of holidays is that long
Rank(d, c, x) ==
    CASE c \in {"Preceding", "ModifiedPreceding"} -> IF x <= d THEN d - x ELSE Reach + x - d
      [] c = "Nearest" -> IF x >= d THEN 2 * (x - d) ELSE 2 * (d - x) + 1
      [] OTHER -> IF x >= d THEN x - d ELSE Reach + d - x

\* Adjusting moves to a business day on the side, or in the month or its half, a
\* convention must keep to; no other business day there comes before it in the
\* convention's order: it turns back only if it must, and goes no day too far.
\* And though some turn back and some go either way, dates are never put out of
\* order.
AdjustInOrder ==
    request = NoDate => \A d \in Probes, c \in Conventions :
        LET e == adjust(market, d, c)
        IN  /\ isBusinessDay(market, e)
            /\ MayMove(d, c, e)
            /\ \A x \in d - Reach..d + Reach :
                  isBusinessDay(market, x) /\ MayMove(d, c, x) => Rank(d, c, e) <= Rank(d, c, x)
            /\ e <= adjust(market, d + 1, c)

\* advance() by days and businessDaysBetween() count the same days, in both
\* directions, and advancing back returns.
AdvanceCounts ==
    request = NoDate => \A d \in Probes, n \in -6..6 : isBusinessDay(market, d) =>
        LET e == advance(market, d, n, "Days", "Following", FALSE)
        IN  /\ businessDaysBetween(market, d, e, TRUE, FALSE) = n
            /\ businessDaysBetween(market, e, d, FALSE, TRUE) = -n
            /\ advance(market, e, -n, "Days", "Following", FALSE) = d

\* Comparing two periods says that one is shorter than another only if it is,
\* from whatever date they are counted: months of 28 to 31 days, years of 365 or
\* 366.
LessIsSound ==
    request = NoDate => \A d \in Probes, p, q \in Tenors :
        LET e == Advance(d, p.length, p.unit)
            f == Advance(d, q.length, q.unit)
        IN  /\ Less(p, q) = "yes" => e < f
            /\ Less(p, q) = "no" => e >= f
=============================================================================
