------------------------------ MODULE Schedule ------------------------------
(***************************************************************************)
(* Calendar arithmetic of services/commitments/occurrence_generator.py.    *)
(*                                                                         *)
(* A date is a day number.  The calendar is a parameter: MonthStart[m] is  *)
(* the day number of the first day of month m and MonthOf[d] the month     *)
(* that day d belongs to.  Python's calendar ends too (datetime.MAXYEAR),  *)
(* here at month LastMonth.                                                *)
(***************************************************************************)
EXTENDS Integers

CONSTANTS
    LastMonth,          \* the last month of the calendar
    MonthStart,         \* [0..LastMonth+1 -> Nat]
    MonthOf,            \* [Day -> 0..LastMonth]
    Week,               \* timedelta(weeks=1): 7 days
    LongestPeriod,      \* LONGEST_PERIOD_DAYS, by frequency
    GenerationHorizon,  \* GENERATION_HORIZON_DAYS: 90
    HorizonMargin,      \* HORIZON_MARGIN_DAYS: 30
    None                \* SQL NULL, Python None

Month == 0 .. LastMonth
Day == 0 .. MonthStart[LastMonth + 1] - 1

Recurring == {"weekly", "monthly", "quarterly", "yearly"}
Frequency == Recurring \cup {"oneoff"}

\* The months of a calendar follow each other and share out its days.
ASSUME CalendarAssumption ==
    /\ LastMonth \in Nat
    /\ MonthStart \in [0 .. LastMonth + 1 -> Nat]
    /\ MonthStart[0] = 0
    /\ \A m, n \in 0 .. LastMonth + 1 : m < n => MonthStart[m] < MonthStart[n]
    /\ MonthOf \in [Day -> Month]
    /\ \A d \in Day : /\ MonthStart[MonthOf[d]] <= d
                      /\ d < MonthStart[MonthOf[d] + 1]

ASSUME PeriodAssumption ==
    /\ Week \in Nat \ {0}
    /\ LongestPeriod \in [Frequency -> Nat]
    /\ GenerationHorizon \in Nat
    /\ HorizonMargin \in Nat

ASSUME NoneAssumption == None \notin Int

-----------------------------------------------------------------------------
MonthsByFrequency == [monthly |-> 1, quarterly |-> 3, yearly |-> 12]

\* Mutation of HorizonDays: the horizon counted in weeks.
HorizonInWeeks(frequency) ==
    LET period == LongestPeriod[frequency] + HorizonMargin
    IN  Week * (IF GenerationHorizon >= period THEN GenerationHorizon ELSE period)

\* Mutation of HorizonDays: the horizon of every frequency, whatever its period.
HorizonWithoutPeriod(frequency) == GenerationHorizon

HorizonDays(frequency) ==
    LET period == LongestPeriod[frequency] + HorizonMargin
    IN  IF GenerationHorizon >= period THEN GenerationHorizon ELSE period

DayOfMonth(d) == d - MonthStart[MonthOf[d]]
LastDayOf(m) == MonthStart[m + 1] - 1

\* Mutation of AddMonths: a short month runs over into the next.
AddMonthsOverflowing(anchor, months) ==
    MonthStart[MonthOf[anchor] + months] + DayOfMonth(anchor)

\* Same day of the month, or the last one when the month is too short.
AddMonths(anchor, months) ==
    LET month == MonthOf[anchor] + months
        same  == MonthStart[month] + DayOfMonth(anchor)
    IN  IF same <= LastDayOf(month) THEN same ELSE LastDayOf(month)

\* Always counted from the anchor, never from the previous due date.
NthDueDate(starts_on, frequency, index) ==
    IF frequency = "weekly"
    THEN starts_on + Week * index
    ELSE AddMonths(starts_on, index * MonthsByFrequency[frequency])

\* Whether the calendar can express the due date of an index.
IndexInCalendar(starts_on, frequency, index) ==
    IF frequency = "weekly"
    THEN starts_on + Week * index \in Day
    ELSE MonthOf[starts_on] + index * MonthsByFrequency[frequency] \in Month

Indexes(starts_on, frequency) ==
    {n \in Day \cup Month : IndexInCalendar(starts_on, frequency, n)}

WithinTerm(due, ends_on) == ends_on # None => due <= ends_on

\* What occurrence_dates returns, as a set: OccurrenceDates checks and proves
\* that the loop computes it.
DueDates(starts_on, frequency, ends_on, floor, horizon) ==
    IF horizon < floor THEN {}
    ELSE IF frequency = "oneoff"
    THEN {d \in {starts_on} : d <= horizon /\ WithinTerm(d, ends_on)}
    ELSE {d \in {NthDueDate(starts_on, frequency, n) : n \in Indexes(starts_on, frequency)} :
            floor <= d /\ d <= horizon /\ WithinTerm(d, ends_on)}
=============================================================================
