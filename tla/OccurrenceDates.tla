--------------------------- MODULE OccurrenceDates ---------------------------
(***************************************************************************)
(* The loop of occurrence_dates, one action per path through it: the due   *)
(* dates of one commitment between a floor and a horizon.                  *)
(***************************************************************************)
EXTENDS Schedule, Sequences, Functions

CONSTANTS
    MaxOccurrences,     \* MAX_OCCURRENCES_PER_COMMITMENT: 60
    Starts,             \* the values of starts_on
    Ends,               \* those of ends_on, None included
    Floors,             \* those of floor
    Spans               \* horizon - floor, beside the generator's own

VARIABLES
    starts_on, frequency, ends_on, floor, horizon,  \* the arguments
    index, dates,                                   \* the locals
    pc                                              \* where the call stands

args == <<starts_on, frequency, ends_on, floor, horizon>>
vars == <<starts_on, frequency, ends_on, floor, horizon, index, dates, pc>>

ASSUME InputAssumption ==
    /\ MaxOccurrences \in Nat
    /\ Starts \subseteq Day
    /\ Ends \subseteq Day \cup {None}
    /\ Floors \subseteq Day
    /\ Spans \subseteq Int

\* What the figures of the program have to be for its cap to be out of reach: no
\* month is shorter than a week, and as many weeks as the cap, less one, outlast
\* every horizon (7 * 59 days, 396 for a yearly commitment).
ASSUME CapAssumption ==
    /\ \A m \in Month : MonthStart[m] + Week <= MonthStart[m + 1]
    /\ MaxOccurrences > 1
    /\ GenerationHorizon < Week * (MaxOccurrences - 1)
    /\ \A f \in Frequency : LongestPeriod[f] + HorizonMargin < Week * (MaxOccurrences - 1)

\* LONGEST_PERIOD_DAYS is what its name says, in every month of the calendar.
ASSUME LongestPeriodAssumption ==
    /\ Week <= LongestPeriod["weekly"]
    /\ \A f \in Recurring : LongestPeriod[f] > 0
    /\ \A f \in Recurring \ {"weekly"} : \A m \in Month :
          m + MonthsByFrequency[f] <= LastMonth + 1
            => MonthStart[m + MonthsByFrequency[f]] <= MonthStart[m] + LongestPeriod[f]

Init ==
    /\ starts_on \in Starts
    /\ frequency \in Frequency
    /\ ends_on \in {e \in Ends : e = None \/ e >= starts_on}
    /\ floor \in Floors
    /\ \E span \in Spans \cup {HorizonDays(frequency)} : horizon = floor + span
    /\ index = 0
    /\ dates = <<>>
    /\ pc = "call"

-----------------------------------------------------------------------------
\* timedelta.days // 7 and the difference in months, one period kept in hand.
Months(d) == MonthOf[d] - MonthOf[starts_on]

\* Mutations of FirstIndex: without max(0, ...); one period too many.
FirstIndexNegative ==
    LET periods == IF frequency = "weekly"
                   THEN (floor - starts_on) \div Week
                   ELSE Months(floor) \div MonthsByFrequency[frequency]
    IN  IF floor <= starts_on THEN 0 ELSE periods - 1

FirstIndexLate ==
    LET periods == IF frequency = "weekly"
                   THEN (floor - starts_on) \div Week
                   ELSE Months(floor) \div MonthsByFrequency[frequency]
    IN  IF floor <= starts_on THEN 0 ELSE periods + 1

FirstIndex ==
    LET periods == IF frequency = "weekly"
                   THEN (floor - starts_on) \div Week
                   ELSE Months(floor) \div MonthsByFrequency[frequency]
    IN  IF floor <= starts_on \/ periods <= 1 THEN 0 ELSE periods - 1

due == NthDueDate(starts_on, frequency, index)

Return(list) ==
    /\ pc' = "returned"
    /\ dates' = list
    /\ UNCHANGED <<args, index>>

EmptyRange ==
    /\ pc = "call"
    /\ horizon < floor
    /\ Return(<<>>)

OneOff ==
    /\ pc = "call"
    /\ horizon >= floor
    /\ frequency = "oneoff"
    /\ Return(IF starts_on <= horizon /\ WithinTerm(starts_on, ends_on)
              THEN <<starts_on>> ELSE <<>>)

EnterLoop ==
    /\ pc = "call"
    /\ horizon >= floor
    /\ frequency # "oneoff"
    /\ index' = FirstIndex
    /\ pc' = "loop"
    /\ UNCHANGED <<args, dates>>

\* The loop's own condition, and the two breaks of its body.
LeaveLoop ==
    /\ pc = "loop"
    /\ \/ Len(dates) >= MaxOccurrences
       \/ /\ IndexInCalendar(starts_on, frequency, index)
          /\ due > horizon \/ ~WithinTerm(due, ends_on)
    /\ Return(dates)

\* Mutations of Iterate: the floor left out; the index incremented only for a date
\* that is kept; never incremented.
IterateAfterFloor ==
    /\ pc = "loop"
    /\ Len(dates) < MaxOccurrences
    /\ IndexInCalendar(starts_on, frequency, index)
    /\ due <= horizon
    /\ WithinTerm(due, ends_on)
    /\ dates' = IF due > floor THEN Append(dates, due) ELSE dates
    /\ index' = index + 1
    /\ UNCHANGED <<args, pc>>

IterateKeptOnly ==
    /\ pc = "loop"
    /\ Len(dates) < MaxOccurrences
    /\ IndexInCalendar(starts_on, frequency, index)
    /\ due <= horizon
    /\ WithinTerm(due, ends_on)
    /\ dates' = IF due >= floor THEN Append(dates, due) ELSE dates
    /\ index' = IF due >= floor THEN index + 1 ELSE index
    /\ UNCHANGED <<args, pc>>

Iterate ==
    /\ pc = "loop"
    /\ Len(dates) < MaxOccurrences
    /\ IndexInCalendar(starts_on, frequency, index)
    /\ due <= horizon
    /\ WithinTerm(due, ends_on)
    /\ dates' = IF due >= floor THEN Append(dates, due) ELSE dates
    /\ index' = index + 1
    /\ UNCHANGED <<args, pc>>

\* A date past the end of the calendar: date() and timedelta raise.
RunOutOfCalendar ==
    /\ pc = "loop"
    /\ Len(dates) < MaxOccurrences
    /\ ~IndexInCalendar(starts_on, frequency, index)
    /\ pc' = "raised"
    /\ UNCHANGED <<args, index, dates>>

Next == EmptyRange \/ OneOff \/ EnterLoop \/ LeaveLoop \/ Iterate
            \/ RunOutOfCalendar

Spec == Init /\ [][Next]_vars /\ WF_vars(Next)

-----------------------------------------------------------------------------
TypeOK ==
    /\ starts_on \in Day
    /\ frequency \in Frequency
    /\ ends_on \in Day \cup {None}
    /\ floor \in Day
    /\ horizon \in Int
    /\ index \in Nat
    /\ dates \in Seq(Day)
    /\ pc \in {"call", "loop", "returned", "raised"}

\* A call that returns below the cap returns exactly the due dates of the
\* commitment between its floor and its horizon: FirstIndex skips none of
\* them, the breaks cut none of them.
DatesAreTheSchedule ==
    pc = "returned" /\ Len(dates) < MaxOccurrences =>
        Range(dates) = DueDates(starts_on, frequency, ends_on, floor, horizon)

\* The day of the month survives a shorter month: 31 January gives 28 February,
\* then 31 March again, because every date is counted from the anchor.
AnchorDayKept ==
    frequency \in {"monthly", "quarterly", "yearly"} =>
        \A i \in 1 .. Len(dates) :
            /\ Months(dates[i]) % MonthsByFrequency[frequency] = 0
            /\ \/ DayOfMonth(dates[i]) = DayOfMonth(starts_on)
               \/ /\ DayOfMonth(dates[i]) < DayOfMonth(starts_on)
                  /\ dates[i] = LastDayOf(MonthOf[dates[i]])

GeneratorCall == horizon = floor + HorizonDays(frequency)

\* With the horizon the generator asks for, an open-ended commitment that has
\* started always has a due date within one LONGEST_PERIOD_DAYS of the floor,
\* so the margin of the horizon is really spare.
PeriodIsHonest ==
    /\ pc = "returned" /\ GeneratorCall
    /\ frequency \in Recurring /\ ends_on = None /\ starts_on <= floor
    => /\ dates # <<>>
       /\ dates[1] < floor + LongestPeriod[frequency]

\* MAX_OCCURRENCES_PER_COMMITMENT never cuts a list the generator asks for.
CapIsNeverReached == GeneratorCall => Len(dates) < MaxOccurrences

\* So a call of the generator returns all the due dates of its horizon, with no
\* condition on their number.
GeneratorGetsAll ==
    pc = "returned" /\ GeneratorCall =>
        Range(dates) = DueDates(starts_on, frequency, ends_on, floor, horizon)

\* The list is in order and says no date twice: the rows of one INSERT never
\* collide with each other on the unique constraint of the table.
InOrder == \A i, j \in 1 .. Len(dates) : i < j => dates[i] < dates[j]

\* What bounds the loop, apart from its cap: an index is a day or a month of the
\* calendar.
StepsLeft ==
    LET most == MonthStart[LastMonth + 1] + LastMonth + 1
    IN  CASE pc = "call" -> most + 2
          [] pc = "loop" -> most + 1 - index
          [] OTHER       -> 0

\* Every step of a call brings its end closer.
EachStepAdvances == [][StepsLeft' < StepsLeft]_vars

\* The loop ends, whatever the terms.
Terminates == <>(pc \in {"returned", "raised"})
=============================================================================
