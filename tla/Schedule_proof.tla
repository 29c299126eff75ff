---------------------------- MODULE Schedule_proof ----------------------------
(***************************************************************************)
(* What the calendar and the due dates are known to be, for every          *)
(* calendar: what the loop that computes them and the tables that are      *)
(* generated from them both rest on.                                       *)
(***************************************************************************)
EXTENDS Schedule, TLAPS

\* A calendar in which months last at least a day is all the proof needs.
LEMMA MonthOrder ==
    ASSUME NEW m \in Month, NEW n \in Month, m < n
    PROVE  /\ MonthStart[m] \in Nat /\ MonthStart[m + 1] \in Nat
           /\ MonthStart[m] < MonthStart[m + 1]
           /\ MonthStart[m + 1] <= MonthStart[n]
  BY CalendarAssumption DEF Month

LEMMA MonthBounds ==
    ASSUME NEW m \in Month
    PROVE  /\ MonthStart[m] \in Nat /\ MonthStart[m + 1] \in Nat
           /\ MonthStart[m] < MonthStart[m + 1]
           /\ MonthStart[m + 1] <= MonthStart[LastMonth + 1]
  BY CalendarAssumption DEF Month

LEMMA DayBounds ==
    ASSUME NEW d \in Day
    PROVE  /\ d \in Nat
           /\ MonthOf[d] \in Month
           /\ DayOfMonth(d) \in Nat
  <1>1. MonthOf[d] \in Month /\ MonthStart[MonthOf[d]] <= d
    BY CalendarAssumption
  <1>2. d \in Nat
    BY CalendarAssumption DEF Day
  <1>3. QED
    BY <1>1, <1>2, MonthBounds DEF DayOfMonth

\* AddMonths stays inside the month it aims at.
LEMMA AddMonthsInMonth ==
    ASSUME NEW d \in Day, NEW k \in Nat, MonthOf[d] + k \in Month
    PROVE  /\ AddMonths(d, k) \in Int
           /\ MonthStart[MonthOf[d] + k] <= AddMonths(d, k)
           /\ AddMonths(d, k) < MonthStart[MonthOf[d] + k + 1]
  <1> DEFINE m == MonthOf[d] + k
  <1>1. /\ MonthStart[m] \in Nat /\ MonthStart[m + 1] \in Nat
        /\ MonthStart[m] < MonthStart[m + 1]
    BY MonthBounds
  <1>2. DayOfMonth(d) \in Nat
    BY DayBounds
  <1>3. QED
    BY <1>1, <1>2 DEF AddMonths, LastDayOf

LEMMA PeriodIsPositive ==
    ASSUME NEW f \in Recurring, f # "weekly"
    PROVE  MonthsByFrequency[f] \in {1, 3, 12}
  BY DEF Recurring, MonthsByFrequency

\* Integer facts about a product, which the weekly case multiplies by Week.
LEMMA ProductGrows ==
    ASSUME NEW w \in Nat \ {0}, NEW i \in Nat, NEW j \in Nat, i < j
    PROVE  /\ w * i \in Nat /\ w * j \in Nat
           /\ w * i + w <= w * j
  <1>1. w * (i + 1) <= w * j
    BY SMT
  <1>2. w * (i + 1) = w * i + w
    BY SMT
  <1>3. QED
    BY <1>1, <1>2, SMT

LEMMA ProductBounds ==
    ASSUME NEW w \in Nat \ {0}, NEW i \in Nat
    PROVE  w * i \in Nat /\ i <= w * i
  BY SMT

LEMMA QuotientBelow ==
    ASSUME NEW w \in Nat \ {0}, NEW a \in Nat
    PROVE  a \div w \in Nat /\ w * (a \div w) <= a
  BY SMT

\* Days and months are closed downwards.
LEMMA EarlierDay ==
    ASSUME NEW s \in Nat, NEW a \in Nat, NEW b \in Nat, a < b, s + b \in Day
    PROVE  s + a \in Day /\ s + a < s + b
  BY CalendarAssumption DEF Day

LEMMA EarlierMonth ==
    ASSUME NEW s \in Nat, NEW a \in Nat, NEW b \in Nat, a < b, s + b \in Month
    PROVE  s + a \in Month /\ s + a < s + b
  BY CalendarAssumption DEF Month

\* The due dates of the calendar are its days, and their indexes are bounded.
LEMMA NthIsADay ==
    ASSUME NEW s \in Day, NEW f \in Recurring, NEW n \in Nat,
           IndexInCalendar(s, f, n)
    PROVE  NthDueDate(s, f, n) \in Day /\ n \in Indexes(s, f)
  <1>1. CASE f = "weekly"
    <2>1. NthDueDate(s, f, n) = s + Week * n /\ s + Week * n \in Day
      BY <1>1 DEF NthDueDate, IndexInCalendar
    <2>2. n <= Week * n /\ Week * n \in Nat
      BY PeriodAssumption, ProductBounds
    <2>3. n \in Day
      BY <2>1, <2>2, DayBounds, CalendarAssumption DEF Day
    <2>4. QED
      BY <2>1, <2>3 DEF Indexes
  <1>2. CASE f # "weekly"
    <2> DEFINE k == n * MonthsByFrequency[f]
    <2>1. k \in Nat /\ n <= k
      BY <1>2, PeriodIsPositive
    <2>2. MonthOf[s] + k \in Month
      BY <1>2 DEF IndexInCalendar
    <2>3. /\ AddMonths(s, k) \in Int
          /\ MonthStart[MonthOf[s] + k] <= AddMonths(s, k)
          /\ AddMonths(s, k) < MonthStart[MonthOf[s] + k + 1]
      BY <2>1, <2>2, AddMonthsInMonth
    <2>4. AddMonths(s, k) \in Day
      BY <2>2, <2>3, MonthBounds, CalendarAssumption DEF Day, Month
    <2>5. n \in Month
      BY <2>1, <2>2, DayBounds, CalendarAssumption DEF Month
    <2>6. QED
      BY <1>2, <2>4, <2>5 DEF NthDueDate, Indexes
  <1>3. QED
    BY <1>1, <1>2

\* Due dates grow with their index, and no index below one that the calendar
\* expresses is out of it.
LEMMA NthGrows ==
    ASSUME NEW s \in Day, NEW f \in Recurring, NEW i \in Nat, NEW j \in Nat,
           i < j, IndexInCalendar(s, f, j)
    PROVE  /\ IndexInCalendar(s, f, i)
           /\ NthDueDate(s, f, i) < NthDueDate(s, f, j)
  <1>1. CASE f = "weekly"
    <2>1. /\ Week * i \in Nat /\ Week * j \in Nat
          /\ Week * i + Week <= Week * j /\ Week \in Nat /\ Week > 0
      BY PeriodAssumption, ProductGrows
    <2>2. s \in Nat /\ s + Week * j \in Day
      BY <1>1, DayBounds DEF IndexInCalendar
    <2>3. Week * i < Week * j
      BY <2>1
    <2>4. s + Week * i \in Day /\ s + Week * i < s + Week * j
      BY <2>1, <2>2, <2>3, EarlierDay
    <2>5. QED
      BY <1>1, <2>4 DEF IndexInCalendar, NthDueDate
  <1>2. CASE f # "weekly"
    <2> DEFINE p == MonthsByFrequency[f]
               m == MonthOf[s]
    <2>1. /\ i * p \in Nat /\ j * p \in Nat /\ i * p < j * p
      BY <1>2, PeriodIsPositive
    <2>2. m \in Month /\ m \in Nat /\ m + j * p \in Month
      BY <1>2, DayBounds DEF IndexInCalendar, Month
    <2>3. m + i * p \in Month /\ m + i * p < m + j * p
      BY <2>1, <2>2, EarlierMonth
    <2>4. MonthStart[m + i * p + 1] <= MonthStart[m + j * p]
      BY <2>2, <2>3, MonthOrder
    <2>5. /\ AddMonths(s, i * p) \in Int
          /\ AddMonths(s, i * p) < MonthStart[m + i * p + 1]
      BY <2>1, <2>3, AddMonthsInMonth
    <2>6. /\ AddMonths(s, j * p) \in Int
          /\ MonthStart[m + j * p] <= AddMonths(s, j * p)
      BY <2>1, <2>2, AddMonthsInMonth
    <2>7. MonthStart[m + i * p + 1] \in Int /\ MonthStart[m + j * p] \in Int
      BY <2>2, <2>3, MonthBounds
    <2>8. AddMonths(s, i * p) < AddMonths(s, j * p)
      BY <2>4, <2>5, <2>6, <2>7
    <2>9. QED
      BY <1>2, <2>3, <2>8 DEF IndexInCalendar, NthDueDate
  <1>3. QED
    BY <1>1, <1>2

\* The day of a due date does not depend on the window it was looked for in.
LEMMA DueAnyWindow ==
    ASSUME NEW s \in Day, NEW f \in Frequency, NEW e, NEW from \in Int, NEW to \in Int,
           NEW d \in DueDates(s, f, e, from, to)
    PROVE  d \in Day /\ d \in DueDates(s, f, e, d, d)
  <1>1. d \in Day
    <2>1. CASE f = "oneoff"
      BY <2>1 DEF DueDates
    <2>2. CASE f # "oneoff"
      <3>1. PICK n \in Indexes(s, f) : d = NthDueDate(s, f, n)
        BY <2>2 DEF DueDates
      <3>2. n \in Nat /\ IndexInCalendar(s, f, n) /\ f \in Recurring
        BY <2>2, CalendarAssumption DEF Indexes, Day, Month, Frequency
      <3>3. QED
        BY <3>1, <3>2, NthIsADay
    <2>3. QED
      BY <2>1, <2>2
  <1>2. d \in Nat
    BY <1>1, DayBounds
  <1>3. QED
    BY <1>1, <1>2 DEF DueDates

\* A wider window has every due date of a narrower one.
LEMMA DueInWiderWindow ==
    ASSUME NEW s \in Day, NEW f \in Recurring, NEW e,
           NEW a \in Int, NEW from \in Int, NEW to \in Int, NEW b \in Int,
           a <= from, to <= b, NEW d \in DueDates(s, f, e, from, to)
    PROVE  d \in DueDates(s, f, e, a, b)
  <1>1. d \in Nat /\ from <= d /\ d <= to
    BY DueAnyWindow, DayBounds DEF DueDates, Frequency, Recurring
  <1>2. a <= d /\ d <= b /\ f # "oneoff"
    BY <1>1 DEF Recurring
  <1>3. QED
    BY <1>1, <1>2 DEF DueDates

\* A horizon covers the longest period and the margin.
LEMMA HorizonCovers ==
    ASSUME NEW f \in Frequency
    PROVE  /\ HorizonDays(f) \in Nat /\ LongestPeriod[f] \in Nat
           /\ LongestPeriod[f] + HorizonMargin <= HorizonDays(f)
  BY PeriodAssumption DEF HorizonDays
=============================================================================
