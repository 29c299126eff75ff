------------------------ MODULE OccurrenceDates_proof ------------------------
(***************************************************************************)
(* The loop of occurrence_dates returns the schedule, for every calendar,  *)
(* every period and every argument.                                        *)
(***************************************************************************)
EXTENDS OccurrenceDates, Schedule_proof

Nth(n) == NthDueDate(starts_on, frequency, n)
Expressible(n) == IndexInCalendar(starts_on, frequency, n)
Wanted(d) == floor <= d /\ d <= horizon /\ WithinTerm(d, ends_on)

\* _first_index never jumps over a due date that the floor would keep.
LEMMA FirstIndexSkipsNothing ==
    ASSUME TypeOK, frequency \in Recurring
    PROVE  /\ FirstIndex \in Nat
           /\ \A n \in Nat : n < FirstIndex /\ Expressible(n) => Nth(n) < floor
  <1>1. /\ starts_on \in Nat /\ floor \in Nat /\ starts_on \in Day /\ floor \in Day
        /\ MonthOf[starts_on] \in Month /\ MonthOf[starts_on] \in Nat
        /\ MonthOf[floor] \in Month /\ MonthOf[floor] \in Nat
    BY DayBounds DEF TypeOK, Month
  <1>2. CASE floor <= starts_on
    BY <1>2 DEF FirstIndex
  <1>3. CASE floor > starts_on /\ frequency = "weekly"
    <2> DEFINE q == (floor - starts_on) \div Week
    <2>1. Week \in Nat \ {0}
      BY PeriodAssumption
    <2>2. q \in Nat /\ Week * q <= floor - starts_on
      BY <1>1, <1>3, <2>1, QuotientBelow
    <2> HIDE DEF q
    <2>3. FirstIndex = IF q <= 1 THEN 0 ELSE q - 1
      BY <1>1, <1>3 DEF FirstIndex, q
    <2>4. ASSUME NEW n \in Nat, n < FirstIndex PROVE Nth(n) < floor
      <3>1. n < q
        BY <2>2, <2>3, <2>4
      <3>2. Week * n + Week <= Week * q /\ Week * n \in Nat /\ Week * q \in Nat
        BY <2>1, <2>2, <3>1, ProductGrows
      <3>3. Nth(n) = starts_on + Week * n
        BY <1>3 DEF Nth, NthDueDate
      <3>4. QED
        BY <1>1, <2>1, <2>2, <3>2, <3>3
    <2>5. QED
      BY <2>2, <2>3, <2>4
  <1>4. CASE floor > starts_on /\ frequency # "weekly"
    <2> DEFINE p == MonthsByFrequency[frequency]
               a == MonthOf[floor] - MonthOf[starts_on]
               q == a \div p
    <2>1. p \in {1, 3, 12} /\ a \in Int
      BY <1>1, <1>4, PeriodIsPositive
    <2>2. q \in Int /\ \A n \in Nat : n < q - 1 => n * p < a /\ n * p \in Nat
      BY <2>1
    <2>3. FirstIndex = IF q <= 1 THEN 0 ELSE q - 1
      BY <1>1, <1>4 DEF FirstIndex, Months
    <2> HIDE DEF q, p
    <2>4. ASSUME NEW n \in Nat, n < FirstIndex, Expressible(n) PROVE Nth(n) < floor
      <3> DEFINE m == MonthOf[starts_on] + n * p
      <3>1. n * p < a /\ n * p \in Nat
        BY <2>2, <2>3, <2>4
      <3>2. Nth(n) = AddMonths(starts_on, n * p) /\ m \in Month
        BY <1>4, <2>4 DEF Nth, NthDueDate, Expressible, IndexInCalendar, p
      <3>3. /\ AddMonths(starts_on, n * p) \in Int
            /\ AddMonths(starts_on, n * p) < MonthStart[m + 1]
        BY <1>1, <3>1, <3>2, AddMonthsInMonth
      <3>4. m < MonthOf[floor]
        BY <1>1, <3>1
      <3>5. MonthStart[m + 1] <= MonthStart[MonthOf[floor]]
        BY <1>1, <3>2, <3>4, MonthOrder
      <3>6. MonthStart[MonthOf[floor]] <= floor
        BY <1>1, CalendarAssumption
      <3>7. MonthStart[m + 1] \in Int /\ MonthStart[MonthOf[floor]] \in Int
        BY <1>1, <3>2, MonthBounds
      <3>8. QED
        BY <1>1, <3>2, <3>3, <3>5, <3>6, <3>7
    <2>5. QED
      BY <2>2, <2>3, <2>4
  <1>5. QED
    BY <1>1, <1>2, <1>3, <1>4

\* What the loop has done when it is about to look at an index.
Covered ==
    \A n \in Nat : n < index /\ Expressible(n) =>
        Nth(n) < floor \/ Nth(n) \in Range(dates)
Sound ==
    \A d \in Range(dates) :
        /\ Wanted(d)
        /\ \E n \in Nat : Expressible(n) /\ d = Nth(n)

LoopInv ==
    /\ TypeOK
    /\ pc = "call" => dates = <<>>
    /\ pc = "loop" => /\ frequency \in Recurring
                      /\ horizon >= floor
                      /\ Covered
                      /\ Sound
    /\ DatesAreTheSchedule

LEMMA RangeOfAppend ==
    ASSUME NEW S, NEW s \in Seq(S), NEW e \in S
    PROVE  /\ Append(s, e) \in Seq(S)
           /\ Range(Append(s, e)) = Range(s) \cup {e}
  <1>1. Append(s, e) \in Seq(S) /\ Len(Append(s, e)) = Len(s) + 1
    OBVIOUS
  <1>2. \A i \in 1 .. Len(s) : Append(s, e)[i] = s[i]
    OBVIOUS
  <1>3. Append(s, e)[Len(s) + 1] = e
    OBVIOUS
  <1>4. DOMAIN s = 1 .. Len(s) /\ DOMAIN Append(s, e) = 1 .. Len(s) + 1 /\ Len(s) \in Nat
    OBVIOUS
  <1>5. QED
    BY <1>1, <1>2, <1>3, <1>4 DEF Range

LEMMA ScheduleMembers ==
    ASSUME TypeOK, frequency \in Recurring, horizon >= floor
    PROVE  \A d : d \in DueDates(starts_on, frequency, ends_on, floor, horizon)
                  <=> Wanted(d) /\ \E n \in Nat : Expressible(n) /\ d = Nth(n)
  <1>1. ~(horizon < floor) /\ frequency # "oneoff"
    BY DEF TypeOK, Recurring, Day
  <1>2. \A n : n \in Indexes(starts_on, frequency) <=> n \in Nat /\ Expressible(n)
    <2>1. \A n \in Nat : Expressible(n) => n \in Indexes(starts_on, frequency)
      BY NthIsADay DEF TypeOK, Expressible
    <2>2. \A n \in Indexes(starts_on, frequency) : n \in Nat /\ Expressible(n)
      BY CalendarAssumption DEF Indexes, Day, Month, Expressible
    <2>3. QED
      BY <2>1, <2>2
  <1>3. QED
    BY <1>1, <1>2 DEF DueDates, Wanted, Nth

\* Past the break, every later index is past it too.
LEMMA NothingAfterTheBreak ==
    ASSUME TypeOK, frequency \in Recurring,
           Expressible(index), due > horizon \/ ~WithinTerm(due, ends_on),
           NEW n \in Nat, n >= index, Expressible(n)
    PROVE  ~Wanted(Nth(n))
  <1>1. due = Nth(index) /\ due \in Nat /\ Nth(n) \in Nat
    BY NthIsADay, DayBounds DEF TypeOK, Expressible, Nth, due
  <1>2. due <= Nth(n)
    <2>1. CASE n = index
      BY <2>1, <1>1
    <2>2. CASE n # index
      <3>1. index < n /\ index \in Nat
        BY <2>2 DEF TypeOK
      <3>2. Nth(index) < Nth(n)
        BY <3>1, NthGrows DEF TypeOK, Expressible, Nth
      <3>3. QED
        BY <3>2, <1>1
    <2>3. QED
      BY <2>1, <2>2
  <1>3. QED
    BY <1>1, <1>2, DayBounds DEF TypeOK, Wanted, WithinTerm

LEMMA LoopInvInit == Init => LoopInv
  <1> SUFFICES ASSUME Init PROVE LoopInv
    OBVIOUS
  <1>1. HorizonDays(frequency) \in Int
    BY PeriodAssumption DEF Init, HorizonDays
  <1>2. floor \in Int /\ floor \in Day /\ starts_on \in Day
    BY InputAssumption, DayBounds DEF Init
  <1>3. horizon \in Int
    <2>1. PICK span \in Spans \cup {HorizonDays(frequency)} : horizon = floor + span
      BY DEF Init
    <2>2. QED
      BY <1>1, <1>2, <2>1, InputAssumption
  <1>4. TypeOK
    BY <1>2, <1>3, InputAssumption DEF Init, TypeOK
  <1>5. QED
    BY <1>4 DEF Init, LoopInv, DatesAreTheSchedule

LEMMA LoopInvStep == LoopInv /\ [Next]_vars => LoopInv'
  <1> SUFFICES ASSUME LoopInv, [Next]_vars PROVE LoopInv'
    OBVIOUS
  <1> USE DEF LoopInv
  <1>1. CASE EmptyRange
    <2>1. DueDates(starts_on, frequency, ends_on, floor, horizon) = {}
      BY <1>1 DEF EmptyRange, DueDates
    <2>2. Range(<<>>) = {}
      BY DEF Range
    <2>3. QED
      BY <1>1, <2>1, <2>2 DEF EmptyRange, Return, args, TypeOK, DatesAreTheSchedule
  <1>2. CASE OneOff
    <2>1. ~(horizon < floor)
      BY <1>2, DayBounds DEF OneOff, TypeOK
    <2>2. Range(<<>>) = {} /\ Range(<<starts_on>>) = {starts_on}
      BY DEF Range
    <2>3. Range(dates') = DueDates(starts_on, frequency, ends_on, floor, horizon)
      BY <1>2, <2>1, <2>2 DEF OneOff, Return, DueDates
    <2>4. dates' \in Seq(Day)
      BY <1>2 DEF OneOff, Return, TypeOK
    <2>5. QED
      BY <1>2, <2>3, <2>4 DEF OneOff, Return, args, TypeOK, DatesAreTheSchedule
  <1>3. CASE EnterLoop
    <2>1. frequency \in Recurring /\ horizon >= floor /\ dates = <<>>
      BY <1>3 DEF EnterLoop, TypeOK, Frequency
    <2>2. /\ FirstIndex \in Nat
          /\ \A n \in Nat : n < FirstIndex /\ Expressible(n) => Nth(n) < floor
      BY <2>1, FirstIndexSkipsNothing
    <2>3. TypeOK'
      BY <1>3, <2>2 DEF EnterLoop, TypeOK, args
    <2>4. Covered'
      BY <1>3, <2>2 DEF EnterLoop, args, Covered, Expressible, Nth
    <2>5. Sound'
      BY <1>3, <2>1 DEF EnterLoop, args, Sound, Range
    <2>6. QED
      BY <1>3, <2>1, <2>3, <2>4, <2>5 DEF EnterLoop, args, DatesAreTheSchedule
  <1>4. CASE LeaveLoop
    <2>1. ASSUME Len(dates) < MaxOccurrences
          PROVE  Range(dates) = DueDates(starts_on, frequency, ends_on, floor, horizon)
      <3>1. Expressible(index) /\ (due > horizon \/ ~WithinTerm(due, ends_on))
        BY <1>4, <2>1, InputAssumption DEF LeaveLoop, Expressible, TypeOK
      <3>2. frequency \in Recurring /\ horizon >= floor /\ Covered /\ Sound
        BY <1>4 DEF LeaveLoop
      <3>3. \A n \in Nat : Expressible(n) /\ Wanted(Nth(n)) => n < index
        BY <3>1, <3>2, NothingAfterTheBreak DEF TypeOK
      <3>4. \A n \in Nat : Expressible(n) /\ Wanted(Nth(n)) => Nth(n) \in Range(dates)
        <4>1. \A n \in Nat : Expressible(n) => Nth(n) \in Nat
          BY <3>2, NthIsADay, DayBounds DEF TypeOK, Expressible, Nth
        <4>2. floor \in Nat
          BY DayBounds DEF TypeOK
        <4>3. QED
          BY <3>2, <3>3, <4>1, <4>2 DEF Covered, Wanted
      <3>5. QED
        BY <3>2, <3>4, ScheduleMembers DEF Sound
    <2>2. TypeOK'
      BY <1>4 DEF LeaveLoop, Return, args, TypeOK
    <2>3. QED
      BY <1>4, <2>1, <2>2 DEF LeaveLoop, Return, args, DatesAreTheSchedule
  <1>5. CASE Iterate
    <2>1. frequency \in Recurring /\ Expressible(index) /\ due = Nth(index)
      BY <1>5 DEF Iterate, Expressible, Nth, due
    <2>2. due \in Day
      BY <2>1, NthIsADay DEF TypeOK, Expressible, Nth
    <2>3. /\ dates' \in Seq(Day)
          /\ due >= floor => Range(dates') = Range(dates) \cup {due}
          /\ ~(due >= floor) => Range(dates') = Range(dates)
      BY <1>5, <2>2, RangeOfAppend DEF Iterate, TypeOK
    <2>4. TypeOK'
      BY <1>5, <2>3 DEF Iterate, args, TypeOK
    <2>5. Covered'
      <3> SUFFICES ASSUME NEW n \in Nat, n < index + 1, Expressible(n)
                   PROVE  Nth(n) < floor \/ Nth(n) \in Range(dates')
        BY <1>5 DEF Iterate, args, Covered, Expressible, Nth
      <3>1. CASE n < index
        BY <1>5, <2>3, <3>1 DEF Covered, Iterate
      <3>2. CASE n = index
        BY <2>1, <2>2, <2>3, <3>2, DayBounds DEF TypeOK
      <3>3. QED
        BY <3>1, <3>2 DEF TypeOK
    <2>6. Sound'
      <3>1. due >= floor => Wanted(due)
        BY <1>5 , <2>2, DayBounds DEF Iterate, Wanted, TypeOK
      <3>2. \A d \in Range(dates') :
              /\ Wanted(d)
              /\ \E n \in Nat : Expressible(n) /\ d = Nth(n)
        BY <1>5, <2>1, <2>3, <3>1 DEF Sound, TypeOK, Iterate
      <3>3. QED
        BY <1>5, <3>2 DEF Sound, Wanted, Expressible, Nth, Iterate, args
    <2>7. QED
      BY <1>5, <2>4, <2>5, <2>6 DEF Iterate, args, DatesAreTheSchedule
  <1>6. CASE RunOutOfCalendar
    BY <1>6 DEF RunOutOfCalendar, args, TypeOK, DatesAreTheSchedule
  <1>7. CASE UNCHANGED vars
    BY <1>7 DEF vars, TypeOK, DatesAreTheSchedule, Covered, Sound, Wanted,
                Expressible, Nth
  <1>8. QED
    BY <1>1, <1>2, <1>3, <1>4, <1>5, <1>6, <1>7 DEF Next

\* The arguments keep their types and the list stays a list of days, in every
\* calendar and for every argument (occurrence_dates, whole function).
THEOREM OccurrenceDatesType == Spec => []TypeOK
  <1>1. LoopInv => TypeOK
    BY DEF LoopInv
  <1>2. QED
    BY <1>1, LoopInvInit, LoopInvStep, PTL DEF Spec

\* A call of occurrence_dates that stays below its cap returns the due dates
\* of the commitment between floor and horizon: none skipped by _first_index,
\* none cut by a break, none invented.
THEOREM OccurrenceDatesExact == Spec => []DatesAreTheSchedule
  <1>1. LoopInv => DatesAreTheSchedule
    BY DEF LoopInv
  <1>2. QED
    BY <1>1, LoopInvInit, LoopInvStep, PTL DEF Spec

-----------------------------------------------------------------------------
(* The list in order, on the day of the anchor, and below the cap.         *)

\* A due date lies in the month of its index, on the day of the anchor or on the
\* last day of a month that is too short for it.
LEMMA DueInItsMonth ==
    ASSUME NEW s \in Day, NEW k \in Nat, MonthOf[s] + k \in Month
    PROVE  /\ MonthOf[AddMonths(s, k)] = MonthOf[s] + k
           /\ \/ DayOfMonth(AddMonths(s, k)) = DayOfMonth(s)
              \/ /\ DayOfMonth(AddMonths(s, k)) < DayOfMonth(s)
                 /\ AddMonths(s, k) = LastDayOf(MonthOf[s] + k)
  <1> DEFINE m == MonthOf[s] + k
             d == AddMonths(s, k)
  <1>1. /\ MonthStart[m] \in Nat /\ MonthStart[m + 1] \in Nat
        /\ MonthStart[m] < MonthStart[m + 1]
        /\ MonthStart[m + 1] <= MonthStart[LastMonth + 1]
    BY MonthBounds
  <1>2. d \in Int /\ MonthStart[m] <= d /\ d < MonthStart[m + 1]
    BY AddMonthsInMonth
  <1>3. d \in Day /\ m \in Int
    BY <1>1, <1>2, CalendarAssumption DEF Day, Month
  <1>4. /\ MonthOf[d] \in Month /\ MonthStart[MonthOf[d]] <= d
        /\ d < MonthStart[MonthOf[d] + 1]
    BY <1>3, CalendarAssumption
  <1>5. MonthOf[d] = m
    <2>1. m \in Month
      OBVIOUS
    <2> HIDE DEF m, d
    <2>2. ASSUME MonthOf[d] < m PROVE FALSE
      <3>1. MonthStart[MonthOf[d] + 1] \in Nat /\ MonthStart[MonthOf[d] + 1] <= MonthStart[m]
        BY <1>4, <2>1, <2>2, MonthOrder
      <3>2. QED
        BY <1>1, <1>2, <1>4, <3>1
    <2>3. ASSUME m < MonthOf[d] PROVE FALSE
      <3>1. MonthStart[m + 1] <= MonthStart[MonthOf[d]] /\ MonthStart[MonthOf[d]] \in Nat
        BY <1>4, <2>1, <2>3, MonthOrder, MonthBounds
      <3>2. QED
        BY <1>1, <1>2, <1>4, <3>1
    <2>4. QED
      BY <1>3, <1>4, <2>2, <2>3 DEF Month
  <1>6. DayOfMonth(s) \in Nat
    BY DayBounds
  <1>7. QED
    BY <1>1, <1>2, <1>5, <1>6 DEF AddMonths, DayOfMonth, LastDayOf

\* Two due dates in a row are in two months, k apart.
LEMMA NextMonths ==
    ASSUME NEW s \in Day, NEW f \in Recurring, f # "weekly", NEW n \in Nat,
           IndexInCalendar(s, f, n + 1)
    PROVE  LET p == MonthsByFrequency[f]
               m == MonthOf[s] + n * p
           IN  /\ p \in {1, 3, 12} /\ m \in Month /\ m + p \in Month /\ n * p \in Nat
               /\ NthDueDate(s, f, n) = AddMonths(s, n * p)
               /\ NthDueDate(s, f, n + 1) = AddMonths(s, n * p + p)
               /\ MonthOf[s] + (n * p + p) = m + p
  <1> DEFINE p == MonthsByFrequency[f]
  <1>1. p \in {1, 3, 12} /\ n * p \in Nat /\ (n + 1) * p = n * p + p
    BY PeriodIsPositive
  <1>2. MonthOf[s] \in Month /\ MonthOf[s] \in Nat
    BY DayBounds DEF Month
  <1>3. MonthOf[s] + (n * p + p) \in Month
    BY <1>1 DEF IndexInCalendar
  <1>4. MonthOf[s] + n * p \in Month
    <2>1. n * p < n * p + p /\ n * p + p \in Nat
      BY <1>1
    <2> HIDE DEF p
    <2>2. QED
      BY <1>1, <1>2, <1>3, <2>1, EarlierMonth
  <1>5. QED
    BY <1>1, <1>2, <1>3, <1>4 DEF NthDueDate

\* Two due dates in a row are a week apart at least, whatever the frequency.
LEMMA AWeekApart ==
    ASSUME NEW s \in Day, NEW f \in Recurring, NEW n \in Nat,
           IndexInCalendar(s, f, n + 1)
    PROVE  NthDueDate(s, f, n) + Week <= NthDueDate(s, f, n + 1)
  <1>1. Week \in Nat \ {0}
    BY PeriodAssumption
  <1>2. CASE f = "weekly"
    <2>1. Week * n \in Nat /\ Week * (n + 1) \in Nat /\ Week * n + Week <= Week * (n + 1)
      BY <1>1, ProductGrows
    <2>2. s \in Nat
      BY DayBounds
    <2>3. QED
      BY <1>1, <1>2, <2>1, <2>2 DEF NthDueDate
  <1>3. CASE f # "weekly"
    <2> DEFINE p == MonthsByFrequency[f]
               m == MonthOf[s] + n * p
               day == DayOfMonth(s)
    <2>1. /\ p \in {1, 3, 12} /\ m \in Month /\ m + p \in Month /\ n * p \in Nat
          /\ NthDueDate(s, f, n) = AddMonths(s, n * p)
          /\ NthDueDate(s, f, n + 1) = AddMonths(s, n * p + p)
          /\ MonthOf[s] + (n * p + p) = m + p
      BY <1>3, NextMonths
    <2>2. /\ MonthStart[m] \in Nat /\ MonthStart[m + 1] \in Nat
          /\ MonthStart[m + p] \in Nat /\ MonthStart[m + p + 1] \in Nat
          /\ MonthStart[m] + Week <= MonthStart[m + 1]
          /\ MonthStart[m + p] + Week <= MonthStart[m + p + 1]
          /\ MonthStart[m + 1] <= MonthStart[m + p]
      <3>1. m < m + p
        BY <2>1 DEF Month
      <3>2. QED
        BY <2>1, <3>1, MonthBounds, MonthOrder, CapAssumption
    <2>3. day \in Nat
      BY DayBounds
    <2>4. /\ AddMonths(s, n * p) = IF MonthStart[m] + day <= MonthStart[m + 1] - 1
                                   THEN MonthStart[m] + day ELSE MonthStart[m + 1] - 1
          /\ AddMonths(s, n * p + p) =
                IF MonthStart[m + p] + day <= MonthStart[m + p + 1] - 1
                THEN MonthStart[m + p] + day ELSE MonthStart[m + p + 1] - 1
      BY <2>1 DEF AddMonths, LastDayOf
    <2> HIDE DEF p, m, day
    <2>5. QED
      BY <1>1, <2>1, <2>2, <2>3, <2>4
  <1>4. QED
    BY <1>2, <1>3

\* And they are never further apart than LONGEST_PERIOD_DAYS.
LEMMA APeriodApart ==
    ASSUME NEW s \in Day, NEW f \in Recurring, NEW n \in Nat,
           IndexInCalendar(s, f, n + 1)
    PROVE  NthDueDate(s, f, n + 1) <= NthDueDate(s, f, n) + LongestPeriod[f]
  <1>1. Week \in Nat \ {0} /\ LongestPeriod[f] \in Nat
    BY PeriodAssumption DEF Frequency
  <1>2. CASE f = "weekly"
    <2>1. Week * n \in Nat /\ Week * (n + 1) = Week * n + Week
      BY <1>1, ProductBounds
    <2>2. s \in Nat /\ Week <= LongestPeriod["weekly"]
      BY DayBounds, LongestPeriodAssumption
    <2>3. QED
      BY <1>1, <1>2, <2>1, <2>2 DEF NthDueDate
  <1>3. CASE f # "weekly"
    <2> DEFINE p == MonthsByFrequency[f]
               m == MonthOf[s] + n * p
               day == DayOfMonth(s)
    <2>1. /\ p \in {1, 3, 12} /\ m \in Month /\ m + p \in Month /\ n * p \in Nat
          /\ NthDueDate(s, f, n) = AddMonths(s, n * p)
          /\ NthDueDate(s, f, n + 1) = AddMonths(s, n * p + p)
          /\ MonthOf[s] + (n * p + p) = m + p
      BY <1>3, NextMonths
    <2>2. /\ MonthStart[m] \in Nat /\ MonthStart[m + 1] \in Nat
          /\ MonthStart[m + p] \in Nat /\ MonthStart[m + p + 1] \in Nat
          /\ MonthStart[m + p] <= MonthStart[m] + LongestPeriod[f]
          /\ MonthStart[(m + 1) + p] <= MonthStart[m + 1] + LongestPeriod[f]
      <3>1. m + 1 \in Month /\ m \in Int /\ (m + 1) + p <= LastMonth + 1 /\ m + p <= LastMonth + 1
        <4> HIDE DEF p, m
        <4>1. QED
          BY <2>1, CalendarAssumption DEF Month
      <3>2. f \in Recurring \ {"weekly"}
        BY <1>3
      <3>3. QED
        BY <2>1, <3>1, <3>2, MonthBounds, LongestPeriodAssumption
    <2>3. day \in Nat
      BY DayBounds
    <2>4. /\ AddMonths(s, n * p) = IF MonthStart[m] + day <= MonthStart[m + 1] - 1
                                   THEN MonthStart[m] + day ELSE MonthStart[m + 1] - 1
          /\ AddMonths(s, n * p + p) =
                IF MonthStart[m + p] + day <= MonthStart[m + p + 1] - 1
                THEN MonthStart[m + p] + day ELSE MonthStart[m + p + 1] - 1
      BY <2>1 DEF AddMonths, LastDayOf
    <2>5. MonthStart[(m + 1) + p] = MonthStart[m + p + 1]
      <3>1. (m + 1) + p = m + p + 1
        BY <2>1 DEF Month
      <3>2. QED
        BY <3>1
    <2> HIDE DEF p, m, day
    <2>6. QED
      BY <1>1, <2>1, <2>2, <2>3, <2>4, <2>5
  <1>4. QED
    BY <1>2, <1>3

\* What an index stands for, when the loop has it in hand.
LEMMA DueAtIndex ==
    ASSUME TypeOK, frequency \in Recurring, NEW n \in Nat, Expressible(n)
    PROVE  /\ Nth(n) \in Day /\ Nth(n) \in Nat
           /\ \A m \in Nat : m < n => Expressible(m) /\ Nth(m) < Nth(n)
           /\ \A m \in Nat : n = m + 1 => /\ Nth(m) + Week <= Nth(n)
                                          /\ Nth(n) <= Nth(m) + LongestPeriod[frequency]
  <1>1. starts_on \in Day
    BY DEF TypeOK
  <1>2. Nth(n) \in Day /\ Nth(n) \in Nat
    BY <1>1, NthIsADay, DayBounds DEF Expressible, Nth
  <1>3. \A m \in Nat : m < n => Expressible(m) /\ Nth(m) < Nth(n)
    BY <1>1, NthGrows DEF Expressible, Nth
  <1>4. \A m \in Nat : n = m + 1 => /\ Nth(m) + Week <= Nth(n)
                                    /\ Nth(n) <= Nth(m) + LongestPeriod[frequency]
    BY <1>1, AWeekApart, APeriodApart DEF Expressible, Nth
  <1>5. QED
    BY <1>2, <1>3, <1>4

\* The day of the anchor, of one date: what AnchorDayKept says of them all.
OnAnchor(d) ==
    frequency \in {"monthly", "quarterly", "yearly"} =>
        /\ Months(d) % MonthsByFrequency[frequency] = 0
        /\ \/ DayOfMonth(d) = DayOfMonth(starts_on)
           \/ /\ DayOfMonth(d) < DayOfMonth(starts_on)
              /\ d = LastDayOf(MonthOf[d])

LEMMA DueOnAnchor ==
    ASSUME TypeOK, frequency \in Recurring, NEW n \in Nat, Expressible(n)
    PROVE  OnAnchor(Nth(n))
  <1> SUFFICES ASSUME frequency # "weekly" PROVE OnAnchor(Nth(n))
    BY DEF OnAnchor
  <1> DEFINE p == MonthsByFrequency[frequency]
             k == n * p
  <1>1. p \in {1, 3, 12} /\ k \in Nat /\ k % p = 0
    BY PeriodIsPositive
  <1>2. starts_on \in Day /\ MonthOf[starts_on] \in Month /\ MonthOf[starts_on] \in Int
    BY DayBounds DEF TypeOK, Month
  <1>3. MonthOf[starts_on] + k \in Month /\ Nth(n) = AddMonths(starts_on, k)
    BY DEF Expressible, IndexInCalendar, Nth, NthDueDate
  <1> HIDE DEF k
  <1>4. /\ MonthOf[Nth(n)] = MonthOf[starts_on] + k
        /\ \/ DayOfMonth(Nth(n)) = DayOfMonth(starts_on)
           \/ /\ DayOfMonth(Nth(n)) < DayOfMonth(starts_on)
              /\ Nth(n) = LastDayOf(MonthOf[starts_on] + k)
    BY <1>1, <1>2, <1>3, DueInItsMonth
  <1>5. Months(Nth(n)) = k
    BY <1>1, <1>2, <1>4 DEF Months
  <1>6. QED
    BY <1>1, <1>4, <1>5 DEF OnAnchor

\* What the list is while it grows: each date has its index, below the one that
\* comes, the last one has the index before, and from the floor to it there are as
\* many weeks as dates between.
ListInv ==
    /\ InOrder
    /\ AnchorDayKept
    /\ CapIsNeverReached
    /\ pc = "loop" =>
          /\ \A i \in 1 .. Len(dates) :
                \E n \in Nat : n < index /\ Expressible(n) /\ dates[i] = Nth(n)
          /\ Len(dates) > 0 =>
                /\ index > 0 /\ Expressible(index - 1)
                /\ dates[Len(dates)] = Nth(index - 1)
                /\ floor + Week * (Len(dates) - 1) <= Nth(index - 1)
                /\ Nth(index - 1) <= horizon

LEMMA FewWeeks ==
    ASSUME NEW a \in Nat, Week * a < Week * (MaxOccurrences - 1)
    PROVE  a < MaxOccurrences - 1
  <1>1. Week \in Nat \ {0} /\ MaxOccurrences - 1 \in Nat
    BY PeriodAssumption, InputAssumption, CapAssumption
  <1>2. ~(MaxOccurrences - 1 < a)
    <2>1. ASSUME MaxOccurrences - 1 < a PROVE FALSE
      <3>1. /\ Week * (MaxOccurrences - 1) \in Nat /\ Week * a \in Nat
            /\ Week * (MaxOccurrences - 1) + Week <= Week * a
        BY <1>1, <2>1, ProductGrows
      <3>2. QED
        BY <1>1, <3>1
    <2>2. QED
      BY <2>1
  <1>3. a # MaxOccurrences - 1
    <2>1. Week * a \in Nat
      BY <1>1, ProductBounds
    <2>2. QED
      BY <2>1
  <1>4. QED
    BY <1>1, <1>2, <1>3

\* As many weeks as the cap, less one, outlast every horizon.
LEMMA HorizonFits ==
    ASSUME NEW f \in Frequency
    PROVE  HorizonDays(f) < Week * (MaxOccurrences - 1)
  <1> DEFINE most == Week * (MaxOccurrences - 1)
  <1>1. GenerationHorizon < most /\ LongestPeriod[f] + HorizonMargin < most
    BY CapAssumption
  <1> HIDE DEF most
  <1>2. HorizonDays(f) < most
    BY <1>1 DEF HorizonDays
  <1>3. QED
    BY <1>2 DEF most

LEMMA ListInvInit == Init => ListInv
  <1>1. Init => dates = <<>> /\ Len(dates) = 0 /\ pc = "call"
    BY DEF Init
  <1>2. MaxOccurrences > 0
    BY InputAssumption, CapAssumption
  <1>3. QED
    BY <1>1, <1>2 DEF ListInv, InOrder, AnchorDayKept, CapIsNeverReached

LEMMA ListInvStep == LoopInv /\ ListInv /\ [Next]_vars => ListInv'
  <1> SUFFICES ASSUME LoopInv, ListInv, [Next]_vars PROVE ListInv'
    OBVIOUS
  <1>1. TypeOK /\ Len(dates) \in Nat /\ index \in Nat /\ floor \in Nat /\ horizon \in Int
    BY DayBounds DEF LoopInv, TypeOK
  <1>2. MaxOccurrences \in Nat /\ MaxOccurrences > 1 /\ Week \in Nat \ {0}
    BY InputAssumption, CapAssumption, PeriodAssumption
  <1>3. CASE dates' = <<>> /\ UNCHANGED args /\ pc' # "loop"
    BY <1>2, <1>3 DEF ListInv, InOrder, AnchorDayKept, CapIsNeverReached
  <1>4. CASE OneOff
    <2>1. Len(dates') <= 1 /\ Len(dates') \in Nat /\ pc' = "returned" /\ frequency' = "oneoff"
      BY <1>4 DEF OneOff, Return, args
    <2>2. QED
      BY <1>2, <2>1 DEF ListInv, InOrder, AnchorDayKept, CapIsNeverReached
  <1>5. CASE EnterLoop
    <2>1. dates' = <<>> /\ UNCHANGED args
      BY <1>5 DEF EnterLoop, LoopInv
    <2>2. QED
      BY <1>2, <2>1 DEF ListInv, InOrder, AnchorDayKept, CapIsNeverReached
  <1>6. CASE UNCHANGED <<args, dates>> /\ pc' # "loop"
    BY <1>6 DEF ListInv, InOrder, AnchorDayKept, CapIsNeverReached, GeneratorCall, args, Months
  <1>7. CASE Iterate
    <2>1. /\ pc = "loop" /\ pc' = "loop" /\ index' = index + 1 /\ UNCHANGED args
          /\ frequency \in Recurring /\ Expressible(index) /\ due = Nth(index)
          /\ due <= horizon /\ horizon >= floor
          /\ dates' = IF due >= floor THEN Append(dates, due) ELSE dates
      BY <1>7 DEF Iterate, LoopInv, Expressible, due, Nth
    <2>2. /\ due \in Day /\ due \in Nat
          /\ \A m \in Nat : m < index => Expressible(m) /\ Nth(m) < due
          /\ \A m \in Nat : index = m + 1 => Nth(m) + Week <= due
      BY <1>1, <2>1, DueAtIndex
    <2>3. \A n : Expressible(n)' = Expressible(n) /\ Nth(n)' = Nth(n)
      BY <2>1 DEF Expressible, Nth, args
    <2>4. CASE due < floor
      <3>1. dates' = dates
        BY <1>1, <2>1, <2>2, <2>4
      <3>2. Len(dates) = 0
        \* a date that was kept is at or after the floor, and due comes after it
        <4>1. ASSUME Len(dates) > 0 PROVE FALSE
          <5>1. /\ index - 1 \in Nat /\ index = (index - 1) + 1
                /\ floor + Week * (Len(dates) - 1) <= Nth(index - 1)
            BY <1>1, <2>1, <4>1 DEF ListInv
          <5>2. Week * (Len(dates) - 1) \in Nat
            BY <1>1, <1>2, <4>1, ProductBounds
          <5>3. Nth(index - 1) < due /\ Nth(index - 1) \in Nat
            BY <1>1, <2>1, <2>2, <5>1, DueAtIndex
          <5>4. QED
            BY <1>1, <2>2, <2>4, <5>1, <5>2, <5>3
        <4>2. QED
          BY <1>1, <4>1
      <3>3. QED
        BY <1>1, <1>2, <2>1, <3>1, <3>2 DEF ListInv, InOrder, AnchorDayKept,
                                           CapIsNeverReached
    <2>5. CASE due >= floor
      <3>1. /\ dates' = Append(dates, due) /\ Len(dates') = Len(dates) + 1
            /\ \A i \in 1 .. Len(dates) : dates'[i] = dates[i]
            /\ dates'[Len(dates) + 1] = due
        BY <1>1, <2>1, <2>2, <2>5 DEF TypeOK
      <3>2. \A i \in 1 .. Len(dates) : dates[i] < due
        BY <1>1, <2>1, <2>2 DEF ListInv
      <3>3. InOrder'
        <4> SUFFICES ASSUME NEW i \in 1 .. Len(dates) + 1, NEW j \in 1 .. Len(dates) + 1, i < j
                     PROVE  dates'[i] < dates'[j]
          BY <3>1 DEF InOrder
        <4>1. i \in 1 .. Len(dates)
          BY <1>1
        <4>2. CASE j = Len(dates) + 1
          BY <3>1, <3>2, <4>1, <4>2
        <4>3. CASE j # Len(dates) + 1
          BY <1>1, <3>1, <4>1, <4>3 DEF ListInv, InOrder
        <4>4. QED
          BY <4>2, <4>3
      <3>4. AnchorDayKept'
        <4>1. OnAnchor(due)
          BY <1>1, <2>1, DueOnAnchor
        <4>2. \A i \in 1 .. Len(dates) : OnAnchor(dates[i])
          BY DEF ListInv, AnchorDayKept, OnAnchor
        <4>3. \A i \in 1 .. Len(dates') : OnAnchor(dates'[i])
          BY <1>1, <3>1, <4>1, <4>2
        <4>4. \A i \in 1 .. Len(dates') : OnAnchor(dates[i])'
          BY <2>1, <4>3 DEF OnAnchor, args, Months
        <4>5. QED
          BY <4>4 DEF AnchorDayKept, OnAnchor
      <3>5. floor + Week * Len(dates) <= due
        <4>1. CASE Len(dates) = 0
          BY <1>1, <1>2, <2>2, <2>5, <4>1
        <4>2. CASE Len(dates) > 0
          <5> DEFINE a == Len(dates) - 1
          <5>1. /\ index - 1 \in Nat /\ index = (index - 1) + 1 /\ a \in Nat
                /\ floor + Week * a <= Nth(index - 1)
            BY <1>1, <2>1, <4>2 DEF ListInv
          <5>2. Nth(index - 1) + Week <= due /\ Nth(index - 1) \in Nat
            BY <1>1, <2>1, <2>2, <5>1, DueAtIndex
          <5>3. Len(dates) = a + 1
            BY <1>1
          <5> HIDE DEF a
          <5>4. Week * (a + 1) = Week * a + Week /\ Week * a \in Nat
            BY <1>2, <5>1
          <5>5. QED
            BY <1>1, <1>2, <2>2, <5>1, <5>2, <5>3, <5>4
        <4>3. QED
          BY <1>1, <4>1, <4>2
      <3>6. CapIsNeverReached'
        <4> SUFFICES ASSUME GeneratorCall PROVE Len(dates) + 1 < MaxOccurrences
          BY <2>1, <3>1 DEF CapIsNeverReached, GeneratorCall, args
        <4>1. HorizonDays(frequency) < Week * (MaxOccurrences - 1) /\ HorizonDays(frequency) \in Int
          BY <1>1, HorizonFits, HorizonCovers DEF TypeOK
        <4>2. Week * Len(dates) \in Nat /\ Week * (MaxOccurrences - 1) \in Int
          BY <1>1, <1>2, ProductBounds
        <4>3. Week * Len(dates) < Week * (MaxOccurrences - 1)
          BY <1>1, <2>1, <2>2, <3>5, <4>1, <4>2 DEF GeneratorCall
        <4>4. QED
          BY <1>1, <1>2, <4>3, FewWeeks
      <3>7. \A i \in 1 .. Len(dates') :
               \E n \in Nat : n < index' /\ Expressible(n) /\ dates'[i] = Nth(n)
        <4>1. \A i \in 1 .. Len(dates) :
                 \E n \in Nat : n < index /\ Expressible(n) /\ dates[i] = Nth(n)
          BY <2>1 DEF ListInv
        <4>2. QED
          BY <1>1, <2>1, <3>1, <4>1
      <3>8. /\ index' > 0 /\ index' - 1 = index /\ Len(dates') - 1 = Len(dates)
            /\ dates'[Len(dates')] = Nth(index)
        BY <1>1, <2>1, <3>1
      <3>9. (pc = "loop" =>
              /\ \A i \in 1 .. Len(dates) :
                    \E n \in Nat : n < index /\ Expressible(n) /\ dates[i] = Nth(n)
              /\ Len(dates) > 0 =>
                    /\ index > 0 /\ Expressible(index - 1)
                    /\ dates[Len(dates)] = Nth(index - 1)
                    /\ floor + Week * (Len(dates) - 1) <= Nth(index - 1)
                    /\ Nth(index - 1) <= horizon)'
        BY <2>1, <2>3, <3>5, <3>7, <3>8 DEF args, Expressible, Nth
      <3>10. QED
        BY <3>3, <3>4, <3>6, <3>9 DEF ListInv
    <2>6. QED
      BY <1>1, <2>2, <2>4, <2>5
  <1>8. CASE UNCHANGED vars
    BY <1>8 DEF vars, ListInv, InOrder, AnchorDayKept, CapIsNeverReached, GeneratorCall,
                Months, Expressible, Nth
  <1>9. CASE EmptyRange
    BY <1>3, <1>9 DEF EmptyRange, Return
  <1>10. CASE LeaveLoop \/ RunOutOfCalendar
    BY <1>6, <1>10 DEF LeaveLoop, RunOutOfCalendar, Return
  <1>11. QED
    BY <1>4, <1>5, <1>7, <1>8, <1>9, <1>10 DEF Next

LEMMA ListInvHolds == Spec => [](LoopInv /\ ListInv)
  BY LoopInvInit, LoopInvStep, ListInvInit, ListInvStep, PTL DEF Spec

\* MAX_OCCURRENCES_PER_COMMITMENT never cuts the list of a generator's call: from
\* one date to the next there is a week at least, and the horizon has fewer weeks
\* than the cap (CapAssumption).
THEOREM CapTheorem == Spec => []CapIsNeverReached
  <1>1. ListInv => CapIsNeverReached
    BY DEF ListInv
  <1>2. QED
    BY <1>1, ListInvHolds, PTL

\* So the generator gets every due date of its horizon, and none besides: the cap is
\* no condition of DatesAreTheSchedule for it.
THEOREM GeneratorTheorem == Spec => []GeneratorGetsAll
  <1>1. LoopInv /\ ListInv => GeneratorGetsAll
    BY DEF LoopInv, ListInv, DatesAreTheSchedule, CapIsNeverReached, GeneratorGetsAll
  <1>2. QED
    BY <1>1, ListInvHolds, PTL

\* The dates of a list are in order, each of them once, whatever the call.
THEOREM OrderTheorem == Spec => []InOrder
  <1>1. ListInv => InOrder
    BY DEF ListInv
  <1>2. QED
    BY <1>1, ListInvHolds, PTL

\* Every date keeps the day of the anchor, or is the last of a month too short for it
\* (add_months clamps, and nth_due_date counts from the anchor).
THEOREM AnchorTheorem == Spec => []AnchorDayKept
  <1>1. ListInv => AnchorDayKept
    BY DEF ListInv
  <1>2. QED
    BY <1>1, ListInvHolds, PTL

-----------------------------------------------------------------------------
(* The first date of the list: within a period of the floor.               *)

\* Where the loop stands until it keeps a date: at the anchor, just after a date
\* before the floor, or on one.
BeforeTheFloor ==
    \/ index = 0
    \/ index > 0 /\ Expressible(index - 1) /\ Nth(index - 1) < floor
    \/ Expressible(index) /\ Nth(index) < floor

FirstInv ==
    /\ pc = "loop" /\ dates = <<>> => BeforeTheFloor
    /\ pc = "loop" /\ dates # <<>> /\ starts_on <= floor =>
          dates[1] < floor + LongestPeriod[frequency]
    /\ PeriodIsHonest

\* _first_index lands on the anchor or on a due date that is before the floor.
LEMMA FirstIndexIsBefore ==
    ASSUME TypeOK, frequency \in Recurring
    PROVE  \/ FirstIndex = 0
           \/ FirstIndex \in Nat /\ Expressible(FirstIndex) /\ Nth(FirstIndex) < floor
  <1>1. /\ starts_on \in Nat /\ floor \in Nat /\ starts_on \in Day /\ floor \in Day
        /\ MonthOf[starts_on] \in Month /\ MonthOf[starts_on] \in Nat
        /\ MonthOf[floor] \in Month /\ MonthOf[floor] \in Nat
    BY DayBounds DEF TypeOK, Month
  <1>2. CASE floor <= starts_on
    BY <1>2 DEF FirstIndex
  <1>3. CASE floor > starts_on /\ frequency = "weekly"
    <2> DEFINE q == (floor - starts_on) \div Week
    <2>1. Week \in Nat \ {0} /\ q \in Nat /\ Week * q <= floor - starts_on
      BY <1>1, <1>3, PeriodAssumption, QuotientBelow
    <2>2. FirstIndex = IF q <= 1 THEN 0 ELSE q - 1
      BY <1>1, <1>3 DEF FirstIndex
    <2> HIDE DEF q
    <2>3. CASE q > 1
      <3>1. q - 1 \in Nat /\ q - 1 < q
        BY <2>1, <2>3
      <3>2. Week * (q - 1) \in Nat /\ Week * q \in Nat /\ Week * (q - 1) + Week <= Week * q
        BY <2>1, <3>1, ProductGrows
      <3>3. starts_on + Week * (q - 1) \in Nat /\ starts_on + Week * (q - 1) < floor
        BY <1>1, <2>1, <3>2
      <3>4. starts_on + Week * (q - 1) \in Day
        BY <1>1, <3>3, CalendarAssumption DEF Day
      <3>5. QED
        BY <1>3, <2>2, <2>3, <3>1, <3>3, <3>4 DEF Expressible, IndexInCalendar, Nth, NthDueDate
    <2>4. QED
      BY <2>1, <2>2, <2>3
  <1>4. CASE floor > starts_on /\ frequency # "weekly"
    <2> DEFINE p == MonthsByFrequency[frequency]
               a == MonthOf[floor] - MonthOf[starts_on]
               q == a \div p
    <2>1. p \in {1, 3, 12} /\ a \in Int
      BY <1>1, <1>4, PeriodIsPositive
    <2>2. q \in Int /\ (q > 1 => (q - 1) * p < a /\ (q - 1) * p \in Nat)
      BY <2>1
    <2>3. FirstIndex = IF q <= 1 THEN 0 ELSE q - 1
      BY <1>1, <1>4 DEF FirstIndex, Months
    <2>4. CASE q > 1
      <3> DEFINE k == (q - 1) * p
                 m == MonthOf[starts_on] + k
      <3>1. k < a /\ k \in Nat
        BY <2>2, <2>4
      <3>2. m \in Month /\ m < MonthOf[floor] /\ m \in Nat
        <4> HIDE DEF k
        <4>1. QED
          BY <1>1, <3>1, CalendarAssumption DEF Month
      <3>3. /\ AddMonths(starts_on, k) \in Int
            /\ AddMonths(starts_on, k) < MonthStart[m + 1]
        BY <1>1, <3>1, <3>2, AddMonthsInMonth
      <3>4. MonthStart[m + 1] <= MonthStart[MonthOf[floor]] /\ MonthStart[m + 1] \in Nat
        BY <1>1, <3>2, MonthOrder
      <3>5. MonthStart[MonthOf[floor]] <= floor /\ MonthStart[MonthOf[floor]] \in Nat
        BY <1>1, CalendarAssumption, MonthBounds
      <3>6. AddMonths(starts_on, k) < floor
        BY <1>1, <3>3, <3>4, <3>5
      <3>7. FirstIndex = q - 1 /\ q - 1 \in Nat
        BY <2>2, <2>3, <2>4
      <3>8. QED
        BY <1>4, <3>2, <3>6, <3>7 DEF Expressible, IndexInCalendar, Nth, NthDueDate
    <2>5. QED
      BY <2>2, <2>3, <2>4
  <1>5. QED
    BY <1>1, <1>2, <1>3, <1>4

\* The next date after one before the floor, or the anchor, is within a period.
LEMMA FirstIsNear ==
    ASSUME TypeOK, frequency \in Recurring, Expressible(index), BeforeTheFloor,
           starts_on <= floor
    PROVE  Nth(index) < floor + LongestPeriod[frequency]
  <1>1. index \in Nat /\ Nth(index) \in Nat /\ floor \in Nat /\ starts_on \in Nat
    BY DueAtIndex, DayBounds DEF TypeOK
  <1>2. LongestPeriod[frequency] \in Nat /\ LongestPeriod[frequency] > 0
    BY PeriodAssumption, LongestPeriodAssumption DEF TypeOK
  <1>3. CASE index = 0
    <2>1. MonthOf[starts_on] + 0 \in Month /\ MonthOf[starts_on] \in Nat /\ starts_on \in Day
      BY DayBounds DEF TypeOK, Month
    <2>2. CASE frequency = "weekly"
      BY <1>1, <1>2, <1>3, <2>2, PeriodAssumption DEF Nth, NthDueDate
    <2>3. CASE frequency # "weekly"
      <3>1. Nth(index) = AddMonths(starts_on, 0)
        BY <1>3, <2>3, PeriodIsPositive DEF Nth, NthDueDate
      <3>2. /\ MonthStart[MonthOf[starts_on]] <= starts_on
            /\ starts_on < MonthStart[MonthOf[starts_on] + 1]
            /\ MonthStart[MonthOf[starts_on]] \in Nat /\ MonthStart[MonthOf[starts_on] + 1] \in Nat
        BY <2>1, CalendarAssumption, MonthBounds
      <3>3. AddMonths(starts_on, 0) = starts_on
        BY <1>1, <2>1, <3>2 DEF AddMonths, LastDayOf, DayOfMonth
      <3>4. QED
        BY <1>1, <1>2, <3>1, <3>3
    <2>4. QED
      BY <2>2, <2>3
  <1>4. CASE index > 0 /\ Expressible(index - 1) /\ Nth(index - 1) < floor
    <2>1. index - 1 \in Nat /\ index = (index - 1) + 1
      BY <1>1, <1>4
    <2>2. Nth(index) <= Nth(index - 1) + LongestPeriod[frequency] /\ Nth(index - 1) \in Nat
      BY <1>4, <2>1, <1>1, DueAtIndex
    <2>3. QED
      BY <1>1, <1>2, <1>4, <2>2
  <1>5. CASE Nth(index) < floor
    BY <1>1, <1>2, <1>5
  <1>6. QED
    BY <1>3, <1>4, <1>5 DEF BeforeTheFloor

LEMMA FirstInvInit == Init => FirstInv
  BY DEF Init, FirstInv, PeriodIsHonest

LEMMA FirstInvStep == LoopInv /\ FirstInv /\ [Next]_vars => FirstInv'
  <1> SUFFICES ASSUME LoopInv, FirstInv, [Next]_vars PROVE FirstInv'
    OBVIOUS
  <1>1. /\ TypeOK /\ Len(dates) \in Nat /\ dates \in Seq(Day)
        /\ index \in Nat /\ floor \in Nat /\ horizon \in Int
        /\ pc \in {"call", "loop", "returned", "raised"}
    BY DayBounds DEF LoopInv, TypeOK
  <1>2. MaxOccurrences \in Nat /\ MaxOccurrences > 1
    BY InputAssumption, CapAssumption
  <1>3. /\ HorizonDays(frequency) \in Nat /\ LongestPeriod[frequency] \in Nat
        /\ LongestPeriod[frequency] <= HorizonDays(frequency)
    BY HorizonCovers, PeriodAssumption DEF LoopInv, TypeOK
  <1>4. CASE EmptyRange
    <2>1. ~GeneratorCall'
      BY <1>1, <1>3, <1>4 DEF EmptyRange, Return, args, GeneratorCall
    <2>2. QED
      BY <1>4, <2>1 DEF EmptyRange, Return, FirstInv, PeriodIsHonest
  <1>5. CASE OneOff
    BY <1>5 DEF OneOff, Return, args, FirstInv, PeriodIsHonest, Recurring
  <1>6. CASE EnterLoop
    <2>1. frequency \in Recurring /\ dates' = <<>> /\ index' = FirstIndex /\ UNCHANGED args
          /\ pc' = "loop"
      BY <1>6 DEF EnterLoop, LoopInv, TypeOK, Frequency
    <2>2. \/ FirstIndex = 0
          \/ FirstIndex \in Nat /\ Expressible(FirstIndex) /\ Nth(FirstIndex) < floor
      BY <1>1, <2>1, FirstIndexIsBefore
    <2>3. BeforeTheFloor'
      BY <2>1, <2>2 DEF BeforeTheFloor, args, Expressible, Nth
    <2>4. QED
      BY <2>1, <2>3 DEF FirstInv, PeriodIsHonest
  <1>7. CASE LeaveLoop
    <2>1. /\ pc = "loop" /\ pc' = "returned" /\ UNCHANGED <<args, dates, index>>
          /\ frequency \in Recurring
      BY <1>7 DEF LeaveLoop, Return, LoopInv
    <2>2. ASSUME GeneratorCall, ends_on = None, starts_on <= floor
          PROVE  dates # <<>> /\ dates[1] < floor + LongestPeriod[frequency]
      <3>1. CASE dates = <<>>
        <4>1. Expressible(index) /\ due > horizon /\ due = Nth(index)
          BY <1>2, <1>7, <2>2, <3>1 DEF LeaveLoop, Expressible, WithinTerm, due, Nth
        <4>2. Nth(index) < floor + LongestPeriod[frequency] /\ Nth(index) \in Nat
          BY <1>1, <2>1, <2>2, <3>1, <4>1, FirstIsNear, DueAtIndex DEF FirstInv
        <4>3. QED
          BY <1>1, <1>3, <2>2, <4>1, <4>2 DEF GeneratorCall
      <3>2. QED
        BY <2>1, <2>2, <3>1 DEF FirstInv
    <2>3. QED
      BY <2>1, <2>2 DEF FirstInv, PeriodIsHonest, GeneratorCall, args
  <1>8. CASE Iterate
    <2>1. /\ pc = "loop" /\ pc' = "loop" /\ index' = index + 1 /\ UNCHANGED args
          /\ frequency \in Recurring /\ Expressible(index) /\ due = Nth(index)
          /\ dates' = IF due >= floor THEN Append(dates, due) ELSE dates
      BY <1>8 DEF Iterate, LoopInv, Expressible, due, Nth
    <2>2. due \in Nat /\ due \in Day
      BY <1>1, <2>1, DueAtIndex
    <2>3. CASE due < floor
      <3>1. dates' = dates
        BY <1>1, <2>1, <2>2, <2>3
      <3>2. index' > 0 /\ index' - 1 = index
        BY <1>1, <2>1
      <3>3. BeforeTheFloor'
        BY <2>1, <2>3, <3>2 DEF BeforeTheFloor, args, Expressible, Nth
      <3>4. QED
        BY <2>1, <3>1, <3>3 DEF FirstInv, PeriodIsHonest, args
    <2>4. CASE due >= floor
      <3>1. dates' = Append(dates, due) /\ dates' # <<>>
        BY <1>1, <2>1, <2>2, <2>4
      <3>2. CASE dates = <<>>
        <4>1. dates'[1] = due
          BY <1>1, <2>2, <3>1, <3>2
        <4>2. starts_on <= floor => due < floor + LongestPeriod[frequency]
          BY <1>1, <2>1, <3>2, FirstIsNear DEF FirstInv
        <4>3. QED
          BY <2>1, <3>1, <4>1, <4>2 DEF FirstInv, PeriodIsHonest, args
      <3>3. CASE dates # <<>>
        <4>1. dates'[1] = dates[1]
          BY <1>1, <2>2, <3>1, <3>3
        <4>2. QED
          BY <2>1, <3>1, <3>3, <4>1 DEF FirstInv, PeriodIsHonest, args
      <3>4. QED
        BY <3>2, <3>3
    <2>5. QED
      BY <1>1, <2>2, <2>3, <2>4
  <1>9. CASE RunOutOfCalendar
    BY <1>9 DEF RunOutOfCalendar, FirstInv, PeriodIsHonest
  <1>10. CASE UNCHANGED vars
    BY <1>10 DEF vars, FirstInv, PeriodIsHonest, BeforeTheFloor, Expressible, Nth, GeneratorCall
  <1>11. QED
    BY <1>4, <1>5, <1>6, <1>7, <1>8, <1>9, <1>10 DEF Next

\* An open-ended commitment that has begun has a due date within LONGEST_PERIOD_DAYS
\* of the floor of a generator's call: HORIZON_MARGIN_DAYS is really a margin.
THEOREM PeriodTheorem == Spec => []PeriodIsHonest
  <1>1. FirstInv => PeriodIsHonest
    BY DEF FirstInv
  <1>2. QED
    BY <1>1, LoopInvInit, LoopInvStep, FirstInvInit, FirstInvStep, PTL DEF Spec

-----------------------------------------------------------------------------
(* The loop advances.                                                      *)

LEMMA IndexIsSmall ==
    ASSUME NEW s \in Day, NEW f \in Recurring, NEW n \in Nat, IndexInCalendar(s, f, n)
    PROVE  n < MonthStart[LastMonth + 1] + LastMonth + 1
  <1>1. n \in Day \/ n \in Month
    BY NthIsADay DEF Indexes
  <1>2. QED
    BY <1>1, CalendarAssumption DEF Day, Month

LEMMA FirstIndexIsSmall ==
    ASSUME TypeOK, frequency \in Recurring
    PROVE  FirstIndex \in Nat /\ FirstIndex < MonthStart[LastMonth + 1] + LastMonth + 1
  <1> DEFINE most == MonthStart[LastMonth + 1] + LastMonth + 1
  <1>1. most \in Nat /\ most > 0
    BY CalendarAssumption
  <1>2. CASE FirstIndex = 0
    BY <1>1, <1>2
  <1>3. CASE FirstIndex \in Nat /\ Expressible(FirstIndex)
    BY <1>3, IndexIsSmall DEF TypeOK, Expressible
  <1>4. QED
    BY <1>2, <1>3, FirstIndexIsBefore

\* Whatever the terms, each step of a call brings its end closer: the loop cannot go
\* round without its index growing, and the calendar bounds the index. (That the
\* call goes on until its end is Terminates, which TLC checks.)
THEOREM AdvanceTheorem == Spec => [](StepsLeft \in Nat) /\ EachStepAdvances
  <1> DEFINE most == MonthStart[LastMonth + 1] + LastMonth + 1
  <1>1. LoopInv /\ (pc = "loop" => index <= most) => StepsLeft \in Nat
    BY CalendarAssumption DEF LoopInv, TypeOK, StepsLeft
  <1>2. Init => (pc = "loop" => index <= most)
    BY DEF Init
  <1>3. ASSUME LoopInv, pc = "loop" => index <= most, [Next]_vars
        PROVE  (pc = "loop" => index <= most)' /\ (vars' = vars \/ StepsLeft' < StepsLeft)
    <2>1. TypeOK /\ most \in Nat /\ index \in Nat
      BY <1>3, CalendarAssumption DEF LoopInv, TypeOK
    <2> HIDE DEF most
    <2>2. StepsLeft = CASE pc = "call" -> most + 2
                        [] pc = "loop" -> most + 1 - index
                        [] OTHER       -> 0
      BY DEF StepsLeft, most
    <2>3. StepsLeft' = CASE pc' = "call" -> most + 2
                         [] pc' = "loop" -> most + 1 - index'
                         [] OTHER        -> 0
      BY DEF StepsLeft, most
    <2>4. CASE EmptyRange \/ OneOff
      BY <2>1, <2>2, <2>3, <2>4 DEF EmptyRange, OneOff, Return
    <2>5. CASE EnterLoop
      <3>1. frequency \in Recurring /\ index' = FirstIndex /\ pc = "call" /\ pc' = "loop"
        BY <2>1, <2>5 DEF EnterLoop, TypeOK, Frequency
      <3>2. FirstIndex \in Nat /\ FirstIndex < most
        BY <2>1, <3>1, FirstIndexIsSmall DEF most
      <3>3. QED
        BY <2>1, <2>2, <2>3, <3>1, <3>2
    <2>6. CASE LeaveLoop \/ RunOutOfCalendar
      BY <1>3, <2>1, <2>2, <2>3, <2>6 DEF LeaveLoop, RunOutOfCalendar, Return
    <2>7. CASE Iterate
      <3>1. /\ pc = "loop" /\ pc' = "loop" /\ index' = index + 1
            /\ IndexInCalendar(starts_on, frequency, index) /\ frequency \in Recurring
        BY <1>3, <2>7 DEF Iterate, LoopInv
      <3>2. index < most
        BY <2>1, <3>1, IndexIsSmall DEF TypeOK, most
      <3>3. QED
        BY <2>1, <2>2, <2>3, <3>1, <3>2
    <2>8. CASE UNCHANGED vars
      BY <1>3, <2>8 DEF vars
    <2>9. QED
      BY <1>3, <2>4, <2>5, <2>6, <2>7, <2>8 DEF Next
  <1>4. LoopInv /\ (pc = "loop" => index <= most) /\ [Next]_vars
          => (pc = "loop" => index <= most)' /\ [StepsLeft' < StepsLeft]_vars
    BY <1>3
  <1>5. Spec => []LoopInv
    BY LoopInvInit, LoopInvStep, PTL DEF Spec
  <1>6. QED
    BY <1>1, <1>2, <1>4, <1>5, PTL DEF Spec, EachStepAdvances
=============================================================================
