-------------------------- MODULE MCOccurrenceDates --------------------------
(***************************************************************************)
(* The Gregorian calendar from January 2027 to March 2032, two leap years  *)
(* included, and the anchors on which the clamp of add_months matters.     *)
(***************************************************************************)
EXTENDS OccurrenceDates, FiniteSetsExt

MCLastMonth == 62

IsLeap(year) == year % 4 = 0     \* exact between 1901 and 2099
MonthLengths(year) ==
    <<31, IF IsLeap(year) THEN 29 ELSE 28, 31, 30, 31, 30,
      31, 31, 30, 31, 30, 31>>

MCMonthStart ==
    [m \in 0 .. MCLastMonth + 1 |->
        MapThenSumSet(LAMBDA k : MonthLengths(2027 + (k \div 12))[(k % 12) + 1],
                      0 .. m - 1)]

MCDay == 0 .. MCMonthStart[MCLastMonth + 1] - 1
MCMonthOf ==
    [d \in MCDay |-> CHOOSE m \in 0 .. MCLastMonth :
                        MCMonthStart[m] <= d /\ d < MCMonthStart[m + 1]]

MCLongestPeriod ==
    [weekly |-> 7, monthly |-> 31, quarterly |-> 92, yearly |-> 366, oneoff |-> 0]

\* Date(y, m, d), months and days counted from 1.
Date(y, m, d) == MCMonthStart[(y - 2027) * 12 + m - 1] + d - 1

MCStarts == {Date(2027, 1, 31), Date(2027, 6, 30), Date(2027, 11, 30),
             Date(2028, 2, 29), Date(2028, 12, 15)}
MCEnds == {None, Date(2028, 3, 31), Date(2029, 2, 28)}
MCFloors == {Date(2027, 1, 1), Date(2028, 2, 28), Date(2028, 2, 29), Date(2028, 3, 1),
             Date(2028, 5, 30), Date(2029, 2, 28), Date(2029, 3, 1),
             Date(2031, 12, 20)}
MCSpans == {-1, 0, 800}
=============================================================================
