------------------------------ MODULE MCCmos ------------------------------
(* Minutes of 11 seconds, which cross a digit of BCD, hours of 2 minutes    *)
(* and days of 2 hours.  The night at the end of a century, in which every  *)
(* register turns, and for the days of the year the nights at the end of    *)
(* February of a leap year and in March of a common year.                   *)
EXTENDS Cmos

Date(year, mon, mday) == [year |-> year, mon |-> mon, mday |-> mday, wday |-> 1]
MCStarts == {Date(99, 12, 31)}
MCYears == {Date(24, 2, 29), Date(26, 3, 9)}
=============================================================================
