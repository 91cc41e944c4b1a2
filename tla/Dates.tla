-------------------------------- MODULE Dates --------------------------------
(***************************************************************************)
(* The conversions of dateTools_py3.py between a date and a modified       *)
(* Julian day, on whole days: atMJulian() and atMJDate().  They keep no    *)
(* state; the machine of this module is the calendar that they are held    *)
(* against, which counts the days one by one from day 0, 17 November 1858. *)
(* Hours, minutes and seconds are fractions of a day in floating point and *)
(* are left out; on whole days every float of the code is exact.           *)
(***************************************************************************)
EXTENDS Integers

CONSTANTS
  LastDay   \* bound: the calendar counts up to LastDay

ASSUME DateBounds == LastDay \in Nat

VARIABLES mjd, date

vars == <<mjd, date>>

Date(year, month, day) == [year |-> year, month |-> month, day |-> day]

----------------------------------------------------------------------------
(* The code                                                                *)

(* The table of atMJDate(), with its correction of February                *)
LeapEveryFour(year) == year % 4 = 0     \* mutant of Leap
Leap(year) == year % 4 = 0 /\ (year % 400 = 0 \/ year % 100 # 0)

MonthLength(year, month) ==
  IF month = 2 THEN (IF Leap(year) THEN 29 ELSE 28)
  ELSE IF month \in {4, 6, 9, 11} THEN 30
  ELSE 31

(* atMJulian(): the months count from March, whose year January and        *)
(* February are still in.  int() truncates, which is \div after year 0.    *)
(* Mutant: January alone is moved to the year before.                      *)
AtMJulianFebruary(d) ==
  LET y == IF d.month > 1 THEN d.year ELSE d.year - 1
      m == IF d.month > 1 THEN d.month ELSE d.month + 12
  IN  (1461 * y) \div 4 - 678912 + y \div 400 - y \div 100
        + (3059 * (m - 2)) \div 100 + d.day

AtMJulian(d) ==
  LET y == IF d.month > 2 THEN d.year ELSE d.year - 1
      m == IF d.month > 2 THEN d.month ELSE d.month + 12
  IN  (1461 * y) \div 4 - 678912 + y \div 400 - y \div 100
        + (3059 * (m - 2)) \div 100 + d.day

JanFirst(year) == AtMJulian(Date(year, 1, 1))

(* int(mjd * 0.0027379093 + 1858.877), in units of 10^-7; the factor is    *)
(* split to stay within the integers of the model checker.                 *)
GuessedYear(day) == (27379 * day + (93 * day) \div 1000) \div 10000000
                      + (IF (27379 * day + (93 * day) \div 1000) % 10000000 >= 1230000
                           THEN 1859 ELSE 1858)

(* The year is corrected until the day falls in it. *)
YearOf(day) ==
  LET from[y \in Int] == IF day < JanFirst(y)           THEN from[y - 1]
                         ELSE IF day >= JanFirst(y + 1) THEN from[y + 1]
                         ELSE y
  IN  from[GuessedYear(day)]

(* The months are taken off the day of the year: what is left of it when   *)
(* month j is looked at.  The 13th ends the loop.                          *)
DayLeft(year, dayOfYear) ==
  LET left[j \in 1 .. 13] == IF j = 1 THEN dayOfYear
                             ELSE left[j - 1] - MonthLength(year, j - 1)
  IN  left

(* Mutant: the last day of a month is taken for the next month's.          *)
DateInYearEarly(year, dayOfYear) ==
  LET left    == DayLeft(year, dayOfYear)
      Ends(j) == j = 13 \/ left[j] + 1 < MonthLength(year, j)
      month   == CHOOSE j \in 1 .. 13 : Ends(j) /\ \A i \in 1 .. (j - 1) : ~Ends(i)
  IN  Date(year, month, left[month] + 1)

DateInYear(year, dayOfYear) ==
  LET left    == DayLeft(year, dayOfYear)
      Ends(j) == j = 13 \/ left[j] < MonthLength(year, j)
      month   == CHOOSE j \in 1 .. 13 : Ends(j) /\ \A i \in 1 .. (j - 1) : ~Ends(i)
  IN  Date(year, month, left[month] + 1)

AtMJDate(day) == DateInYear(YearOf(day), day - JanFirst(YearOf(day)))

----------------------------------------------------------------------------
(* The calendar: pope Gregory's, by names of months                        *)

Thirty    == {4, 6, 9, 11}

LastOfMonth(d) ==
  d.day = IF d.month \in Thirty THEN 30
          ELSE IF d.month # 2   THEN 31
          ELSE IF d.year % 4 # 0 \/ (d.year % 100 = 0 /\ d.year % 400 # 0) THEN 28
          ELSE 29

Init == mjd = 0 /\ date = Date(1858, 11, 17)

NextDay   == /\ ~LastOfMonth(date)
             /\ date' = Date(date.year, date.month, date.day + 1)
NextMonth == /\ LastOfMonth(date) /\ date.month < 12
             /\ date' = Date(date.year, date.month + 1, 1)
NextYear  == /\ LastOfMonth(date) /\ date.month = 12
             /\ date' = Date(date.year + 1, 1, 1)

Tomorrow == /\ mjd < LastDay /\ mjd' = mjd + 1
            /\ NextDay \/ NextMonth \/ NextYear

Spec == Init /\ [][Tomorrow]_vars

----------------------------------------------------------------------------

(* atMJulian() numbers the days of the calendar without a gap: leap days,  *)
(* ends of years and of centuries included.                                *)
DayOfDate == AtMJulian(date) = mjd

(* atMJDate() is its inverse: the year it corrects its guess to and the    *)
(* month it reads off the table are those of the day, on the first and on  *)
(* the last day of every month and year.                                   *)
DateOfDay == AtMJDate(mjd) = date
==============================================================================
