----------------------------- MODULE DatesProofs -----------------------------
(***************************************************************************)
(* Proofs about Dates: atMJulian() agrees with the calendar on every day,  *)
(* however far it is counted, and atMJDate() is its inverse.               *)
(***************************************************************************)
EXTENDS Dates, TLAPS, WellFoundedInduction

(* What the months of the counting year come to, from March to February.   *)
Offsets(m) == (3059 * (m - 2)) \div 100

(* The days of the years before, of 365 and of 366 days. *)
YearsBefore(y) == (1461 * y) \div 4 + y \div 400 - y \div 100

IsDate(d) ==
  /\ d = Date(d.year, d.month, d.day)
  /\ d.year \in Nat /\ d.year >= 1858
  /\ d.month \in 1 .. 12
  /\ d.day \in 1 .. MonthLength(d.year, d.month)

(* The calendar has a date, and it is the one of the day. *)
DatesInv == mjd \in Nat /\ IsDate(date) /\ DayOfDate

(* A year has 366 days when the table gives February 29, else 365.         *)
LEMMA LengthOfYear ==
  ASSUME NEW y \in Nat
  PROVE  /\ YearsBefore(y) \in Int
         /\ YearsBefore(y + 1) = YearsBefore(y) + (IF Leap(y + 1) THEN 366 ELSE 365)
<1>1. (1461 * (y + 1)) \div 4 - (1461 * y) \div 4 = IF (y + 1) % 4 = 0 THEN 366 ELSE 365
  OBVIOUS
<1>2. (y + 1) \div 400 - y \div 400 = IF (y + 1) % 400 = 0 THEN 1 ELSE 0
  OBVIOUS
<1>3. (y + 1) \div 100 - y \div 100 = IF (y + 1) % 100 = 0 THEN 1 ELSE 0
  OBVIOUS
<1>4. ((y + 1) % 400 = 0 => (y + 1) % 100 = 0) /\ ((y + 1) % 100 = 0 => (y + 1) % 4 = 0)
  OBVIOUS
<1> QED
  BY <1>1, <1>2, <1>3, <1>4, SMTT(30) DEF Leap, YearsBefore

(* 30.59 days to a month, cut off, are the lengths of the months. *)
LEMMA OffsetsOfMonths ==
  /\ Offsets(3) = 30 /\ Offsets(4) = 61 /\ Offsets(5) = 91 /\ Offsets(6) = 122
  /\ Offsets(7) = 152 /\ Offsets(8) = 183 /\ Offsets(9) = 214 /\ Offsets(10) = 244
  /\ Offsets(11) = 275 /\ Offsets(12) = 305 /\ Offsets(13) = 336 /\ Offsets(14) = 367
BY DEF Offsets

(* The number of a date is a sum over its counting year, month and day.    *)
LEMMA Counted ==
  ASSUME NEW y \in Int, NEW m \in 1 .. 12, NEW k \in Int
  PROVE  AtMJulian(Date(y, m, k)) =
           IF m > 2 THEN YearsBefore(y) - 678912 + Offsets(m) + k
           ELSE YearsBefore(y - 1) - 678912 + Offsets(m + 12) + k
BY DEF AtMJulian, Date, YearsBefore, Offsets

(* The last day of a month, as the calendar and as the table have it.      *)
LEMMA LastDays ==
  ASSUME NEW d, IsDate(d)
  PROVE  LastOfMonth(d) <=> d.day = MonthLength(d.year, d.month)
BY DEF IsDate, LastOfMonth, MonthLength, Leap, Thirty, Date

(* The calendar goes on with a date, whose number is the next. *)
LEMMA DayFollows ==
  ASSUME IsDate(date), NextDay
  PROVE  IsDate(date') /\ AtMJulian(date') = AtMJulian(date) + 1
<1> DEFINE y == date.year
           m == date.month
           k == date.day
<1>1. date' = Date(y, m, k + 1) /\ date = Date(y, m, k)
  BY DEF NextDay, IsDate, Date
<1>2. k + 1 \in 1 .. MonthLength(y, m)
  BY LastDays DEF NextDay, IsDate, MonthLength
<1>3. IsDate(date')
  BY <1>1, <1>2 DEF IsDate, Date
<1>4. /\ y \in Nat /\ y - 1 \in Nat /\ m \in 1 .. 12 /\ k \in Int
      /\ YearsBefore(y) \in Int /\ YearsBefore(y - 1) \in Int
  BY LengthOfYear DEF IsDate, MonthLength
<1>5. Offsets(m) \in Int /\ Offsets(m + 12) \in Int
  BY <1>4 DEF Offsets
<1>6. AtMJulian(Date(y, m, k + 1)) =
           IF m > 2 THEN YearsBefore(y) - 678912 + Offsets(m) + (k + 1)
           ELSE YearsBefore(y - 1) - 678912 + Offsets(m + 12) + (k + 1)
  <2>1. y \in Int /\ m \in 1 .. 12 /\ k + 1 \in Int
    BY <1>4
  <2> QED
    BY ONLY <2>1, Counted
<1>7. AtMJulian(Date(y, m, k)) =
           IF m > 2 THEN YearsBefore(y) - 678912 + Offsets(m) + k
           ELSE YearsBefore(y - 1) - 678912 + Offsets(m + 12) + k
  <2>1. y \in Int /\ m \in 1 .. 12 /\ k \in Int
    BY <1>4
  <2> QED
    BY ONLY <2>1, Counted
<1> QED
  BY <1>1, <1>3, <1>4, <1>5, <1>6, <1>7

LEMMA MonthFollows ==
  ASSUME IsDate(date), NextMonth
  PROVE  IsDate(date') /\ AtMJulian(date') = AtMJulian(date) + 1
<1> DEFINE y == date.year
           m == date.month
<1>1. /\ date' = Date(y, m + 1, 1) /\ date = Date(y, m, MonthLength(y, m))
      /\ y \in Nat /\ y - 1 \in Nat /\ m \in 1 .. 11 /\ m + 1 \in 1 .. 12
  BY LastDays DEF NextMonth, IsDate
<1>2. IsDate(date')
  BY <1>1 DEF IsDate, Date, MonthLength, NextMonth
<1>3. /\ YearsBefore(y) \in Int /\ YearsBefore(y - 1) \in Int
      /\ YearsBefore((y - 1) + 1) = YearsBefore(y - 1) + (IF Leap((y - 1) + 1) THEN 366 ELSE 365)
  BY <1>1, LengthOfYear
<1>4. YearsBefore(y) = YearsBefore(y - 1) + (IF Leap(y) THEN 366 ELSE 365)
  <2>1. (y - 1) + 1 = y
    BY <1>1
  <2> QED
    BY <1>3, <2>1
<1>5. AtMJulian(date') =
           IF m + 1 > 2 THEN YearsBefore(y) - 678912 + Offsets(m + 1) + 1
           ELSE YearsBefore(y - 1) - 678912 + Offsets((m + 1) + 12) + 1
  BY <1>1, Counted
<1>6. AtMJulian(date) =
           IF m > 2 THEN YearsBefore(y) - 678912 + Offsets(m) + MonthLength(y, m)
           ELSE YearsBefore(y - 1) - 678912 + Offsets(m + 12) + MonthLength(y, m)
  <2>1. MonthLength(y, m) \in Int
    BY DEF MonthLength
  <2> QED
    BY <1>1, <2>1, Counted
<1>7. m \in {1, 2, 3, 4, 5, 6, 7, 8, 9, 10, 11}
  BY <1>1
<1> QED
  BY <1>2, <1>3, <1>4, <1>5, <1>6, <1>7, OffsetsOfMonths, SMTT(30) DEF MonthLength

LEMMA YearFollows ==
  ASSUME IsDate(date), NextYear
  PROVE  IsDate(date') /\ AtMJulian(date') = AtMJulian(date) + 1
<1> DEFINE y == date.year
<1>1. date' = Date(y + 1, 1, 1) /\ date = Date(y, 12, 31) /\ y \in Nat
  BY LastDays DEF NextYear, IsDate, MonthLength
<1>2. IsDate(date')
  BY <1>1 DEF IsDate, Date, MonthLength
<1>3. YearsBefore(y) \in Int /\ (y + 1) - 1 = y
  BY <1>1, LengthOfYear
<1>4. AtMJulian(Date(y + 1, 1, 1)) = YearsBefore((y + 1) - 1) - 678912 + Offsets(1 + 12) + 1
  BY <1>1, Counted
<1>5. AtMJulian(Date(y, 12, 31)) = YearsBefore(y) - 678912 + Offsets(12) + 31
  BY <1>1, Counted
<1> QED
  BY <1>1, <1>2, <1>3, <1>4, <1>5, OffsetsOfMonths

(* A date is within its year. *)
LEMMA WithinYear ==
  ASSUME NEW d, IsDate(d)
  PROVE  JanFirst(d.year) <= AtMJulian(d) /\ AtMJulian(d) < JanFirst(d.year + 1)
<1> DEFINE y == d.year
           m == d.month
           k == d.day
<1>1. /\ d = Date(y, m, k)
      /\ y \in Nat /\ y - 1 \in Nat /\ (y + 1) - 1 = y /\ (y - 1) + 1 = y
      /\ m \in {1, 2, 3, 4, 5, 6, 7, 8, 9, 10, 11, 12}
      /\ k \in Nat /\ 1 <= k /\ k <= MonthLength(y, m)
  BY DEF IsDate, MonthLength
<1>2. /\ YearsBefore(y - 1) \in Int /\ YearsBefore(y) \in Int
      /\ YearsBefore((y - 1) + 1) = YearsBefore(y - 1) + (IF Leap((y - 1) + 1) THEN 366 ELSE 365)
  BY <1>1, LengthOfYear
<1>3. YearsBefore(y) = YearsBefore(y - 1) + (IF Leap(y) THEN 366 ELSE 365)
  BY <1>1, <1>2
<1>4. AtMJulian(Date(y, m, k)) =
           IF m > 2 THEN YearsBefore(y) - 678912 + Offsets(m) + k
           ELSE YearsBefore(y - 1) - 678912 + Offsets(m + 12) + k
  <2>1. y \in Int /\ m \in 1 .. 12 /\ k \in Int
    BY <1>1
  <2> QED
    BY ONLY <2>1, Counted
<1>5. JanFirst(y) = YearsBefore(y - 1) - 678912 + Offsets(1 + 12) + 1
  BY <1>1, Counted DEF JanFirst
<1>6. JanFirst(y + 1) = YearsBefore((y + 1) - 1) - 678912 + Offsets(1 + 12) + 1
  BY <1>1, Counted DEF JanFirst
<1> QED
  BY <1>1, <1>2, <1>3, <1>4, <1>5, <1>6, OffsetsOfMonths, SMTT(60) DEF MonthLength

LEMMA BelowIsLess == \A x, y \in Nat : <<y, x>> \in OpToRel(<, Nat) <=> y < x
  BY Zenon DEF OpToRel

(* A set of natural numbers has a least one: what holds up to a number     *)
(* without holding at it fails first somewhere.                            *)
LEMMA LeastNumber ==
  ASSUME NEW S \in SUBSET Nat, S # {}
  PROVE  \E n \in S : \A k \in S : n <= k
<1>1. PICK n \in S : \A k \in S : ~(<<k, n>> \in OpToRel(<, Nat))
  BY NatLessThanWellFounded, WFMin, Zenon
<1>2. \A k \in S : ~(k < n)
  BY <1>1, BelowIsLess, Zenon
<1>3. \A k \in S : n <= k
  BY ONLY <1>2, S \in SUBSET Nat, n \in S
<1> QED BY <1>3

(* Years begin in order, before year 0 too. *)
LEMMA YearsInOrder ==
  ASSUME NEW y \in Int, NEW z \in Int, y < z
  PROVE  JanFirst(y) \in Int /\ JanFirst(y) < JanFirst(z)
<1>1. JanFirst(y) = YearsBefore(y - 1) - 678912 + Offsets(1 + 12) + 1
  BY Counted DEF JanFirst
<1>2. JanFirst(z) = YearsBefore(z - 1) - 678912 + Offsets(1 + 12) + 1
  BY Counted DEF JanFirst
<1>3. YearsBefore(y - 1) \in Int /\ YearsBefore(y - 1) < YearsBefore(z - 1)
  BY DEF YearsBefore
<1> QED BY <1>1, <1>2, <1>3, OffsetsOfMonths DEF YearsBefore

(* The year that a day is in, wherever the search for it starts: the       *)
(* search is defined on all years by the constant function, and only by it.*)
LEMMA YearFound ==
  ASSUME NEW n \in Int, NEW Y \in Int, JanFirst(Y) <= n, n < JanFirst(Y + 1)
  PROVE  YearOf(n) = Y
<1> DEFINE Next(f) == [y \in Int |-> IF n < JanFirst(y)           THEN f[y - 1]
                                     ELSE IF n >= JanFirst(y + 1) THEN f[y + 1]
                                     ELSE y]
           from == CHOOSE f : f = Next(f)
<1>1. YearOf(n) = from[GuessedYear(n)]
  BY DEF YearOf
<1>2. ASSUME NEW y \in Int PROVE /\ y > Y => n < JanFirst(y)
                                 /\ y < Y => ~(n < JanFirst(y)) /\ n >= JanFirst(y + 1)
                                 /\ y = Y => ~(n < JanFirst(y)) /\ ~(n >= JanFirst(y + 1))
  <2>1. \A a, b \in Int : JanFirst(a) \in Int /\ (a < b => JanFirst(a) < JanFirst(b))
    <3>1. \A a \in Int : a < a + 1 /\ a + 1 \in Int
      OBVIOUS
    <3> QED BY ONLY <3>1, YearsInOrder
  <2>2. y + 1 \in Int /\ Y + 1 \in Int /\ (y > Y => y = Y + 1 \/ Y + 1 < y) /\ (y < Y => y + 1 = Y \/ y + 1 < Y)
    OBVIOUS
  <2>3. y < y + 1
    OBVIOUS
  <2> QED BY ONLY <2>1, <2>2, <2>3, y \in Int, n \in Int, Y \in Int, JanFirst(Y) <= n, n < JanFirst(Y + 1)
<1>3. from = Next(from)
  <2> DEFINE g == [y \in Int |-> Y]
  <2>1. g = Next(g)
    <3> SUFFICES ASSUME NEW y \in Int
                 PROVE  Y = IF n < JanFirst(y)           THEN g[y - 1]
                            ELSE IF n >= JanFirst(y + 1) THEN g[y + 1]
                            ELSE y
      OBVIOUS
    <3>1. g[y - 1] = Y /\ g[y + 1] = Y
      OBVIOUS
    <3> QED BY <1>2, <3>1
  <2> HIDE DEF g, Next
  <2> QED BY <2>1
<1> HIDE DEF from
<1>4. ASSUME NEW y \in Int PROVE /\ y > Y => from[y] = from[y - 1]
                                 /\ y < Y => from[y] = from[y + 1]
                                 /\ y = Y => from[y] = Y
  <2>1. from[y] = IF n < JanFirst(y)           THEN from[y - 1]
                  ELSE IF n >= JanFirst(y + 1) THEN from[y + 1]
                  ELSE y
    BY <1>3
  <2> QED BY <1>2, <2>1
<1> HIDE DEF Next
<1>5. ASSUME NEW k \in Nat PROVE from[Y + k] = Y /\ from[Y - k] = Y
  <2> DEFINE S == {i \in Nat : ~(from[Y + i] = Y /\ from[Y - i] = Y)}
  <2>1. SUFFICES ASSUME S # {} PROVE FALSE
    OBVIOUS
  <2>2. PICK i \in S : \A h \in S : i <= h
    BY <2>1, LeastNumber
  <2>3. i # 0
    BY <1>4
  <2>4. i - 1 \in Nat /\ i - 1 \notin S
    BY <2>2, <2>3
  <2>5. from[Y + (i - 1)] = Y /\ from[Y - (i - 1)] = Y
    BY <2>4
  <2>6. /\ Y + i \in Int /\ Y + i > Y /\ (Y + i) - 1 = Y + (i - 1)
        /\ Y - i \in Int /\ Y - i < Y /\ (Y - i) + 1 = Y - (i - 1)
    BY <2>3
  <2> QED BY <1>4, <2>2, <2>5, <2>6
<1>6. GuessedYear(n) \in Int
  BY DEF GuessedYear
<1> DEFINE y == GuessedYear(n)
<1> HIDE DEF y
<1>7. from[y] = Y
  <2>1. y \in Int
    BY <1>6 DEF y
  <2>2. (y - Y \in Nat /\ Y + (y - Y) = y) \/ (Y - y \in Nat /\ Y - (Y - y) = y)
    BY <2>1
  <2> QED BY <1>5, <2>2
<1> QED BY <1>1, <1>7 DEF y
(* The days of a year before a month, and before its end.                  *)
DaysBefore(year, m) ==
  IF m = 13 THEN JanFirst(year + 1) - JanFirst(year)
  ELSE AtMJulian(Date(year, m, 1)) - JanFirst(year)

(* They add up by the table, December included.                            *)
LEMMA MonthsAddUp ==
  ASSUME NEW y \in Nat, y > 0, NEW m \in 1 .. 12
  PROVE  /\ DaysBefore(y, m) \in Nat
         /\ DaysBefore(y, 1) = 0
         /\ DaysBefore(y, m + 1) = DaysBefore(y, m) + MonthLength(y, m)
<1>1. /\ YearsBefore(y) \in Int /\ YearsBefore(y - 1) \in Int
      /\ YearsBefore(y) = YearsBefore(y - 1) + (IF Leap(y) THEN 366 ELSE 365)
  <2>1. y - 1 \in Nat /\ (y - 1) + 1 = y
    OBVIOUS
  <2> QED
    BY <2>1, LengthOfYear
<1>2. \A i \in 1 .. 12 :
        AtMJulian(Date(y, i, 1)) =
           IF i > 2 THEN YearsBefore(y) - 678912 + Offsets(i) + 1
           ELSE YearsBefore(y - 1) - 678912 + Offsets(i + 12) + 1
  BY Counted
<1>3. JanFirst(y + 1) = YearsBefore(y) - 678912 + Offsets(1 + 12) + 1
  <2>1. AtMJulian(Date(y + 1, 1, 1)) = YearsBefore((y + 1) - 1) - 678912 + Offsets(1 + 12) + 1
    BY Counted
  <2>2. (y + 1) - 1 = y
    OBVIOUS
  <2> QED
    BY <2>1, <2>2 DEF JanFirst
<1>4. m \in {1, 2, 3, 4, 5, 6, 7, 8, 9, 10, 11, 12} /\ 1 \in 1 .. 12 /\ m \in 1 .. 12 /\ (m # 12 => m + 1 \in 1 .. 12)
  OBVIOUS
<1> QED
  BY <1>1, <1>2, <1>3, <1>4, OffsetsOfMonths, SMTT(30) DEF DaysBefore, JanFirst, MonthLength

(* What the loop over the months has left of the day of the year.          *)
LEMMA LeftOfDay ==
  ASSUME NEW y \in Nat, y > 0, NEW d \in Int
  PROVE  \A j \in 1 .. 13 : DayLeft(y, d)[j] = d - DaysBefore(y, j)
<1> DEFINE Next(f) == [j \in 1 .. 13 |-> IF j = 1 THEN d ELSE f[j - 1] - MonthLength(y, j - 1)]
           left == CHOOSE f : f = Next(f)
           sum == [j \in 1 .. 13 |-> d - DaysBefore(y, j)]
<1>1. DayLeft(y, d) = left
  BY DEF DayLeft
<1>2. \A m \in 1 .. 12 : /\ DaysBefore(y, m) \in Nat
                         /\ DaysBefore(y, 1) = 0
                         /\ DaysBefore(y, m + 1) = DaysBefore(y, m) + MonthLength(y, m)
  BY MonthsAddUp
<1>3. \A m \in 1 .. 13 : MonthLength(y, m) \in Int
  BY DEF MonthLength
<1>4. ASSUME NEW j \in 2 .. 13
      PROVE  d - DaysBefore(y, j) = (d - DaysBefore(y, j - 1)) - MonthLength(y, j - 1)
  <2>1. j - 1 \in 1 .. 12 /\ (j - 1) + 1 = j
    OBVIOUS
  <2> QED
    BY <1>2, <1>3, <2>1
<1>5. sum = Next(sum)
  <2> SUFFICES ASSUME NEW j \in 1 .. 13
               PROVE  d - DaysBefore(y, j) = IF j = 1 THEN d ELSE sum[j - 1] - MonthLength(y, j - 1)
    OBVIOUS
  <2>1. CASE j = 1
    BY <1>2, <2>1
  <2>2. CASE j # 1
    <3>1. j \in 2 .. 13 /\ j - 1 \in 1 .. 13
      BY <2>2
    <3>2. sum[j - 1] = d - DaysBefore(y, j - 1)
      BY <3>1
    <3> QED
      BY <1>4, <2>2, <3>1, <3>2
  <2> QED
    BY <2>1, <2>2
<1> HIDE DEF sum, Next
<1>6. left = Next(left)
  BY <1>5
<1> HIDE DEF left
<1>7. left[1] = d /\ \A j \in 2 .. 13 : left[j] = left[j - 1] - MonthLength(y, j - 1)
  <2>1. \A j \in 1 .. 13 : left[j] = IF j = 1 THEN d ELSE left[j - 1] - MonthLength(y, j - 1)
    BY <1>6 DEF Next
  <2> QED
    BY <2>1
<1> DEFINE Wrong == {j \in 1 .. 13 : left[j] # d - DaysBefore(y, j)}
<1>8. Wrong = {}
  <2> SUFFICES ASSUME Wrong # {} PROVE FALSE
    OBVIOUS
  <2>1. PICK j \in Wrong : \A h \in Wrong : j <= h
    BY LeastNumber
  <2>2. j # 1
    BY <1>2, <1>7
  <2>3. j \in 2 .. 13 /\ j - 1 \in 1 .. 13 /\ j - 1 \notin Wrong
    BY <2>1, <2>2
  <2> QED
    BY <1>4, <1>7, <2>3
<1> QED
  BY <1>1, <1>8

(* The month that a day of the year is in.                                 *)
LEMMA MonthFound ==
  ASSUME NEW y \in Nat, y > 0, NEW m \in 1 .. 12, NEW k \in 1 .. MonthLength(y, m)
  PROVE  DateInYear(y, DaysBefore(y, m) + k - 1) = Date(y, m, k)
<1> DEFINE d == DaysBefore(y, m) + k - 1
           left == DayLeft(y, d)
           Ends(j) == j = 13 \/ left[j] < MonthLength(y, j)
           First(j) == Ends(j) /\ \A i \in 1 .. (j - 1) : ~Ends(i)
           month == CHOOSE j \in 1 .. 13 : First(j)
<1>1. DateInYear(y, d) = Date(y, month, left[month] + 1)
  BY DEF DateInYear
<1>2. /\ \A i \in 1 .. 12 : /\ DaysBefore(y, i) \in Nat
                            /\ DaysBefore(y, i + 1) = DaysBefore(y, i) + MonthLength(y, i)
      /\ \A i \in 1 .. 13 : MonthLength(y, i) \in Nat
  BY MonthsAddUp DEF MonthLength
<1>3. d \in Int
  BY <1>2
<1>4. \A j \in 1 .. 13 : left[j] = d - DaysBefore(y, j)
  BY <1>3, LeftOfDay
<1>5. left[m] = k - 1 /\ Ends(m)
  BY <1>2, <1>4
<1>6. \A i \in 1 .. (m - 1) : DaysBefore(y, i + 1) <= DaysBefore(y, m)
  <2> DEFINE Past == {n \in 0 .. m - 2 : ~(DaysBefore(y, m - n) <= DaysBefore(y, m))}
  <2>1. Past = {}
    <3> SUFFICES ASSUME Past # {} PROVE FALSE
      OBVIOUS
    <3> Past \in SUBSET Nat
      OBVIOUS
    <3> HIDE DEF Past
    <3>1. PICK n \in Past : \A h \in Past : n <= h
      BY LeastNumber
    <3> USE DEF Past
    <3>2. n # 0
      BY <1>2
    <3>3. n - 1 \in 0 .. m - 2 /\ n - 1 \notin Past
      BY <3>1, <3>2
    <3>4. m - n \in 1 .. 12 /\ (m - n) + 1 = m - (n - 1)
      BY <3>2
    <3>5. /\ DaysBefore(y, (m - n) + 1) = DaysBefore(y, m - n) + MonthLength(y, m - n)
          /\ DaysBefore(y, m - n) \in Nat /\ MonthLength(y, m - n) \in Nat
      BY <1>2, <3>4
    <3> QED
      BY <1>2, <3>3, <3>4, <3>5
  <2> SUFFICES ASSUME NEW i \in 1 .. (m - 1) PROVE DaysBefore(y, i + 1) <= DaysBefore(y, m)
    OBVIOUS
  <2>2. (m - 1) - i \in 0 .. m - 2 /\ m - ((m - 1) - i) = i + 1
    OBVIOUS
  <2> QED
    BY <2>1, <2>2
<1>7. \A i \in 1 .. (m - 1) : ~Ends(i)
  <2> SUFFICES ASSUME NEW i \in 1 .. (m - 1) PROVE ~Ends(i)
    OBVIOUS
  <2>1. i \in 1 .. 12 /\ i \in 1 .. 13 /\ i # 13
    OBVIOUS
  <2>2. DaysBefore(y, i + 1) <= DaysBefore(y, m)
    BY <1>6
  <2>3. left[i] = d - DaysBefore(y, i)
    BY <1>4, <2>1
  <2>4. /\ DaysBefore(y, i) \in Nat /\ MonthLength(y, i) \in Nat /\ DaysBefore(y, m) \in Nat
        /\ DaysBefore(y, i + 1) = DaysBefore(y, i) + MonthLength(y, i)
    BY <1>2, <2>1
  <2>5. ~(d - DaysBefore(y, i) < MonthLength(y, i))
    BY <2>2, <2>4
  <2> QED
    BY ONLY <2>1, <2>3, <2>5
<1>8. m \in 1 .. 13 /\ First(m)
  BY <1>5, <1>7
<1>9. ASSUME NEW j \in 1 .. 13, First(j) PROVE j = m
  BY ONLY <1>5, <1>7, <1>9, m \in 1 .. 12, j \in 1 .. 13
<1> HIDE DEF First
<1>10. month = m
  BY <1>8, <1>9
<1>11. (k - 1) + 1 = k
  BY <1>2
<1> HIDE DEF month, left
<1> QED
  BY <1>1, <1>5, <1>10, <1>11

(* The calendar keeps to dates that atMJulian() numbers. *)
LEMMA DatesInvariant == Spec => []DatesInv
<1>1. Init => DatesInv
  <2>1. AtMJulian(Date(1858, 11, 17)) = 0
    BY DEF AtMJulian, Date
  <2> QED
    BY <2>1 DEF Init, DatesInv, DayOfDate, IsDate, Date, MonthLength
<1>2. DatesInv /\ [Tomorrow]_vars => DatesInv'
  <2> SUFFICES ASSUME DatesInv, [Tomorrow]_vars PROVE DatesInv'
    OBVIOUS
  <2>1. CASE Tomorrow
    <3>1. IsDate(date') /\ AtMJulian(date') = AtMJulian(date) + 1
      BY <2>1, DayFollows, MonthFollows, YearFollows DEF Tomorrow, DatesInv
    <3>2. mjd' = mjd + 1 /\ AtMJulian(date) = mjd /\ mjd \in Nat
      BY <2>1 DEF Tomorrow, DatesInv, DayOfDate
    <3> QED
      BY <3>1, <3>2 DEF DatesInv, DayOfDate
  <2>2. CASE UNCHANGED vars
    BY <2>2 DEF DatesInv, DayOfDate, vars
  <2> QED
    BY <2>1, <2>2
<1> QED
  BY <1>1, <1>2, PTL DEF Spec

(* atMJulian() numbers the days of the calendar one after the other, on    *)
(* every day from 17 November 1858 on.                                     *)
THEOREM CalendarNumbered == Spec => []DayOfDate
<1>1. DatesInv => DayOfDate
  BY DEF DatesInv
<1> QED
  BY <1>1, DatesInvariant, PTL

(* The two tests with which atMJDate() corrects its year leave one year,   *)
(* that of the date: a day is not before January 1 of it and is before the *)
(* next.                                                                   *)
THEOREM YearBracketed ==
  Spec => [](JanFirst(date.year) <= mjd /\ mjd < JanFirst(date.year + 1))
<1>1. DatesInv => JanFirst(date.year) <= mjd /\ mjd < JanFirst(date.year + 1)
  BY WithinYear DEF DatesInv, DayOfDate
<1> QED
  BY <1>1, DatesInvariant, PTL

(* atMJDate() gives every day of the calendar from 17 November 1858 on its *)
(* date: the search for the year ends in that of the day wherever the      *)
(* guess starts it, and the loop over the months ends in that of the day.  *)
THEOREM DateFollowsDay == Spec => []DateOfDay
<1>1. DatesInv => DateOfDay
  <2> SUFFICES ASSUME DatesInv PROVE DateOfDay
    OBVIOUS
  <2> DEFINE y == date.year
             m == date.month
             k == date.day
  <2>1. /\ date = Date(y, m, k) /\ y \in Nat /\ y > 0 /\ y \in Int /\ m \in 1 .. 12 /\ k \in 1 .. MonthLength(y, m)
        /\ AtMJulian(date) = mjd /\ mjd \in Int
    BY DEF DatesInv, IsDate, DayOfDate
  <2>2. JanFirst(y) <= mjd /\ mjd < JanFirst(y + 1)
    BY <2>1, WithinYear DEF DatesInv
  <2>3. YearOf(mjd) = y
    BY <2>1, <2>2, YearFound
  <2>4. mjd - JanFirst(y) = DaysBefore(y, m) + k - 1
    <3>1. AtMJulian(Date(y, m, k)) = AtMJulian(Date(y, m, 1)) + (k - 1)
      BY <2>1 DEF AtMJulian, Date
    <3>2. JanFirst(y) \in Int /\ AtMJulian(Date(y, m, 1)) \in Int
      BY <2>1 DEF JanFirst, AtMJulian, Date
    <3>3. k \in Int /\ m # 13
      BY <2>1
    <3>4. AtMJulian(Date(y, m, k)) = mjd
      BY <2>1
    <3>5. DaysBefore(y, m) = AtMJulian(Date(y, m, 1)) - JanFirst(y)
      BY <3>3 DEF DaysBefore
    <3> QED
      BY ONLY <3>1, <3>2, <3>3, <3>4, <3>5
  <2>5. DateInYear(y, DaysBefore(y, m) + k - 1) = Date(y, m, k)
    BY <2>1, MonthFound
  <2> QED
    BY <2>1, <2>3, <2>4, <2>5 DEF DateOfDay, AtMJDate
<1> QED
  BY <1>1, DatesInvariant, PTL
==============================================================================
