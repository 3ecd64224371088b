------------------------------- MODULE Calendar -------------------------------
(***************************************************************************)
(* Calendar dates (packages/dates/src/calendar.ts).  A date is a UTC       *)
(* midnight; here it is its day number, counted from 1 March of year 0.    *)
(***************************************************************************)
EXTENDS Integers, FiniteSets

(* Date.UTC: a month or a day past its range runs over into the next. *)
utcDate(year, month, day) ==
  LET y == year + (month - 3) \div 12
      m == (month - 3) % 12
  IN  365 * y + (y \div 4) - (y \div 100) + (y \div 400) + ((153 * m + 2) \div 5) + day - 1

(* getUTCFullYear, getUTCMonth + 1 and getUTCDate of a date of these years. *)
YearOf(date) ==
  CHOOSE y \in (date \div 366)..((date \div 365) + 1) :
    utcDate(y, 1, 1) =< date /\ date < utcDate(y + 1, 1, 1)
MonthOf(date) ==
  CHOOSE m \in 1..12 : utcDate(YearOf(date), m, 1) =< date
                    /\ date < utcDate(YearOf(date), m + 1, 1)
DayOf(date) == date - utcDate(YearOf(date), MonthOf(date), 1) + 1

(* getUTCDay: Sunday is 0, and 1 March of year 0 a Wednesday. *)
Weekday(date) == (date + 3) % 7

daysInMonth(year, month) == utcDate(year, month + 1, 1) - utcDate(year, month, 1)

(* As if the day of the month were kept whatever month it falls in. *)
AddMonthsUnclamped(date, months) ==
  utcDate(YearOf(date), MonthOf(date) + months, DayOf(date))

addMonths(date, months) ==
  LET year == YearOf(date)
      month == MonthOf(date) + months
      last == daysInMonth(year, month)
  IN  utcDate(year, month, IF DayOf(date) < last THEN DayOf(date) ELSE last)

endOfMonth(date) ==
  utcDate(YearOf(date), MonthOf(date), daysInMonth(YearOf(date), MonthOf(date)))

isWeekend(date) == Weekday(date) \in {0, 6}

nthWeekday(year, month, weekday, nth) ==
  LET first == utcDate(year, month, 1)
  IN  first + ((weekday - Weekday(first)) % 7) + (nth - 1) * 7

mondayBefore(year, month, day) ==
  LET target == utcDate(year, month, day)
      back == (Weekday(target) + 6) % 7
  IN  target - (IF back = 0 THEN 7 ELSE back)

(* The anonymous Gregorian algorithm. *)
easter(year) ==
  LET a == year % 19   b == year \div 100   c == year % 100
      g == (b - ((b + 8) \div 25) + 1) \div 3
      h == (19 * a + b - (b \div 4) - g + 15) % 30
      l == (32 + 2 * (b % 4) + 2 * (c \div 4) - h - (c % 4)) % 7
      m == (a + 11 * h + 22 * l) \div 451
      n == h + l - 7 * m + 114
  IN  utcDate(year, n \div 31, (n % 31) + 1)

federalHolidays(year) ==
  {utcDate(year, 1, 1), easter(year) - 2, mondayBefore(year, 5, 25), utcDate(year, 7, 1),
   nthWeekday(year, 9, 1, 1), utcDate(year, 9, 30), nthWeekday(year, 10, 1, 2),
   utcDate(year, 11, 11), utcDate(year, 12, 25), utcDate(year, 12, 26)}

isBusinessDay(date) == ~isWeekend(date) /\ date \notin federalHolidays(YearOf(date))

(* The loop counts business days only, one day at a time, until `count` of  *)
(* them have been stepped onto: no stretch of holidays is longer than a week.*)
addBusinessDays(date, count) ==
  LET size == IF count < 0 THEN -count ELSE count
      step == IF count < 0 THEN -1 ELSE 1
      walk[n \in 0..(3 * size + 7)] ==
        IF n = 0 THEN [at |-> date, remaining |-> size]
        ELSE LET w == walk[n - 1]
             IN  IF w.remaining = 0 THEN w
                 ELSE [at |-> w.at + step,
                       remaining |-> w.remaining -
                                     (IF isBusinessDay(w.at + step) THEN 1 ELSE 0)]
  IN  walk[3 * size + 7].at
=============================================================================
