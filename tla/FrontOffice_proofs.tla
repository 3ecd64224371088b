-------------------------- MODULE FrontOffice_proofs --------------------------
(***************************************************************************)
(* What holds of the parts of module FrontOffice for any number of people, *)
(* jobs, rows and crashes.                                                 *)
(***************************************************************************)
EXTENDS FrontOffice, FiniteSetTheorems, SequenceTheorems, WellFoundedInduction, TLAPS

Stirs == Answering \/ Wiring \/ Calling \/ Registering \/ RollingOut \/ Naming

(* A step of the office is a step of one part, and leaves the rest alone. *)
LEMMA OnePartSteps ==
  ASSUME [Stirs]_vars
  PROVE  /\ RulesNext \/ UNCHANGED enquiry
         /\ WiringNext \/ UNCHANGED wiring
         /\ ClientNext \/ UNCHANGED client
         /\ FileNext \/ UNCHANGED file
         /\ RolloutNext \/ UNCHANGED rollout
         /\ SignersNext \/ UNCHANGED mailing
BY DEF Stirs, vars, Answering, Wiring, Calling, Registering, RollingOut, Naming

(***************************************************************************)
(* The calendar.  A date is put together from a year, a month and a day in *)
(* one way; no week holds more than two holidays, so three business days   *)
(* of any seven are passed and a walk over business days comes to its end. *)
(* A recursive function is what its definition says because a function on  *)
(* the first places exists for every length (Upwards takes the place of an *)
(* induction).                                                             *)
(***************************************************************************)
(* A set with 0, and with the successor of what it has, has all up to N.     *)
LEMMA Upwards ==
  ASSUME NEW N \in Nat, NEW S, 0 \in S, \A n \in 0 .. (N - 1) : n \in S => n + 1 \in S
  PROVE  0 .. N \subseteq S
<1>. DEFINE T == {n \in 0 .. N : n \notin S}
<1>. SUFFICES ASSUME T # {} PROVE FALSE
  OBVIOUS
<1>1. PICK x \in T : \A y \in T : ~ (<<y, x>> \in OpToRel(<, Nat))
  <2>. HIDE DEF T
  <2>1. T \subseteq Nat
    BY DEF T
  <2>. QED  BY <2>1, NatLessThanWellFounded, WFMin
<1>2. x # 0 /\ x \in Nat /\ x - 1 \in 0 .. (N - 1)
  OBVIOUS
<1>3. <<x - 1, x>> \in OpToRel(<, Nat)
  <2>1. x - 1 \in Nat /\ x - 1 < x
    BY <1>2
  <2>. QED  BY <1>2, <2>1 DEF OpToRel
<1>4. x - 1 \notin T
  BY <1>1, <1>3
<1>. QED  BY <1>2, <1>4

(* Leap days before a year's March. *)
Leaps(y) == (y \div 4) - (y \div 100) + (y \div 400)
(* The first day of the month m, counted as the calendar's formula counts. *)
Into(m) == (153 * m + 2) \div 5

(* Date.UTC makes a day of any year, month and day, and counts the days on. *)
LEMMA UtcIs ==
  ASSUME NEW y \in Int, NEW m \in Int, NEW d \in Int
  PROVE  /\ utcDate(y, m, d) \in Int
         /\ utcDate(y, m, d) = utcDate(y, m, 1) + d - 1
         /\ LET z == y + (m - 3) \div 12
            IN  utcDate(y, m, d) = 365 * z + Leaps(z) + Into((m - 3) % 12) + d - 1
BY DEF utcDate, Leaps, Into

(* The first of a month, when the year it runs over into is known. *)
LEMMA UtcAt ==
  ASSUME NEW y \in Int, NEW m \in Int, NEW z \in Int, NEW r \in Int,
         z = y + (m - 3) \div 12, r = (m - 3) % 12
  PROVE  utcDate(y, m, 1) = 365 * z + Leaps(z) + Into(r)
BY DEF utcDate, Leaps, Into

(* A year adds one leap day or none. *)
LEMMA LeapsAre ==
  ASSUME NEW y \in Int
  PROVE  /\ Leaps(y) \in Int /\ Leaps(y + 1) - Leaps(y) \in {0, 1}
BY DEF Leaps

(* There are never fewer leap days later. *)
LEMMA LeapsGrow ==
  ASSUME NEW y \in Int, NEW z \in Int, y =< z
  PROVE  Leaps(y) =< Leaps(z)
BY DEF Leaps

(* Twelve months on is a year on. *)
LEMMA Shift ==
  ASSUME NEW y \in Int, NEW m \in Int, NEW d \in Int, NEW q \in Int
  PROVE  utcDate(y, m + 12 * q, d) = utcDate(y + q, m, d)
<1>1. /\ (m + 12 * q - 3) \div 12 = q + (m - 3) \div 12
      /\ (m + 12 * q - 3) % 12 = (m - 3) % 12
  OBVIOUS
<1>. QED  BY <1>1 DEF utcDate

(* However a month is counted over the years, its days are the same. *)
LEMMA ShiftTo ==
  ASSUME NEW y, NEW m, NEW z, NEW k, NEW d, y \in Int, m \in Int, z \in Int, k \in Int, d \in Int,
         12 * z + k = 12 * y + m
  PROVE  utcDate(y, m, d) = utcDate(z, k, d)
<1>1. /\ y + (m - 3) \div 12 = z + (k - 3) \div 12
      /\ (m - 3) % 12 = (k - 3) % 12
  OBVIOUS
<1>. QED  BY <1>1 DEF utcDate

(* Where each month begins, and how long a year is. *)
LEMMA Months ==
  ASSUME NEW y \in Int
  PROVE  LET before == 365 * (y - 1) + Leaps(y - 1)
             this == 365 * y + Leaps(y)
         IN  /\ utcDate(y, 1, 1) = before + 306
             /\ utcDate(y, 2, 1) = before + 337
             /\ utcDate(y, 3, 1) = this
             /\ utcDate(y, 4, 1) = this + 31
             /\ utcDate(y, 5, 1) = this + 61
             /\ utcDate(y, 6, 1) = this + 92
             /\ utcDate(y, 7, 1) = this + 122
             /\ utcDate(y, 8, 1) = this + 153
             /\ utcDate(y, 9, 1) = this + 184
             /\ utcDate(y, 10, 1) = this + 214
             /\ utcDate(y, 11, 1) = this + 245
             /\ utcDate(y, 12, 1) = this + 275
             /\ utcDate(y, 13, 1) = this + 306
             /\ this - before \in {365, 366}
             /\ utcDate(y + 1, 1, 1) = this + 306
<1>. DEFINE before == 365 * (y - 1) + Leaps(y - 1)
            this == 365 * y + Leaps(y)
<1>1. Leaps(y) \in Int /\ Leaps(y - 1) \in Int /\ Leaps(y) - Leaps(y - 1) \in {0, 1}
  <2>1. y - 1 \in Int /\ (y - 1) + 1 = y
    OBVIOUS
  <2>. QED  BY <2>1, LeapsAre
<1>2. ASSUME NEW m \in 3 .. 13 PROVE utcDate(y, m, 1) = this + Into(m - 3)
  <2>1. (m - 3) \div 12 = 0 /\ (m - 3) % 12 = m - 3 /\ y + 0 = y
    OBVIOUS
  <2>2. Into(m - 3) \in Int
    BY DEF Into
  <2>3. utcDate(y, m, 1) = 365 * y + Leaps(y) + Into(m - 3)
    <3>. DEFINE z == y   r == m - 3
    <3>1. z \in Int /\ r \in Int /\ m \in Int /\ z = y + (m - 3) \div 12 /\ r = (m - 3) % 12
      BY <2>1
    <3>. HIDE DEF z, r
    <3>2. utcDate(y, m, 1) = 365 * z + Leaps(z) + Into(r)
      BY <3>1, UtcAt
    <3>. QED  BY <3>2 DEF z, r
  <2>. QED  BY <2>1, <2>2, <2>3, <1>1
<1>3. /\ utcDate(y, 1, 1) = before + 306
      /\ utcDate(y, 2, 1) = before + 337
  <2>1. ASSUME NEW m \in 1 .. 2 PROVE utcDate(y, m, 1) = before + Into(m + 9)
    <3>1. m - 3 \in -11 .. -1
      OBVIOUS
    <3>2. (m - 3) \div 12 = -1 /\ (m - 3) % 12 = m + 9 /\ y + (-1) = y - 1
      <4>1. \A x \in -11 .. -1 : x \div 12 = -1 /\ x % 12 = x + 12
        OBVIOUS
      <4>. QED  BY <3>1, <4>1
    <3>3. Into(m + 9) \in Int
      BY DEF Into
    <3>4. utcDate(y, m, 1) = 365 * (y - 1) + Leaps(y - 1) + Into(m + 9)
      <4>. DEFINE z == y - 1   r == m + 9
      <4>1. z \in Int /\ r \in Int /\ m \in Int /\ z = y + (m - 3) \div 12 /\ r = (m - 3) % 12
        BY <3>2
      <4>. HIDE DEF z, r
      <4>2. utcDate(y, m, 1) = 365 * z + Leaps(z) + Into(r)
        BY <4>1, UtcAt
      <4>. QED  BY <4>2 DEF z, r
    <3>. QED  BY <3>2, <3>3, <3>4, <1>1
  <2>2. Into(10) = 306 /\ Into(11) = 337
    BY DEF Into
  <2>3. utcDate(y, 1, 1) = before + Into(1 + 9) /\ utcDate(y, 2, 1) = before + Into(2 + 9)
    BY <2>1
  <2>. QED  BY <2>2, <2>3
<1>4. /\ Into(0) = 0 /\ Into(1) = 31 /\ Into(2) = 61 /\ Into(3) = 92 /\ Into(4) = 122
      /\ Into(5) = 153 /\ Into(6) = 184 /\ Into(7) = 214 /\ Into(8) = 245 /\ Into(9) = 275
      /\ Into(10) = 306
  BY DEF Into
<1>5. utcDate(y + 1, 1, 1) = utcDate(y, 13, 1)
  BY Shift
<1>6. this \in Int /\ before \in Int /\ this - before \in {365, 366}
  BY <1>1
<1>. HIDE DEF this, before
<1>7. /\ utcDate(y, 3, 1) = this + Into(0) /\ utcDate(y, 4, 1) = this + Into(1)
      /\ utcDate(y, 5, 1) = this + Into(2) /\ utcDate(y, 6, 1) = this + Into(3)
      /\ utcDate(y, 7, 1) = this + Into(4) /\ utcDate(y, 8, 1) = this + Into(5)
      /\ utcDate(y, 9, 1) = this + Into(6) /\ utcDate(y, 10, 1) = this + Into(7)
      /\ utcDate(y, 11, 1) = this + Into(8) /\ utcDate(y, 12, 1) = this + Into(9)
      /\ utcDate(y, 13, 1) = this + Into(10)
  BY <1>2
<1>8. /\ utcDate(y, 3, 1) = this /\ utcDate(y, 4, 1) = this + 31 /\ utcDate(y, 5, 1) = this + 61
      /\ utcDate(y, 6, 1) = this + 92 /\ utcDate(y, 7, 1) = this + 122 /\ utcDate(y, 8, 1) = this + 153
      /\ utcDate(y, 9, 1) = this + 184 /\ utcDate(y, 10, 1) = this + 214 /\ utcDate(y, 11, 1) = this + 245
      /\ utcDate(y, 12, 1) = this + 275 /\ utcDate(y, 13, 1) = this + 306
  BY <1>4, <1>6, <1>7
<1>. QED  BY <1>3, <1>5, <1>6, <1>8 DEF this, before

(* The first of January. *)
NewYear(y) == utcDate(y, 1, 1)

(* A year has 365 days at least. *)
YearsBetween(y, z) ==
  NewYear(y) \in Int /\ NewYear(z) \in Int /\ NewYear(y) + 365 * (z - y) =< NewYear(z)

LEMMA YearsPass ==
  ASSUME NEW y \in Int, NEW z \in Int, y < z
  PROVE  YearsBetween(y, z)
<1>1. y - 1 \in Int /\ z - 1 \in Int /\ y - 1 =< z - 1
  OBVIOUS
<1>2. /\ NewYear(y) = 365 * (y - 1) + Leaps(y - 1) + 306
      /\ NewYear(z) = 365 * (z - 1) + Leaps(z - 1) + 306
  BY Months DEF NewYear
<1>. QED  BY <1>1, <1>2, LeapsGrow, LeapsAre DEF YearsBetween

(* New Year is a day. *)
LEMMA YearsAre == \A y \in Int : NewYear(y) \in Int /\ NewYear(y + 1) \in Int
BY UtcIs DEF NewYear

(* The dates of these years: any from the year before the count begins. *)
Date == {d \in Int : d >= -366}

(* A date is of the year whose days it lies among. *)
LEMMA YearIs ==
  ASSUME NEW date \in Date, NEW y \in Int, NewYear(y) =< date, date < NewYear(y + 1)
  PROVE  YearOf(date) = y
<1>1. y \in (date \div 366) .. ((date \div 365) + 1)
  <2>1. NewYear(y) = 365 * (y - 1) + Leaps(y - 1) + 306 /\ NewYear(y + 1) = 365 * y + Leaps(y) + 306
    BY Months DEF NewYear
  <2>. QED  BY <2>1 DEF Leaps, Date
<1>2. ASSUME NEW z \in Int, NewYear(z) =< date, date < NewYear(z + 1) PROVE z = y
  <2>. \A k \in Int : NewYear(k) \in Int /\ NewYear(k + 1) \in Int
    BY YearsAre
  <2>1. ASSUME NEW k \in Int, NEW l \in Int, k < l PROVE NewYear(k + 1) =< NewYear(l)
    <3>1. CASE k + 1 = l
      BY <3>1
    <3>2. CASE k + 1 # l
      <4>1. k + 1 < l /\ k + 1 \in Int /\ 365 * (l - (k + 1)) >= 0
        BY <2>1, <3>2
      <4>2. NewYear(k + 1) + 365 * (l - (k + 1)) =< NewYear(l)
        <5>1. YearsBetween(k + 1, l)
          BY <4>1, YearsPass
        <5>. QED  BY <5>1 DEF YearsBetween
      <4>. QED  BY <4>1, <4>2
    <3>. QED  BY <3>1, <3>2
  <2>2. ~(z < y) /\ ~(y < z)
    BY <1>2, <2>1 DEF Date
  <2>. QED  BY <2>2
<1>3. \A z \in (date \div 366) .. ((date \div 365) + 1) : z \in Int
  BY DEF Date
<1>. QED  BY <1>1, <1>2, <1>3 DEF YearOf, NewYear

(* There is such a year, and one only is looked for where it is. *)
LEMMA YearExists ==
  ASSUME NEW date \in Date
  PROVE  \E y \in Int : NewYear(y) =< date /\ date < NewYear(y + 1)
<1>. DEFINE lo == date \div 366   hi == (date \div 365) + 1
<1>1. lo \in Int /\ hi \in Int /\ lo =< hi
  BY DEF Date
<1>2. NewYear(lo) =< date /\ date < NewYear(hi + 1)
  <2>1. NewYear(lo) = 365 * (lo - 1) + Leaps(lo - 1) + 306 /\ NewYear(hi + 1) = 365 * hi + Leaps(hi) + 306
    <3>. HIDE DEF lo, hi
    <3>. QED  BY <1>1, Months DEF NewYear
  <2>. QED  BY <2>1 DEF Leaps, Date
<1>. HIDE DEF lo, hi
<1>. DEFINE N == hi + 1 - lo   S == {n \in 0 .. N : NewYear(lo + n) =< date}
<1>. SUFFICES ASSUME \A y \in Int : NewYear(y) =< date => ~(date < NewYear(y + 1)) PROVE FALSE
  OBVIOUS
<1>3. N \in Nat /\ 0 \in S
  BY <1>1, <1>2
<1>4. ASSUME NEW n \in 0 .. (N - 1), n \in S PROVE n + 1 \in S
  <2>1. lo + n \in Int /\ lo + (n + 1) = (lo + n) + 1 /\ n + 1 \in 0 .. N
    BY <1>1
  <2>2. NewYear(lo + n) =< date
    BY <1>4
  <2>3. NewYear((lo + n) + 1) \in Int
    BY <2>1, YearsAre
  <2>. QED  BY <2>1, <2>2, <2>3 DEF Date
<1>5. N \in S
  <2>. HIDE DEF S, N
  <2>1. 0 .. N \subseteq S
    BY <1>3, <1>4, Upwards
  <2>. QED  BY <1>3, <2>1
<1>6. lo + N = hi + 1 /\ NewYear(hi + 1) \in Int
  <2>1. hi + 1 < hi + 2 /\ hi + 1 \in Int /\ hi + 2 \in Int
    BY <1>1
  <2>. QED  BY <1>1, <2>1, YearsAre
<1>. QED  BY <1>2, <1>5, <1>6 DEF Date

(* So YearOf finds the year of every date. *)
LEMMA YearFits ==
  ASSUME NEW date \in Date
  PROVE  YearOf(date) \in Int /\ NewYear(YearOf(date)) =< date /\ date < NewYear(YearOf(date) + 1)
BY YearExists, YearIs

(* The months of a year follow each other, four weeks at least apart. *)
LEMMA MonthsGrow ==
  ASSUME NEW y \in Int
  PROVE  /\ \A m \in 1 .. 13 : utcDate(y, m, 1) \in Int
         /\ \A m \in 1 .. 12 : utcDate(y, m + 1, 1) - utcDate(y, m, 1) \in 28 .. 31
         /\ \A k \in 1 .. 13, l \in 1 .. 13 : k < l => utcDate(y, k, 1) < utcDate(y, l, 1)
<1>. DEFINE at(m) == utcDate(y, m, 1)
            base == 365 * y + Leaps(y)
<1>1. /\ base \in Int
      /\ at(1) \in {base - 60, base - 59} /\ at(2) \in {base - 29, base - 28} /\ at(2) = at(1) + 31
      /\ at(3) = base /\ at(4) = base + 31 /\ at(5) = base + 61 /\ at(6) = base + 92
      /\ at(7) = base + 122 /\ at(8) = base + 153 /\ at(9) = base + 184 /\ at(10) = base + 214
      /\ at(11) = base + 245 /\ at(12) = base + 275 /\ at(13) = base + 306
  <2>. DEFINE before == 365 * (y - 1) + Leaps(y - 1)
  <2>1. base \in Int /\ before \in Int
    <3>1. y - 1 \in Int
      OBVIOUS
    <3>. QED  BY <3>1, LeapsAre
  <2>2. base - before \in {365, 366}
    BY Months
  <2>3. /\ at(1) = before + 306 /\ at(2) = before + 337
        /\ at(3) = base /\ at(4) = base + 31 /\ at(5) = base + 61 /\ at(6) = base + 92
        /\ at(7) = base + 122 /\ at(8) = base + 153 /\ at(9) = base + 184 /\ at(10) = base + 214
        /\ at(11) = base + 245 /\ at(12) = base + 275 /\ at(13) = base + 306
    BY Months
  <2>. HIDE DEF at, base, before
  <2>. QED  BY <2>1, <2>2, <2>3
<1>2. \A m \in 1 .. 13 : m \in {1, 2, 3, 4, 5, 6, 7, 8, 9, 10, 11, 12, 13}
  OBVIOUS
<1>. HIDE DEF at, base
<1>3. \A m \in 1 .. 13 : at(m) \in Int
  BY <1>1, <1>2
<1>4. ASSUME NEW m \in 1 .. 12 PROVE at(m + 1) - at(m) \in 28 .. 31
  <2>1. m \in {1, 2, 3, 4, 5, 6, 7, 8, 9, 10, 11, 12}
    OBVIOUS
  <2>. QED  BY <1>1, <2>1
<1>5. ASSUME NEW k \in 1 .. 13, NEW l \in 1 .. 13, k < l PROVE at(k) < at(l)
  BY <1>1, <1>2, <1>5
<1>. QED  BY <1>3, <1>4, <1>5 DEF at

(* A date is put together from its year, month and day, in one way.          *)
LEMMA DayFits ==
  ASSUME NEW y \in Int, NEW m \in 1 .. 12, NEW d \in 1 .. daysInMonth(y, m),
         NEW date \in Date, date = utcDate(y, m, d)
  PROVE  YearOf(date) = y /\ MonthOf(date) = m /\ DayOf(date) = d
<1>1. /\ date = utcDate(y, m, 1) + d - 1
      /\ utcDate(y, m, 1) \in Int /\ utcDate(y, m + 1, 1) \in Int /\ d \in Int
      /\ utcDate(y, m, 1) =< date /\ date < utcDate(y, m + 1, 1)
  <2>1. m \in 1 .. 13 /\ m + 1 \in 1 .. 13 /\ m \in Int
    OBVIOUS
  <2>2. utcDate(y, m, 1) \in Int /\ utcDate(y, m + 1, 1) \in Int
    BY <2>1, MonthsGrow
  <2>3. d \in Int /\ 1 =< d /\ d =< utcDate(y, m + 1, 1) - utcDate(y, m, 1)
    BY <2>2 DEF daysInMonth
  <2>4. date = utcDate(y, m, 1) + d - 1
    BY <2>1, <2>3, UtcIs
  <2>. QED  BY <2>2, <2>3, <2>4
<1>2. YearOf(date) = y
  <2>1. utcDate(y, 1, 1) =< utcDate(y, m, 1) /\ utcDate(y, m + 1, 1) =< utcDate(y, 13, 1)
        /\ utcDate(y, 1, 1) \in Int /\ utcDate(y, 13, 1) \in Int
    <3>1. /\ \A k \in 1 .. 13 : utcDate(y, k, 1) \in Int
          /\ \A k \in 1 .. 13, l \in 1 .. 13 : k < l => utcDate(y, k, 1) < utcDate(y, l, 1)
      BY MonthsGrow
    <3>2. m = 1 \/ 1 < m
      OBVIOUS
    <3>3. m + 1 = 13 \/ m + 1 < 13
      OBVIOUS
    <3>4. 1 \in 1 .. 13 /\ 13 \in 1 .. 13 /\ m \in 1 .. 13 /\ m + 1 \in 1 .. 13
      OBVIOUS
    <3>5. utcDate(y, 1, 1) =< utcDate(y, m, 1)
      BY <3>1, <3>2, <3>4
    <3>6. utcDate(y, m + 1, 1) =< utcDate(y, 13, 1)
      BY <3>1, <3>3, <3>4
    <3>. QED  BY <3>1, <3>4, <3>5, <3>6
  <2>2. utcDate(y, 13, 1) = utcDate(y + 1, 1, 1)
    BY Months
  <2>3. NewYear(y) =< date /\ date < NewYear(y + 1)
    BY <1>1, <2>1, <2>2 DEF NewYear, Date
  <2>. QED  BY <2>3, YearIs
<1>3. MonthOf(date) = m
  <2>1. ASSUME NEW k \in 1 .. 12, utcDate(y, k, 1) =< date, date < utcDate(y, k + 1, 1) PROVE k = m
    <3>1. \A i \in 1 .. 13, j \in 1 .. 13 : i < j => utcDate(y, i, 1) < utcDate(y, j, 1)
      BY MonthsGrow
    <3>2. \A i \in 1 .. 13 : utcDate(y, i, 1) \in Int
      BY MonthsGrow
    <3>3. k < m => utcDate(y, k + 1, 1) =< utcDate(y, m, 1)
      <4>1. k < m => k + 1 = m \/ k + 1 < m
        OBVIOUS
      <4>2. k + 1 \in 1 .. 13 /\ m \in 1 .. 13
        OBVIOUS
      <4>. QED  BY <3>1, <3>2, <4>1, <4>2
    <3>4. m < k => utcDate(y, m + 1, 1) =< utcDate(y, k, 1)
      <4>1. m < k => m + 1 = k \/ m + 1 < k
        OBVIOUS
      <4>2. m + 1 \in 1 .. 13 /\ k \in 1 .. 13
        OBVIOUS
      <4>. QED  BY <3>1, <3>2, <4>1, <4>2
    <3>5. /\ utcDate(y, k, 1) \in Int /\ utcDate(y, k + 1, 1) \in Int
          /\ utcDate(y, m, 1) \in Int /\ utcDate(y, m + 1, 1) \in Int
      BY <3>2
    <3>. QED  BY <1>1, <2>1, <3>3, <3>4, <3>5 DEF Date
  <2>2. MonthOf(date) = CHOOSE k \in 1 .. 12 : utcDate(y, k, 1) =< date /\ date < utcDate(y, k + 1, 1)
    BY <1>2 DEF MonthOf
  <2>3. \E k \in 1 .. 12 : utcDate(y, k, 1) =< date /\ date < utcDate(y, k + 1, 1)
    BY <1>1
  <2>. QED  BY <2>1, <2>2, <2>3, Zenon
<1>. QED  BY <1>1, <1>2, <1>3 DEF DayOf, Date

(* Every date is its year, its month and its day put together. *)
LEMMA DateIs ==
  ASSUME NEW date \in Date
  PROVE  /\ YearOf(date) \in Int /\ MonthOf(date) \in 1 .. 12
         /\ DayOf(date) \in 1 .. daysInMonth(YearOf(date), MonthOf(date))
         /\ date = utcDate(YearOf(date), MonthOf(date), DayOf(date))
<1>. DEFINE y == YearOf(date)
<1>1. y \in Int /\ NewYear(y) =< date /\ date < NewYear(y + 1)
  BY YearFits
<1>. HIDE DEF y
<1>2. utcDate(y, 1, 1) =< date /\ date < utcDate(y, 13, 1)
  BY <1>1, Months DEF NewYear
<1>3. \A m \in 1 .. 13 : utcDate(y, m, 1) \in Int
  BY <1>1, MonthsGrow
<1>. DEFINE Within(m) == utcDate(y, m, 1) =< date /\ date < utcDate(y, m + 1, 1)
<1>4. \E m \in 1 .. 12 : Within(m)
  <2>. SUFFICES ASSUME \A m \in 1 .. 12 : ~Within(m) PROVE FALSE
    OBVIOUS
  <2>1. \A m \in 1 .. 12 : utcDate(y, m, 1) =< date => utcDate(y, m + 1, 1) =< date
    <3>1. \A m \in 1 .. 12 : utcDate(y, m + 1, 1) \in Int
      BY <1>3
    <3>. QED  BY <3>1, <1>3 DEF Date
  <2>2. utcDate(y, 1, 1) =< date => utcDate(y, 2, 1) =< date
    BY <2>1
  <2>3. utcDate(y, 2, 1) =< date => utcDate(y, 3, 1) =< date
    BY <2>1
  <2>4. utcDate(y, 3, 1) =< date => utcDate(y, 4, 1) =< date
    BY <2>1
  <2>5. utcDate(y, 4, 1) =< date => utcDate(y, 5, 1) =< date
    BY <2>1
  <2>6. utcDate(y, 5, 1) =< date => utcDate(y, 6, 1) =< date
    BY <2>1
  <2>7. utcDate(y, 6, 1) =< date => utcDate(y, 7, 1) =< date
    BY <2>1
  <2>8. utcDate(y, 7, 1) =< date => utcDate(y, 8, 1) =< date
    BY <2>1
  <2>9. utcDate(y, 8, 1) =< date => utcDate(y, 9, 1) =< date
    BY <2>1
  <2>10. utcDate(y, 9, 1) =< date => utcDate(y, 10, 1) =< date
    BY <2>1
  <2>11. utcDate(y, 10, 1) =< date => utcDate(y, 11, 1) =< date
    BY <2>1
  <2>12. utcDate(y, 11, 1) =< date => utcDate(y, 12, 1) =< date
    BY <2>1
  <2>13. utcDate(y, 12, 1) =< date => utcDate(y, 13, 1) =< date
    BY <2>1
  <2>14. utcDate(y, 13, 1) \in Int
    BY <1>3
  <2>. QED  BY <1>2, <2>2, <2>3, <2>4, <2>5, <2>6, <2>7, <2>8, <2>9, <2>10, <2>11, <2>12, <2>13, <2>14 DEF Date
<1>5. MonthOf(date) = CHOOSE m \in 1 .. 12 : Within(m)
  BY DEF MonthOf, y
<1>6. MonthOf(date) \in 1 .. 12 /\ Within(MonthOf(date))
  BY <1>4, <1>5, Zenon
<1>. DEFINE m == MonthOf(date)
            d == DayOf(date)
<1>7. m \in 1 .. 12 /\ Within(m) /\ utcDate(y, m, 1) \in Int /\ utcDate(y, m + 1, 1) \in Int /\ m \in Int
  BY <1>3, <1>6
<1>8. d = date - utcDate(y, m, 1) + 1
  BY DEF DayOf, y
<1>. HIDE DEF m, d
<1>9. d \in 1 .. daysInMonth(y, m) /\ d \in Int
  BY <1>7, <1>8 DEF daysInMonth, Date
<1>10. date = utcDate(y, m, d)
  <2>1. utcDate(y, m, d) = utcDate(y, m, 1) + d - 1
    BY <1>1, <1>7, <1>9, UtcIs
  <2>. QED  BY <1>7, <1>8, <2>1 DEF Date
<1>. QED  BY <1>1, <1>7, <1>9, <1>10 DEF y, m, d

(* A month has 28 to 31 days. *)
LEMMA MonthLengths ==
  ASSUME NEW y \in Int, NEW m \in 1 .. 12
  PROVE  daysInMonth(y, m) \in 28 .. 31
BY MonthsGrow DEF daysInMonth

(* A month is as long however it is counted over the years. *)
LEMMA SameMonth ==
  ASSUME NEW y, NEW m, NEW z, NEW k, y \in Int, m \in Int, z \in Int, k \in Int,
         12 * z + k = 12 * y + m
  PROVE  daysInMonth(y, m) = daysInMonth(z, k)
<1>. DEFINE over == m + 1   next == k + 1
<1>1. over \in Int /\ next \in Int /\ 12 * z + next = 12 * y + over
  OBVIOUS
<1>. HIDE DEF over, next
<1>2. utcDate(y, over, 1) = utcDate(z, next, 1)
  BY <1>1, ShiftTo
<1>3. utcDate(y, m, 1) = utcDate(z, k, 1)
  BY ShiftTo
<1>. QED  BY <1>2, <1>3 DEF daysInMonth, over, next

(* The day after a month's last is in another month. *)
LEMMA MonthEnds ==
  ASSUME NEW y \in Int, NEW m \in 1 .. 12, NEW date \in Date, date = utcDate(y, m, daysInMonth(y, m))
  PROVE  MonthOf(date + 1) # m
<1>1. daysInMonth(y, m) \in 28 .. 31 /\ date + 1 \in Date
  BY MonthLengths DEF Date
<1>2. date = utcDate(y, m, 1) + daysInMonth(y, m) - 1
  <2>. DEFINE last == daysInMonth(y, m)
  <2>1. last \in Int /\ m \in Int
    BY <1>1
  <2>. HIDE DEF last
  <2>2. utcDate(y, m, last) = utcDate(y, m, 1) + last - 1
    BY <2>1, UtcIs
  <2>. QED  BY <2>2 DEF last
<1>3. date + 1 = utcDate(y, m + 1, 1)
  <2>1. utcDate(y, m, 1) \in Int /\ utcDate(y, m + 1, 1) \in Int
    <3>1. m \in 1 .. 13 /\ m + 1 \in 1 .. 13
      OBVIOUS
    <3>. QED  BY <3>1, MonthsGrow
  <2>. QED  BY <1>2, <2>1 DEF daysInMonth, Date
<1>4. CASE m < 12
  <2>1. m + 1 \in 1 .. 12 /\ 1 \in 1 .. daysInMonth(y, m + 1)
    <3>1. m + 1 \in 1 .. 12
      BY <1>4
    <3>. QED  BY <3>1, MonthLengths
  <2>2. MonthOf(date + 1) = m + 1
    BY <1>1, <1>3, <2>1, DayFits
  <2>. QED  BY <2>1, <2>2
<1>5. CASE m = 12
  <2>1. utcDate(y, 13, 1) = utcDate(y + 1, 1, 1)
    BY Months
  <2>2. y + 1 \in Int /\ 1 \in 1 .. 12 /\ 1 \in 1 .. daysInMonth(y + 1, 1)
    BY MonthLengths
  <2>3. date + 1 = utcDate(y + 1, 1, 1)
    BY <1>3, <1>5, <2>1
  <2>4. MonthOf(date + 1) = 1
    BY <1>1, <2>2, <2>3, DayFits
  <2>. QED  BY <1>5, <2>4
<1>. QED  BY <1>4, <1>5

(* From the year 0 on every date is one. *)
LEMMA DatesOn ==
  ASSUME NEW y \in Nat, NEW m \in 1 .. 12, NEW d \in Nat \ {0}
  PROVE  utcDate(y, m, d) \in Date /\ utcDate(y, m, d) >= -60
<1>1. utcDate(y, m, d) = utcDate(y, m, 1) + d - 1 /\ m \in Int
  <2>1. m \in Int /\ d \in Int /\ y \in Int
    OBVIOUS
  <2>. QED  BY <2>1, UtcIs
<1>2. utcDate(y, 1, 1) =< utcDate(y, m, 1) /\ utcDate(y, 1, 1) \in Int /\ utcDate(y, m, 1) \in Int
  <2>1. 1 \in 1 .. 13 /\ m \in 1 .. 13 /\ (m = 1 \/ 1 < m)
    OBVIOUS
  <2>2. /\ \A k \in 1 .. 13 : utcDate(y, k, 1) \in Int
        /\ \A k \in 1 .. 13, l \in 1 .. 13 : k < l => utcDate(y, k, 1) < utcDate(y, l, 1)
    BY MonthsGrow
  <2>. QED  BY <2>1, <2>2
<1>3. utcDate(y, 1, 1) >= -60
  <2>1. utcDate(y, 1, 1) = 365 * (y - 1) + Leaps(y - 1) + 306
    BY Months
  <2>. QED  BY <2>1 DEF Leaps
<1>. QED  BY <1>1, <1>2, <1>3 DEF Date

(* The days from 1 March of year 0 on are dates, of years from 0 on. *)
LEMMA YearsOn ==
  ASSUME NEW date \in Nat
  PROVE  date \in Date /\ YearOf(date) \in Nat
<1>1. date \in Date
  BY DEF Date
<1>2. YearOf(date) \in Int /\ date < NewYear(YearOf(date) + 1)
  BY <1>1, YearFits
<1>. DEFINE y == YearOf(date)
<1>3. NewYear(y + 1) = 365 * y + Leaps(y) + 306
  BY <1>2, Months DEF NewYear
<1>4. y < 0 => Leaps(y) =< 0 /\ Leaps(y) \in Int
  BY <1>2 DEF Leaps
<1>. HIDE DEF y
<1>5. y >= 0
  BY <1>2, <1>3, <1>4 DEF y
<1>. QED  BY <1>1, <1>2, <1>5 DEF y

(* addMonths lands on the month it should, on the same day or the last. *)
LEMMA AddMonthsIs ==
  ASSUME NEW date \in Nat, NEW n \in Nat
  PROVE  /\ addMonths(date, n) \in Date /\ addMonths(date, n) >= -60
         /\ MonthsOn(date, n, addMonths(date, n))
<1>. DEFINE y == YearOf(date)   m == MonthOf(date)   d == DayOf(date)
            on == m + n
            z == y + (on - 1) \div 12
            k == ((on - 1) % 12) + 1
            last == daysInMonth(z, k)
            day == IF d < last THEN d ELSE last
            result == addMonths(date, n)
<1>1. /\ date \in Date /\ y \in Nat /\ m \in 1 .. 12 /\ m \in Int
      /\ d \in 1 .. daysInMonth(y, m) /\ date = utcDate(y, m, d)
  BY DateIs, YearsOn
<1>2. on \in Int /\ y \in Int /\ d \in Nat \ {0} /\ on - 1 \in Nat
  BY <1>1
<1>3. result = utcDate(y, on, IF d < daysInMonth(y, on) THEN d ELSE daysInMonth(y, on))
  BY DEF addMonths
<1>. HIDE DEF y, m, d, on
<1>4. z \in Nat /\ z \in Int /\ k \in 1 .. 12 /\ k \in Int /\ 12 * z + k = 12 * y + on
  <2>. DEFINE x == on - 1
  <2>1. x \in Nat /\ x \div 12 \in Nat /\ x % 12 \in 0 .. 11 /\ x - 12 * (x \div 12) = x % 12
    <3>1. \A i \in Nat : i \div 12 \in Nat /\ i % 12 \in 0 .. 11 /\ i - 12 * (i \div 12) = i % 12
      OBVIOUS
    <3>2. x \in Nat
      BY <1>2
    <3>. HIDE DEF x
    <3>. QED  BY <3>1, <3>2
  <2>2. z = y + x \div 12 /\ k = (x % 12) + 1 /\ on = x + 1
    BY <1>2
  <2>. HIDE DEF x, z, k
  <2>. QED  BY <1>1, <1>2, <2>1, <2>2
<1>. HIDE DEF z, k
<1>5. daysInMonth(y, on) = last
  BY <1>2, <1>4, SameMonth
<1>6. last \in 28 .. 31
  BY <1>4, MonthLengths
<1>7. day \in 1 .. last /\ day \in Int /\ day \in Nat \ {0}
  <2>. HIDE DEF last
  <2>. QED  BY <1>2, <1>6
<1>8. result = utcDate(z, k, day)
  <2>1. result = utcDate(y, on, day)
    BY <1>3, <1>5
  <2>. HIDE DEF day, result
  <2>. QED  BY <1>2, <1>4, <1>7, <2>1, ShiftTo
<1>. HIDE DEF day, result
<1>9. result \in Date /\ result >= -60
  BY <1>4, <1>7, <1>8, DatesOn
<1>10. YearOf(result) = z /\ MonthOf(result) = k /\ DayOf(result) = day
  BY <1>4, <1>7, <1>8, <1>9, DayFits
<1>11. day # d => day < d /\ MonthOf(result + 1) # MonthOf(result)
  <2>1. ASSUME day # d PROVE day = last /\ day < d
    <3>. HIDE DEF last
    <3>. QED  BY <1>2, <1>6, <2>1 DEF day
  <2>2. day = last => MonthOf(result + 1) # k
    BY <1>4, <1>8, <1>9, MonthEnds
  <2>. QED  BY <1>10, <2>1, <2>2
<1>12. 12 * z + k = 12 * y + m + n
  BY <1>1, <1>4 DEF on
<1>. QED  BY <1>9, <1>10, <1>11, <1>12 DEF MonthsOn, result, y, m, d

(* The last day of a month. *)
LEMMA EndOfMonthIs ==
  ASSUME NEW date \in Date
  PROVE  LET result == endOfMonth(date)
         IN  /\ YearOf(result) = YearOf(date) /\ MonthOf(result) = MonthOf(date)
             /\ MonthOf(result + 1) # MonthOf(result)
<1>. DEFINE y == YearOf(date)   m == MonthOf(date)   d == DayOf(date)
            last == daysInMonth(y, m)
            result == endOfMonth(date)
<1>1. y \in Int /\ m \in 1 .. 12 /\ m \in Int /\ d \in 1 .. last /\ date = utcDate(y, m, d)
  BY DateIs
<1>2. result = utcDate(y, m, last)
  BY DEF endOfMonth
<1>. HIDE DEF y, m, d, result
<1>3. last \in 28 .. 31
  BY <1>1, MonthLengths
<1>. HIDE DEF last
<1>4. last \in 1 .. last /\ last \in Int /\ d \in Int
  BY <1>1, <1>3
<1>5. result \in Date
  <2>1. utcDate(y, m, last) = utcDate(y, m, 1) + last - 1
    BY <1>1, <1>4, UtcIs
  <2>2. utcDate(y, m, d) = utcDate(y, m, 1) + d - 1
    BY <1>1, <1>4, UtcIs
  <2>3. utcDate(y, m, 1) \in Int
    BY <1>1, UtcIs
  <2>. QED  BY <1>1, <1>2, <1>4, <2>1, <2>2, <2>3 DEF Date
<1>6. YearOf(result) = y /\ MonthOf(result) = m
  BY <1>1, <1>2, <1>4, <1>5, DayFits DEF last
<1>7. MonthOf(result + 1) # m
  BY <1>1, <1>2, <1>5, MonthEnds DEF last
<1>. QED  BY <1>6, <1>7 DEF y, m, result

(* Easter is in March or April. *)
LEMMA EasterIs ==
  ASSUME NEW y \in Int
  PROVE  easter(y) \in Int /\ easter(y) - utcDate(y, 3, 1) \in 14 .. 56
<1>. DEFINE a == y % 19   b == y \div 100   c == y % 100
            g == (b - ((b + 8) \div 25) + 1) \div 3
            h == (19 * a + b - (b \div 4) - g + 15) % 30
            l == (32 + 2 * (b % 4) + 2 * (c \div 4) - h - (c % 4)) % 7
            m == (a + 11 * h + 22 * l) \div 451
            n == h + l - 7 * m + 114
<1>1. easter(y) = utcDate(y, n \div 31, (n % 31) + 1)
  BY DEF easter
<1>2. a \in 0 .. 18 /\ b \in Int /\ c \in Int
  OBVIOUS
<1>. HIDE DEF a, b, c
<1>3. g \in Int
  BY <1>2
<1>. HIDE DEF g
<1>4. h \in 0 .. 29
  BY <1>2, <1>3
<1>. HIDE DEF h
<1>5. l \in 0 .. 6
  BY <1>2, <1>4
<1>. HIDE DEF l
<1>6. m \in 0 .. 1
  BY <1>2, <1>4, <1>5
<1>. HIDE DEF m
<1>7. n \in 107 .. 149
  BY <1>4, <1>5, <1>6
<1>. HIDE DEF n
<1>. DEFINE month == n \div 31   day == (n % 31) + 1
<1>8. month \in {3, 4} /\ day \in 1 .. 31 /\ n = 31 * month + day - 1
  <2>1. \A i \in 107 .. 149 : i \div 31 \in {3, 4} /\ (i % 31) + 1 \in 1 .. 31
                             /\ i - 31 * (i \div 31) = i % 31
    OBVIOUS
  <2>. QED  BY <1>7, <2>1
<1>. HIDE DEF month, day
<1>9. utcDate(y, month, day) = utcDate(y, month, 1) + day - 1
  BY <1>8, UtcIs
<1>10. utcDate(y, 4, 1) = utcDate(y, 3, 1) + 31 /\ utcDate(y, 3, 1) \in Int
  <2>1. utcDate(y, 3, 1) \in Int
    BY UtcIs
  <2>. QED  BY <2>1, Months
<1>11. easter(y) = utcDate(y, month, day)
  BY <1>1 DEF month, day
<1>. QED  BY <1>7, <1>8, <1>9, <1>10, <1>11

(* The nth such weekday of a month is in its nth week. *)
LEMMA NthWeekdayIs ==
  ASSUME NEW y \in Int, NEW m \in Int, NEW weekday \in 0 .. 6, NEW nth \in Int
  PROVE  /\ nthWeekday(y, m, weekday, nth) \in Int
         /\ nthWeekday(y, m, weekday, nth) - utcDate(y, m, 1) - 7 * (nth - 1) \in 0 .. 6
<1>. DEFINE first == utcDate(y, m, 1)
<1>1. first \in Int
  BY UtcIs
<1>2. nthWeekday(y, m, weekday, nth) = first + ((weekday - Weekday(first)) % 7) + (nth - 1) * 7
  BY DEF nthWeekday
<1>. HIDE DEF first
<1>3. Weekday(first) \in 0 .. 6
  BY <1>1 DEF Weekday
<1>4. (weekday - Weekday(first)) % 7 \in 0 .. 6
  BY <1>3
<1>. QED  BY <1>1, <1>2, <1>4 DEF first

(* The Monday before a day is at most a week before it. *)
LEMMA MondayBeforeIs ==
  ASSUME NEW y \in Int, NEW m \in Int, NEW d \in Int
  PROVE  /\ mondayBefore(y, m, d) \in Int
         /\ utcDate(y, m, d) - mondayBefore(y, m, d) \in 1 .. 7
<1>. DEFINE target == utcDate(y, m, d)
            back == (Weekday(target) + 6) % 7
<1>1. target \in Int
  BY UtcIs
<1>2. mondayBefore(y, m, d) = target - (IF back = 0 THEN 7 ELSE back)
  BY DEF mondayBefore
<1>. HIDE DEF target
<1>3. Weekday(target) \in 0 .. 6
  BY <1>1 DEF Weekday
<1>4. back \in 0 .. 6
  BY <1>3
<1>. HIDE DEF back
<1>. QED  BY <1>1, <1>2, <1>4 DEF target

(* The days of a year are counted from its 1 March. *)
Spring(y) == utcDate(y, 3, 1)
(* The holidays, when the four that move are so many days from 1 March. *)
HolidaysOn(y, f, v, l, t) ==
  {NewYear(y), Spring(y) + f, Spring(y) + v, Spring(y) + 122, Spring(y) + l, Spring(y) + 213,
   Spring(y) + t, Spring(y) + 255, Spring(y) + 299, Spring(y) + 300}

(* Each holiday that moves stays within its own weeks. *)
LEMMA TheHolidays ==
  ASSUME NEW y \in Int
  PROVE  /\ Spring(y) \in Int
         /\ NewYear(y) - Spring(y) \in {-60, -59} /\ NewYear(y + 1) = Spring(y) + 306
         /\ \E f \in 12 .. 54, v \in 78 .. 84, l \in 184 .. 190, t \in 221 .. 227 :
              federalHolidays(y) =
                HolidaysOn(y, f, v, l, t)
<1>1. Spring(y) \in Int
  BY UtcIs DEF Spring
<1>2. /\ utcDate(y, 5, 1) = Spring(y) + 61 /\ utcDate(y, 7, 1) = Spring(y) + 122
      /\ utcDate(y, 9, 1) = Spring(y) + 184 /\ utcDate(y, 10, 1) = Spring(y) + 214
      /\ utcDate(y, 11, 1) = Spring(y) + 245 /\ utcDate(y, 12, 1) = Spring(y) + 275
      /\ NewYear(y + 1) = Spring(y) + 306
  BY Months DEF NewYear, Spring
<1>3. NewYear(y) - Spring(y) \in {-60, -59}
  <2>. DEFINE before == 365 * (y - 1) + Leaps(y - 1)
              this == 365 * y + Leaps(y)
  <2>1. utcDate(y, 1, 1) = before + 306 /\ Spring(y) = this /\ this - before \in {365, 366}
    BY Months DEF Spring
  <2>2. before \in Int /\ this \in Int
    BY LeapsAre
  <2>. HIDE DEF before, this
  <2>. QED  BY <2>1, <2>2 DEF NewYear
<1>4. utcDate(y, 5, 25) = Spring(y) + 85 /\ utcDate(y, 9, 30) = Spring(y) + 213
      /\ utcDate(y, 11, 11) = Spring(y) + 255 /\ utcDate(y, 12, 25) = Spring(y) + 299
      /\ utcDate(y, 12, 26) = Spring(y) + 300
  <2>1. /\ utcDate(y, 5, 25) = utcDate(y, 5, 1) + 25 - 1
        /\ utcDate(y, 9, 30) = utcDate(y, 9, 1) + 30 - 1
        /\ utcDate(y, 11, 11) = utcDate(y, 11, 1) + 11 - 1
        /\ utcDate(y, 12, 25) = utcDate(y, 12, 1) + 25 - 1
        /\ utcDate(y, 12, 26) = utcDate(y, 12, 1) + 26 - 1
    BY UtcIs
  <2>. QED  BY <1>1, <1>2, <2>1
<1>5. PICK f \in 12 .. 54 : easter(y) - 2 = Spring(y) + f
  <2>1. easter(y) \in Int /\ easter(y) - Spring(y) \in 14 .. 56
    BY EasterIs DEF Spring
  <2>. DEFINE f == easter(y) - 2 - Spring(y)
  <2>2. f \in 12 .. 54 /\ easter(y) - 2 = Spring(y) + f
    BY <1>1, <2>1
  <2>. HIDE DEF f
  <2>. QED  BY <2>2
<1>6. PICK v \in 78 .. 84 : mondayBefore(y, 5, 25) = Spring(y) + v
  <2>. DEFINE monday == mondayBefore(y, 5, 25)
  <2>1. monday \in Int /\ utcDate(y, 5, 25) - monday \in 1 .. 7
    BY MondayBeforeIs
  <2>. HIDE DEF monday
  <2>. DEFINE v == monday - Spring(y)
  <2>2. v \in 78 .. 84 /\ monday = Spring(y) + v
    BY <1>1, <1>4, <2>1
  <2>. HIDE DEF v
  <2>. QED  BY <2>2 DEF monday
<1>7. PICK l \in 184 .. 190 : nthWeekday(y, 9, 1, 1) = Spring(y) + l
  <2>. DEFINE day == nthWeekday(y, 9, 1, 1)
  <2>1. day \in Int /\ day - utcDate(y, 9, 1) - 7 * (1 - 1) \in 0 .. 6
    <3>1. 9 \in Int /\ 1 \in 0 .. 6 /\ 1 \in Int
      OBVIOUS
    <3>. QED  BY <3>1, NthWeekdayIs, Zenon
  <2>. HIDE DEF day
  <2>. DEFINE l == day - Spring(y)
  <2>2. l \in 184 .. 190 /\ day = Spring(y) + l
    BY <1>1, <1>2, <2>1
  <2>. HIDE DEF l
  <2>. QED  BY <2>2 DEF day
<1>8. PICK t \in 221 .. 227 : nthWeekday(y, 10, 1, 2) = Spring(y) + t
  <2>. DEFINE day == nthWeekday(y, 10, 1, 2)
  <2>1. day \in Int /\ day - utcDate(y, 10, 1) - 7 * (2 - 1) \in 0 .. 6
    <3>1. 10 \in Int /\ 1 \in 0 .. 6 /\ 2 \in Int
      OBVIOUS
    <3>. QED  BY <3>1, NthWeekdayIs, Zenon
  <2>. HIDE DEF day
  <2>. DEFINE t == day - Spring(y)
  <2>2. t \in 221 .. 227 /\ day = Spring(y) + t
    BY <1>1, <1>2, <2>1
  <2>. HIDE DEF t
  <2>. QED  BY <2>2 DEF day
<1>9. federalHolidays(y) =
        HolidaysOn(y, f, v, l, t)
  BY <1>2, <1>4, <1>5, <1>6, <1>7, <1>8, ZenonT(40) DEF federalHolidays, NewYear, HolidaysOn
<1>. QED  BY <1>1, <1>2, <1>3, <1>9, ZenonT(40)

(* The same by a name: the days of a year that are holidays, from March on. *)
AYear(y) ==
  /\ Spring(y) \in Int
  /\ NewYear(y) - Spring(y) \in {-60, -59} /\ NewYear(y + 1) = Spring(y) + 306
  /\ \E f \in 12 .. 54, v \in 78 .. 84, l \in 184 .. 190, t \in 221 .. 227 :
       federalHolidays(y) = HolidaysOn(y, f, v, l, t)

LEMMA HolidaysAre == \A y \in Int : AYear(y)
BY TheHolidays, Zenon DEF AYear

(* A holiday of the year the day is in. *)
Holiday(d) == d \in federalHolidays(YearOf(d))

(* No week, wherever it begins, has more than two holidays. *)
LEMMA TwoAtMost ==
  ASSUME NEW a \in Date
  PROVE  \E p, q \in Int : \A d \in a .. (a + 6) : Holiday(d) => d \in {p, q}
<1>. DEFINE y == YearOf(a)   march == Spring(y)
<1>1. y \in Int /\ NewYear(y) =< a /\ a < NewYear(y + 1) /\ a \in Int
  BY YearFits DEF Date
<1>. HIDE DEF y
<1>2. /\ march \in Int
      /\ NewYear(y) - march \in {-60, -59} /\ NewYear(y + 1) = march + 306
      /\ NewYear(y) \in Int
  <2>1. AYear(y) /\ NewYear(y) \in Int
    BY <1>1, HolidaysAre, YearsAre
  <2>. QED  BY <2>1 DEF AYear
<1>3. PICK f \in 12 .. 54, v \in 78 .. 84, l \in 184 .. 190, t \in 221 .. 227 :
        federalHolidays(y) =
          HolidaysOn(y, f, v, l, t)
  <2>1. AYear(y)
    BY <1>1, HolidaysAre
  <2>. QED  BY <2>1, Zenon DEF AYear
<1>. HIDE DEF march
<1>4. ASSUME NEW d \in a .. (a + 6), Holiday(d)
      PROVE  d \in federalHolidays(y) \/ d = march + 306
  <2>1. d \in Date /\ d \in Int
    BY <1>1 DEF Date
  <2>2. CASE d < NewYear(y + 1)
    BY <1>1, <1>2, <1>4, <2>1, <2>2, YearIs DEF Holiday
  <2>3. CASE d >= NewYear(y + 1)
    <3>1. NewYear(y + 1) + 365 =< NewYear(y + 2) /\ NewYear(y + 2) \in Int
      <4>. DEFINE z == y + 1   x == y + 2
      <4>1. z \in Int /\ x \in Int /\ z < x /\ x - z = 1
        BY <1>1
      <4>. HIDE DEF z, x
      <4>2. NewYear(z) + 365 * (x - z) =< NewYear(x) /\ NewYear(x) \in Int /\ NewYear(z) \in Int
        <5>1. YearsBetween(z, x)
          BY <4>1, YearsPass
        <5>. QED  BY <5>1 DEF YearsBetween
      <4>3. NewYear(z) + 365 =< NewYear(x)
        BY <4>1, <4>2
      <4>. QED  BY <4>2, <4>3 DEF z, x
    <3>. DEFINE z == y + 1   spring == Spring(z)
    <3>2. d < NewYear(y + 2)
      BY <1>1, <1>2, <2>1, <3>1
    <3>3. z \in Int /\ z + 1 = y + 2
      BY <1>1
    <3>4. YearOf(d) = z
      <4>. HIDE DEF z
      <4>1. NewYear(z) =< d /\ d < NewYear(z + 1)
        BY <2>3, <3>2, <3>3 DEF z
      <4>. QED  BY <2>1, <3>3, <4>1, YearIs
    <3>5. NewYear(z) = march + 306
      BY <1>2
    <3>. HIDE DEF z
    <3>6. spring \in Int /\ NewYear(z) - spring \in {-60, -59}
      <4>1. AYear(z)
        BY <3>3, HolidaysAre
      <4>. QED  BY <4>1 DEF AYear, spring
    <3>7. PICK g \in 12 .. 54, w \in 78 .. 84, k \in 184 .. 190, s \in 221 .. 227 :
            federalHolidays(z) =
              HolidaysOn(z, g, w, k, s)
      <4>1. AYear(z)
        BY <3>3, HolidaysAre
      <4>. QED  BY <4>1, Zenon DEF AYear
    <3>. HIDE DEF spring
    <3>8. d \in federalHolidays(z)
      BY <1>4, <3>4 DEF Holiday
    <3>. QED  BY <1>1, <1>2, <2>1, <3>5, <3>6, <3>7, <3>8 DEF HolidaysOn, spring
  <2>. QED  BY <1>2, <2>1, <2>2, <2>3
<1>. DEFINE o == a - march
            p == IF o =< 54 THEN NewYear(y) ELSE IF o =< 122 THEN march + v
                 ELSE IF o =< 213 THEN march + l ELSE IF o =< 255 THEN march + t
                 ELSE IF o =< 299 THEN march + 299 ELSE march + 306
            q == IF o =< 54 THEN march + f ELSE IF o =< 122 THEN march + 122
                 ELSE IF o =< 213 THEN march + 213 ELSE IF o =< 255 THEN march + 255
                 ELSE march + 300
<1>5. p \in Int /\ q \in Int
  BY <1>2
<1>6. \A d \in a .. (a + 6) : Holiday(d) => d \in {p, q}
  BY <1>1, <1>2, <1>3, <1>4 DEF HolidaysOn, march
<1>. HIDE DEF p, q
<1>. QED  BY <1>5, <1>6

(* Any week holds three business days. *)
LEMMA WeeksWork ==
  ASSUME NEW a \in Date
  PROVE  \E x, y, z \in a .. (a + 6) : /\ x < y /\ y < z
                                       /\ isBusinessDay(x) /\ isBusinessDay(y) /\ isBusinessDay(z)
<1>1. a \in Int
  BY DEF Date
<1>2. PICK p, q \in Int : \A d \in a .. (a + 6) : Holiday(d) => d \in {p, q}
  BY TwoAtMost
<1>. DEFINE w == Weekday(a)
<1>3. w \in 0 .. 6 /\ \A i \in 0 .. 6 : Weekday(a + i) = (w + i) % 7
  BY <1>1 DEF Weekday
<1>. HIDE DEF w
<1>4. \E e1, e2, e3, e4, e5 \in 0 .. 6 :
        /\ e1 < e2 /\ e2 < e3 /\ e3 < e4 /\ e4 < e5
        /\ (w + e1) % 7 \notin {0, 6} /\ (w + e2) % 7 \notin {0, 6} /\ (w + e3) % 7 \notin {0, 6}
        /\ (w + e4) % 7 \notin {0, 6} /\ (w + e5) % 7 \notin {0, 6}
  <2>1. w \in {0, 1, 2, 3, 4, 5, 6}
    BY <1>3
  <2>. QED  BY <2>1
<1>5. PICK e1, e2, e3, e4, e5 \in 0 .. 6 :
        /\ e1 < e2 /\ e2 < e3 /\ e3 < e4 /\ e4 < e5
        /\ (w + e1) % 7 \notin {0, 6} /\ (w + e2) % 7 \notin {0, 6} /\ (w + e3) % 7 \notin {0, 6}
        /\ (w + e4) % 7 \notin {0, 6} /\ (w + e5) % 7 \notin {0, 6}
  BY <1>4
<1>6. \A i \in {e1, e2, e3, e4, e5} : a + i \in a .. (a + 6)
        /\ (a + i \notin {p, q} => isBusinessDay(a + i))
  BY <1>1, <1>2, <1>3, <1>5 DEF isBusinessDay, isWeekend, Holiday
<1>7. \E i, j, k \in {e1, e2, e3, e4, e5} : i < j /\ j < k /\ {a + i, a + j, a + k} \intersect {p, q} = {}
  BY <1>1, <1>5
<1>8. PICK i, j, k \in {e1, e2, e3, e4, e5} : i < j /\ j < k /\ {a + i, a + j, a + k} \intersect {p, q} = {}
  BY <1>7
<1>. DEFINE x == a + i   y == a + j   z == a + k
<1>10. i \in Int /\ j \in Int /\ k \in Int
  BY <1>5
<1>11. isBusinessDay(x) /\ isBusinessDay(y) /\ isBusinessDay(z)
  <2>1. a + i \notin {p, q} /\ a + j \notin {p, q} /\ a + k \notin {p, q}
    BY <1>8
  <2>. QED  BY <1>6, <2>1
<1>9. x \in a .. (a + 6) /\ y \in a .. (a + 6) /\ z \in a .. (a + 6) /\ x < y /\ y < z
      /\ isBusinessDay(x) /\ isBusinessDay(y) /\ isBusinessDay(z)
  BY <1>1, <1>5, <1>6, <1>8, <1>10, <1>11
<1>. HIDE DEF x, y, z
<1>. QED  BY <1>9

(* The business days among the first n days of a walk. *)
Passed(date, step, n) == {d \in Int : isBusinessDay(d) /\ \E i \in 1 .. n : d = date + step * i}

(* A walk passes its days one at a time, and no day twice. *)
LEMMA PassedIs ==
  ASSUME NEW date \in Int, NEW step \in {-1, 1}, NEW n \in Nat
  PROVE  /\ Passed(date, step, 0) = {}
         /\ IsFiniteSet(Passed(date, step, n))
         /\ Cardinality(Passed(date, step, n)) \in Nat
         /\ Cardinality(Passed(date, step, n + 1)) =
              Cardinality(Passed(date, step, n))
                + (IF isBusinessDay(date + step * (n + 1)) THEN 1 ELSE 0)
<1>1. Passed(date, step, 0) = {}
  BY DEF Passed
<1>2. IsFiniteSet(Passed(date, step, n))
  <2>1. Passed(date, step, n) \subseteq (date - n) .. (date + n)
    BY DEF Passed
  <2>2. IsFiniteSet((date - n) .. (date + n))
    BY FS_Interval
  <2>. QED  BY <2>1, <2>2, FS_Subset
<1>3. Passed(date, step, n + 1) =
        Passed(date, step, n)
          \union (IF isBusinessDay(date + step * (n + 1)) THEN {date + step * (n + 1)} ELSE {})
  <2>. DEFINE next == date + step * (n + 1)
              Near(d, m) == \E i \in 1 .. m : d = date + step * i
  <2>1. next \in Int
    OBVIOUS
  <2>2. ASSUME NEW d \in Int PROVE Near(d, n + 1) <=> Near(d, n) \/ d = next
    <3>1. 1 .. (n + 1) = (1 .. n) \union {n + 1}
      OBVIOUS
    <3>. QED  BY <3>1
  <2>3. \A m : Passed(date, step, m) = {d \in Int : isBusinessDay(d) /\ Near(d, m)}
    BY DEF Passed
  <2>. HIDE DEF next, Near
  <2>4. Passed(date, step, n + 1) =
          Passed(date, step, n) \union (IF isBusinessDay(next) THEN {next} ELSE {})
    BY <2>1, <2>2, <2>3
  <2>. QED  BY <2>4 DEF next
<1>. DEFINE next == date + step * (n + 1)
<1>4. next \notin Passed(date, step, n)
  BY DEF Passed
<1>. HIDE DEF next
<1>5. Cardinality(Passed(date, step, n) \union {next}) = Cardinality(Passed(date, step, n)) + 1
  BY <1>2, <1>4, FS_AddElement
<1>6. Cardinality(Passed(date, step, n)) \in Nat
  BY <1>2, FS_CardinalityType
<1>7. Cardinality(Passed(date, step, n + 1)) =
        Cardinality(Passed(date, step, n)) + (IF isBusinessDay(next) THEN 1 ELSE 0)
  <2>1. CASE isBusinessDay(next)
    BY <1>3, <1>5, <2>1 DEF next
  <2>2. CASE ~isBusinessDay(next)
    <3>1. Passed(date, step, n + 1) = Passed(date, step, n)
      BY <1>3, <2>2 DEF next
    <3>. QED  BY <1>6, <2>2, <3>1
  <2>. QED  BY <2>1, <2>2
<1>. QED  BY <1>1, <1>2, <1>6, <1>7 DEF next

(* A week's walk passes three business days. *)
LEMMA WeekPasses ==
  ASSUME NEW date \in Int, NEW step \in {-1, 1}, NEW n \in Nat, date - (n + 7) >= -366
  PROVE  Cardinality(Passed(date, step, n + 7)) >= Cardinality(Passed(date, step, n)) + 3
<1>. DEFINE old == Passed(date, step, n)   new == Passed(date, step, n + 7)
            a == IF step = 1 THEN date + n + 1 ELSE date - n - 7
<1>1. a \in Date /\ a \in Int
  BY DEF Date
<1>2. \A d \in a .. (a + 6) : \E i \in (n + 1) .. (n + 7) : d = date + step * i
  <2>1. ASSUME NEW d \in a .. (a + 6), step = 1 PROVE \E i \in (n + 1) .. (n + 7) : d = date + step * i
    <3>. DEFINE i == d - date
    <3>1. i \in (n + 1) .. (n + 7) /\ d = date + step * i
      BY <2>1
    <3>. HIDE DEF i
    <3>. QED  BY <3>1
  <2>2. ASSUME NEW d \in a .. (a + 6), step = -1 PROVE \E i \in (n + 1) .. (n + 7) : d = date + step * i
    <3>. DEFINE i == date - d
    <3>1. i \in (n + 1) .. (n + 7) /\ d = date + step * i
      BY <2>2
    <3>. HIDE DEF i
    <3>. QED  BY <3>1
  <2>. QED  BY <2>1, <2>2
<1>3. old \subseteq new
  <2>1. 1 .. n \subseteq 1 .. (n + 7)
    OBVIOUS
  <2>. QED  BY <2>1 DEF Passed
<1>4. ASSUME NEW d \in a .. (a + 6), isBusinessDay(d) PROVE d \in new /\ d \notin old
  <2>1. PICK i \in (n + 1) .. (n + 7) : d = date + step * i
    BY <1>2
  <2>2. i \in 1 .. (n + 7) /\ d \in Int
    BY <1>1
  <2>3. d \in new
    BY <1>4, <2>1, <2>2 DEF Passed
  <2>4. \A k \in 1 .. n : d # date + step * k
    BY <2>1
  <2>. QED  BY <2>3, <2>4 DEF Passed
<1>5. PICK x, y, z \in a .. (a + 6) : /\ x < y /\ y < z
                                     /\ isBusinessDay(x) /\ isBusinessDay(y) /\ isBusinessDay(z)
  BY <1>1, WeeksWork
<1>6. /\ x \in new /\ y \in new /\ z \in new /\ x \notin old /\ y \notin old /\ z \notin old
      /\ x # y /\ y # z /\ x # z
  BY <1>1, <1>4, <1>5
<1>7. IsFiniteSet(old) /\ IsFiniteSet(new)
  <2>1. n + 7 \in Nat
    OBVIOUS
  <2>. QED  BY <2>1, PassedIs
<1>. HIDE DEF old, new, a
<1>8. /\ IsFiniteSet(old \union {x})
      /\ Cardinality(old \union {x}) = Cardinality(old) + 1
  BY <1>6, <1>7, FS_AddElement
<1>9. /\ IsFiniteSet((old \union {x}) \union {y})
      /\ Cardinality((old \union {x}) \union {y}) = Cardinality(old) + 1 + 1
  BY <1>6, <1>8, FS_AddElement
<1>10. Cardinality(((old \union {x}) \union {y}) \union {z}) = Cardinality(old) + 1 + 1 + 1
  BY <1>6, <1>9, FS_AddElement
<1>11. Cardinality(((old \union {x}) \union {y}) \union {z}) =< Cardinality(new)
  <2>1. ((old \union {x}) \union {y}) \union {z} \subseteq new
    BY <1>3, <1>6 DEF old, new
  <2>. QED  BY <1>7, <2>1, FS_Subset
<1>12. Cardinality(old) \in Nat /\ Cardinality(new) \in Nat
  BY <1>7, FS_CardinalityType
<1>13. Cardinality(new) >= Cardinality(old) + 3
  BY <1>10, <1>11, <1>12
<1>. QED  BY <1>13 DEF old, new

(* In 3 * size + 7 days there are more business days than size. *)
LEMMA EnoughDays ==
  ASSUME NEW date \in Int, NEW step \in {-1, 1}, NEW size \in Nat,
         date - (3 * size + 7) >= -366
  PROVE  Cardinality(Passed(date, step, 3 * size + 7)) >= size + 1
<1>. DEFINE N == 3 * size + 7
            weeks == (size + 3) \div 3
            S == {m \in 0 .. weeks : Cardinality(Passed(date, step, 7 * m)) >= 3 * m}
<1>1. weeks \in Nat /\ 7 * weeks =< N /\ 3 * weeks >= size + 1 /\ N \in Nat
  OBVIOUS
<1>2. 0 \in S
  <2>1. Passed(date, step, 0) = {}
    BY PassedIs
  <2>2. 7 * 0 = 0 /\ 3 * 0 = 0 /\ 0 \in 0 .. weeks
    BY <1>1
  <2>. QED  BY <2>1, <2>2, FS_EmptySet
<1>3. ASSUME NEW m \in 0 .. (weeks - 1), m \in S PROVE m + 1 \in S
  <2>. DEFINE n == 7 * m
  <2>1. n \in Nat /\ 7 * (m + 1) = n + 7 /\ m + 1 \in 0 .. weeks /\ date - (n + 7) >= -366
        /\ n + 7 \in Nat
    BY <1>1
  <2>2. Cardinality(Passed(date, step, n)) >= 3 * m
    BY <1>3
  <2>3. IsFiniteSet(Passed(date, step, n)) /\ IsFiniteSet(Passed(date, step, n + 7))
    <3>. HIDE DEF n
    <3>. QED  BY <2>1, PassedIs
  <2>4. /\ Cardinality(Passed(date, step, n)) \in Nat
        /\ Cardinality(Passed(date, step, n + 7)) \in Nat
    BY <2>3, FS_CardinalityType
  <2>. HIDE DEF n
  <2>5. Cardinality(Passed(date, step, n + 7)) >= Cardinality(Passed(date, step, n)) + 3
    BY <2>1, WeekPasses
  <2>6. Cardinality(Passed(date, step, n + 7)) >= 3 * (m + 1)
    BY <2>2, <2>4, <2>5
  <2>. QED  BY <2>1, <2>6
<1>. HIDE DEF S
<1>4. weeks \in S
  <2>1. 0 .. weeks \subseteq S
    BY <1>1, <1>2, <1>3, Upwards
  <2>. QED  BY <1>1, <2>1
<1>5. Cardinality(Passed(date, step, 7 * weeks)) >= 3 * weeks
  BY <1>4 DEF S
<1>. HIDE DEF weeks, N
<1>6. Passed(date, step, 7 * weeks) \subseteq Passed(date, step, N)
  <2>1. 1 .. (7 * weeks) \subseteq 1 .. N
    BY <1>1
  <2>. QED  BY <2>1 DEF Passed
<1>7. IsFiniteSet(Passed(date, step, N)) /\ IsFiniteSet(Passed(date, step, 7 * weeks))
  <2>1. 7 * weeks \in Nat
    BY <1>1
  <2>. QED  BY <1>1, <2>1, PassedIs
<1>8. Cardinality(Passed(date, step, 7 * weeks)) =< Cardinality(Passed(date, step, N))
  BY <1>6, <1>7, FS_Subset
<1>9. /\ Cardinality(Passed(date, step, 7 * weeks)) \in Nat
      /\ Cardinality(Passed(date, step, N)) \in Nat
  BY <1>7, FS_CardinalityType
<1>. QED  BY <1>1, <1>5, <1>8, <1>9 DEF N

(* What the loop of addBusinessDays has after n rounds. *)
WalkAfter(walk, date, size, step, n) ==
  IF n = 0 THEN [at |-> date, remaining |-> size]
  ELSE LET w == walk[n - 1]
       IN  IF w.remaining = 0 THEN w
           ELSE [at |-> w.at + step,
                 remaining |-> w.remaining - (IF isBusinessDay(w.at + step) THEN 1 ELSE 0)]

(* The loop, round by round. *)
Walks(walk, date, size, step, N) ==
  walk = [n \in 0 .. N |-> WalkAfter(walk, date, size, step, n)]

(* A walk of any length exists, so the recursion is what it says. *)
LEMMA WalkExists ==
  ASSUME NEW date, NEW size, NEW step, NEW N \in Nat
  PROVE  \E walk : Walks(walk, date, size, step, N)
<1>. DEFINE Upto(n, g) == g = [k \in 0 .. n |-> WalkAfter(g, date, size, step, k)]
            S == {n \in 0 .. N : \E g : Upto(n, g)}
<1>1. 0 \in S
  <2>. DEFINE g == [k \in 0 .. 0 |-> [at |-> date, remaining |-> size]]
  <2>1. Upto(0, g)
    BY DEF WalkAfter
  <2>. HIDE DEF g, Upto
  <2>. QED  BY <2>1
<1>2. ASSUME NEW n \in 0 .. (N - 1), n \in S PROVE n + 1 \in S
  <2>1. PICK g : Upto(n, g)
    BY <1>2
  <2>. DEFINE h == [k \in 0 .. (n + 1) |-> IF k =< n THEN g[k] ELSE WalkAfter(g, date, size, step, k)]
  <2>2. ASSUME NEW k \in 0 .. (n + 1) PROVE h[k] = WalkAfter(h, date, size, step, k)
    <3>1. k # 0 => k - 1 \in 0 .. n /\ h[k - 1] = g[k - 1]
      OBVIOUS
    <3>2. WalkAfter(h, date, size, step, k) = WalkAfter(g, date, size, step, k)
      BY <3>1 DEF WalkAfter
    <3>3. k =< n => g[k] = WalkAfter(g, date, size, step, k)
      BY <2>1
    <3>. QED  BY <3>2, <3>3
  <2>3. Upto(n + 1, h)
    BY <2>2
  <2>4. n + 1 \in 0 .. N
    OBVIOUS
  <2>. HIDE DEF Upto, h
  <2>. QED  BY <2>3, <2>4
<1>3. N \in S
  <2>. HIDE DEF S
  <2>1. 0 .. N \subseteq S
    BY <1>1, <1>2, Upwards
  <2>. QED  BY <2>1
<1>. QED  BY <1>3 DEF Walks

(* addBusinessDays stops where such a walk ends. *)
LEMMA TheWalk ==
  ASSUME NEW date \in Int, NEW count \in Int, NEW size, NEW step, NEW N \in Nat,
         size = (IF count < 0 THEN -count ELSE count), step = (IF count < 0 THEN -1 ELSE 1),
         N = 3 * size + 7
  PROVE  \E walk : /\ Walks(walk, date, size, step, N)
                   /\ addBusinessDays(date, count) = walk[N].at
<1>. DEFINE walk == CHOOSE g : Walks(g, date, size, step, N)
<1>1. addBusinessDays(date, count) = walk[N].at
  BY DEF addBusinessDays, WalkAfter, Walks
<1>2. Walks(walk, date, size, step, N)
  BY WalkExists
<1>. HIDE DEF walk
<1>. QED  BY <1>1, <1>2


(* addBusinessDays stops on the business day that is the count-th it passed: *)
(* the bound on its rounds never cuts it short.                              *)
LEMMA BusinessDaysAre ==
  ASSUME NEW date \in Int, NEW size \in Nat \ {0}, NEW step \in {-1, 1},
         date - (3 * size + 7) >= -366
  PROVE  \E k \in 1 .. (3 * size + 7) :
           /\ addBusinessDays(date, step * size) = date + step * k
           /\ isBusinessDay(date + step * k)
           /\ Cardinality(Passed(date, step, k)) = size
<1>. DEFINE N == 3 * size + 7   count == step * size
<1>1. /\ count \in Int /\ size = (IF count < 0 THEN -count ELSE count)
      /\ step = (IF count < 0 THEN -1 ELSE 1) /\ N \in Nat /\ date - N >= -366
      /\ N = 3 * size + 7
  OBVIOUS
<1>2. PICK walk : /\ Walks(walk, date, size, step, N)
                  /\ addBusinessDays(date, count) = walk[N].at
  <2>. HIDE DEF count, N
  <2>. QED  BY <1>1, TheWalk
<1>. HIDE DEF count
<1>. DEFINE Gone(k) == Cardinality(Passed(date, step, k))
            Stood(n, k) == /\ walk[n].at = date + step * k
                           /\ walk[n].remaining = size - Gone(k) /\ walk[n].remaining \in 0 .. size
                           /\ walk[n].remaining > 0 => k = n
                           /\ walk[n].remaining = 0 => k > 0 /\ isBusinessDay(date + step * k)
            S == {n \in 0 .. N : \E k \in 0 .. n : Stood(n, k)}
<1>3. \A k \in Nat : Gone(k) \in Nat
  BY PassedIs, FS_CardinalityType
<1>4. 0 \in S
  <2>1. 0 \in 0 .. N /\ walk[0] = [at |-> date, remaining |-> size]
    BY <1>1, <1>2 DEF WalkAfter, Walks
  <2>2. Gone(0) = 0
    BY PassedIs, FS_EmptySet
  <2>. HIDE DEF Gone, N
  <2>3. Stood(0, 0)
    BY <2>1, <2>2
  <2>. QED  BY <2>1, <2>3
<1>5. ASSUME NEW n \in 0 .. (N - 1), n \in S PROVE n + 1 \in S
  <2>1. PICK k \in 0 .. n : Stood(n, k)
    BY <1>5
  <2>2. n + 1 \in 0 .. N /\ n + 1 \in 1 .. N /\ n + 1 # 0 /\ (n + 1) - 1 = n /\ n \in Nat /\ k \in 0 .. (n + 1)
    BY <1>1
  <2>3. walk[n + 1] = WalkAfter(walk, date, size, step, n + 1)
    <3>. HIDE DEF N, S, Stood
    <3>1. \A m \in 0 .. N : walk[m] = WalkAfter(walk, date, size, step, m)
      BY <1>2 DEF Walks
    <3>. QED  BY <2>2, <3>1
  <2>4. CASE walk[n].remaining = 0
    <3>1. walk[n + 1] = walk[n]
      BY <2>2, <2>3, <2>4 DEF WalkAfter
    <3>2. Stood(n + 1, k)
      <4>. HIDE DEF Gone
      <4>. QED  BY <2>1, <2>4, <3>1
    <3>. HIDE DEF Stood, N
    <3>. QED  BY <2>2, <3>2
  <2>5. CASE walk[n].remaining # 0
    <3>. DEFINE next == date + step * (n + 1)
    <3>1. k = n /\ walk[n].remaining \in 1 .. size /\ walk[n].at = date + step * n
      <4>. HIDE DEF Gone
      <4>. QED  BY <2>1, <2>5
    <3>2. walk[n].at + step = next /\ next \in Int
      BY <2>2, <3>1
    <3>. HIDE DEF next
    <3>3. walk[n + 1] = [at |-> next, remaining |-> walk[n].remaining - (IF isBusinessDay(next) THEN 1 ELSE 0)]
      BY <2>2, <2>3, <2>5, <3>2 DEF WalkAfter
    <3>4. Gone(n + 1) = Gone(n) + (IF isBusinessDay(next) THEN 1 ELSE 0)
      BY <2>2, PassedIs DEF next
    <3>5. /\ walk[n + 1].at = next
          /\ walk[n + 1].remaining = walk[n].remaining - (IF isBusinessDay(next) THEN 1 ELSE 0)
      BY <3>3
    <3>6. walk[n].remaining = size - Gone(n) /\ Gone(n) \in Nat
      BY <1>3, <2>1, <2>2, <3>1
    <3>. HIDE DEF Gone
    <3>7. Stood(n + 1, n + 1)
      BY <2>2, <3>1, <3>4, <3>5, <3>6 DEF next
    <3>. HIDE DEF Stood
    <3>8. n + 1 \in 0 .. (n + 1)
      BY <2>2
    <3>. QED  BY <2>2, <3>7, <3>8
  <2>. QED  BY <2>4, <2>5
<1>6. N \in S
  <2>. HIDE DEF S
  <2>1. 0 .. N \subseteq S
    <3>. HIDE DEF N
    <3>. QED  BY <1>1, <1>4, <1>5, Upwards
  <2>. QED  BY <1>1, <2>1
<1>7. PICK k \in 0 .. N : Stood(N, k)
  BY <1>6
<1>8. Gone(N) >= size + 1
  BY EnoughDays
<1>9. walk[N].remaining = 0
  <2>1. Gone(N) \in Nat
    BY <1>1, <1>3
  <2>. HIDE DEF N, Gone
  <2>. QED  BY <1>7, <1>8, <2>1
<1>10. Gone(k) \in Nat
  BY <1>1, <1>3, <1>7
<1>. HIDE DEF Gone, N
<1>11. /\ k \in 1 .. N /\ walk[N].at = date + step * k /\ isBusinessDay(date + step * k)
       /\ Gone(k) = size
  BY <1>1, <1>7, <1>9, <1>10
<1>. QED  BY <1>2, <1>11 DEF Gone, N, count

(* What each kind of step does. *)
LEMMA StepsAre ==
  ASSUME NEW d, NEW n, NEW m
  PROVE  /\ applyStep(d, Step("ADD_DAYS", n)) = d + n
         /\ applyStep(d, Step("ADD_BUSINESS_DAYS", n)) = addBusinessDays(d, n)
         /\ applyStep(d, Step("ADD_MONTHS", n)) = addMonths(d, n)
         /\ applyStep(d, Step("ADD_YEARS", n)) = addMonths(d, n * 12)
         /\ applyStep(d, Step("END_OF_MONTH", n)) = endOfMonth(d)
         /\ applyStep(d, FixedMonthDay(m, n)) = utcDate(YearOf(d) + 1, m, n)
BY Zenon DEF applyStep, Step, FixedMonthDay

(* The reducer over one step, and over two. *)
LEMMA OneStep ==
  ASSUME NEW d, NEW s
  PROVE  applySteps(d, <<s>>) = applyStep(d, s)
<1>. DEFINE steps == <<s>>
            Is(f) == f = [n \in 0 .. 1 |-> IF n = 0 THEN d ELSE applyStep(f[n - 1], steps[n])]
            after == CHOOSE f : Is(f)
            g == [n \in 0 .. 1 |-> IF n = 0 THEN d ELSE applyStep(d, s)]
<1>1. Len(steps) = 1 /\ steps[1] = s
  OBVIOUS
<1>2. Is(g)
  OBVIOUS
<1>3. Is(after)
  <2>. HIDE DEF g, Is
  <2>. QED  BY <1>2
<1>4. applySteps(d, steps) = after[1]
  BY <1>1 DEF applySteps
<1>. HIDE DEF after, steps
<1>5. after[0] = d /\ after[1] = applyStep(d, s)
  BY <1>1, <1>3
<1>. QED  BY <1>4, <1>5 DEF steps

(* Two steps are applied in their order. *)
LEMMA TwoSteps ==
  ASSUME NEW d, NEW s, NEW t
  PROVE  applySteps(d, <<s, t>>) = applyStep(applyStep(d, s), t)
<1>. DEFINE steps == <<s, t>>
            Is(f) == f = [n \in 0 .. 2 |-> IF n = 0 THEN d ELSE applyStep(f[n - 1], steps[n])]
            after == CHOOSE f : Is(f)
            g == [n \in 0 .. 2 |-> IF n = 0 THEN d
                                   ELSE IF n = 1 THEN applyStep(d, s)
                                   ELSE applyStep(applyStep(d, s), t)]
<1>1. Len(steps) = 2 /\ steps[1] = s /\ steps[2] = t
  OBVIOUS
<1>2. Is(g)
  OBVIOUS
<1>3. Is(after)
  <2>. HIDE DEF g, Is
  <2>. QED  BY <1>2
<1>4. applySteps(d, steps) = after[2]
  BY <1>1 DEF applySteps
<1>. HIDE DEF after, steps
<1>5. after[0] = d /\ after[1] = applyStep(d, s) /\ after[2] = applyStep(after[1], t)
  BY <1>1, <1>3
<1>. QED  BY <1>4, <1>5 DEF steps

(* What a rule of one step comes to, by the kind of the step. *)
LEMMA OneStepIs ==
  ASSUME NEW d, NEW n, NEW m
  PROVE  /\ applySteps(d, <<Step("ADD_DAYS", n)>>) = d + n
         /\ applySteps(d, <<Step("ADD_BUSINESS_DAYS", n)>>) = addBusinessDays(d, n)
         /\ applySteps(d, <<Step("ADD_MONTHS", n)>>) = addMonths(d, n)
         /\ applySteps(d, <<FixedMonthDay(m, n)>>) = utcDate(YearOf(d) + 1, m, n)
<1>1. \A s : applySteps(d, <<s>>) = applyStep(d, s)
  BY OneStep
<1>. QED  BY <1>1, StepsAre

(* 31 December, 30 April and 15 June of any year are what they are called. *)
LEMMA NamedDays ==
  ASSUME NEW y \in Nat
  PROVE  /\ YearOf(utcDate(y, 12, 31)) = y
         /\ YearOf(utcDate(y, 4, 30)) = y /\ MonthOf(utcDate(y, 4, 30)) = 4 /\ DayOf(utcDate(y, 4, 30)) = 30
         /\ YearOf(utcDate(y, 6, 15)) = y /\ MonthOf(utcDate(y, 6, 15)) = 6 /\ DayOf(utcDate(y, 6, 15)) = 15
<1>1. daysInMonth(y, 12) = 31 /\ daysInMonth(y, 4) = 30 /\ daysInMonth(y, 6) = 30
  <2>. DEFINE this == 365 * y + Leaps(y)
  <2>1. this \in Int
    BY LeapsAre
  <2>2. /\ utcDate(y, 4, 1) = this + 31 /\ utcDate(y, 5, 1) = this + 61
        /\ utcDate(y, 6, 1) = this + 92 /\ utcDate(y, 7, 1) = this + 122
        /\ utcDate(y, 12, 1) = this + 275 /\ utcDate(y, 13, 1) = this + 306
    BY Months
  <2>. HIDE DEF this
  <2>. QED  BY <2>1, <2>2 DEF daysInMonth
<1>2. ASSUME NEW m \in 1 .. 12, NEW d \in 1 .. daysInMonth(y, m), d \in Nat \ {0}
      PROVE  YearOf(utcDate(y, m, d)) = y /\ MonthOf(utcDate(y, m, d)) = m /\ DayOf(utcDate(y, m, d)) = d
  <2>1. utcDate(y, m, d) \in Date
    BY <1>2, DatesOn
  <2>. QED  BY <2>1, DayFits
<1>3. 12 \in 1 .. 12 /\ 4 \in 1 .. 12 /\ 6 \in 1 .. 12
      /\ 31 \in 1 .. 31 /\ 30 \in 1 .. 30 /\ 15 \in 1 .. 30
      /\ 31 \in Nat \ {0} /\ 30 \in Nat \ {0} /\ 15 \in Nat \ {0}
  OBVIOUS
<1>4. YearOf(utcDate(y, 12, 31)) = y
  BY <1>1, <1>2, <1>3, Zenon
<1>5. YearOf(utcDate(y, 4, 30)) = y /\ MonthOf(utcDate(y, 4, 30)) = 4 /\ DayOf(utcDate(y, 4, 30)) = 30
  BY <1>1, <1>2, <1>3, Zenon
<1>6. YearOf(utcDate(y, 6, 15)) = y /\ MonthOf(utcDate(y, 6, 15)) = 6 /\ DayOf(utcDate(y, 6, 15)) = 15
  BY <1>1, <1>2, <1>3, Zenon
<1>. QED  BY <1>4, <1>5, <1>6

(* A day is rolled to the first business day from it on. *)
LEMMA RolledIs ==
  ASSUME NEW d \in Int, d >= -300
  PROVE  Rolled(d) \in Int /\ Rolled(d) =< d + 9 /\ FirstBusinessDay(d, Rolled(d))
<1>. DEFINE date == d - 1   result == Rolled(d)
<1>1. /\ date \in Int /\ date - (3 * 1 + 7) >= -366
      /\ 1 \in Nat \ {0} /\ 1 \in {-1, 1} /\ \A k \in 1 .. (3 * 1 + 7) : k \in Nat
  OBVIOUS
<1>. HIDE DEF date
<1>2. PICK k \in 1 .. (3 * 1 + 7) :
        /\ addBusinessDays(date, 1 * 1) = date + 1 * k
        /\ isBusinessDay(date + 1 * k)
        /\ Cardinality(Passed(date, 1, k)) = 1
  BY <1>1, BusinessDaysAre, Zenon
<1>3. result = date + k /\ isBusinessDay(date + k) /\ date + k \in Int
  BY <1>1, <1>2 DEF Rolled, date
<1>4. IsFiniteSet(Passed(date, 1, k))
  BY <1>1, PassedIs, Zenon
<1>5. PICK x : Passed(date, 1, k) = {x}
  BY <1>2, <1>4, FS_Singleton
<1>6. ASSUME NEW i \in 1 .. k, isBusinessDay(date + i) PROVE date + i = x
  <2>1. date + i \in Int /\ date + i = date + 1 * i
    BY <1>1
  <2>2. date + i \in Passed(date, 1, k)
    BY <1>6, <2>1 DEF Passed
  <2>. QED  BY <1>5, <2>2
<1>7. date + k = x
  BY <1>3, <1>6
<1>8. ASSUME NEW e \in d .. (result - 1) PROVE ~isBusinessDay(e)
  <2>. DEFINE i == e - date
  <2>1. i \in 1 .. k /\ e = date + i /\ e # date + k
    BY <1>1, <1>3 DEF date
  <2>. HIDE DEF i
  <2>. QED  BY <1>6, <1>7, <2>1
<1>9. result >= d /\ result =< d + 9
  BY <1>1, <1>3 DEF date
<1>. QED  BY <1>3, <1>8, <1>9 DEF FirstBusinessDay
(* The business days that are counted, between a day and the one walked to.  *)
LEMMA CountedOn ==
  ASSUME NEW date \in Nat
  PROVE  LET result == addBusinessDays(date, 3)
         IN  /\ isBusinessDay(result)
             /\ Cardinality({d \in (date + 1) .. result : isBusinessDay(d)}) = 3
<1>1. /\ date \in Int /\ date - (3 * 3 + 7) >= -366
      /\ 3 \in Nat \ {0} /\ 1 \in {-1, 1} /\ 1 * 3 = 3
  OBVIOUS
<1>2. PICK k \in 1 .. (3 * 3 + 7) :
        /\ addBusinessDays(date, 1 * 3) = date + 1 * k
        /\ isBusinessDay(date + 1 * k)
        /\ Cardinality(Passed(date, 1, k)) = 3
  BY <1>1, BusinessDaysAre, Zenon
<1>. DEFINE result == addBusinessDays(date, 3)
<1>3. result = date + k /\ isBusinessDay(date + k)
  BY <1>2
<1>4. Passed(date, 1, k) = {d \in (date + 1) .. result : isBusinessDay(d)}
  <2>1. ASSUME NEW d \in Int
        PROVE  (\E i \in 1 .. k : d = date + 1 * i) <=> d \in (date + 1) .. (date + k)
    <3>. DEFINE i == d - date
    <3>1. i \in Int /\ d = date + 1 * i /\ (i \in 1 .. k <=> d \in (date + 1) .. (date + k))
      OBVIOUS
    <3>2. ASSUME NEW j \in 1 .. k, d = date + 1 * j PROVE i = j
      BY <3>2
    <3>. HIDE DEF i
    <3>. QED  BY <3>1, <3>2
  <2>2. (date + 1) .. (date + k) \subseteq Int
    OBVIOUS
  <2>. HIDE DEF result
  <2>. QED  BY <1>3, <2>1, <2>2 DEF Passed
<1>. QED  BY <1>2, <1>3, <1>4

(* The same, five business days back. *)
LEMMA CountedBack ==
  ASSUME NEW date \in Nat
  PROVE  LET result == addBusinessDays(date, -5)
         IN  /\ isBusinessDay(result)
             /\ Cardinality({d \in result .. (date - 1) : isBusinessDay(d)}) = 5
<1>1. /\ date \in Int /\ date - (3 * 5 + 7) >= -366
      /\ 5 \in Nat \ {0} /\ -1 \in {-1, 1} /\ (-1) * 5 = -5
  OBVIOUS
<1>2. PICK k \in 1 .. (3 * 5 + 7) :
        /\ addBusinessDays(date, (-1) * 5) = date + (-1) * k
        /\ isBusinessDay(date + (-1) * k)
        /\ Cardinality(Passed(date, -1, k)) = 5
  BY <1>1, BusinessDaysAre, Zenon
<1>. DEFINE result == addBusinessDays(date, -5)
<1>3. result = date - k /\ isBusinessDay(date - k)
  <2>1. date + (-1) * k = date - k
    OBVIOUS
  <2>. QED  BY <1>1, <1>2, <2>1
<1>4. Passed(date, -1, k) = {d \in result .. (date - 1) : isBusinessDay(d)}
  <2>1. ASSUME NEW d \in Int
        PROVE  (\E i \in 1 .. k : d = date + (-1) * i) <=> d \in (date - k) .. (date - 1)
    <3>. DEFINE i == date - d
    <3>1. i \in Int /\ d = date + (-1) * i /\ (i \in 1 .. k <=> d \in (date - k) .. (date - 1))
      OBVIOUS
    <3>2. ASSUME NEW j \in 1 .. k, d = date + (-1) * j PROVE i = j
      BY <3>2
    <3>. HIDE DEF i
    <3>. QED  BY <3>1, <3>2
  <2>2. (date - k) .. (date - 1) \subseteq Int
    OBVIOUS
  <2>. HIDE DEF result
  <2>. QED  BY <1>3, <2>1, <2>2 DEF Passed
<1>. QED  BY <1>2, <1>3, <1>4

(* A rule on file, part by part. *)
Reads(rule, code, base, steps, branch, roll) ==
  /\ rule.code = code /\ rule.base = base /\ rule.steps = steps /\ rule.branch = branch
  /\ rule.requiredFacts = {branch.whenFact} \ {None} /\ rule.rollToBusinessDay = roll

(* What DateRule puts in each part. *)
LEMMA DateRuleReads ==
  ASSUME NEW code, NEW base, NEW step, NEW branch, NEW roll
  PROVE  Reads(DateRule(code, base, step, branch, roll), code, base, <<step>>, branch, roll)
BY Zenon DEF DateRule, Reads

(* The two branches of the seeded rules. *)
SelfEmployed == [whenFact |-> "isSelfEmployed", steps |-> <<FixedMonthDay(6, 15)>>]
Qualifies == [whenFact |-> "qualifies", steps |-> <<Step("ADD_MONTHS", 3)>>]

(* The rules on file, part by part. *)
LEMMA DateRulesAre ==
  ASSUME NEW rule \in DateRules
  PROVE  \/ Reads(rule, "t1.filing_deadline", "CALENDAR_YEAR_END", <<FixedMonthDay(4, 30)>>, SelfEmployed, FALSE)
         \/ Reads(rule, "t1.information_due_date", "FILING_DEADLINE", <<Step("ADD_DAYS", -45)>>, NoBranch, TRUE)
         \/ Reads(rule, "t1.t183_requested_by", "FILING_DEADLINE", <<Step("ADD_BUSINESS_DAYS", -5)>>, NoBranch, FALSE)
         \/ Reads(rule, "t2.balance_due_date", "YEAR_END", <<Step("ADD_MONTHS", 2)>>, Qualifies, FALSE)
         \/ Reads(rule, "t2.filing_deadline", "YEAR_END", <<Step("ADD_MONTHS", 6)>>, NoBranch, FALSE)
         \/ Reads(rule, "t2.information_due_date", "YEAR_END", <<Step("ADD_MONTHS", 3)>>, NoBranch, TRUE)
         \/ Reads(rule, "signing.first_reminder_date", "DATE_SENT", <<Step("ADD_BUSINESS_DAYS", 3)>>, NoBranch, FALSE)
         \/ Reads(rule, "firm.year_later", "YEAR_END", <<Step("ADD_YEARS", 1), Step("END_OF_MONTH", 0)>>, NoBranch, FALSE)
<1>. DEFINE later == DateRule("firm.year_later", "YEAR_END", Step("ADD_YEARS", 1), NoBranch, FALSE)
            steps == <<Step("ADD_YEARS", 1), Step("END_OF_MONTH", 0)>>
<1>1. Reads([later EXCEPT !.steps = steps], "firm.year_later", "YEAR_END", steps, NoBranch, FALSE)
  <2>. HIDE DEF steps
  <2>. QED  BY Zenon DEF DateRule, Reads
<1>. HIDE DEF later, steps
<1>2. \/ rule = DateRule("t1.filing_deadline", "CALENDAR_YEAR_END", FixedMonthDay(4, 30), SelfEmployed, FALSE)
      \/ rule = DateRule("t1.information_due_date", "FILING_DEADLINE", Step("ADD_DAYS", -45), NoBranch, TRUE)
      \/ rule = DateRule("t1.t183_requested_by", "FILING_DEADLINE", Step("ADD_BUSINESS_DAYS", -5), NoBranch, FALSE)
      \/ rule = DateRule("t2.balance_due_date", "YEAR_END", Step("ADD_MONTHS", 2), Qualifies, FALSE)
      \/ rule = DateRule("t2.filing_deadline", "YEAR_END", Step("ADD_MONTHS", 6), NoBranch, FALSE)
      \/ rule = DateRule("t2.information_due_date", "YEAR_END", Step("ADD_MONTHS", 3), NoBranch, TRUE)
      \/ rule = DateRule("signing.first_reminder_date", "DATE_SENT", Step("ADD_BUSINESS_DAYS", 3), NoBranch, FALSE)
      \/ rule = [later EXCEPT !.steps = steps]
  BY Zenon DEF DateRules, SelfEmployed, Qualifies, later, steps
<1>. QED  BY <1>1, <1>2, DateRuleReads, Zenon DEF steps

(* What an evaluation answers: nothing, or the day the steps lead to. *)
LEMMA EvaluationIs ==
  ASSUME NEW rule, NEW given, NEW fact, given \in Nat \union {None},
         rule.branch \in {NoBranch, SelfEmployed, Qualifies},
         rule.requiredFacts = {rule.branch.whenFact} \ {None}
  PROVE  LET result == evaluateDateRule(rule, given, fact)
             steps == IF rule.branch # NoBranch /\ fact = TRUE THEN rule.branch.steps ELSE rule.steps
             date == applySteps(resolveBase(rule, given), steps)
         IN  /\ result.isBlocked <=> given = None \/ (fact = None /\ rule.branch # NoBranch)
             /\ ~result.isBlocked =>
                  result.result = IF rule.rollToBusinessDay THEN Rolled(date) ELSE date
<1>. DEFINE base == resolveBase(rule, given)
            missing == IF fact = None THEN rule.requiredFacts ELSE {}
            steps == IF rule.branch # NoBranch /\ fact = TRUE THEN rule.branch.steps ELSE rule.steps
            date == applySteps(base, steps)
            result == evaluateDateRule(rule, given, fact)
            day == IF rule.rollToBusinessDay THEN Rolled(date) ELSE date
<1>1. base = None <=> given = None
  <2>1. CASE given = None
    BY <2>1 DEF resolveBase
  <2>2. CASE given \in Nat
    <3>1. YearOf(given) \in Int
      BY <2>2, YearsOn
    <3>2. utcDate(YearOf(given), 12, 31) \in Int
      BY <3>1, UtcIs, SMTT(30)
    <3>3. None \notin Int
      BY RulesAssumption
    <3>. QED  BY <2>2, <3>2, <3>3 DEF resolveBase
  <2>. QED  BY <2>1, <2>2
<1>2. missing # {} <=> fact = None /\ rule.branch # NoBranch
  <2>1. /\ NoBranch.whenFact = None
        /\ SelfEmployed.whenFact = "isSelfEmployed" /\ Qualifies.whenFact = "qualifies"
    BY DEF NoBranch, SelfEmployed, Qualifies
  <2>2. None \notin {"isSelfEmployed", "qualifies"}
    BY RulesAssumption
  <2>. QED  BY <2>1, <2>2, Zenon
<1>3. result = IF base = None \/ missing # {}
               THEN [about |-> "date", isBlocked |-> TRUE, result |-> None]
               ELSE [about |-> "date", isBlocked |-> FALSE, result |-> day]
  BY Zenon DEF evaluateDateRule
<1>. HIDE DEF base, missing, result, day
<1>4. CASE base = None \/ missing # {}
  <2>1. result.isBlocked
    BY <1>3, <1>4
  <2>. QED  BY <1>1, <1>2, <1>4, <2>1 DEF result
<1>5. CASE ~(base = None \/ missing # {})
  <2>1. ~result.isBlocked /\ result.result = day
    BY <1>3, <1>5
  <2>. QED  BY <1>1, <1>2, <1>5, <2>1 DEF result, day, base
<1>. QED  BY <1>4, <1>5

(* Each rule's steps lead to the day its words mean. *)
LEMMA StepsLeadThere ==
  ASSUME NEW rule \in DateRules, NEW given \in Nat, NEW fact
  PROVE  LET steps == IF rule.branch # NoBranch /\ fact = TRUE THEN rule.branch.steps ELSE rule.steps
             date == applySteps(resolveBase(rule, given), steps)
         IN  Meant(rule.code, given, fact, IF rule.rollToBusinessDay THEN Rolled(date) ELSE date)
<1>. DEFINE base == resolveBase(rule, given)
            steps == IF rule.branch # NoBranch /\ fact = TRUE THEN rule.branch.steps ELSE rule.steps
            date == applySteps(base, steps)
            day == IF rule.rollToBusinessDay THEN Rolled(date) ELSE date
<1>. SUFFICES Meant(rule.code, given, fact, day)
  OBVIOUS
<1>0. /\ SelfEmployed # NoBranch /\ Qualifies # NoBranch
      /\ SelfEmployed.steps = <<FixedMonthDay(6, 15)>>
      /\ Qualifies.steps = <<Step("ADD_MONTHS", 3)>>
  <2>1. /\ NoBranch.whenFact = None
        /\ SelfEmployed.whenFact = "isSelfEmployed" /\ Qualifies.whenFact = "qualifies"
        /\ SelfEmployed.steps = <<FixedMonthDay(6, 15)>>
        /\ Qualifies.steps = <<Step("ADD_MONTHS", 3)>>
    BY DEF NoBranch, SelfEmployed, Qualifies
  <2>2. None \notin {"isSelfEmployed", "qualifies"}
    BY RulesAssumption
  <2>. QED  BY <2>1, <2>2, Zenon
<1>1. rule.base # "CALENDAR_YEAR_END" => base = given
  BY DEF resolveBase
<1>2. rule.base = "CALENDAR_YEAR_END" => base = utcDate(YearOf(given), 12, 31)
  <2>1. given # None
    BY RulesAssumption
  <2>. QED  BY <2>1 DEF resolveBase
<1>12. /\ rule.rollToBusinessDay = FALSE => day = date
       /\ rule.rollToBusinessDay = TRUE => day = Rolled(date)
  OBVIOUS
<1>13. date = applySteps(base, steps)
  OBVIOUS
<1>. HIDE DEF base, steps, date, day
<1>3. given \in Int /\ given \in Date /\ YearOf(given) \in Nat
  BY YearsOn
<1>4. CASE Reads(rule, "t1.filing_deadline", "CALENDAR_YEAR_END", <<FixedMonthDay(4, 30)>>, SelfEmployed, FALSE)
  <2>1. /\ rule.code = "t1.filing_deadline" /\ rule.branch = SelfEmployed /\ rule.rollToBusinessDay = FALSE
        /\ rule.steps = <<FixedMonthDay(4, 30)>> /\ rule.base = "CALENDAR_YEAR_END"
    BY <1>4, Zenon DEF Reads
  <2>2. base = utcDate(YearOf(given), 12, 31) /\ YearOf(base) = YearOf(given)
    <3>1. base = utcDate(YearOf(given), 12, 31)
      BY <1>2, <2>1
    <3>. QED  BY <1>3, <3>1, NamedDays, Zenon
  <2>3. day = utcDate(YearOf(given) + 1, IF fact = TRUE THEN 6 ELSE 4, IF fact = TRUE THEN 15 ELSE 30)
    <3>1. CASE fact = TRUE
      <4>1. steps = <<FixedMonthDay(6, 15)>>
        BY <1>0, <2>1, <3>1, Zenon DEF steps
      <4>2. day = utcDate(YearOf(base) + 1, 6, 15)
        BY <1>12, <1>13, <2>1, <4>1, OneStepIs
      <4>. QED  BY <2>2, <3>1, <4>2
    <3>2. CASE fact # TRUE
      <4>1. steps = <<FixedMonthDay(4, 30)>>
        BY <1>0, <2>1, <3>2, Zenon DEF steps
      <4>2. day = utcDate(YearOf(base) + 1, 4, 30)
        BY <1>12, <1>13, <2>1, <4>1, OneStepIs
      <4>. QED  BY <2>2, <3>2, <4>2
    <3>. QED  BY <3>1, <3>2
  <2>4. YearOf(given) + 1 \in Nat
    BY <1>3
  <2>5. /\ YearOf(day) = YearOf(given) + 1
        /\ fact = TRUE => MonthOf(day) = 6 /\ DayOf(day) = 15
        /\ fact # TRUE => MonthOf(day) = 4 /\ DayOf(day) = 30
    BY <2>3, <2>4, NamedDays, Zenon
  <2>. QED  BY <2>1, <2>5, Zenon DEF Meant
<1>5. CASE Reads(rule, "t1.information_due_date", "FILING_DEADLINE", <<Step("ADD_DAYS", -45)>>, NoBranch, TRUE)
  <2>1. /\ rule.code = "t1.information_due_date" /\ rule.branch = NoBranch /\ rule.rollToBusinessDay = TRUE
        /\ rule.steps = <<Step("ADD_DAYS", -45)>> /\ rule.base = "FILING_DEADLINE"
    BY <1>5, Zenon DEF Reads
  <2>2. base = given /\ steps = <<Step("ADD_DAYS", -45)>>
    BY <1>1, <2>1 DEF steps
  <2>3. date = given + (-45)
    BY <1>13, <2>2, OneStepIs
  <2>4. day = Rolled(date) /\ date = given - 45 /\ date \in Int /\ date >= -300
    BY <2>1, <2>3 DEF day
  <2>5. FirstBusinessDay(given - 45, day)
    BY <2>4, RolledIs
  <2>. QED  BY <2>1, <2>5, Zenon DEF Meant
<1>6. CASE Reads(rule, "t1.t183_requested_by", "FILING_DEADLINE", <<Step("ADD_BUSINESS_DAYS", -5)>>, NoBranch, FALSE)
  <2>1. /\ rule.code = "t1.t183_requested_by" /\ rule.branch = NoBranch /\ rule.rollToBusinessDay = FALSE
        /\ rule.steps = <<Step("ADD_BUSINESS_DAYS", -5)>> /\ rule.base = "FILING_DEADLINE"
    BY <1>6, Zenon DEF Reads
  <2>2. base = given /\ steps = <<Step("ADD_BUSINESS_DAYS", -5)>>
    BY <1>1, <2>1 DEF steps
  <2>3. day = addBusinessDays(given, -5)
    BY <1>12, <1>13, <2>1, <2>2, OneStepIs
  <2>4. /\ isBusinessDay(day)
        /\ Cardinality({d \in day .. (given - 1) : isBusinessDay(d)}) = 5
    BY <2>3, CountedBack, Zenon
  <2>. QED  BY <2>1, <2>4, Zenon DEF Meant
<1>7. CASE Reads(rule, "t2.balance_due_date", "YEAR_END", <<Step("ADD_MONTHS", 2)>>, Qualifies, FALSE)
  <2>1. /\ rule.code = "t2.balance_due_date" /\ rule.branch = Qualifies /\ rule.rollToBusinessDay = FALSE
        /\ rule.steps = <<Step("ADD_MONTHS", 2)>> /\ rule.base = "YEAR_END"
    BY <1>7, Zenon DEF Reads
  <2>2. base = given
    BY <1>1, <2>1
  <2>3. day = addMonths(given, IF fact = TRUE THEN 3 ELSE 2)
    <3>1. CASE fact = TRUE
      <4>1. steps = <<Step("ADD_MONTHS", 3)>>
        BY <1>0, <2>1, <3>1, Zenon DEF steps
      <4>. QED  BY <1>12, <1>13, <2>1, <2>2, <3>1, <4>1, OneStepIs
    <3>2. CASE fact # TRUE
      <4>1. steps = <<Step("ADD_MONTHS", 2)>>
        BY <1>0, <2>1, <3>2, Zenon DEF steps
      <4>. QED  BY <1>12, <1>13, <2>1, <2>2, <3>2, <4>1, OneStepIs
    <3>. QED  BY <3>1, <3>2
  <2>4. 2 \in Nat /\ 3 \in Nat
    OBVIOUS
  <2>5. MonthsOn(given, IF fact = TRUE THEN 3 ELSE 2, day)
    BY <2>3, <2>4, AddMonthsIs, Zenon
  <2>. QED  BY <2>1, <2>5, Zenon DEF Meant
<1>8. CASE Reads(rule, "t2.filing_deadline", "YEAR_END", <<Step("ADD_MONTHS", 6)>>, NoBranch, FALSE)
  <2>1. /\ rule.code = "t2.filing_deadline" /\ rule.branch = NoBranch /\ rule.rollToBusinessDay = FALSE
        /\ rule.steps = <<Step("ADD_MONTHS", 6)>> /\ rule.base = "YEAR_END"
    BY <1>8, Zenon DEF Reads
  <2>2. base = given /\ steps = <<Step("ADD_MONTHS", 6)>>
    BY <1>1, <2>1 DEF steps
  <2>3. day = addMonths(given, 6)
    BY <1>12, <1>13, <2>1, <2>2, OneStepIs
  <2>4. 6 \in Nat
    OBVIOUS
  <2>5. MonthsOn(given, 6, day)
    BY <2>3, <2>4, AddMonthsIs, Zenon
  <2>. QED  BY <2>1, <2>5, Zenon DEF Meant
<1>9. CASE Reads(rule, "t2.information_due_date", "YEAR_END", <<Step("ADD_MONTHS", 3)>>, NoBranch, TRUE)
  <2>1. /\ rule.code = "t2.information_due_date" /\ rule.branch = NoBranch /\ rule.rollToBusinessDay = TRUE
        /\ rule.steps = <<Step("ADD_MONTHS", 3)>> /\ rule.base = "YEAR_END"
    BY <1>9, Zenon DEF Reads
  <2>2. base = given /\ steps = <<Step("ADD_MONTHS", 3)>>
    BY <1>1, <2>1 DEF steps
  <2>3. date = addMonths(given, 3) /\ day = Rolled(date)
    BY <1>12, <1>13, <2>1, <2>2, OneStepIs
  <2>4. 3 \in Nat
    OBVIOUS
  <2>5. MonthsOn(given, 3, date) /\ date \in Date /\ date >= -60
    BY <2>3, <2>4, AddMonthsIs, Zenon
  <2>6. date \in Int /\ date >= -300
    BY <2>5 DEF Date
  <2>7. day \in Int /\ day =< date + 9 /\ FirstBusinessDay(date, day)
    BY <2>3, <2>6, RolledIs
  <2>8. date \in (day - 10) .. day
    BY <2>6, <2>7 DEF FirstBusinessDay
  <2>. QED  BY <2>1, <2>5, <2>7, <2>8, Zenon DEF Meant
<1>10. CASE Reads(rule, "signing.first_reminder_date", "DATE_SENT", <<Step("ADD_BUSINESS_DAYS", 3)>>, NoBranch, FALSE)
  <2>1. /\ rule.code = "signing.first_reminder_date" /\ rule.branch = NoBranch /\ rule.rollToBusinessDay = FALSE
        /\ rule.steps = <<Step("ADD_BUSINESS_DAYS", 3)>> /\ rule.base = "DATE_SENT"
    BY <1>10, Zenon DEF Reads
  <2>2. base = given /\ steps = <<Step("ADD_BUSINESS_DAYS", 3)>>
    BY <1>1, <2>1 DEF steps
  <2>3. day = addBusinessDays(given, 3)
    BY <1>12, <1>13, <2>1, <2>2, OneStepIs
  <2>4. /\ isBusinessDay(day)
        /\ Cardinality({d \in (given + 1) .. day : isBusinessDay(d)}) = 3
    BY <2>3, CountedOn, Zenon
  <2>. QED  BY <2>1, <2>4, Zenon DEF Meant
<1>11. CASE Reads(rule, "firm.year_later", "YEAR_END", <<Step("ADD_YEARS", 1), Step("END_OF_MONTH", 0)>>, NoBranch, FALSE)
  <2>1. /\ rule.code = "firm.year_later" /\ rule.branch = NoBranch /\ rule.rollToBusinessDay = FALSE
        /\ rule.steps = <<Step("ADD_YEARS", 1), Step("END_OF_MONTH", 0)>> /\ rule.base = "YEAR_END"
    BY <1>11, Zenon DEF Reads
  <2>2. base = given /\ steps = <<Step("ADD_YEARS", 1), Step("END_OF_MONTH", 0)>>
    BY <1>1, <2>1 DEF steps
  <2>. DEFINE later == addMonths(given, 12)
  <2>3. 12 \in Nat /\ 1 * 12 = 12
    OBVIOUS
  <2>4. day = endOfMonth(later)
    <3>1. date = applyStep(applyStep(given, Step("ADD_YEARS", 1)), Step("END_OF_MONTH", 0))
      BY <1>13, <2>2, TwoSteps
    <3>2. applyStep(given, Step("ADD_YEARS", 1)) = addMonths(given, 1 * 12)
      BY StepsAre, Zenon
    <3>3. applyStep(later, Step("END_OF_MONTH", 0)) = endOfMonth(later)
      BY StepsAre, Zenon
    <3>. HIDE DEF later
    <3>4. date = endOfMonth(later)
      BY <2>3, <3>1, <3>2, <3>3 DEF later
    <3>. QED  BY <1>12, <2>1, <3>4
  <2>5. MonthsOn(given, 12, later) /\ later \in Date
    BY <2>3, AddMonthsIs, Zenon
  <2>. HIDE DEF later
  <2>6. /\ YearOf(day) = YearOf(later) /\ MonthOf(day) = MonthOf(later)
        /\ MonthOf(day + 1) # MonthOf(day)
    BY <2>4, <2>5, EndOfMonthIs, Zenon
  <2>7. YearOf(later) \in Int /\ MonthOf(later) \in 1 .. 12 /\ MonthOf(given) \in 1 .. 12
    BY <1>3, <2>5, DateIs
  <2>8. YearOf(later) = YearOf(given) + 1 /\ MonthOf(later) = MonthOf(given)
    BY <1>3, <2>5, <2>7 DEF MonthsOn
  <2>. QED  BY <2>1, <2>6, <2>8, Zenon DEF Meant
<1>. QED  BY <1>4, <1>5, <1>6, <1>7, <1>8, <1>9, <1>10, <1>11, DateRulesAre, Zenon

(***************************************************************************)
(* Rules.  The reducer goes over the rows and keeps the rule that stands   *)
(* above all before it.                                                    *)
(***************************************************************************)
(* What the reducer holds after n rows, if it held best[n - 1] before.        *)
BestAfter(best, rules, n) ==
  IF n = 0 THEN None
  ELSE IF isApplicable(rules[n], context)
            /\ (best[n - 1] # None => Outranks(rules[n], best[n - 1]))
       THEN rules[n] ELSE best[n - 1]

(* resolveRule does hold such a list: one exists for every number of rows.    *)
LEMMA TheReducer ==
  ASSUME NEW rules, Len(rules) \in Nat
  PROVE  \E best : /\ best = [n \in 0 .. Len(rules) |-> BestAfter(best, rules, n)]
                   /\ resolveRule(rules, context) = best[Len(rules)]
<1>. DEFINE N == Len(rules)
            Upto(n, g) == g = [k \in 0 .. n |-> BestAfter(g, rules, k)]
            S == {n \in 0 .. N : \E g : Upto(n, g)}
<1>1. 0 \in S
  <2>. DEFINE g == [k \in 0 .. 0 |-> None]
  <2>1. Upto(0, g)
    BY DEF BestAfter
  <2>. QED  BY <2>1
<1>2. ASSUME NEW n \in 0 .. (N - 1), n \in S PROVE n + 1 \in S
  <2>1. PICK g : Upto(n, g)
    BY <1>2
  <2>. DEFINE h == [k \in 0 .. (n + 1) |-> IF k =< n THEN g[k] ELSE BestAfter(g, rules, k)]
  <2>2. ASSUME NEW k \in 0 .. (n + 1) PROVE h[k] = BestAfter(h, rules, k)
    <3>1. k # 0 => k - 1 \in 0 .. n /\ h[k - 1] = g[k - 1]
      OBVIOUS
    <3>2. BestAfter(h, rules, k) = BestAfter(g, rules, k)
      BY <3>1 DEF BestAfter
    <3>3. k =< n => g[k] = BestAfter(g, rules, k)
      BY <2>1
    <3>. QED  BY <3>2, <3>3
  <2>3. Upto(n + 1, h)
    BY <2>2
  <2>4. n + 1 \in 0 .. N
    OBVIOUS
  <2>. HIDE DEF Upto, h
  <2>. QED  BY <2>3, <2>4
<1>3. N \in S
  <2>. HIDE DEF S
  <2>1. 0 .. N \subseteq S
    BY <1>1, <1>2, Upwards
  <2>. QED  BY <2>1
<1>4. PICK g : Upto(N, g)
  BY <1>3
<1>. DEFINE best == CHOOSE f : Upto(N, f)
<1>5. Upto(N, best)
  BY <1>4
<1>6. resolveRule(rules, context) = best[N]
  BY DEF resolveRule, BestAfter
<1>. QED  BY <1>5, <1>6

(* Rounded half up, a quotient is above a whole number from half a unit on.   *)
LEMMA HalfUpAbove ==
  ASSUME NEW n \in Nat, NEW d \in Nat \ {0}, NEW T \in Nat
  PROVE  HalfUp(n, d) > T <=> n - T * d >= (d + 1) \div 2
<1>. DEFINE q == n \div d   r == n % d
<1>1. q \in Nat /\ r \in 0 .. (d - 1) /\ n = q * d + r
  OBVIOUS
<1>2. HalfUp(n, d) = q + (IF 2 * r >= d THEN 1 ELSE 0)
  BY DEF HalfUp
<1>3. n - T * d = (q - T) * d + r
  BY <1>1
<1>4. q > T => (q - T) * d >= d
  BY <1>1
<1>5. q < T => (q - T) * d =< -d
  BY <1>1
<1>. HIDE DEF q, r
<1>. QED  BY <1>1, <1>2, <1>3, <1>4, <1>5

(* The levels a rule may be of, from the broadest.                            *)
LevelNames == {"GLOBAL", "ENGAGEMENT_TYPE", "PARTNER_OR_GROUP", "CLIENT", "ONE_TIME_OVERRIDE"}

(* A level's specificity is its place among the five.                         *)
LEMMA LevelsAreRanked == \A level \in LevelNames : levelSpecificity(level) \in 1 .. 5
<1>1. Len(Levels) = 5
  BY DEF Levels
<1>2. \A level \in LevelNames : \E i \in 1 .. 5 : Levels[i] = level
  <2>1. /\ Levels[1] = "GLOBAL" /\ Levels[2] = "ENGAGEMENT_TYPE" /\ Levels[3] = "PARTNER_OR_GROUP"
        /\ Levels[4] = "CLIENT" /\ Levels[5] = "ONE_TIME_OVERRIDE"
    BY DEF Levels
  <2>2. 1 \in 1 .. 5 /\ 2 \in 1 .. 5 /\ 3 \in 1 .. 5 /\ 4 \in 1 .. 5 /\ 5 \in 1 .. 5
    OBVIOUS
  <2>. QED  BY <2>1, <2>2, Zenon DEF LevelNames
<1>. QED  BY <1>1, <1>2 DEF levelSpecificity

(* What compareCandidates reads of a rule.                                    *)
Comparable(r) == r.level \in LevelNames /\ r.effectiveFrom \in Int /\ r.id \in Int

(* Of two rules one outranks the other, and what outranks is outranked by the *)
(* same rules.                                                               *)
LEMMA OutranksOrders ==
  ASSUME NEW a, NEW b, NEW c, Comparable(a), Comparable(b), Comparable(c)
  PROVE  /\ Outranks(a, b) /\ Outranks(b, c) => Outranks(a, c)
         /\ a.id # b.id => Outranks(a, b) \/ Outranks(b, a)
BY LevelsAreRanked DEF Outranks, Comparable

(* A rule's place, as the property reads it: level, then date, then id.       *)
Rank(r) == <<levelSpecificity(r.level), r.effectiveFrom, r.id>>
Above(a, b) == \E i \in 1 .. 3 : a[i] > b[i] /\ \A j \in 1 .. (i - 1) : a[j] = b[j]

(* The comparison of the code is the order of the property.                   *)
LEMMA OutranksIsAbove ==
  ASSUME NEW a, NEW b, Comparable(a), Comparable(b), Outranks(a, b)
  PROVE  Above(Rank(a), Rank(b))
<1>1. levelSpecificity(a.level) \in Int /\ levelSpecificity(b.level) \in Int
  BY LevelsAreRanked DEF Comparable
<1>2. CASE levelSpecificity(a.level) # levelSpecificity(b.level)
  <2>1. Rank(a)[1] > Rank(b)[1] /\ 1 .. (1 - 1) = {}
    <3>1. Rank(a)[1] = levelSpecificity(a.level) /\ Rank(b)[1] = levelSpecificity(b.level)
      BY DEF Rank
    <3>2. levelSpecificity(a.level) > levelSpecificity(b.level)
      BY <1>1, <1>2 DEF Outranks
    <3>3. 1 .. (1 - 1) = {}
      OBVIOUS
    <3>. QED  BY <3>1, <3>2, <3>3
  <2>2. Rank(a)[1] > Rank(b)[1] /\ \A j \in 1 .. (1 - 1) : Rank(a)[j] = Rank(b)[j]
    BY <2>1
  <2>3. 1 \in 1 .. 3
    OBVIOUS
  <2>. QED  BY <2>2, <2>3, Zenon DEF Above
<1>3. CASE levelSpecificity(a.level) = levelSpecificity(b.level) /\ a.effectiveFrom # b.effectiveFrom
  <2>1. Rank(a)[2] > Rank(b)[2] /\ \A j \in 1 .. (2 - 1) : Rank(a)[j] = Rank(b)[j]
    BY <1>1, <1>3 DEF Outranks, Rank
  <2>. QED  BY <2>1 DEF Above
<1>4. CASE levelSpecificity(a.level) = levelSpecificity(b.level) /\ a.effectiveFrom = b.effectiveFrom
  <2>1. Rank(a)[3] > Rank(b)[3] /\ Rank(a)[1] = Rank(b)[1] /\ Rank(a)[2] = Rank(b)[2]
    <3>1. Rank(a)[3] = a.id /\ Rank(b)[3] = b.id
      BY DEF Rank
    <3>2. Rank(a)[1] = Rank(b)[1] /\ Rank(a)[2] = Rank(b)[2]
      BY <1>4 DEF Rank
    <3>3. a.id > b.id
      BY <1>1, <1>4 DEF Outranks, Comparable
    <3>. QED  BY <3>1, <3>2, <3>3
  <2>2. \A j \in 1 .. (3 - 1) : j = 1 \/ j = 2
    OBVIOUS
  <2>3. Rank(a)[3] > Rank(b)[3] /\ \A j \in 1 .. (3 - 1) : Rank(a)[j] = Rank(b)[j]
    BY <2>1, <2>2
  <2>. QED  BY <2>3 DEF Above
<1>. QED  BY <1>2, <1>3, <1>4

(* The rule is active, in force and within its scope.                         *)
Applies(r) == isApplicable(r, context)

(* Of the first n rows b is the one that applies and outranks the others.     *)
Stands(b, rules, n) ==
  IF b = None THEN \A j \in 1 .. n : ~Applies(rules[j])
  ELSE \E k \in 1 .. n : /\ b = rules[k] /\ Applies(b)
                         /\ \A j \in 1 .. n : Applies(rules[j]) /\ j # k => Outranks(b, rules[j])

(* What the reducer ends with stands, in whatever order the rows come.        *)
LEMMA TheBestStands ==
  ASSUME NEW rules, Len(rules) \in Nat,
         \A i \in 1 .. Len(rules) : rules[i] # None /\ Comparable(rules[i]),
         \A i, j \in 1 .. Len(rules) : i # j => rules[i].id # rules[j].id
  PROVE  Stands(resolveRule(rules, context), rules, Len(rules))
<1>. DEFINE N == Len(rules)
<1>1. PICK best : best = [n \in 0 .. N |-> BestAfter(best, rules, n)] /\ resolveRule(rules, context) = best[N]
  BY TheReducer
<1>. DEFINE S == {n \in 0 .. N : Stands(best[n], rules, n)}
<1>2. 0 \in S
  BY <1>1 DEF Stands, BestAfter
<1>3. ASSUME NEW n \in 0 .. (N - 1), n \in S PROVE n + 1 \in S
  <2>1. /\ n + 1 \in 0 .. N /\ n + 1 # 0 /\ n \in Nat /\ (n + 1) - 1 = n /\ n + 1 \in 1 .. N
        /\ 1 .. n \subseteq 1 .. N /\ 1 .. (n + 1) = 1 .. n \union {n + 1}
    OBVIOUS
  <2>. DEFINE new == rules[n + 1]   old == best[n]
  <2>2. best[n + 1] = IF Applies(new) /\ (old # None => Outranks(new, old)) THEN new ELSE old
    BY <1>1, <2>1 DEF BestAfter, Applies
  <2>3. Stands(old, rules, n)
    BY <1>3
  <2>4. Stands(best[n + 1], rules, n + 1)
    <3>1. CASE ~Applies(new)
      <4>1. best[n + 1] = old
        BY <2>2, <3>1
      <4>2. CASE old = None
        BY <2>1, <2>3, <3>1, <4>1, <4>2 DEF Stands
      <4>3. CASE old # None
        <5>1. PICK k \in 1 .. n : /\ old = rules[k] /\ Applies(old)
                                  /\ \A j \in 1 .. n : Applies(rules[j]) /\ j # k => Outranks(old, rules[j])
          BY <2>3, <4>3 DEF Stands
        <5>2. \A j \in 1 .. (n + 1) : Applies(rules[j]) /\ j # k => Outranks(old, rules[j])
          BY <2>1, <3>1, <5>1
        <5>3. k \in 1 .. (n + 1)
          BY <2>1
        <5>. QED  BY <4>1, <4>3, <5>1, <5>2, <5>3 DEF Stands
      <4>. QED  BY <4>2, <4>3
    <3>2. CASE Applies(new) /\ old = None
      <4>1. best[n + 1] = new /\ new # None /\ n + 1 \in 1 .. (n + 1)
        BY <2>1, <2>2, <3>2
      <4>2. \A j \in 1 .. n : ~Applies(rules[j])
        BY <2>3, <3>2 DEF Stands
      <4>3. \A j \in 1 .. (n + 1) : Applies(rules[j]) /\ j # n + 1 => Outranks(new, rules[j])
        BY <2>1, <4>2
      <4>. QED  BY <3>2, <4>1, <4>3 DEF Stands
    <3>3. CASE Applies(new) /\ old # None
      <4>1. PICK k \in 1 .. n : /\ old = rules[k] /\ Applies(old)
                                /\ \A j \in 1 .. n : Applies(rules[j]) /\ j # k => Outranks(old, rules[j])
        BY <2>3, <3>3 DEF Stands
      <4>2. Comparable(new) /\ Comparable(old) /\ new.id # old.id
        BY <2>1, <4>1
      <4>3. CASE Outranks(new, old)
        <5>1. best[n + 1] = new /\ new # None /\ n + 1 \in 1 .. (n + 1)
          BY <2>1, <2>2, <3>3, <4>3
        <5>2. ASSUME NEW j \in 1 .. n, Applies(rules[j]) PROVE Outranks(new, rules[j])
          <6>1. CASE j = k
            BY <4>1, <4>3, <6>1
          <6>2. CASE j # k
            <7>1. Comparable(rules[j]) /\ Outranks(old, rules[j])
              BY <2>1, <4>1, <5>2, <6>2
            <7>. QED  BY <4>2, <4>3, <7>1, OutranksOrders
          <6>. QED  BY <6>1, <6>2
        <5>3. \A j \in 1 .. (n + 1) : Applies(rules[j]) /\ j # n + 1 => Outranks(new, rules[j])
          BY <2>1, <5>2
        <5>. QED  BY <3>3, <5>1, <5>3 DEF Stands
      <4>4. CASE ~Outranks(new, old)
        <5>1. best[n + 1] = old /\ Outranks(old, new) /\ k \in 1 .. (n + 1)
          BY <2>1, <2>2, <3>3, <4>2, <4>4, OutranksOrders
        <5>2. \A j \in 1 .. (n + 1) : Applies(rules[j]) /\ j # k => Outranks(old, rules[j])
          BY <2>1, <4>1, <5>1
        <5>. QED  BY <3>3, <4>1, <5>1, <5>2 DEF Stands
      <4>. QED  BY <4>3, <4>4
    <3>. QED  BY <3>1, <3>2, <3>3
  <2>. QED  BY <2>1, <2>4
<1>. HIDE DEF S
<1>4. 0 .. N \subseteq S
  BY <1>2, <1>3, Upwards
<1>. USE DEF S
<1>5. N \in S
  BY <1>4
<1>. QED  BY <1>1, <1>5

(* A rule on file can be compared, and is no null.                            *)
LEMMA RulesOfTheFirm == ASSUME NEW r \in FeeRules PROVE Comparable(r) /\ Storable(r) /\ r # None
<1>1. Storable(r) /\ r # None
  BY RulesAssumption
<1>2. ToSet(Levels) \subseteq LevelNames
  <2>1. /\ DOMAIN Levels = 1 .. 5
        /\ Levels[1] = "GLOBAL" /\ Levels[2] = "ENGAGEMENT_TYPE" /\ Levels[3] = "PARTNER_OR_GROUP"
        /\ Levels[4] = "CLIENT" /\ Levels[5] = "ONE_TIME_OVERRIDE"
    BY DEF Levels
  <2>2. \A i \in 1 .. 5 : i \in {1, 2, 3, 4, 5}
    OBVIOUS
  <2>3. \A i \in DOMAIN Levels : Levels[i] \in LevelNames
    BY <2>1, <2>2, Zenon DEF LevelNames
  <2>. QED  BY <2>3 DEF ToSet
<1>. QED  BY <1>1, <1>2 DEF Storable, Comparable

(* A fee is asked about for distinct rules on file.                           *)
LEMMA FeeQuestionsAre ==
  ASSUME NEW q \in FeeQuestions
  PROVE  /\ q.about = "fee" /\ q.previousFee \in Nat \union {None}
         /\ Len(q.rules) \in Nat /\ DOMAIN q.rules = 1 .. Len(q.rules)
         /\ \A i \in 1 .. Len(q.rules) : q.rules[i] \in FeeRules
         /\ \A i, j \in 1 .. Len(q.rules) : i # j => q.rules[i].id # q.rules[j].id
<1>. DEFINE apart(r) == IsInjective([i \in DOMAIN r |-> r[i].id])
            rules == q.rules
<1>1. q.about = "fee" /\ q.previousFee \in PriorFees /\ rules \in SeqOf(FeeRules, MaxRules) /\ apart(rules)
  <2>. HIDE DEF apart
  <2>1. FeeQuestions = [about : {"fee"}, previousFee : PriorFees,
                        rules : {r \in SeqOf(FeeRules, MaxRules) : apart(r)}]
    BY DEF FeeQuestions, apart
  <2>. QED  BY <2>1
<1>2. PICK n \in 0 .. MaxRules : rules \in [1 .. n -> FeeRules]
  BY <1>1 DEF SeqOf
<1>3. n \in Nat /\ Len(rules) = n /\ DOMAIN rules = 1 .. n
  <2>1. n \in Nat
    BY RulesAssumption
  <2>2. rules \in Seq(FeeRules)
    BY <1>2, <2>1
  <2>. QED  BY <1>2, <2>1, <2>2
<1>4. q.previousFee \in Nat \union {None}
  BY <1>1, RulesAssumption
<1>5. \A i, j \in 1 .. n : rules[i].id = rules[j].id => i = j
  BY <1>1, <1>3 DEF IsInjective
<1>. QED  BY <1>1, <1>2, <1>3, <1>4, <1>5

(* The rule that stands is the answer's. *)
LEMMA TheRuleStands ==
  ASSUME asked \in FeeQuestions, answer # None,
         LET rule == resolveRule(asked.rules, context)
         IN  answer.ruleId = IF rule = None THEN None ELSE rule.id
  PROVE  RuleStands
<1>. DEFINE rules == asked.rules
            rule == resolveRule(rules, context)
            N == Len(rules)
            applicable == {r \in ToSet(rules) : isApplicable(r, context)}
<1>1. /\ N \in Nat /\ DOMAIN rules = 1 .. N /\ \A i \in 1 .. N : rules[i] \in FeeRules
      /\ \A i, j \in 1 .. N : i # j => rules[i].id # rules[j].id
  BY FeeQuestionsAre
<1>2. \A i \in 1 .. N : Comparable(rules[i]) /\ rules[i] # None
  BY <1>1, RulesOfTheFirm
<1>3. Stands(rule, rules, N)
  BY <1>1, <1>2, TheBestStands
<1>4. \A r \in applicable : Applies(r) /\ \E i \in 1 .. N : r = rules[i]
  BY <1>1 DEF ToSet, Applies
<1>5. CASE rule = None
  <2>1. applicable = {}
    BY <1>3, <1>4, <1>5 DEF Stands
  <2>2. answer.ruleId = None
    BY <1>5
  <2>. QED  BY <2>1, <2>2 DEF RuleStands
<1>6. CASE rule # None
  <2>1. PICK k \in 1 .. N : /\ rule = rules[k] /\ Applies(rule)
                            /\ \A j \in 1 .. N : Applies(rules[j]) /\ j # k => Outranks(rule, rules[j])
    BY <1>3, <1>6 DEF Stands
  <2>2. rule \in applicable
    BY <1>1, <2>1 DEF ToSet, Applies
  <2>3. ASSUME NEW other \in applicable \ {rule} PROVE Above(Rank(rule), Rank(other))
    <3>1. PICK j \in 1 .. N : other = rules[j] /\ Applies(rules[j])
      BY <1>4
    <3>2. Outranks(rule, other) /\ Comparable(rule) /\ Comparable(other)
      BY <1>2, <2>1, <2>3, <3>1
    <3>. QED  BY <3>2, OutranksIsAbove
  <2>4. rule.id = answer.ruleId
    BY <1>6
  <2>. QED  BY <2>2, <2>3, <2>4, Zenon DEF RuleStands, Above, Rank
<1>. QED  BY <1>5, <1>6

(* A rule on file gives an amount of whole cents, or none.                    *)
LEMMA UnroundedIs ==
  ASSUME NEW rule, Storable(rule), NEW previous \in Nat \union {None}
  PROVE  Unrounded(rule, previous, None) \in Nat \union {None}
<1>1. None \notin Int
  BY RulesAssumption
<1>2. CASE rule.method = "EXACT_TARGET"
  BY <1>1, <1>2 DEF Unrounded, Priced, Storable
<1>3. CASE rule.method # "EXACT_TARGET" /\ previous = None
  BY <1>1, <1>3 DEF Unrounded, Priced, Storable
<1>4. CASE rule.method = "NO_INCREASE" /\ previous # None
  BY <1>1, <1>4 DEF Unrounded, Priced, Storable
<1>5. CASE rule.method = "FIXED_AMOUNT" /\ previous # None
  BY <1>1, <1>5 DEF Unrounded, Priced, Storable
<1>6. CASE rule.method = "PERCENTAGE" /\ previous # None
  <2>1. rule.percentage \in Nat /\ rule.percentage # None
    BY <1>1, <1>6 DEF Storable
  <2>. DEFINE amount == previous * rule.percentage
  <2>2. amount \in Nat
    BY <1>6, <2>1
  <2>3. HalfUp(amount, 1000000) \in Nat
    <3>. HIDE DEF amount
    <3>. QED  BY <2>2 DEF HalfUp
  <2>4. Unrounded(rule, previous, None) = previous + HalfUp(amount, 1000000)
    BY <1>6, <2>1 DEF Unrounded, Priced
  <2>. QED  BY <1>6, <2>3, <2>4
<1>. QED  BY <1>2, <1>3, <1>4, <1>5, <1>6 DEF Storable

(* A fee that was worked out is at most a rounding step above the amount,    *)
(* and is judged by its change to four decimals.                             *)
Judged(fee, previous) ==
  LET change == fee.roundedFee - previous
  IN  /\ change < 0 <=> fee.requiredApproval = "FEE_DECREASE"
      /\ change * 1000000 - Threshold * previous >= (previous + 1) \div 2
         <=> fee.requiredApproval = "FEE_HIGH_INCREASE"

(* What a fee that is not blocked amounts to.                              *)
Amounts(rule, previous, fee) ==
  /\ fee.unroundedFee \in Nat /\ fee.roundedFee \in Nat
  /\ fee.roundedFee - fee.unroundedFee \in 0 .. 499
  /\ ~rule.skipRounding => fee.roundedFee % 500 = 0
  /\ previous \notin {None, 0} => Judged(fee, previous)

(* What calculateFee answers when it is not blocked.                          *)
LEMMA AmountsAre ==
  ASSUME NEW rule, NEW previous \in Nat \union {None}, NEW override,
         Unrounded(rule, previous, override) \in Nat \union {None},
         ~calculateFee(rule, previous, override, Threshold).isBlocked
  PROVE  Amounts(rule, previous, calculateFee(rule, previous, override, Threshold))
<1>. DEFINE unrounded == Unrounded(rule, previous, override)
            rounded == IF rule.skipRounding THEN unrounded ELSE roundUpToNearest5(unrounded)
            fee == calculateFee(rule, previous, override, Threshold)
<1>1. unrounded # None /\ unrounded \in Nat
  BY DEF calculateFee, Blocked
<1>2. fee = [isBlocked |-> FALSE, unroundedFee |-> unrounded, roundedFee |-> rounded,
             requiredApproval |-> Approval(previous, rounded, unrounded, Threshold)]
  BY <1>1 DEF calculateFee
<1>3. fee.unroundedFee = unrounded /\ fee.roundedFee = rounded
      /\ fee.requiredApproval = Approval(previous, rounded, unrounded, Threshold)
  BY <1>2
<1>4. /\ rounded \in Nat /\ rounded - unrounded \in 0 .. 499
      /\ ~rule.skipRounding => rounded % 500 = 0
  <2>. HIDE DEF unrounded
  <2>. QED  BY <1>1 DEF roundUpToNearest5
<1>5. ASSUME previous \notin {None, 0} PROVE Judged(fee, previous)
  <2>. HIDE DEF rounded, unrounded, fee
  <2>. DEFINE rise == percentageChange(previous, rounded)
              approval == Approval(previous, rounded, unrounded, Threshold)
  <2>1. previous \in Nat \ {0} /\ previous # None /\ None \notin Int /\ Threshold \in Nat
    BY <1>5, RulesAssumption
  <2>2. rise = HalfUp((rounded - previous) * 1000000, previous)
    BY <2>1 DEF percentageChange
  <2>3. CASE rounded < previous
    <3>1. approval = "FEE_DECREASE"
      BY <2>1, <2>3 DEF Approval
    <3>2. rounded - previous < 0 /\ (rounded - previous) * 1000000 < 0
      BY <1>4, <2>1, <2>3
    <3>3. Threshold * previous >= 0 /\ (previous + 1) \div 2 >= 0
      BY <2>1
    <3>. QED  BY <1>3, <1>4, <2>1, <3>1, <3>2, <3>3 DEF Judged
  <2>4. CASE rounded >= previous
    <3>. DEFINE n == (rounded - previous) * 1000000
    <3>1. n \in Nat /\ rounded - previous \in Nat
      BY <1>4, <2>1, <2>4
    <3>2. rise > Threshold <=> n - Threshold * previous >= (previous + 1) \div 2
      BY <2>1, <2>2, <3>1, HalfUpAbove
    <3>3. rise \in Int /\ rise # None
      <4>. HIDE DEF n
      <4>1. HalfUp(n, previous) \in Int
        BY <2>1, <3>1 DEF HalfUp
      <4>. QED  BY <2>1, <2>2, <4>1 DEF n
    <3>4. approval = "FEE_HIGH_INCREASE" <=> rounded > previous /\ rise > Threshold
      BY <1>4, <2>1, <2>4, <3>3 DEF Approval
    <3>5. approval # "FEE_DECREASE"
      BY <1>4, <2>1, <2>4 DEF Approval
    <3>6. rounded = previous => ~(rise > Threshold)
      <4>1. ASSUME rounded = previous PROVE n - Threshold * previous < (previous + 1) \div 2
        <5>1. n = 0
          BY <1>4, <2>1, <4>1
        <5>2. Threshold * previous \in Nat /\ (previous + 1) \div 2 >= 1
          BY <2>1
        <5>. QED  BY <5>1, <5>2
      <4>. QED  BY <2>1, <3>1, <3>2, <4>1
    <3>. HIDE DEF approval, rise
    <3>7. approval = "FEE_HIGH_INCREASE" <=> n - Threshold * previous >= (previous + 1) \div 2
      BY <1>4, <2>1, <2>4, <3>2, <3>4, <3>6
    <3>8. fee.roundedFee = rounded /\ fee.requiredApproval = approval
      BY <1>3 DEF approval
    <3>. QED  BY <3>1, <3>5, <3>7, <3>8 DEF Judged
  <2>. QED  BY <1>4, <2>1, <2>3, <2>4
<1>. HIDE DEF fee, rounded, unrounded
<1>6. Amounts(rule, previous, fee)
  BY <1>1, <1>3, <1>4, <1>5 DEF Amounts
<1>. QED  BY <1>6 DEF fee


(* The sources of a field, by their short names.                             *)
Prior == "PRIOR_YEAR_DOCUMENT"
Manual == "MANUAL_ENTRY"
Karbon == "KARBON_CLIENT"
Usual == "TEMPLATE_DEFAULT"

(* What is true of every field's rows: only what a person typed is confirmed, *)
(* and last year's letter shows the text of every typed value it has.         *)
RowsOk(rows) ==
  /\ \A s \in Sources : /\ rows[s] = [value |-> rows[s].value, typed |-> rows[s].typed,
                                      confirmed |-> rows[s].confirmed]
                        /\ rows[s].confirmed <=> s = Manual /\ rows[s].value # None
  /\ rows[Prior].value = None => rows[Prior].typed = None
  /\ rows[Manual].value = None => rows[Manual].typed = None

(* Every field asked about has such rows; a decided conflict has a value.     *)
LEMMA FieldQuestionsAre ==
  ASSUME NEW q \in FieldQuestions
  PROVE  /\ q.about = "field" /\ RowsOk(q.rows)
         /\ \A c \in ToSet(q.conflicts) :
              c.status = "UNRESOLVED" \/ (c.status = "RESOLVED" /\ c.resolvedValue # None)
<1>. DEFINE Kinds == {"STRING", "DATE", "MONEY"}
            Asked(kind) ==
              [about : {"field"}, rows : FieldRows(kind), conflicts : SeqOf(Conflicts, 2),
               fee : IF kind = "MONEY" THEN {None, "fee"} ELSE {None}]
<1>1. None \notin {"last", "this", "AsPrinted"}
  BY RulesAssumption
<1>2. PICK kind \in Kinds : q \in Asked(kind)
  BY Zenon DEF FieldQuestions
<1>3. q.about = "field" /\ q.rows \in FieldRows(kind) /\ q.conflicts \in SeqOf(Conflicts, 2)
  BY <1>2
<1>. DEFINE k == q.rows.KARBON_CLIENT   p == q.rows.PRIOR_YEAR_DOCUMENT
            d == q.rows.TEMPLATE_DEFAULT   m == q.rows.MANUAL_ENTRY
<1>4. k \in KarbonRows(kind) /\ p \in PriorRows(kind) /\ d \in DefaultRows(kind) /\ m \in ManualRows(kind)
  BY <1>3 DEF FieldRows
<1>. DEFINE Shape(r) == r = [value |-> r.value, typed |-> r.typed, confirmed |-> r.confirmed]
<1>5. Shape(k) /\ k.confirmed = FALSE
  <2>1. CASE kind = "STRING"
    BY <1>4, <2>1 DEF KarbonRows, NoRow, Row
  <2>2. CASE kind = "DATE"
    BY <1>4, <2>2 DEF KarbonRows, NoRow, Row
  <2>3. CASE kind = "MONEY"
    BY <1>4, <2>3 DEF KarbonRows, NoRow, Row
  <2>. QED  BY <1>2, <2>1, <2>2, <2>3
<1>6. Shape(p) /\ p.confirmed = FALSE /\ (p.value = None => p.typed = None)
  BY <1>1, <1>4 DEF PriorRows, NoRow, Row
<1>7. Shape(d) /\ d.confirmed = FALSE
  BY <1>4 DEF DefaultRows, NoRow, Row
<1>8. Shape(m) /\ (m.confirmed <=> m.value # None) /\ (m.value = None => m.typed = None)
  BY <1>1, <1>4 DEF ManualRows, NoRow, Row
<1>9. RowsOk(q.rows)
  BY <1>5, <1>6, <1>7, <1>8 DEF RowsOk, Sources, Prior, Manual
<1>10. \A c \in Conflicts : c.status = "UNRESOLVED" \/ (c.status = "RESOLVED" /\ c.resolvedValue # None)
  BY <1>1 DEF Conflicts, Conflict
<1>11. ToSet(q.conflicts) \subseteq Conflicts
  BY <1>3 DEF SeqOf, ToSet
<1>. QED  BY <1>3, <1>9, <1>10, <1>11

(* SOURCE_PRIORITY of the four.                                               *)
LEMMA Ranks ==
  sourceRank(Karbon) = 1 /\ sourceRank(Prior) = 3 /\ sourceRank(Usual) = 4 /\ sourceRank(Manual) = 5
BY DEF sourceRank, Karbon, Prior, Usual, Manual

(* The sources, by those names. *)
LEMMA SourcesAre == Sources = {Karbon, Prior, Usual, Manual}
BY DEF Sources, Karbon, Prior, Usual, Manual

(* The first of the sorted candidates.                                        *)
Strongest(ss) == CHOOSE s \in ss : \A other \in ss : sourceRank(s) <= sourceRank(other)

(* No candidate comes before the first.                                       *)
LEMMA StrongestIs ==
  ASSUME NEW ss \in SUBSET Sources, ss # {}
  PROVE  /\ Strongest(ss) \in ss
         /\ \A other \in ss : sourceRank(Strongest(ss)) <= sourceRank(other)
<1>1. \E s \in ss : \A other \in ss : sourceRank(s) <= sourceRank(other)
  <2>1. CASE Karbon \in ss
    BY <2>1, Ranks, SourcesAre
  <2>2. CASE Karbon \notin ss /\ Prior \in ss
    BY <2>2, Ranks, SourcesAre
  <2>3. CASE Karbon \notin ss /\ Prior \notin ss /\ Usual \in ss
    BY <2>3, Ranks, SourcesAre
  <2>4. CASE Karbon \notin ss /\ Prior \notin ss /\ Usual \notin ss
    BY <2>4, Ranks, SourcesAre
  <2>. QED  BY <2>1, <2>2, <2>3, <2>4
<1>. QED  BY <1>1 DEF Strongest

(* Where no conflict was decided, and Karbon, the template and people gave    *)
(* nothing, the value is last year's, and the check sees it.                  *)
LEMMA OnlyLastYear ==
  ASSUME NEW candidates, \A s \in Sources : candidates[s].confirmed => s = Manual,
         NEW c, c.status # "RESOLVED",
         resolveFieldValue(candidates, c).value # None,
         \A s \in Sources \ {Prior} : resolveFieldValue(candidates, c).value # candidates[s].value
  PROVE  /\ candidates[Prior].value # None
         /\ candidates[Karbon].value = None
         /\ candidates[Manual].confirmed => candidates[Manual].value = None
<1>. DEFINE usable == {s \in Sources : candidates[s].value # None}
            confirmed == {s \in usable : candidates[s].confirmed}
            chosen == resolveFieldValue(candidates, c)
<1>1. confirmed = {}
  <2>. SUFFICES ASSUME confirmed # {} PROVE FALSE
    OBVIOUS
  <2>1. chosen.value = candidates[Strongest(confirmed)].value
    BY SMTT(30) DEF resolveFieldValue, Resolved, Strongest
  <2>2. Strongest(confirmed) \in confirmed
    BY StrongestIs, SMTT(30)
  <2>3. Strongest(confirmed) = Manual /\ Manual \in Sources \ {Prior}
    BY <2>2, SourcesAre, SMTT(30) DEF Manual, Prior
  <2>. QED  BY <2>1, <2>3
<1>2. usable # {} /\ chosen.value = candidates[Strongest(usable)].value
  BY <1>1 DEF resolveFieldValue, Resolved, Strongest
<1>3. Strongest(usable) \in usable /\ \A s \in usable : sourceRank(Strongest(usable)) <= sourceRank(s)
  BY <1>2, StrongestIs
<1>4. Strongest(usable) = Prior
  BY <1>2, <1>3
<1>5. Karbon \notin usable
  BY <1>3, <1>4, Ranks
<1>. QED  BY <1>1, <1>3, <1>4, <1>5, SourcesAre

(* In that case the check, which reads the rows as text, finds the same row.  *)
LEMMA LastYearShows ==
  ASSUME NEW rows, \A s \in Sources : rows[s].confirmed => s = Manual,
         NEW c, c.status # "RESOLVED",
         rows[Prior].value # None, rows[Karbon].value = None,
         rows[Manual].confirmed => rows[Manual].value = None
  PROVE  resolveFieldValue(rows, c) = Resolved(rows[Prior].value, Prior, "HIGHEST_PRIORITY_SOURCE")
<1>. DEFINE usable == {s \in Sources : rows[s].value # None}
            confirmed == {s \in usable : rows[s].confirmed}
<1>1. confirmed = {} /\ Prior \in usable /\ Karbon \notin usable
  BY SourcesAre
<1>2. Strongest(usable) \in usable /\ sourceRank(Strongest(usable)) <= sourceRank(Prior)
  BY <1>1, StrongestIs
<1>3. Strongest(usable) = Prior
  BY <1>1, <1>2, Ranks, SourcesAre
<1>4. resolveFieldValue(rows, c) =
        Resolved(rows[Strongest(usable)].value, Strongest(usable), "HIGHEST_PRIORITY_SOURCE")
  BY <1>1 DEF resolveFieldValue, Strongest
<1>. QED  BY <1>3, <1>4

(* What the check lets through, somebody vouched for.                         *)
LEMMA UnreadIsSeen ==
  ASSUME asked \in FieldQuestions, NEW printed \in LetterValues(asked),
         ~Outstanding(asked), ~Undecided(asked)
  PROVE  VouchedFor(printed.value)
<1>. DEFINE rows == asked.rows
            typed == [s \in Sources |-> Typed(rows[s])]
<1>1. RowsOk(rows)
  BY FieldQuestionsAre
<1>2. CASE asked.fee # None
  BY <1>2 DEF LetterValues, resolveEffectiveValues, Resolved, VouchedFor
<1>3. CASE asked.fee = None /\ asked.conflicts # <<>>
  <2>1. PICK c \in ToSet(asked.conflicts) : printed = resolveFieldValue(typed, c)
    BY <1>3, SMTT(30) DEF LetterValues, resolveEffectiveValues
  <2>2. c.status = "RESOLVED" /\ c.resolvedValue # None
    BY FieldQuestionsAre, <2>1, SMTT(30) DEF Undecided
  <2>3. printed.value = c.resolvedValue
    BY <2>1, <2>2 DEF resolveFieldValue, Resolved
  <2>. QED  BY <2>2, <2>3 DEF VouchedFor
<1>4. CASE asked.fee = None /\ asked.conflicts = <<>>
  <2>1. printed = resolveFieldValue(typed, NoConflict)
    BY <1>4 DEF LetterValues, resolveEffectiveValues
  <2>2. NoConflict.status # "RESOLVED"
    BY RulesAssumption DEF NoConflict, Conflict
  <2>3. ConflictByToken(asked.conflicts) = NoConflict
    BY <1>4 DEF ConflictByToken
  <2>. SUFFICES ASSUME ~VouchedFor(printed.value) PROVE FALSE
    OBVIOUS
  <2>4. /\ printed.value # None
        /\ \A s \in Sources \ {Prior} : printed.value # typed[s].value
    BY DEF VouchedFor, Prior
  <2>5. ASSUME NEW s \in Sources
        PROVE  /\ typed[s].confirmed = rows[s].confirmed
               /\ typed[s].value = IF rows[s].typed # None THEN rows[s].typed ELSE rows[s].value
    <3>. DEFINE r == [value |-> rows[s].value, typed |-> rows[s].typed, confirmed |-> rows[s].confirmed]
    <3>1. rows[s] = r /\ typed[s] = Typed(r)
      BY <1>1 DEF RowsOk
    <3>2. /\ Typed(r).confirmed = rows[s].confirmed
          /\ Typed(r).value = IF rows[s].typed # None THEN rows[s].typed ELSE rows[s].value
      BY SMTT(30) DEF Typed
    <3>. QED  BY <3>1, <3>2
  <2>6. \A s \in Sources : rows[s].confirmed => s = Manual
    BY <1>1 DEF RowsOk
  <2>7. /\ typed[Prior].value # None /\ typed[Karbon].value = None
        /\ typed[Manual].confirmed => typed[Manual].value = None
    <3>. HIDE DEF typed
    <3>. QED  BY <2>1, <2>2, <2>4, <2>5, <2>6, OnlyLastYear
  <2>8. /\ rows[Prior].value # None /\ rows[Karbon].value = None
        /\ rows[Manual].confirmed => rows[Manual].value = None
    BY <1>1, <2>5, <2>7, SourcesAre DEF RowsOk
  <2>9. resolveFieldValue(rows, NoConflict) =
          Resolved(rows[Prior].value, Prior, "HIGHEST_PRIORITY_SOURCE")
    BY <2>2, <2>6, <2>8, LastYearShows
  <2>10. ~rows[Prior].confirmed
    BY <2>6, SourcesAre DEF Prior, Manual
  <2>11. Outstanding(asked)
    BY <2>3, <2>8, <2>9, <2>10 DEF Outstanding, corroborated, Resolved, Prior
  <2>. QED  BY <2>11
<1>. QED  BY <1>2, <1>3, <1>4

(***************************************************************************)
(* Documents and what they say.  A score, rounded to four places, crosses  *)
(* no threshold its unrounded fraction does not; a document is read as the *)
(* kind of the weightiest rule that fits; and of two things said one is    *)
(* before the other in every order of the findings, since a group of one   *)
(* spelling stands as it stood.                                            *)
(***************************************************************************)
(* A set of numbers has a lowest, and one with a bound has a highest.        *)
LEMMA Lowest ==
  ASSUME NEW S, S \subseteq Nat, S # {}
  PROVE  \E x \in S : \A y \in S : x =< y
<1>1. PICK x \in S : \A y \in S : ~ (<<y, x>> \in OpToRel(<, Nat))
  BY NatLessThanWellFounded, WFMin, Zenon
<1>2. ASSUME NEW y \in S PROVE x =< y
  <2>1. x \in Nat /\ y \in Nat
    OBVIOUS
  <2>2. y < x => <<y, x>> \in OpToRel(<, Nat)
    BY <2>1 DEF OpToRel
  <2>3. ~ (y < x)
    BY <1>1, <2>2, Zenon
  <2>4. ~ (y < x) => x =< y
    BY <2>1
  <2>. QED  BY <2>3, <2>4, Zenon
<1>. QED  BY <1>2, Zenon

(* A set of numbers with a bound has a highest.                               *)
LEMMA Highest ==
  ASSUME NEW N \in Nat, NEW S, S \subseteq 0 .. N, S # {}
  PROVE  \E x \in S : \A y \in S : x >= y
<1>. DEFINE T == {n \in Nat : \E x \in S : n = N - x}
<1>1. \A x \in S : x \in Nat /\ N - x \in T
  OBVIOUS
<1>2. T \subseteq Nat /\ T # {} /\ \A n \in T : \E x \in S : n = N - x
  BY <1>1
<1>. HIDE DEF T
<1>3. PICK z \in T : \A y \in T : z =< y
  BY <1>2, Lowest, Zenon
<1>4. PICK x \in S : z = N - x
  BY <1>2
<1>5. ASSUME NEW y \in S PROVE x >= y
  <2>1. z =< N - y
    BY <1>1, <1>3
  <2>2. x \in Nat /\ y \in Nat
    BY <1>1
  <2>. QED  BY <1>4, <2>1, <2>2
<1>. QED  BY <1>5

(* Min is the lowest of a set of numbers.                                     *)
LEMMA MinIs ==
  ASSUME NEW S, S \subseteq Nat, S # {}
  PROVE  Min(S) \in S /\ \A y \in S : Min(S) =< y
BY Lowest DEF Min

(* Max is the highest of a set of numbers with a bound.                       *)
LEMMA MaxIs ==
  ASSUME NEW N \in Nat, NEW S, S \subseteq 0 .. N, S # {}
  PROVE  Max(S) \in S /\ \A y \in S : Max(S) >= y
BY Highest DEF Max

(* All that can be known of a client. *)
AllKeys ==
  EveryRecord \union Numbers \union {"corporation_name", "trust_name", "year_end", "taxpayer_names"}

(* A record knows its client's own name, and every document's facts are asked *)
(* of it besides.                                                             *)
LEMMA RecordsAre ==
  ASSUME NEW r \in Records
  PROVE  /\ r.known \subseteq AllKeys /\ OwnName(r.type) \subseteq r.known
         /\ ApplicableKeys(r) = EveryRecord \union r.known
<1>1. \A rec \in Records : rec.known \subseteq AllKeys /\ OwnName(rec.type) \subseteq rec.known
  BY DEF Records, OwnName, AllKeys
<1>2. EveryRecord \union r.known \subseteq EveryRecord \union UNION {rec.known : rec \in Records}
  OBVIOUS
<1>. QED  BY <1>1, <1>2 DEF ApplicableKeys, Checkable

(* A document shows nothing that is not asked for.                            *)
LEMMA DocumentIs ==
  ASSUME NEW r \in Records, NEW d \in DocumentsOf(r)
  PROVE  d.matched \subseteq ApplicableKeys(r) /\ d.disqualified \in BOOLEAN
<1>. DEFINE keys == ApplicableKeys(r)   own == OwnName(r.type)
<1>1. own \subseteq keys
  BY RecordsAre
<1>2. /\ \A k \in SUBSET (keys \ own) : k \subseteq keys /\ k \union own \subseteq keys
      /\ \A missing \in {{}, {"tax_year"}} : keys \ missing \subseteq keys
  BY <1>1
<1>. HIDE DEF keys
<1>3. \/ \E k \in SUBSET (keys \ own) :
           d = [matched |-> IF "client_legal_name" \in k THEN k \union own ELSE k, disqualified |-> FALSE]
      \/ \E missing \in {{}, {"tax_year"}} : d = [matched |-> keys \ missing, disqualified |-> TRUE]
  BY DEF DocumentsOf, keys
<1>. HIDE DEF own
<1>4. ASSUME NEW k, NEW f \in BOOLEAN, d = [matched |-> k, disqualified |-> f]
      PROVE  d.matched = k /\ d.disqualified \in BOOLEAN
  BY <1>4
<1>5. \A k \in SUBSET (keys \ own) : (IF "client_legal_name" \in k THEN k \union own ELSE k) \subseteq keys
  BY <1>2
<1>. QED  BY <1>2, <1>3, <1>4, <1>5, Zenon DEF keys

(* Two sets together have no more than both of them.                         *)
AtMost(S, n) == IsFiniteSet(S) /\ Cardinality(S) \in Nat /\ Cardinality(S) =< n

(* Two sets with a bound each are together bounded by their sum.              *)
LEMMA Together ==
  ASSUME NEW S, NEW T, NEW m \in Nat, NEW n \in Nat, NEW k, m + n = k,
         AtMost(S, m), AtMost(T, n)
  PROVE  AtMost(S \union T, k)
<1>. DEFINE s == Cardinality(S)   t == Cardinality(T)   b == Cardinality(S \union T)
            i == Cardinality(S \intersect T)
<1>1. IsFiniteSet(S) /\ IsFiniteSet(T) /\ s =< m /\ t =< n
  BY DEF AtMost
<1>2. IsFiniteSet(S \union T) /\ b = s + t - i
  BY <1>1, FS_Union, Zenon
<1>3. IsFiniteSet(S \intersect T)
  BY <1>1, FS_Intersection
<1>4. s \in Nat /\ t \in Nat /\ i \in Nat /\ b \in Nat
  BY <1>1, <1>2, <1>3, FS_CardinalityType, Zenon
<1>. HIDE DEF s, t, b, i
<1>5. b =< k
  BY <1>1, <1>2, <1>4
<1>. QED  BY <1>2, <1>4, <1>5, Zenon DEF AtMost, b

(* Nine facts can be known of a client at most.                               *)
LEMMA AFewKeys == AtMost(AllKeys, 9)
<1>1. \A x : AtMost({x}, 1)
  <2>1. ASSUME NEW x PROVE IsFiniteSet({x}) /\ Cardinality({x}) = 1
    BY FS_Singleton, Zenon
  <2>2. \A n : n = 1 => n \in Nat /\ n =< 1
    OBVIOUS
  <2>. QED  BY <2>1, <2>2, Zenon DEF AtMost
<1>2. ASSUME NEW m \in Nat, NEW n \in Nat, NEW S, NEW T, AtMost(S, m), AtMost(T, n)
      PROVE  AtMost(S \union T, m + n)
  BY <1>2, Together, Zenon
<1>3. /\ \A S, T : AtMost(S, 1) /\ AtMost(T, 1) => AtMost(S \union T, 2)
      /\ \A S, T : AtMost(S, 2) /\ AtMost(T, 2) => AtMost(S \union T, 4)
      /\ \A S, T : AtMost(S, 4) /\ AtMost(T, 4) => AtMost(S \union T, 8)
      /\ \A S, T : AtMost(S, 8) /\ AtMost(T, 1) => AtMost(S \union T, 9)
  BY <1>2
<1>. DEFINE A == {"client_legal_name"} \union {"document_type"}
            B == {"business_number"} \union {"t3_account_number"}
            C == {"corporation_name"} \union {"trust_name"}
            D == {"year_end"} \union {"taxpayer_names"}
<1>4. AtMost(A, 2) /\ AtMost(B, 2) /\ AtMost(C, 2) /\ AtMost(D, 2)
  BY <1>1, <1>3
<1>5. AllKeys = ((A \union B) \union (C \union D)) \union {"tax_year"}
  BY DEF AllKeys, EveryRecord, Numbers
<1>. HIDE DEF A, B, C, D
<1>6. AtMost(((A \union B) \union (C \union D)) \union {"tax_year"}, 9)
  BY <1>1, <1>3, <1>4, Zenon
<1>. QED  BY <1>5, <1>6

(* What is shown weighs no more than what can be, and three less when one    *)
(* of the heavy facts is missing.                                            *)
LEMMA WeightsAre ==
  ASSUME NEW A \in SUBSET AllKeys, NEW K \in SUBSET A
  PROVE  /\ WeightOf(K) \in Nat /\ WeightOf(A) \in 0 .. 27 /\ WeightOf(K) =< WeightOf(A)
         /\ A # {} => WeightOf(A) >= 2
         /\ \A h \in A \intersect Heavy : h \notin K => WeightOf(K) + 3 =< WeightOf(A)
<1>1. /\ IsFiniteSet(A) /\ Cardinality(A) \in 0 .. 9 /\ IsFiniteSet(K)
      /\ Cardinality(K) \in Nat /\ Cardinality(K) =< Cardinality(A)
  <2>1. IsFiniteSet(A) /\ Cardinality(A) =< Cardinality(AllKeys)
    BY AFewKeys, FS_Subset DEF AtMost
  <2>2. IsFiniteSet(K) /\ Cardinality(K) =< Cardinality(A)
    BY <2>1, FS_Subset
  <2>3. IsFiniteSet(AllKeys) /\ Cardinality(AllKeys) \in Nat /\ Cardinality(AllKeys) =< 9
    BY AFewKeys DEF AtMost
  <2>4. Cardinality(A) \in Nat /\ Cardinality(K) \in Nat
    BY <2>1, <2>2, FS_CardinalityType
  <2>. QED  BY <2>1, <2>2, <2>3, <2>4
<1>. DEFINE a == A \intersect Heavy   k == K \intersect Heavy
<1>2. /\ IsFiniteSet(a) /\ Cardinality(a) \in 0 .. 9 /\ IsFiniteSet(k)
      /\ Cardinality(k) \in Nat /\ Cardinality(k) =< Cardinality(a)
  <2>1. a \in SUBSET A /\ k \in SUBSET a
    OBVIOUS
  <2>. HIDE DEF a, k
  <2>2. IsFiniteSet(a) /\ Cardinality(a) =< Cardinality(A)
    BY <1>1, <2>1, FS_Subset
  <2>3. IsFiniteSet(k) /\ Cardinality(k) =< Cardinality(a)
    BY <2>1, <2>2, FS_Subset
  <2>. QED  BY <1>1, <2>2, <2>3, FS_CardinalityType
<1>3. WeightOf(A) = 2 * Cardinality(A) + Cardinality(a) /\ WeightOf(K) = 2 * Cardinality(K) + Cardinality(k)
  BY DEF WeightOf
<1>4. ASSUME NEW h \in A \intersect Heavy, h \notin K
      PROVE  Cardinality(K) + 1 =< Cardinality(A) /\ Cardinality(k) + 1 =< Cardinality(a)
  <2>1. K \in SUBSET (A \ {h}) /\ k \in SUBSET (a \ {h}) /\ h \in A /\ h \in a
    BY <1>4
  <2>. HIDE DEF a, k
  <2>2. IsFiniteSet(A \ {h}) /\ Cardinality(A \ {h}) = Cardinality(A) - 1
        /\ IsFiniteSet(a \ {h}) /\ Cardinality(a \ {h}) = Cardinality(a) - 1
    BY <1>1, <1>2, <2>1, FS_RemoveElement
  <2>3. Cardinality(K) =< Cardinality(A \ {h}) /\ Cardinality(k) =< Cardinality(a \ {h})
    BY <2>1, <2>2, FS_Subset
  <2>. QED  BY <1>1, <1>2, <2>2, <2>3
<1>5. A # {} => Cardinality(A) >= 1
  BY <1>1, FS_EmptySet
<1>. HIDE DEF a, k
<1>6. \A h \in A \intersect Heavy : h \notin K => WeightOf(K) + 3 =< WeightOf(A)
  <2>. SUFFICES ASSUME NEW h \in A \intersect Heavy, h \notin K PROVE WeightOf(K) + 3 =< WeightOf(A)
    OBVIOUS
  <2>1. Cardinality(K) + 1 =< Cardinality(A) /\ Cardinality(k) + 1 =< Cardinality(a)
    BY <1>4
  <2>. QED  BY <1>1, <1>2, <1>3, <2>1
<1>. QED  BY <1>1, <1>2, <1>3, <1>5, <1>6

(* A score, and what rounding makes of the thresholds.                       *)
ScoreOf(w, t) == (2 * 10000 * w + t) \div (2 * t)

Rounded(w, t, p) ==
  /\ p = t * ScoreOf(w, t) /\ ScoreOf(w, t) \in Nat /\ ScoreOf(w, t) =< FullScore
  /\ 2 * p =< 20000 * w + t /\ 20000 * w + t < 2 * p + 2 * t

(* A score is rounded by half a ten-thousandth at most.                       *)
LEMMA Rounding ==
  ASSUME NEW t \in 1 .. 27, NEW w \in 0 .. t
  PROVE  \E p \in Int : Rounded(w, t, p)
<1>. DEFINE q == ScoreOf(w, t)   n == 20000 * w + t   m == 2 * t
<1>1. n \in Nat /\ m \in Nat \ {0} /\ q = n \div m
  BY DEF ScoreOf
<1>2. q \in Nat /\ m * q =< n /\ n < m * q + m
  <2>. HIDE DEF n, m
  <2>1. n \div m \in Nat /\ m * (n \div m) + (n % m) = n /\ n % m \in 0 .. (m - 1)
    BY <1>1
  <2>2. m * (n \div m) \in Int
    BY <1>1, <2>1
  <2>. QED  BY <1>1, <2>1, <2>2
<1>. HIDE DEF q
<1>3. m * q = 2 * (t * q) /\ t * q \in Int
  BY <1>2
<1>4. q =< 10000
  <2>. SUFFICES ASSUME q >= 10001 PROVE FALSE
    BY <1>2
  <2>1. t * q >= t * 10001
    BY <1>2
  <2>. QED  BY <1>2, <1>3, <2>1
<1>5. Rounded(w, t, t * q)
  BY <1>2, <1>3, <1>4 DEF q, FullScore, Rounded
<1>. QED  BY <1>3, <1>5

(* What the thresholds say of a document, and of two of one client: no       *)
(* rounding crosses them.                                                    *)
Thresholds(t, w, v) ==
  LET s == ScoreOf(w, t)
      r == ScoreOf(v, t)
  IN  /\ s \in 0 .. FullScore
      /\ s >= 7000 <=> 10 * w >= 7 * t
      /\ s - r >= 1000 <=> 10 * (w - v) >= t
      /\ s >= 9000 => t < w + 3

(* Rounding carries no document over a threshold.                             *)
LEMMA NoneIsCrossed ==
  ASSUME NEW t \in 1 .. 27, NEW w \in 0 .. t, NEW v \in 0 .. t
  PROVE  Thresholds(t, w, v)
<1>. DEFINE s == ScoreOf(w, t)   r == ScoreOf(v, t)
<1>1. PICK p \in Int : Rounded(w, t, p)
  BY Rounding
<1>2. PICK q \in Int : Rounded(v, t, q)
  BY Rounding
<1>3. /\ p = t * s /\ s \in Nat /\ s =< FullScore
      /\ 2 * p =< 20000 * w + t /\ 20000 * w + t < 2 * p + 2 * t
  BY <1>1 DEF Rounded
<1>4. /\ q = t * r /\ r \in Nat
      /\ 2 * q =< 20000 * v + t /\ 20000 * v + t < 2 * q + 2 * t
  BY <1>2 DEF Rounded
<1>. HIDE DEF s, r
<1>5. /\ s >= 7000 => p >= 7000 * t
      /\ s < 7000 => p =< 6999 * t
      /\ s >= 9000 => p >= 9000 * t
  BY <1>3
<1>6. /\ s - r >= 1000 => p - q >= 1000 * t
      /\ s - r < 1000 => p - q =< 999 * t
  <2>. DEFINE d == s - r
  <2>1. p - q = t * d /\ d \in Int
    BY <1>3, <1>4
  <2>. HIDE DEF d
  <2>2. (d >= 1000 => t * d >= 1000 * t) /\ (d < 1000 => t * d =< 999 * t)
    BY <2>1
  <2>. QED  BY <2>1, <2>2 DEF d
<1>7. s >= 7000 <=> 10 * w >= 7 * t
  BY <1>3, <1>5
<1>8. s - r >= 1000 <=> 10 * (w - v) >= t
  BY <1>3, <1>4, <1>6
<1>9. s >= 9000 => t < w + 3
  BY <1>3, <1>5
<1>10. s \in 0 .. FullScore
  BY <1>3, SMTT(30) DEF FullScore
<1>. QED  BY <1>7, <1>8, <1>9, <1>10 DEF Thresholds, s, r

(* Of things with scores one has the highest score, and the lowest place     *)
(* among those that have it.                                                 *)
LEMMA OneIsFirst ==
  ASSUME NEW N \in Nat, NEW places, places \subseteq Nat, places # {},
         NEW score, \A i \in places : score[i] \in 0 .. N
  PROVE  \E b \in places : \A j \in places \ {b} :
           score[b] > score[j] \/ (score[b] = score[j] /\ b < j)
<1>. DEFINE S == {n \in 0 .. N : \E i \in places : score[i] = n}
<1>1. S \subseteq 0 .. N /\ S # {} /\ (\A i \in places : score[i] \in S) /\ \A n \in S : \E i \in places : score[i] = n
  OBVIOUS
<1>. HIDE DEF S
<1>2. PICK top \in S : \A y \in S : top >= y
  BY <1>1, Highest
<1>3. top \in Nat /\ \A i \in places : score[i] \in Nat /\ i \in Nat /\ score[i] =< top
  BY <1>1, <1>2
<1>. DEFINE F == {i \in places : score[i] = top}
<1>4. F \subseteq Nat /\ F # {} /\ F \subseteq places /\ \A i \in places : i \in F <=> score[i] = top
  BY <1>1, <1>2
<1>. HIDE DEF F
<1>5. PICK b \in F : \A y \in F : b =< y
  BY <1>4, Lowest
<1>6. b \in places /\ score[b] = top /\ b \in Nat
  BY <1>4
<1>7. ASSUME NEW j \in places \ {b} PROVE score[b] > score[j] \/ (score[b] = score[j] /\ b < j)
  <2>1. CASE score[j] = top
    <3>1. b =< j /\ j \in Nat /\ j # b
      BY <1>3, <1>4, <1>5, <2>1
    <3>. QED  BY <1>6, <2>1, <3>1
  <2>2. CASE score[j] # top
    <3>1. score[j] =< top /\ score[j] \in Nat
      BY <1>3
    <3>. QED  BY <1>3, <1>6, <2>2, <3>1
  <2>. QED  BY <2>1, <2>2
<1>. QED  BY <1>6, <1>7

(* The first after sorting has the highest score.                            *)
LEMMA TopIs ==
  ASSUME NEW N \in Nat, NEW outcome, NEW places, places \subseteq Nat, places # {},
         \A i \in places : outcome[i].score \in 0 .. N
  PROVE  LET t == TopOf(outcome, places)
         IN  t \in places /\ \A j \in places \ {t} : outcome[t].score >= outcome[j].score
<1>. DEFINE score == [i \in places |-> outcome[i].score]
<1>1. \A i \in places : score[i] = outcome[i].score /\ score[i] \in 0 .. N
  OBVIOUS
<1>. HIDE DEF score
<1>3. PICK b \in places : \A j \in places \ {b} : score[b] > score[j] \/ (score[b] = score[j] /\ b < j)
  BY <1>1, OneIsFirst, ZenonT(40)
<1>4. \A j \in places \ {b} : RankedAbove(outcome, b, j)
  BY <1>1, <1>3 DEF RankedAbove
<1>. DEFINE t == TopOf(outcome, places)
<1>. DEFINE first(i) == \A j \in places \ {i} : RankedAbove(outcome, i, j)
<1>5. t \in places /\ first(t)
  <2>1. first(b)
    BY <1>4
  <2>2. t = CHOOSE i \in places : first(i)
    BY DEF TopOf
  <2>. HIDE DEF first, t
  <2>. QED  BY <2>1, <2>2
<1>. HIDE DEF t
<1>6. \A j \in places \ {t} : score[t] > score[j] \/ score[t] = score[j]
  BY <1>1, <1>5 DEF RankedAbove
<1>7. \A j \in places \ {t} : score[t] >= score[j]
  BY <1>1, <1>5, <1>6
<1>. QED  BY <1>1, <1>5, <1>7 DEF t

(* What a document is judged to be. *)
Judgement(d, r, o) ==
  /\ o.matchedKeys = d.matched /\ o.disqualified = d.disqualified
  /\ o.score = ScoreOf(WeightOf(d.matched), WeightOf(ApplicableKeys(r)))
  /\ o.confident <=> ~d.disqualified /\ o.score >= 7000

(* verifyCandidate judges so.                                                 *)
LEMMA JudgementIs == \A d, r : Judgement(d, r, verifyCandidate(d, r))
<1>. SUFFICES ASSUME NEW d, NEW r PROVE Judgement(d, r, verifyCandidate(d, r))
  OBVIOUS
<1>. DEFINE total == WeightOf(ApplicableKeys(r))
            score == ScoreOf(WeightOf(d.matched), total)
            sure == ~d.disqualified /\ score >= 7000
            o == [matchedKeys |-> d.matched, score |-> score, disqualified |-> d.disqualified, confident |-> sure]
<1>1. verifyCandidate(d, r) = o
  BY DEF verifyCandidate, ScoreOf
<1>. HIDE DEF total
<1>2. o.matchedKeys = d.matched /\ o.disqualified = d.disqualified /\ o.score = score /\ (o.confident <=> sure)
  <2>. HIDE DEF score, sure
  <2>1. o.matchedKeys = d.matched /\ o.disqualified = d.disqualified /\ o.score = score /\ o.confident = sure
    OBVIOUS
  <2>. HIDE DEF o
  <2>. QED  BY <2>1, Zenon
<1>. HIDE DEF o, score
<1>3. o.confident <=> ~d.disqualified /\ o.score >= 7000
  BY <1>2
<1>4. Judgement(d, r, o)
  BY <1>2, <1>3 DEF Judgement, total, score
<1>. QED  BY <1>1, <1>4

(* A question about documents is of one client's.                            *)
LEMMA DocumentQuestionsAre ==
  ASSUME NEW q \in DocumentQuestions
  PROVE  /\ q.about = "documents" /\ q.record \in Records
         /\ DOMAIN q.documents \subseteq Nat \ {0}
         /\ \A i \in DOMAIN q.documents : q.documents[i] \in DocumentsOf(q.record)
<1>. DEFINE size(r) == MaxDocuments + (IF r.known = OwnName(r.type) THEN 1 ELSE 0)
            lists(r) == SeqOf(DocumentsOf(r), size(r)) \ {<<>>}
            some == {rec \in Records : rec.type = "T1" \/ "taxpayer_names" \notin rec.known}
<1>1. PICK r \in some : q \in [about : {"documents"}, record : {r}, documents : lists(r)]
  <2>. HIDE DEF some, lists
  <2>1. DocumentQuestions = UNION {[about : {"documents"}, record : {r}, documents : lists(r)] : r \in some}
    BY DEF DocumentQuestions, some, lists
  <2>. QED  BY <2>1
<1>2. q.about = "documents" /\ q.record = r /\ r \in Records /\ q.documents \in lists(r)
  <2>. HIDE DEF lists
  <2>1. r \in Records
    OBVIOUS
  <2>. HIDE DEF some
  <2>. QED  BY <1>1, <2>1
<1>3. PICK n \in 0 .. size(r) : q.documents \in [1 .. n -> DocumentsOf(r)]
  <2>. HIDE DEF size
  <2>. QED  BY <1>2 DEF SeqOf
<1>4. size(r) \in Nat
  BY EvidenceAssumption
<1>. HIDE DEF size, lists, some
<1>5. DOMAIN q.documents = 1 .. n /\ \A i \in 1 .. n : i \in Nat \ {0} /\ q.documents[i] \in DocumentsOf(r)
  BY <1>3, <1>4
<1>. QED  BY <1>2, <1>5

(* What a document shows, and can show.                                      *)
LEMMA PointsAre ==
  ASSUME NEW r \in Records, NEW d \in DocumentsOf(r)
  PROVE  /\ WeightOf(ApplicableKeys(r)) \in 1 .. 27
         /\ WeightOf(d.matched) \in 0 .. WeightOf(ApplicableKeys(r))
         /\ \A h \in ApplicableKeys(r) \intersect Heavy :
              h \notin d.matched => WeightOf(d.matched) + 3 =< WeightOf(ApplicableKeys(r))
<1>. DEFINE A == ApplicableKeys(r)   K == d.matched
<1>1. A \in SUBSET AllKeys /\ K \in SUBSET A /\ A # {}
  BY RecordsAre, DocumentIs DEF AllKeys, EveryRecord
<1>. HIDE DEF A, K
<1>2. /\ WeightOf(K) \in Nat /\ WeightOf(A) \in 0 .. 27 /\ WeightOf(K) =< WeightOf(A)
      /\ A # {} => WeightOf(A) >= 2
      /\ \A h \in A \intersect Heavy : h \notin K => WeightOf(K) + 3 =< WeightOf(A)
  BY <1>1, WeightsAre, Zenon
<1>3. WeightOf(A) \in 1 .. 27 /\ WeightOf(K) \in 0 .. WeightOf(A)
  BY <1>1, <1>2
<1>. QED  BY <1>2, <1>3 DEF A, K

(* The letter that is selected stands out, and what is accepted is beyond    *)
(* doubt.                                                                    *)
LEMMA TheLetterIsFound ==
  ASSUME asked \in DocumentQuestions,
         answer.selected = selectPriorYearDocument(asked.documents, asked.record),
         answer.accepted = {i \in DOMAIN asked.documents :
                              decideBulkAccept(verifyCandidate(asked.documents[i], asked.record))}
  PROVE  TheLetterStandsOut
<1>. DEFINE docs == asked.documents   r == asked.record   D == DOMAIN docs
            o(i) == verifyCandidate(docs[i], r)
            outcome == [i \in D |-> o(i)]
            t == PointsPossible   w(i) == Points(i)
<1>1. r \in Records /\ D \subseteq Nat \ {0} /\ \A i \in D : docs[i] \in DocumentsOf(r)
  BY DocumentQuestionsAre, Zenon
<1>2. \A i \in D : outcome[i] = o(i) /\ Judgement(docs[i], r, o(i))
  BY JudgementIs
<1>3. \A i \in D : t \in 1 .. 27 /\ w(i) \in 0 .. t
  BY <1>1, PointsAre, Zenon DEF Points, PointsPossible
<1>. HIDE DEF outcome, o
<1>4. ASSUME NEW i \in D PROVE o(i).score = ScoreOf(w(i), t) /\ (o(i).confident <=> ~docs[i].disqualified /\ o(i).score >= 7000)
  <2>1. Judgement(docs[i], r, o(i))
    BY <1>2
  <2>. HIDE DEF docs, r
  <2>2. w(i) = WeightOf(docs[i].matched) /\ t = WeightOf(ApplicableKeys(r))
    BY DEF Points, PointsPossible, docs, r
  <2>. QED  BY <2>1, <2>2 DEF Judgement
<1>. HIDE DEF t, w
<1>5. ASSUME NEW i \in D, NEW j \in D
      PROVE  /\ o(i).score \in 0 .. FullScore
             /\ o(i).score >= 7000 <=> 10 * w(i) >= 7 * t
             /\ ClearWinner(o(i).score, o(j).score) <=> 10 * (w(i) - w(j)) >= t
             /\ o(i).score >= 9000 => t < w(i) + 3
  <2>1. Thresholds(t, w(i), w(j))
    BY <1>3, NoneIsCrossed, Zenon
  <2>. QED  BY <1>4, <2>1 DEF Thresholds, ClearWinner
<1>. DEFINE Leads(i, j) == 10 * (w(i) - w(j)) >= t
            plausible == {i \in D : ~docs[i].disqualified /\ 10 * w(i) >= 7 * t}
            confident == {i \in D : outcome[i].confident}
            alone == {i \in plausible : \A j \in plausible \ {i} : Leads(i, j)}
<1>6. confident = plausible /\ plausible \subseteq D /\ plausible \subseteq Nat
  BY <1>1, <1>2, <1>4, <1>5, SMTT(30)
<1>. HIDE DEF docs, r, D
<1>7. {answer.selected} \ {0} = alone
  <2>. DEFINE best == TopOf(outcome, plausible)
              others == plausible \ {best}
              second == TopOf(outcome, others)
  <2>1. answer.selected = IF plausible = {} THEN 0
                          ELSE IF others # {} /\ ~ClearWinner(outcome[best].score, outcome[second].score) THEN 0
                          ELSE best
    BY <1>6 DEF selectPriorYearDocument, outcome, o, docs, r, D
  <2>. HIDE DEF plausible, confident
  <2>2. ASSUME NEW i \in plausible, NEW j \in plausible
        PROVE  /\ outcome[i].score \in 0 .. FullScore
               /\ ClearWinner(outcome[i].score, outcome[j].score) <=> Leads(i, j)
    BY <1>2, <1>5, <1>6
  <2>3. FullScore \in Nat
    BY DEF FullScore
  <2>4. CASE plausible = {}
    <3>1. answer.selected = 0 /\ alone = {}
      BY <2>1, <2>4
    <3>. QED  BY <3>1
  <2>5. CASE plausible # {}
    <3>1. best \in plausible /\ \A j \in others : outcome[best].score >= outcome[j].score
      BY <1>6, <2>2, <2>3, <2>5, TopIs, Zenon
    <3>. HIDE DEF best
    <3>2. best # 0
      BY <1>1, <1>6, <3>1
    <3>3. ASSUME NEW i \in others PROVE ~Leads(i, best)
      <4>1. i \in plausible
        OBVIOUS
      <4>2. ~ClearWinner(outcome[i].score, outcome[best].score)
        BY <2>2, <2>3, <3>1, <4>1 DEF ClearWinner
      <4>. QED  BY <2>2, <3>1, <4>1, <4>2
    <3>. HIDE DEF Leads
    <3>4. alone \subseteq {best}
      BY <3>1, <3>3
    <3>5. CASE others = {}
      <4>1. best \in alone /\ answer.selected = best
        BY <2>1, <2>5, <3>1, <3>5
      <4>. HIDE DEF alone
      <4>. QED  BY <3>2, <3>4, <4>1
    <3>6. CASE others # {}
      <4>1. second \in others /\ \A j \in others \ {second} : outcome[second].score >= outcome[j].score
        <5>1. others \subseteq Nat /\ \A i \in others : outcome[i].score \in 0 .. FullScore
          BY <1>6, <2>2
        <5>. HIDE DEF others
        <5>. QED  BY <2>3, <3>6, <5>1, TopIs, Zenon
      <4>. HIDE DEF second
      <4>2. second \in plausible /\ second # best
        BY <4>1
      <4>3. CASE Leads(best, second)
        <5>1. ASSUME NEW j \in others PROVE Leads(best, j)
          <6>1. j \in plausible /\ outcome[second].score >= outcome[j].score
            BY <2>2, <4>1
          <6>2. ClearWinner(outcome[best].score, outcome[second].score)
            BY <2>2, <3>1, <4>2, <4>3
          <6>3. ClearWinner(outcome[best].score, outcome[j].score)
            BY <2>2, <2>3, <3>1, <4>2, <6>1, <6>2 DEF ClearWinner
          <6>. QED  BY <2>2, <3>1, <6>1, <6>3
        <5>2. best \in alone
          BY <3>1, <5>1
        <5>3. answer.selected = best
          BY <2>1, <2>2, <2>5, <3>1, <4>2, <4>3
        <5>. HIDE DEF alone
        <5>. QED  BY <3>2, <3>4, <5>2, <5>3
      <4>4. CASE ~Leads(best, second)
        <5>1. alone = {}
          BY <3>4, <4>2, <4>4
        <5>2. answer.selected = 0
          BY <2>1, <2>2, <2>5, <3>1, <3>6, <4>2, <4>4
        <5>. QED  BY <5>1, <5>2
      <4>. QED  BY <4>3, <4>4
    <3>. QED  BY <3>5, <3>6
  <2>. QED  BY <2>4, <2>5, SMTT(30)
<1>8. ASSUME NEW i \in answer.accepted
      PROVE  /\ ~docs[i].disqualified
             /\ "client_legal_name" \in docs[i].matched /\ "document_type" \in docs[i].matched
             /\ Numbers \intersect r.known \subseteq docs[i].matched
             /\ Numbers \intersect docs[i].matched # {} \/ "year_end" \in docs[i].matched
  <2>1. i \in D /\ decideBulkAccept(o(i))
    BY DEF docs, r, D, o
  <2>2. o(i).matchedKeys = docs[i].matched /\ o(i).disqualified = docs[i].disqualified
    BY <1>2, <2>1 DEF Judgement
  <2>3. ~docs[i].disqualified /\ t < w(i) + 3
    BY <1>5, <2>1, <2>2 DEF decideBulkAccept
  <2>4. \A h \in ApplicableKeys(r) \intersect Heavy : h \in docs[i].matched
    <3>1. \A h \in ApplicableKeys(r) \intersect Heavy :
            h \notin docs[i].matched => WeightOf(docs[i].matched) + 3 =< WeightOf(ApplicableKeys(r))
      BY <1>1, <2>1, PointsAre, Zenon
    <3>2. w(i) = WeightOf(docs[i].matched) /\ t = WeightOf(ApplicableKeys(r))
      BY DEF w, t, Points, PointsPossible, docs, r
    <3>. QED  BY <1>3, <2>1, <2>3, <3>1, <3>2
  <2>5. ApplicableKeys(r) = EveryRecord \union r.known
    BY <1>1, RecordsAre
  <2>6. Numbers \intersect docs[i].matched # {} \/ "year_end" \in docs[i].matched
    BY <2>1, <2>2 DEF decideBulkAccept, IdentityBasis
  <2>. QED  BY <2>3, <2>4, <2>5, <2>6 DEF EveryRecord, Heavy
<1>9. \A i \in D : Points(i) = w(i) /\ PointsPossible = t
  BY DEF w, t
<1>. QED  BY <1>7, <1>8, <1>9 DEF TheLetterStandsOut, docs, r, D

(* What a rule of classifyDocument says of the kinds a reviewer asks about.  *)
Telling(kind, weight, all, any, none) ==
  /\ weight \in Nat /\ weight =< 12 /\ kind \in ToSet(DocumentKinds)
  /\ weight >= 11 => kind \in LetterKinds
  /\ weight = 12 => kind = "PRIOR_YEAR_SIGNED_LETTER"
  /\ kind = "PRIOR_YEAR_SIGNED_LETTER" => all = {"engagement letter"} /\ any = {"signed by:"}
  /\ kind = "PRIOR_YEAR_ENGAGEMENT_LETTER" => any \in {{"t2 engagement letter"}, {"engagement letter"}}
  /\ kind = "COMPILATION_ENGAGEMENT_REPORT" => "balance sheet" \in none

Tells(r) == Telling(r.kind, r.weight, r.all, r.any, r.none)

(* Every rule of classifyDocument says that.                                  *)
LEMMA KindRulesAre == \A r \in KindRules : Tells(r)
<1>1. ASSUME NEW kind, NEW weight, NEW all, NEW any, NEW none, Telling(kind, weight, all, any, none)
      PROVE  Tells(Rule(kind, weight, all, any, none))
  <2>. DEFINE r == Rule(kind, weight, all, any, none)
  <2>1. r.kind = kind /\ r.weight = weight /\ r.all = all /\ r.any = any /\ r.none = none
    BY DEF Rule
  <2>. QED  BY <1>1, <2>1, Zenon DEF Tells
<1>2. \A k : k \in ToSet(DocumentKinds) <=> \E i \in 1 .. 13 : k = DocumentKinds[i]
  BY DEF ToSet, DocumentKinds
<1>3. /\ DocumentKinds[1] = "ADJUSTING_JOURNAL_ENTRIES" /\ DocumentKinds[2] = "COMPILATION_ENGAGEMENT_REPORT"
      /\ DocumentKinds[3] = "COMPILED_FINANCIAL_STATEMENTS" /\ DocumentKinds[4] = "FEDERAL_FILING_AUTHORIZATION"
      /\ DocumentKinds[5] = "FINAL_T2_RETURN" /\ DocumentKinds[6] = "INSTALMENT_SCHEDULE"
      /\ DocumentKinds[7] = "NOTICE_OF_ASSESSMENT" /\ DocumentKinds[8] = "PAYMENT_SUMMARY"
      /\ DocumentKinds[9] = "PRIOR_YEAR_ENGAGEMENT_LETTER" /\ DocumentKinds[10] = "PRIOR_YEAR_SIGNED_LETTER"
      /\ DocumentKinds[11] = "T1_RETURN" /\ DocumentKinds[12] = "T183" /\ DocumentKinds[13] = "TRIAL_BALANCE"
  BY DEF DocumentKinds
<1>4. {"ADJUSTING_JOURNAL_ENTRIES", "COMPILATION_ENGAGEMENT_REPORT", "COMPILED_FINANCIAL_STATEMENTS",
       "FEDERAL_FILING_AUTHORIZATION", "FINAL_T2_RETURN", "INSTALMENT_SCHEDULE", "NOTICE_OF_ASSESSMENT",
       "PAYMENT_SUMMARY", "PRIOR_YEAR_ENGAGEMENT_LETTER", "PRIOR_YEAR_SIGNED_LETTER", "T1_RETURN", "T183",
       "TRIAL_BALANCE"} \subseteq ToSet(DocumentKinds)
  BY <1>2, <1>3
<1>5. Tells(Rule("PRIOR_YEAR_SIGNED_LETTER", 12, {"engagement letter"}, {"signed by:"}, {}))
  <2>1. Telling("PRIOR_YEAR_SIGNED_LETTER", 12, {"engagement letter"}, {"signed by:"}, {})
    BY <1>4 DEF Telling, LetterKinds
  <2>. QED  BY <1>1, <2>1, Zenon
<1>6. Tells(Rule("PRIOR_YEAR_ENGAGEMENT_LETTER", 11, {}, {"t2 engagement letter"}, {}))
  <2>1. Telling("PRIOR_YEAR_ENGAGEMENT_LETTER", 11, {}, {"t2 engagement letter"}, {})
    BY <1>4 DEF Telling, LetterKinds
  <2>. QED  BY <1>1, <2>1, Zenon
<1>7. Tells(Rule("PRIOR_YEAR_ENGAGEMENT_LETTER", 8, {}, {"engagement letter"}, {}))
  <2>1. Telling("PRIOR_YEAR_ENGAGEMENT_LETTER", 8, {}, {"engagement letter"}, {})
    BY <1>4 DEF Telling, LetterKinds
  <2>. QED  BY <1>1, <2>1, Zenon
<1>8. Tells(Rule("FEDERAL_FILING_AUTHORIZATION", 9, {}, {"t183corp"}, {}))
  <2>1. Telling("FEDERAL_FILING_AUTHORIZATION", 9, {}, {"t183corp"}, {})
    BY <1>4 DEF Telling, LetterKinds
  <2>. QED  BY <1>1, <2>1, Zenon
<1>9. Tells(Rule("T183", 7, {}, {"t183"}, {}))
  <2>1. Telling("T183", 7, {}, {"t183"}, {})
    BY <1>4 DEF Telling, LetterKinds
  <2>. QED  BY <1>1, <2>1, Zenon
<1>10. Tells(Rule("NOTICE_OF_ASSESSMENT", 9, {}, {"notice of assessment"}, {}))
  <2>1. Telling("NOTICE_OF_ASSESSMENT", 9, {}, {"notice of assessment"}, {})
    BY <1>4 DEF Telling, LetterKinds
  <2>. QED  BY <1>1, <2>1, Zenon
<1>11. Tells(Rule("FINAL_T2_RETURN", 9, {}, {"corporation income tax return"}, {}))
  <2>1. Telling("FINAL_T2_RETURN", 9, {}, {"corporation income tax return"}, {})
    BY <1>4 DEF Telling, LetterKinds
  <2>. QED  BY <1>1, <2>1, Zenon
<1>12. Tells(Rule("T1_RETURN", 8, {}, {"t1 general"}, {}))
  <2>1. Telling("T1_RETURN", 8, {}, {"t1 general"}, {})
    BY <1>4 DEF Telling, LetterKinds
  <2>. QED  BY <1>1, <2>1, Zenon
<1>13. Tells(Rule("COMPILATION_ENGAGEMENT_REPORT", 9, {}, {"compilation engagement report", "we have compiled"}, {"balance sheet"}))
  <2>1. Telling("COMPILATION_ENGAGEMENT_REPORT", 9, {}, {"compilation engagement report", "we have compiled"}, {"balance sheet"})
    BY <1>4 DEF Telling, LetterKinds
  <2>. QED  BY <1>1, <2>1, Zenon
<1>14. Tells(Rule("COMPILED_FINANCIAL_STATEMENTS", 7, {}, {"balance sheet", "notice to reader", "compilation engagement report"}, {}))
  <2>1. Telling("COMPILED_FINANCIAL_STATEMENTS", 7, {}, {"balance sheet", "notice to reader", "compilation engagement report"}, {})
    BY <1>4 DEF Telling, LetterKinds
  <2>. QED  BY <1>1, <2>1, Zenon
<1>15. Tells(Rule("TRIAL_BALANCE", 9, {"trial balance"}, {"debit"}, {}))
  <2>1. Telling("TRIAL_BALANCE", 9, {"trial balance"}, {"debit"}, {})
    BY <1>4 DEF Telling, LetterKinds
  <2>. QED  BY <1>1, <2>1, Zenon
<1>16. Tells(Rule("ADJUSTING_JOURNAL_ENTRIES", 9, {}, {"adjusting entries"}, {}))
  <2>1. Telling("ADJUSTING_JOURNAL_ENTRIES", 9, {}, {"adjusting entries"}, {})
    BY <1>4 DEF Telling, LetterKinds
  <2>. QED  BY <1>1, <2>1, Zenon
<1>17. Tells(Rule("INSTALMENT_SCHEDULE", 8, {}, {"instalment schedule"}, {}))
  <2>1. Telling("INSTALMENT_SCHEDULE", 8, {}, {"instalment schedule"}, {})
    BY <1>4 DEF Telling, LetterKinds
  <2>. QED  BY <1>1, <2>1, Zenon
<1>18. Tells(Rule("PAYMENT_SUMMARY", 6, {}, {"payment summary"}, {}))
  <2>1. Telling("PAYMENT_SUMMARY", 6, {}, {"payment summary"}, {})
    BY <1>4 DEF Telling, LetterKinds
  <2>. QED  BY <1>1, <2>1, Zenon
<1>. QED  BY <1>5, <1>6, <1>7, <1>8, <1>9, <1>10, <1>11, <1>12, <1>13, <1>14, <1>15, <1>16, <1>17, <1>18, Zenon DEF KindRules

(* Two of the rules. *)
LEMMA LetterRules ==
  /\ \E r \in KindRules : /\ r.weight = 12 /\ r.none = {}
                          /\ r.all = {"engagement letter"} /\ r.any = {"signed by:"}
  /\ \E r \in KindRules : /\ r.weight = 11 /\ r.none = {}
                          /\ r.all = {} /\ r.any = {"t2 engagement letter"}
<1>1. Rule("PRIOR_YEAR_SIGNED_LETTER", 12, {"engagement letter"}, {"signed by:"}, {}) \in KindRules
  BY DEF KindRules
<1>2. Rule("PRIOR_YEAR_ENGAGEMENT_LETTER", 11, {}, {"t2 engagement letter"}, {}) \in KindRules
  BY DEF KindRules
<1>. QED  BY <1>1, <1>2 DEF Rule

(* The first in a list of those asked for is one of them. *)
LEMMA FirstOfIs ==
  ASSUME NEW order, DOMAIN order \subseteq Nat, NEW kinds, \E i \in DOMAIN order : order[i] \in kinds
  PROVE  FirstOf(kinds, order) \in kinds
<1>. DEFINE S == {i \in DOMAIN order : order[i] \in kinds}
<1>1. S \subseteq Nat /\ S # {} /\ \A i \in S : order[i] \in kinds
  OBVIOUS
<1>. HIDE DEF S
<1>2. Min(S) \in S
  BY <1>1, MinIs
<1>. QED  BY <1>1, <1>2 DEF FirstOf, S

(* A document's kind is that of a weightiest rule that fits, or what its     *)
(* file's name hints at, or unknown.                                         *)
ByRule(text, found) ==
  \E r \in KindRules : /\ Fits(r, text) /\ \A other \in KindRules : Fits(other, text) => r.weight >= other.weight
                       /\ found.kind = r.kind /\ found.filenameOnly = FALSE
ByName(text, fileName, found) ==
  /\ \A r \in KindRules : ~Fits(r, text)
  /\ \/ found.kind \in fileName /\ found.filenameOnly = TRUE
     \/ found.kind = "UNKNOWN" /\ found.filenameOnly = FALSE

(* classifyDocument reads a document so.                                      *)
LEMMA ClassifiedAs ==
  ASSUME NEW text, NEW fileName, fileName \subseteq ToSet(FileNameHints)
  PROVE  ByRule(text, classifyDocument(text, fileName)) \/ ByName(text, fileName, classifyDocument(text, fileName))
<1>. DEFINE matches == {r \in KindRules : Fits(r, text)}
            best == {r \in matches : \A other \in matches : r.weight >= other.weight}
            kinds == {r.kind : r \in best}
            named == NamedAmongEquals(matches, best, fileName)
            found == classifyDocument(text, fileName)
            of == IF named # {} THEN named ELSE kinds
<1>1. /\ best # {} => found = [kind |-> FirstOf(of, DocumentKinds), filenameOnly |-> FALSE]
      /\ best = {} /\ fileName # {} => found = [kind |-> FirstOf(fileName, FileNameHints), filenameOnly |-> TRUE]
      /\ best = {} /\ fileName = {} => found = [kind |-> "UNKNOWN", filenameOnly |-> FALSE]
  <2>. HIDE DEF best, kinds, named, matches
  <2>1. found = CASE best # {} -> [kind |-> FirstOf(of, DocumentKinds), filenameOnly |-> FALSE]
                  [] best = {} /\ fileName # {} -> [kind |-> FirstOf(fileName, FileNameHints), filenameOnly |-> TRUE]
                  [] OTHER -> [kind |-> "UNKNOWN", filenameOnly |-> FALSE]
    BY DEF classifyDocument, best, kinds, named, matches
  <2>. HIDE DEF found
  <2>. QED  BY <2>1, Zenon
<1>2. \A r \in KindRules : Tells(r)
  BY KindRulesAre
<1>3. best \subseteq matches /\ matches \subseteq KindRules /\ \A r \in matches : Fits(r, text)
  OBVIOUS
<1>4. \A r \in KindRules : r.weight \in Nat /\ r.weight =< 12 /\ r.kind \in ToSet(DocumentKinds)
  BY <1>2, Zenon DEF Tells, Telling
<1>5. matches # {} => best # {}
  <2>. SUFFICES ASSUME matches # {} PROVE best # {}
    OBVIOUS
  <2>. DEFINE S == {n \in 0 .. 12 : \E r \in matches : r.weight = n}
  <2>1. S \subseteq 0 .. 12 /\ S # {} /\ (\A r \in matches : r.weight \in S) /\ \A n \in S : \E r \in matches : r.weight = n
    <3>. HIDE DEF matches
    <3>. QED  BY <1>3, <1>4, SMTT(30)
  <2>. HIDE DEF S
  <2>2. 12 \in Nat
    OBVIOUS
  <2>3. PICK top \in S : \A y \in S : top >= y
    BY <2>1, <2>2, Highest
  <2>4. PICK r \in matches : r.weight = top
    BY <2>1
  <2>. HIDE DEF matches
  <2>. QED  BY <2>1, <2>3, <2>4
<1>. HIDE DEF found
<1>6. CASE best # {}
  <2>1. of # {} /\ of \subseteq kinds
    <3>. HIDE DEF best
    <3>. QED  BY <1>6 DEF NamedAmongEquals
  <2>2. kinds \subseteq ToSet(DocumentKinds)
    <3>. HIDE DEF best
    <3>. QED  BY <1>3, <1>4
  <2>3. \A k \in kinds : \E r \in best : k = r.kind
    OBVIOUS
  <2>. HIDE DEF of, kinds
  <2>4. \E i \in DOMAIN DocumentKinds : DocumentKinds[i] \in of
    BY <2>1, <2>2 DEF ToSet
  <2>5. DOMAIN DocumentKinds \subseteq Nat
    BY DEF DocumentKinds
  <2>6. FirstOf(of, DocumentKinds) \in of
    BY <2>4, <2>5, FirstOfIs
  <2>7. PICK r \in best : FirstOf(of, DocumentKinds) = r.kind
    BY <2>1, <2>3, <2>6
  <2>8. found.kind = r.kind /\ found.filenameOnly = FALSE
    BY <1>1, <1>6, <2>7
  <2>9. r \in KindRules /\ Fits(r, text) /\ \A other \in KindRules : Fits(other, text) => r.weight >= other.weight
    OBVIOUS
  <2>. HIDE DEF best, matches
  <2>. QED  BY <2>8, <2>9 DEF ByRule, found
<1>7. CASE best = {}
  <2>1. \A r \in KindRules : ~Fits(r, text)
    BY <1>5, <1>7
  <2>. HIDE DEF best
  <2>2. CASE fileName # {}
    <3>1. \E i \in DOMAIN FileNameHints : FileNameHints[i] \in fileName
      BY <2>2 DEF ToSet
    <3>2. DOMAIN FileNameHints \subseteq Nat
      BY DEF FileNameHints
    <3>3. FirstOf(fileName, FileNameHints) \in fileName
      BY <3>1, <3>2, FirstOfIs
    <3>4. found.kind \in fileName /\ found.filenameOnly = TRUE
      BY <1>1, <1>7, <2>2, <3>3
    <3>. QED  BY <2>1, <3>4 DEF ByName, found
  <2>3. CASE fileName = {}
    <3>1. found.kind = "UNKNOWN" /\ found.filenameOnly = FALSE
      BY <1>1, <1>7, <2>3
    <3>. QED  BY <2>1, <3>1 DEF ByName, found
  <2>. QED  BY <2>2, <2>3
<1>. QED  BY <1>6, <1>7 DEF found

(* A question about a kind is of a text that shows what its phrases contain. *)
LEMMA KindQuestionsAre ==
  ASSUME NEW q \in KindQuestions
  PROVE  /\ q.about = "kind" /\ q.fileName \subseteq ToSet(FileNameHints)
         /\ "t2 engagement letter" \in q.text => "engagement letter" \in q.text
<1>. DEFINE phrases == UNION {r.all \union r.any : r \in KindRules}
            some == UNION {kSubset(n, phrases) : n \in 0 .. MaxPhrases}
            names == UNION {kSubset(n, ToSet(FileNameHints)) : n \in 0 .. 2}
            texts == {Containing(p) : p \in some}
            singles == {Containing({p}) : p \in phrases}
<1>1. \/ q \in [about : {"kind"}, text : texts, fileName : names, wanted : {WantedTokens}]
      \/ q \in [about : {"kind"}, text : singles, fileName : {{}}, wanted : {{}}]
  <2>. HIDE DEF some, phrases, names
  <2>. QED  BY DEF KindQuestions, some, phrases, names
<1>2. /\ \A x \in texts : \E p : x = Containing(p)
      /\ \A x \in singles : \E p : x = Containing(p)
  <2>. HIDE DEF some, phrases
  <2>. QED  OBVIOUS
<1>3. \A x \in names : x \subseteq ToSet(FileNameHints)
  BY DEF kSubset
<1>. HIDE DEF texts, singles, names
<1>4. q.about = "kind" /\ q.fileName \subseteq ToSet(FileNameHints) /\ \E p : q.text = Containing(p)
  BY <1>1, <1>2, <1>3
<1>5. PICK p : q.text = Containing(p)
  BY <1>4
<1>6. "t2 engagement letter" \in Containing(p) => "engagement letter" \in Containing(p)
  BY DEF Containing
<1>. QED  BY <1>4, <1>5, <1>6

(* Only of what a rule fits is anything read, and fees only in a letter. *)
LEMMA SupportedIs ==
  /\ Supported("UNKNOWN") = {}
  /\ \A kind : "pricing.t2_fee" \in Supported(kind) \/ "pricing.compilation_fee" \in Supported(kind)
                 => kind \in LetterKinds
<1>1. "UNKNOWN" \notin LetterKinds
  BY DEF LetterKinds
<1>. QED  BY <1>1 DEF Supported, CraPatterns

(* What a document is read as is what it is. *)
LEMMA ReadRightly ==
  ASSUME asked \in KindQuestions, answer = readDocument(asked)
  PROVE  ReadForWhatItIs
<1>. DEFINE text == asked.text   fileName == asked.fileName
            found == classifyDocument(text, fileName)
            kind == found.kind
            read == IF found.filenameOnly THEN {} ELSE asked.wanted \intersect Supported(kind)
<1>1. answer.kind = kind /\ answer.read = read
  <2>1. answer = [about |-> "kind", kind |-> kind, read |-> read]
    BY DEF readDocument
  <2>. HIDE DEF kind, read
  <2>. QED  BY <2>1
<1>2. fileName \subseteq ToSet(FileNameHints) /\ ("t2 engagement letter" \in text => "engagement letter" \in text)
  BY KindQuestionsAre
<1>3. ByRule(text, found) \/ ByName(text, fileName, found)
  BY <1>2, ClassifiedAs, Zenon
<1>. HIDE DEF found
<1>4. \A k \in fileName : k \notin {"PRIOR_YEAR_SIGNED_LETTER", "COMPILATION_ENGAGEMENT_REPORT"}
  <2>1. \A k \in ToSet(FileNameHints) : k \notin {"PRIOR_YEAR_SIGNED_LETTER", "COMPILATION_ENGAGEMENT_REPORT"}
    BY DEF ToSet, FileNameHints
  <2>. HIDE DEF fileName
  <2>. QED  BY <1>2, <2>1
<1>. HIDE DEF text, fileName
<1>. DEFINE both == {"engagement letter", "signed by:"} \subseteq text
<1>5. PICK signed \in KindRules : signed.weight = 12 /\ (Fits(signed, text) <=> both)
  <2>. DEFINE named == {"engagement letter"}   sealed == {"signed by:"}
  <2>1. both <=> named \subseteq text /\ sealed \intersect text # {}
    BY Zenon
  <2>2. PICK r \in KindRules : r.weight = 12 /\ r.none = {} /\ r.all = named /\ r.any = sealed
    BY LetterRules, Zenon
  <2>. HIDE DEF named, sealed, both
  <2>3. Fits(r, text) <=> both
    BY <2>1, <2>2 DEF Fits
  <2>. QED  BY <2>2, <2>3
<1>6. PICK listed \in KindRules : listed.weight = 11 /\ (Fits(listed, text) <=> "t2 engagement letter" \in text)
  <2>1. PICK r \in KindRules : r.weight = 11 /\ r.none = {} /\ r.all = {} /\ r.any = {"t2 engagement letter"}
    BY LetterRules, Zenon
  <2>2. Fits(r, text) <=> "t2 engagement letter" \in text
    BY <2>1 DEF Fits
  <2>. QED  BY <2>1, <2>2
<1>. HIDE DEF both
<1>7. CASE ByRule(text, found)
  <2>1. PICK r \in KindRules : /\ Fits(r, text) /\ \A other \in KindRules : Fits(other, text) => r.weight >= other.weight
                               /\ kind = r.kind /\ found.filenameOnly = FALSE
    BY <1>7 DEF ByRule
  <2>2. Telling(r.kind, r.weight, r.all, r.any, r.none)
    BY KindRulesAre, Zenon DEF Tells
  <2>3. r.weight \in Nat /\ r.weight =< 12
    BY <2>2, Zenon DEF Telling
  <2>4. "t2 engagement letter" \in text => kind \in LetterKinds
    <3>1. "t2 engagement letter" \in text => r.weight >= 11
      BY <1>6, <2>1
    <3>. QED  BY <2>1, <2>2, <3>1, Zenon DEF Telling
  <2>5. both => kind = "PRIOR_YEAR_SIGNED_LETTER"
    <3>1. both => r.weight = 12
      BY <1>5, <2>1, <2>3
    <3>. QED  BY <2>1, <2>2, <3>1, Zenon DEF Telling
  <2>6. kind = "PRIOR_YEAR_SIGNED_LETTER" => both
    BY <2>1, <2>2, Zenon DEF Telling, Fits, both
  <2>7. kind = "COMPILATION_ENGAGEMENT_REPORT" => "balance sheet" \notin text
    BY <2>1, <2>2 DEF Telling, Fits
  <2>8. kind \in LetterKinds => "engagement letter" \in text
    BY <1>2, <2>1, <2>2, <2>6, Zenon DEF Telling, Fits, LetterKinds, both
  <2>9. read \intersect {"pricing.t2_fee", "pricing.compilation_fee"} # {} => kind \in LetterKinds
    BY SupportedIs
  <2>10. \E rule \in KindRules : rule.kind = kind /\ Fits(rule, text)
    BY <2>1
  <2>. HIDE DEF read, kind
  <2>. QED  BY <1>1, <2>4, <2>5, <2>6, <2>7, <2>8, <2>9, <2>10, Zenon DEF ReadForWhatItIs, text, both
<1>8. CASE ByName(text, fileName, found)
  <2>1. \A r \in KindRules : ~Fits(r, text)
    BY <1>8 DEF ByName
  <2>2. "t2 engagement letter" \notin text /\ ~both
    BY <1>5, <1>6, <2>1
  <2>3. kind \notin {"PRIOR_YEAR_SIGNED_LETTER", "COMPILATION_ENGAGEMENT_REPORT"}
    BY <1>4, <1>8 DEF ByName
  <2>4. read = {}
    BY <1>8, SupportedIs DEF ByName
  <2>. HIDE DEF read, kind
  <2>. QED  BY <1>1, <2>2, <2>3, <2>4, Zenon DEF ReadForWhatItIs, text, both
<1>. QED  BY <1>3, <1>7, <1>8

(* Tuples of numbers are ordered by the first place in which they differ.    *)
Numerals(a, k) == DOMAIN a = 1 .. k /\ \A i \in 1 .. k : a[i] \in Int

(* Of two different tuples one comes before the other, and not both.          *)
LEMMA FirstPlaceDecides ==
  ASSUME NEW k \in Nat, NEW a, NEW b, Numerals(a, k), Numerals(b, k)
  PROVE  /\ (\E i \in 1 .. k : a[i] # b[i]) => Before(a, b) \/ Before(b, a)
         /\ ~(Before(a, b) /\ Before(b, a))
         /\ k > 0 /\ Before(a, b) => a[1] =< b[1]
<1>1. /\ DOMAIN a = 1 .. k /\ DOMAIN b = 1 .. k
      /\ \A i \in 1 .. k : i \in Nat /\ a[i] \in Int /\ b[i] \in Int
  BY DEF Numerals
<1>2. ASSUME NEW i \in 1 .. k, a[i] # b[i] PROVE Before(a, b) \/ Before(b, a)
  <2>. DEFINE S == {j \in 1 .. k : a[j] # b[j]}
  <2>1. S \subseteq Nat /\ S # {}
    BY <1>2
  <2>2. PICK j \in S : \A l \in S : j =< l
    <3>. HIDE DEF S
    <3>. QED  BY <2>1, Lowest
  <2>3. j \in 1 .. k /\ a[j] # b[j] /\ \A l \in 1 .. (j - 1) : a[l] = b[l]
    <3>1. ASSUME NEW l \in 1 .. (j - 1), a[l] # b[l] PROVE FALSE
      <4>1. l \in S /\ ~(j =< l)
        BY <3>1
      <4>. QED  BY <2>2, <4>1
    <3>. QED  BY <3>1
  <2>4. a[j] < b[j] \/ b[j] < a[j]
    BY <1>1, <2>3
  <2>. QED  BY <1>1, <2>3, <2>4 DEF Before
<1>3. ASSUME Before(a, b), Before(b, a) PROVE FALSE
  <2>1. PICK i \in 1 .. k : a[i] < b[i] /\ \A j \in 1 .. (i - 1) : a[j] = b[j]
    BY <1>1, <1>3 DEF Before
  <2>2. PICK l \in 1 .. k : b[l] < a[l] /\ \A j \in 1 .. (l - 1) : b[j] = a[j]
    BY <1>1, <1>3 DEF Before
  <2>3. i < l => i \in 1 .. (l - 1)
    OBVIOUS
  <2>4. l < i => l \in 1 .. (i - 1)
    OBVIOUS
  <2>5. i < l \/ l < i \/ i = l
    BY <1>1
  <2>. QED  BY <1>1, <2>1, <2>2, <2>3, <2>4, <2>5
<1>4. ASSUME k > 0, Before(a, b) PROVE a[1] =< b[1]
  <2>1. PICK i \in 1 .. k : a[i] < b[i] /\ \A j \in 1 .. (i - 1) : a[j] = b[j]
    BY <1>1, <1>4 DEF Before
  <2>2. i = 1 \/ 1 \in 1 .. (i - 1)
    OBVIOUS
  <2>3. 1 \in 1 .. k
    BY <1>4
  <2>. QED  BY <1>1, <2>1, <2>2, <2>3
<1>. QED  BY <1>2, <1>3, <1>4

(* Where something comes before all others, or is as good, such a thing is   *)
(* first.                                                                    *)
ComesFirst(S, rank, b) == b \in S /\ \A y \in S \ {b} : Before(rank[b], rank[y]) \/ rank[b] = rank[y]

(* FirstByRank finds such a thing.                                            *)
LEMMA FirstByRankIs ==
  ASSUME NEW S, NEW rank, NEW b, ComesFirst(S, rank, b)
  PROVE  ComesFirst(S, rank, FirstByRank(S, rank))
<1>. DEFINE first(x) == \A y \in S \ {x} : Before(rank[x], rank[y]) \/ rank[x] = rank[y]
            x == FirstByRank(S, rank)
<1>1. b \in S /\ first(b)
  BY DEF ComesFirst
<1>2. x = CHOOSE z \in S : first(z)
  BY DEF FirstByRank
<1>3. x \in S /\ first(x)
  <2>. HIDE DEF first, x
  <2>. QED  BY <1>1, <1>2
<1>. QED  BY <1>3 DEF ComesFirst

(* Findings, each of them worth something.                                   *)
Findings(f) ==
  \E n \in Nat : /\ DOMAIN f = 1 .. n
                 /\ \A i \in 1 .. n : f[i].value \in 0 .. 3 /\ f[i].score \in 0 .. FullScore

Said(f) == {i \in DOMAIN f : f[i].value # Blank}
Saying(f, p) == {i \in Said(f) : Says(f[i].value) = p}

(* KindRank is a place in the precedence, or the one after it.                *)
LEMMA KindRankIs == \A kind : KindRank(kind) \in 1 .. 11
<1>. SUFFICES ASSUME NEW kind PROVE KindRank(kind) \in 1 .. 11
  OBVIOUS
<1>. DEFINE S == {i \in DOMAIN Precedence : Precedence[i] = kind} \union {Len(Precedence) + 1}
<1>1. DOMAIN Precedence = 1 .. 10 /\ Len(Precedence) = 10
  BY DEF Precedence
<1>2. S \subseteq 1 .. 11 /\ S # {} /\ S \subseteq Nat
  BY <1>1
<1>3. KindRank(kind) = Min(S)
  BY DEF KindRank
<1>. HIDE DEF S
<1>. QED  BY <1>2, <1>3, MinIs

(* What is known of a finding, and of the findings that say one thing.       *)
LEMMA FindingIs ==
  ASSUME NEW f, Findings(f), NEW p \in {0, 1}, NEW i \in Saying(f, p)
  PROVE  /\ i \in Nat /\ i \in DOMAIN f /\ i \in Said(f)
         /\ f[i].value \in 1 .. 3 /\ f[i].value % 2 = p
         /\ f[i].score \in 0 .. FullScore
BY DEF Findings, Saying, Said, Says, Blank

(* Whatever was said is one of the two things that can be said.               *)
LEMMA SaidIs ==
  ASSUME NEW f, Findings(f), NEW i \in Said(f)
  PROVE  \E p \in {0, 1} : i \in Saying(f, p) /\ Says(f[i].value) = p
<1>1. f[i].value \in 0 .. 3
  BY DEF Findings, Said
<1>2. f[i].value % 2 \in {0, 1}
  BY <1>1
<1>. QED  BY <1>2 DEF Saying, Says

(* No more findings say a thing than there are findings.                      *)
LEMMA SayingIsFinite ==
  ASSUME NEW f, Findings(f), NEW p \in {0, 1}
  PROVE  IsFiniteSet(Saying(f, p)) /\ Cardinality(Saying(f, p)) \in Nat
<1>1. PICK n \in Nat : DOMAIN f = 1 .. n
  BY DEF Findings
<1>2. IsFiniteSet(1 .. n)
  BY FS_Interval
<1>3. Saying(f, p) \in SUBSET (1 .. n)
  BY <1>1 DEF Saying, Said
<1>4. IsFiniteSet(Saying(f, p))
  BY <1>2, <1>3, FS_Subset
<1>. QED  BY <1>4, FS_CardinalityType

(* Where those findings stand.                                               *)
StandsAt(f, G, s) ==
  /\ s[1] = -Max({f[i].score : i \in G}) /\ s[2] = -Cardinality(G)
  /\ s[3] = Min({KindRank(f[i].kind) : i \in G}) /\ s[4] = f[Min(G)].value

(* Standing says how good the best of them is, and takes a value of theirs.   *)
LEMMA StandingIs ==
  ASSUME NEW f, Findings(f), NEW p \in {0, 1}, Saying(f, p) # {}
  PROVE  LET G == Saying(f, p)
             s == Standing(f, G)
         IN  /\ Numerals(s, 4) /\ StandsAt(f, G, s)
             /\ s[4] % 2 = p /\ s[4] \in {f[i].value : i \in G}
             /\ \A i \in G : f[i].score =< -s[1]
             /\ \E i \in G : f[i].score = -s[1]
<1>. DEFINE G == Saying(f, p)
            s == Standing(f, G)
            scores == {f[i].score : i \in G}
            ranks == {KindRank(f[i].kind) : i \in G}
            top == Max(scores)   count == Cardinality(G)   rank == Min(ranks)   value == f[Min(G)].value
<1>0. FullScore \in Nat
  BY DEF FullScore
<1>1. s = <<-top, -count, rank, value>>
  BY DEF Standing, betterGroup
<1>2. DOMAIN s = 1 .. 4 /\ s[1] = -top /\ s[2] = -count /\ s[3] = rank /\ s[4] = value
  <2>. HIDE DEF top, count, rank, value, s
  <2>. QED  BY <1>1
<1>3. top \in scores /\ \A x \in scores : top >= x
  <2>1. scores \subseteq 0 .. FullScore /\ scores # {} /\ FullScore \in Nat
    BY <1>0, FindingIs
  <2>. HIDE DEF scores
  <2>. QED  BY <2>1, MaxIs
<1>4. rank \in 1 .. 11
  <2>1. ranks \subseteq 1 .. 11 /\ ranks # {}
    BY KindRankIs
  <2>. HIDE DEF ranks
  <2>2. ranks \subseteq Nat
    BY <2>1
  <2>. QED  BY <2>1, <2>2, MinIs
<1>5. Min(G) \in G
  <2>1. G \subseteq Nat /\ G # {}
    BY FindingIs
  <2>. HIDE DEF G
  <2>. QED  BY <2>1, MinIs
<1>6. count \in Nat
  BY SayingIsFinite
<1>7. value \in 1 .. 3 /\ value % 2 = p /\ value \in {f[i].value : i \in G}
  BY <1>5, FindingIs
<1>8. \A x \in scores : x \in Nat
  BY <1>0, FindingIs
<1>9. /\ \A i \in G : f[i].score =< top
      /\ \E i \in G : f[i].score = top
      /\ top \in Nat
  BY <1>3, <1>8
<1>. HIDE DEF s, top, count, rank, value
<1>10. Numerals(s, 4)
  BY <1>2, <1>4, <1>6, <1>7, <1>9 DEF Numerals
<1>11. StandsAt(f, G, s)
  BY <1>2 DEF StandsAt, top, count, rank, value
<1>12. -s[1] = top
  BY <1>2, <1>9
<1>. QED  BY <1>2, <1>7, <1>9, <1>10, <1>11, <1>12 DEF s

(* Of the two things that can be said, the one that is better supported.     *)
Wins(f, p) ==
  /\ Saying(f, p) # {}
  /\ Saying(f, 1 - p) # {} => Before(Standing(f, Saying(f, p)), Standing(f, Saying(f, 1 - p)))

GroupsOf(f) == {{j \in Said(f) : Says(f[j].value) = Says(f[i].value)} : i \in Said(f)}

(* The findings are grouped by what they say.                                 *)
LEMMA GroupsAre ==
  ASSUME NEW f, Findings(f)
  PROVE  /\ \A G \in GroupsOf(f) : \E p \in {0, 1} : G = Saying(f, p) /\ G # {}
         /\ \A p \in {0, 1} : Saying(f, p) # {} => Saying(f, p) \in GroupsOf(f)
<1>1. ASSUME NEW G \in GroupsOf(f) PROVE \E p \in {0, 1} : G = Saying(f, p) /\ G # {}
  <2>1. PICK i \in Said(f) : G = {j \in Said(f) : Says(f[j].value) = Says(f[i].value)}
    BY DEF GroupsOf
  <2>2. PICK p \in {0, 1} : i \in Saying(f, p) /\ Says(f[i].value) = p
    BY SaidIs
  <2>3. G = Saying(f, p)
    BY <2>1, <2>2 DEF Saying
  <2>. QED  BY <2>2, <2>3
<1>2. ASSUME NEW p \in {0, 1}, Saying(f, p) # {} PROVE Saying(f, p) \in GroupsOf(f)
  <2>1. PICK i \in Saying(f, p) : TRUE
    BY <1>2
  <2>2. i \in Said(f) /\ Saying(f, p) = {j \in Said(f) : Says(f[j].value) = Says(f[i].value)}
    BY DEF Saying
  <2>. QED  BY <2>2 DEF GroupsOf
<1>. QED  BY <1>1, <1>2

(* One of the two wins, and is the group that mergeDocumentFindings takes.    *)
LEMMA OneSideWins ==
  ASSUME NEW f, Findings(f), Said(f) # {}
  PROVE  \E p \in {0, 1} : /\ Wins(f, p)
                           /\ FirstByRank(GroupsOf(f), [G \in GroupsOf(f) |-> Standing(f, G)]) = Saying(f, p)
<1>. DEFINE groups == GroupsOf(f)
            rank == [G \in groups |-> Standing(f, G)]
            w == FirstByRank(groups, rank)
<1>1. /\ \A G \in groups : \E p \in {0, 1} : G = Saying(f, p) /\ G # {}
      /\ \A p \in {0, 1} : Saying(f, p) # {} => Saying(f, p) \in groups
  BY GroupsAre
<1>. HIDE DEF groups
<1>2. \A G \in groups : rank[G] = Standing(f, G)
  OBVIOUS
<1>. HIDE DEF rank
<1>3. PICK q \in {0, 1} : Saying(f, q) # {}
  BY SaidIs
<1>4. 1 - q \in {0, 1} /\ 1 - q # q /\ \A p \in {0, 1} : p = q \/ p = 1 - q
  OBVIOUS
<1>5. ASSUME Saying(f, 1 - q) # {}
      PROVE  /\ Before(Standing(f, Saying(f, q)), Standing(f, Saying(f, 1 - q)))
                \/ Before(Standing(f, Saying(f, 1 - q)), Standing(f, Saying(f, q)))
             /\ Standing(f, Saying(f, q)) # Standing(f, Saying(f, 1 - q))
  <2>. DEFINE a == Standing(f, Saying(f, q))   b == Standing(f, Saying(f, 1 - q))
  <2>1. Numerals(a, 4) /\ a[4] % 2 = q
    BY <1>3, StandingIs
  <2>2. Numerals(b, 4) /\ b[4] % 2 = 1 - q
    BY <1>4, <1>5, StandingIs
  <2>. HIDE DEF a, b
  <2>3. a[4] # b[4]
    BY <1>4, <2>1, <2>2
  <2>4. 4 \in Nat /\ 4 \in 1 .. 4
    OBVIOUS
  <2>5. Before(a, b) \/ Before(b, a)
    BY <2>1, <2>2, <2>3, <2>4, FirstPlaceDecides
  <2>. QED  BY <2>3, <2>5 DEF a, b
<1>6. \E b \in groups : ComesFirst(groups, rank, b)
  <2>1. CASE Saying(f, 1 - q) = {}
    <3>1. groups = {Saying(f, q)}
      BY <1>1, <1>3, <1>4, <2>1
    <3>. QED  BY <3>1 DEF ComesFirst
  <2>2. CASE Saying(f, 1 - q) # {}
    <3>1. groups = {Saying(f, q), Saying(f, 1 - q)}
      BY <1>1, <1>3, <1>4, <2>2
    <3>2. ComesFirst(groups, rank, Saying(f, q)) \/ ComesFirst(groups, rank, Saying(f, 1 - q))
      BY <1>2, <1>5, <2>2, <3>1 DEF ComesFirst
    <3>. QED  BY <3>1, <3>2
  <2>. QED  BY <2>1, <2>2
<1>7. ComesFirst(groups, rank, w)
  BY <1>6, FirstByRankIs, Zenon
<1>. HIDE DEF w
<1>8. PICK p \in {0, 1} : w = Saying(f, p) /\ w # {}
  BY <1>1, <1>7 DEF ComesFirst
<1>9. ASSUME Saying(f, 1 - p) # {} PROVE Before(Standing(f, Saying(f, p)), Standing(f, Saying(f, 1 - p)))
  <2>1. 1 - p \in {0, 1} /\ (p = q \/ p = 1 - q) /\ 1 - (1 - q) = q
    BY <1>4
  <2>2. Standing(f, Saying(f, p)) # Standing(f, Saying(f, 1 - p))
    BY <1>3, <1>5, <1>8, <1>9, <2>1
  <2>3. Saying(f, 1 - p) \in groups /\ Saying(f, 1 - p) # w /\ w \in groups
    BY <1>1, <1>7, <1>8, <1>9, <2>1, <2>2 DEF ComesFirst
  <2>4. Before(rank[w], rank[Saying(f, 1 - p)]) \/ rank[w] = rank[Saying(f, 1 - p)]
    BY <1>7, <2>3 DEF ComesFirst
  <2>. QED  BY <1>2, <1>8, <2>2, <2>3, <2>4
<1>. QED  BY <1>8, <1>9 DEF Wins, w, rank, groups

(* What a finding's authority is made of. *)
LEMMA AuthorityIs ==
  ASSUME NEW f, Findings(f), NEW p \in {0, 1}, NEW i \in Saying(f, p)
  PROVE  LET a == Authority(f[i])
         IN  /\ Numerals(a, 3) /\ a = <<a[1], a[2], a[3]>>
             /\ -a[1] \in 0 .. FullScore /\ a[2] \in 1 .. 11 /\ a[3] \in 1 .. 3 /\ a[3] = f[i].value
<1>. DEFINE a == Authority(f[i])   score == f[i].score   rank == KindRank(f[i].kind)   value == f[i].value
<1>1. a = <<-score, rank, value>>
  BY DEF Authority
<1>2. DOMAIN a = 1 .. 3 /\ a[1] = -score /\ a[2] = rank /\ a[3] = value
  <2>. HIDE DEF score, rank, value, a
  <2>. QED  BY <1>1
<1>3. score \in 0 .. FullScore /\ rank \in 1 .. 11 /\ value \in 1 .. 3
  BY FindingIs, KindRankIs
<1>4. score \in Nat /\ -(-score) = score
  BY <1>3
<1>. HIDE DEF a, score, rank
<1>. QED  BY <1>1, <1>2, <1>3, <1>4 DEF Numerals, a

(* One of the findings that say the same is of the best authority.           *)
LEMMA OneIsBest ==
  ASSUME NEW f, Findings(f), NEW p \in {0, 1}, Saying(f, p) # {}
  PROVE  LET rank == [i \in Saying(f, p) |-> Authority(f[i])]
         IN  ComesFirst(Saying(f, p), rank, FirstByRank(Saying(f, p), rank))
<1>. DEFINE G == Saying(f, p)
            rank == [i \in G |-> Authority(f[i])]
            key(i) == 100 * (FullScore + rank[i][1]) + 4 * rank[i][2] + rank[i][3]
            S == {n \in Nat : \E i \in G : key(i) = n}
<1>1. \A i \in G : /\ Numerals(rank[i], 3) /\ rank[i] = <<rank[i][1], rank[i][2], rank[i][3]>>
                   /\ -rank[i][1] \in 0 .. FullScore /\ rank[i][2] \in 1 .. 11 /\ rank[i][3] \in 1 .. 3
  BY AuthorityIs
<1>. HIDE DEF rank, G
<1>2. FullScore \in Nat
  BY DEF FullScore
<1>3. \A i \in G : /\ rank[i][1] \in Int /\ rank[i][2] \in Int /\ rank[i][3] \in Int
                   /\ rank[i][2] \in 1 .. 11 /\ rank[i][3] \in 1 .. 3 /\ FullScore + rank[i][1] \in Nat
  <2>. SUFFICES ASSUME NEW i \in G
                PROVE  /\ rank[i][1] \in Int /\ rank[i][2] \in Int /\ rank[i][3] \in Int
                       /\ rank[i][2] \in 1 .. 11 /\ rank[i][3] \in 1 .. 3 /\ FullScore + rank[i][1] \in Nat
    OBVIOUS
  <2>1. 1 \in 1 .. 3
    OBVIOUS
  <2>2. rank[i][1] \in Int
    BY <1>1, <2>1 DEF Numerals
  <2>. QED  BY <1>1, <1>2, <2>2
<1>4. \A i \in G : key(i) \in Nat
  BY <1>3
<1>5. S \subseteq Nat /\ S # {} /\ (\A i \in G : key(i) \in S) /\ \A n \in S : \E i \in G : key(i) = n
  <2>. HIDE DEF key
  <2>. QED  BY <1>4 DEF G
<1>. HIDE DEF S
<1>6. PICK n \in S : \A m \in S : n =< m
  BY <1>5, Lowest
<1>7. PICK b \in G : key(b) = n
  BY <1>5
<1>8. ASSUME NEW i \in G PROVE Before(rank[b], rank[i]) \/ rank[b] = rank[i]
  <2>1. key(b) =< key(i)
    <3>. HIDE DEF key
    <3>. QED  BY <1>5, <1>6, <1>7
  <2>2. /\ rank[b][1] =< rank[i][1]
        /\ rank[b][1] = rank[i][1] => rank[b][2] =< rank[i][2]
        /\ rank[b][1] = rank[i][1] /\ rank[b][2] = rank[i][2] => rank[b][3] =< rank[i][3]
    BY <1>2, <1>3, <2>1, SMTT(30)
  <2>3. DOMAIN rank[b] = 1 .. 3
    BY <1>1 DEF Numerals
  <2>4. CASE rank[b][1] < rank[i][1]
    BY <2>3, <2>4 DEF Before
  <2>5. CASE rank[b][1] = rank[i][1] /\ rank[b][2] < rank[i][2]
    <3>1. 2 \in 1 .. 3 /\ \A j \in 1 .. (2 - 1) : rank[b][j] = rank[i][j]
      BY <2>5
    <3>. QED  BY <2>3, <2>5, <3>1 DEF Before
  <2>6. CASE rank[b][1] = rank[i][1] /\ rank[b][2] = rank[i][2] /\ rank[b][3] < rank[i][3]
    <3>1. 3 \in 1 .. 3 /\ \A j \in 1 .. (3 - 1) : rank[b][j] = rank[i][j]
      BY <2>6
    <3>. QED  BY <2>3, <2>6, <3>1 DEF Before
  <2>7. CASE rank[b][1] = rank[i][1] /\ rank[b][2] = rank[i][2] /\ rank[b][3] = rank[i][3]
    BY <1>1, <2>7
  <2>. QED  BY <1>3, <2>2, <2>4, <2>5, <2>6, <2>7
<1>9. ComesFirst(G, rank, b)
  BY <1>8 DEF ComesFirst
<1>10. ComesFirst(G, rank, FirstByRank(G, rank))
  BY <1>9, FirstByRankIs, Zenon
<1>. QED  BY <1>10 DEF G, rank

(* What is kept of findings: the value of the best finding of those that win. *)
Best(f, p, b) ==
  /\ b \in Saying(f, p)
  /\ \A i \in Saying(f, p) : Before(Authority(f[b]), Authority(f[i])) \/ Authority(f[b]) = Authority(f[i])

KeptValue(f, value) == \E p \in {0, 1} : Wins(f, p) /\ \E b \in Saying(f, p) : Best(f, p, b) /\ value = f[b].value

(* mergeDocumentFindings keeps such a value, and sees a disagreement exactly  *)
(* when both things were said.                                                *)
LEMMA MergeIs ==
  ASSUME NEW f, Findings(f)
  PROVE  LET merged == mergeDocumentFindings(f)
         IN  /\ Said(f) = {} => merged.value = Blank
             /\ Said(f) # {} => KeptValue(f, merged.value)
             /\ Said(f) # {} => (merged.disagreement <=> Saying(f, 0) # {} /\ Saying(f, 1) # {})
<1>. DEFINE said == Said(f)   groups == GroupsOf(f)
            ranks == [G \in groups |-> Standing(f, G)]
            winner == FirstByRank(groups, ranks)
            authorities == [i \in winner |-> Authority(f[i])]
            best == FirstByRank(winner, authorities)
            merged == mergeDocumentFindings(f)
            apart == Cardinality(groups) > 1
<1>1. merged = IF said = {} THEN [value |-> Blank, disagreement |-> FALSE]
               ELSE [value |-> f[best].value, disagreement |-> apart]
  BY DEF mergeDocumentFindings, Said, GroupsOf
<1>. HIDE DEF said, apart, best, merged
<1>2. said = {} => merged.value = Blank
  BY <1>1
<1>3. said # {} => merged.value = f[best].value /\ (merged.disagreement <=> apart)
  <2>. SUFFICES ASSUME said # {} PROVE merged.value = f[best].value /\ (merged.disagreement <=> apart)
    OBVIOUS
  <2>. DEFINE value == f[best].value
  <2>. HIDE DEF value
  <2>1. merged = [value |-> value, disagreement |-> apart]
    BY <1>1 DEF value
  <2>2. merged.value = value /\ merged.disagreement = apart
    BY <2>1
  <2>. QED  BY <2>2, Zenon DEF value
<1>4. ASSUME said # {} PROVE KeptValue(f, f[best].value)
  <2>1. PICK p \in {0, 1} : Wins(f, p) /\ winner = Saying(f, p)
    BY <1>4, OneSideWins DEF said
  <2>2. Saying(f, p) # {}
    BY <2>1 DEF Wins
  <2>. DEFINE G == Saying(f, p)
              rank == [i \in G |-> Authority(f[i])]
  <2>3. best = FirstByRank(G, rank)
    BY <2>1, Zenon DEF best
  <2>4. ComesFirst(G, rank, best)
    BY <2>2, <2>3, OneIsBest, Zenon
  <2>. HIDE DEF winner
  <2>5. \A i \in G : rank[i] = Authority(f[i])
    OBVIOUS
  <2>. HIDE DEF rank
  <2>6. Best(f, p, best)
    BY <2>4, <2>5 DEF ComesFirst, Best
  <2>. QED  BY <2>1, <2>6 DEF KeptValue, Best
<1>5. ASSUME said # {} PROVE apart <=> Saying(f, 0) # {} /\ Saying(f, 1) # {}
  <2>. DEFINE even == Saying(f, 0)   odd == Saying(f, 1)
  <2>1. /\ \A G \in groups : (G = even \/ G = odd) /\ G # {}
        /\ even # {} => even \in groups
        /\ odd # {} => odd \in groups
    BY GroupsAre
  <2>2. even # {} \/ odd # {}
    BY <1>4, <1>5, SaidIs DEF said
  <2>3. even \intersect odd = {}
    BY DEF Saying
  <2>. HIDE DEF even, odd, groups
  <2>4. CASE even # {} /\ odd # {}
    <3>1. groups = {even} \union {odd} /\ odd \notin {even}
      BY <2>1, <2>3, <2>4
    <3>2. IsFiniteSet({even}) /\ Cardinality({even}) = 1
      BY FS_Singleton
    <3>3. Cardinality({even} \union {odd}) = 1 + 1
      BY <3>1, <3>2, FS_AddElement
    <3>4. apart
      BY <3>1, <3>3 DEF apart
    <3>. QED  BY <2>4, <3>4 DEF even, odd
  <2>5. CASE even = {} \/ odd = {}
    <3>1. groups = {even} \/ groups = {odd}
      BY <2>1, <2>2, <2>5
    <3>2. Cardinality(groups) = 1
      BY <3>1, FS_Singleton
    <3>3. ~apart
      BY <3>2 DEF apart
    <3>. QED  BY <2>5, <3>3 DEF even, odd
  <2>. QED  BY <2>4, <2>5
<1>. QED  BY <1>2, <1>3, <1>4, <1>5 DEF said, merged

(* The same findings, read in another order.                                 *)
Shuffled(f, g, order) ==
  /\ DOMAIN g = DOMAIN f
  /\ \A i \in DOMAIN f : order[i] \in DOMAIN f /\ g[i] = f[order[i]]
  /\ \A j \in DOMAIN f : \E i \in DOMAIN f : order[i] = j
  /\ \A i, j \in DOMAIN f : order[i] = order[j] => i = j

(* A permutation of the places shuffles the findings.                         *)
LEMMA ShuffledIs ==
  ASSUME NEW f, Findings(f), NEW order \in Bijection(DOMAIN f, DOMAIN f)
  PROVE  LET g == [i \in DOMAIN f |-> f[order[i]]] IN Shuffled(f, g, order) /\ Findings(g)
<1>. DEFINE g == [i \in DOMAIN f |-> f[order[i]]]
            D == DOMAIN f
<1>1. /\ order \in [D -> D] /\ \A j \in D : \E i \in D : order[i] = j
      /\ \A i, j \in D : order[i] = order[j] => i = j
  <2>. HIDE DEF D
  <2>. QED  BY DEF Bijection, Injection, Surjection, IsInjective, D
<1>2. PICK n \in Nat : D = 1 .. n /\ \A i \in 1 .. n : f[i].value \in 0 .. 3 /\ f[i].score \in 0 .. FullScore
  BY DEF Findings
<1>4. DOMAIN g = D /\ \A i \in D : order[i] \in D /\ g[i] = f[order[i]]
  BY <1>1
<1>. HIDE DEF g, D
<1>8. Shuffled(f, g, order)
  BY <1>1, <1>4 DEF Shuffled, D
<1>9. Findings(g)
  <2>1. DOMAIN g = 1 .. n /\ \A i \in 1 .. n : order[i] \in 1 .. n /\ g[i] = f[order[i]]
    BY <1>2, <1>4
  <2>2. \A i \in 1 .. n : g[i].value \in 0 .. 3 /\ g[i].score \in 0 .. FullScore
    BY <1>2, <2>1, Zenon
  <2>. QED  BY <2>1, <2>2, Zenon DEF Findings
<1>. QED  BY <1>8, <1>9 DEF g

(* They say the same, as often, and stand as well: only whose spelling comes *)
(* first may change.                                                         *)
LEMMA SayingShuffled ==
  ASSUME NEW f, NEW g, NEW order, Findings(f), Shuffled(f, g, order), NEW p \in {0, 1}
  PROVE  /\ \A i \in Saying(g, p) : order[i] \in Saying(f, p) /\ g[i] = f[order[i]]
         /\ \A j \in Saying(f, p) : \E i \in Saying(g, p) : order[i] = j /\ g[i] = f[j]
         /\ Cardinality(Saying(g, p)) = Cardinality(Saying(f, p))
<1>. DEFINE G == Saying(f, p)   H == Saying(g, p)   moved == [i \in H |-> order[i]]
<1>1. \A i \in H : order[i] \in G /\ g[i] = f[order[i]] /\ i \in DOMAIN f
  BY DEF Shuffled, Saying, Said
<1>2. \A j \in G : \E i \in H : order[i] = j /\ g[i] = f[j]
  <2>. SUFFICES ASSUME NEW j \in G PROVE \E i \in H : order[i] = j /\ g[i] = f[j]
    OBVIOUS
  <2>1. j \in DOMAIN f /\ f[j].value # Blank /\ Says(f[j].value) = p
    BY DEF Saying, Said
  <2>2. PICK i \in DOMAIN f : order[i] = j
    BY <2>1, Zenon DEF Shuffled
  <2>4. g[i] = f[j] /\ DOMAIN g = DOMAIN f
    BY <2>2, Zenon DEF Shuffled
  <2>3. i \in H
    BY <2>1, <2>2, <2>4 DEF Saying, Said
  <2>. QED  BY <2>2, <2>3, <2>4
<1>3. \A i, j \in DOMAIN f : order[i] = order[j] => i = j
  BY DEF Shuffled
<1>4. IsFiniteSet(G)
  BY SayingIsFinite
<1>. HIDE DEF G, H
<1>5. moved \in [H -> G] /\ \A i \in H : moved[i] = order[i]
  BY <1>1
<1>. HIDE DEF moved
<1>6. moved \in Injection(H, G)
  BY <1>1, <1>3, <1>5 DEF Injection, IsInjective
<1>7. moved \in Surjection(H, G)
  BY <1>2, <1>5 DEF Surjection
<1>8. Cardinality(H) = Cardinality(G)
  BY <1>4, <1>6, <1>7, FS_Injection
<1>. QED  BY <1>1, <1>2, <1>8 DEF G, H

(* Of one spelling, they stand as they stood.                                 *)
LEMMA StandingShuffled ==
  ASSUME NEW f, NEW g, NEW order, Findings(f), Findings(g), Shuffled(f, g, order), NEW p \in {0, 1},
         Saying(f, p) # {}, \A i, j \in Saying(f, p) : f[i].value = f[j].value
  PROVE  Saying(g, p) # {} /\ Standing(g, Saying(g, p)) = Standing(f, Saying(f, p))
<1>. DEFINE G == Saying(f, p)   H == Saying(g, p)
            tops == {f[i].score : i \in G}   ranks == {KindRank(f[i].kind) : i \in G}
            others == {g[i].score : i \in H}   places == {KindRank(g[i].kind) : i \in H}
            top == Max(tops)   rank == Min(ranks)   first == f[Min(G)].value
            other == Max(others)   spot == Min(places)   one == g[Min(H)].value
            count == Cardinality(G)   much == Cardinality(H)
<1>1. /\ \A i \in H : order[i] \in G /\ g[i] = f[order[i]]
      /\ \A j \in G : \E i \in H : order[i] = j /\ g[i] = f[j]
      /\ much = count
  BY SayingShuffled
<1>2. H # {}
  BY <1>1
<1>3. Min(G) \in G
  <2>1. G \subseteq Nat /\ G # {}
    BY FindingIs
  <2>. HIDE DEF G
  <2>. QED  BY <2>1, MinIs
<1>4. Min(H) \in H
  <2>1. H \subseteq Nat /\ H # {}
    BY <1>2, FindingIs
  <2>. HIDE DEF H
  <2>. QED  BY <2>1, MinIs
<1>5. Standing(f, G) = <<-top, -count, rank, first>> /\ Standing(g, H) = <<-other, -much, spot, one>>
  BY DEF Standing, betterGroup
<1>. HIDE DEF G, H
<1>6. tops = others
  BY <1>1
<1>7. ranks = places
  BY <1>1
<1>8. first = one
  BY <1>1, <1>3, <1>4 DEF G
<1>. HIDE DEF tops, others, ranks, places
<1>9. top = other /\ rank = spot
  BY <1>6, <1>7
<1>. HIDE DEF top, other, rank, spot, first, one, count, much
<1>. QED  BY <1>1, <1>2, <1>5, <1>8, <1>9 DEF G, H, count, much

(* Where no more than two spellings were read, those that say the same as one *)
(* another are one, once somebody says something else.                        *)
OneSpelling(f) ==
  \A p \in {0, 1} : Saying(f, 1 - p) # {} => \A i, j \in Saying(f, p) : f[i].value = f[j].value

(* Three spellings are needed for two of them to say the same.                *)
LEMMA TwoSpellings ==
  ASSUME NEW f, Findings(f), {f[i].value : i \in Said(f)} # 1 .. 3
  PROVE  OneSpelling(f)
<1>. SUFFICES ASSUME NEW p \in {0, 1}, NEW k \in Saying(f, 1 - p), NEW i \in Saying(f, p), NEW j \in Saying(f, p),
                     f[i].value # f[j].value
              PROVE  FALSE
  BY DEF OneSpelling
<1>1. 1 - p \in {0, 1} /\ 1 - p # p
  OBVIOUS
<1>2. /\ f[i].value \in 1 .. 3 /\ f[i].value % 2 = p /\ i \in Said(f)
      /\ f[j].value \in 1 .. 3 /\ f[j].value % 2 = p /\ j \in Said(f)
      /\ f[k].value \in 1 .. 3 /\ f[k].value % 2 = 1 - p /\ k \in Said(f)
  BY <1>1, FindingIs
<1>3. {f[i].value, f[j].value, f[k].value} = 1 .. 3
  <2>. DEFINE a == f[i].value   b == f[j].value   c == f[k].value
  <2>1. a \in 1 .. 3 /\ b \in 1 .. 3 /\ c \in 1 .. 3 /\ a % 2 = p /\ b % 2 = p /\ c % 2 = 1 - p /\ a # b
    BY <1>2
  <2>. HIDE DEF a, b, c
  <2>2. (a = 1 \/ a = 3) /\ (b = 1 \/ b = 3) /\ c = 2
    BY <1>1, <2>1
  <2>3. {a, b, c} = {1, 2, 3}
    BY <2>1, <2>2
  <2>4. 1 .. 3 = {1, 2, 3}
    OBVIOUS
  <2>. QED  BY <2>3, <2>4 DEF a, b, c
<1>4. \A l \in Said(f) : f[l].value \in 1 .. 3
  BY SaidIs, FindingIs
<1>5. {f[l].value : l \in Said(f)} = 1 .. 3
  <2>. DEFINE all == {f[l].value : l \in Said(f)}   three == {f[i].value, f[j].value, f[k].value}
  <2>1. three \subseteq all
    BY <1>2
  <2>2. all \subseteq 1 .. 3
    BY <1>4
  <2>. HIDE DEF all, three
  <2>3. three = 1 .. 3
    BY <1>3 DEF three
  <2>. QED  BY <2>1, <2>2, <2>3 DEF all
<1>. QED  BY <1>5

(* The same side wins, in whatever order the findings were read.             *)
LEMMA SameSideWins ==
  ASSUME NEW f, NEW g, NEW order, Findings(f), Findings(g), Shuffled(f, g, order), OneSpelling(f),
         NEW p \in {0, 1}, Wins(f, p)
  PROVE  ~Wins(g, 1 - p)
<1>. SUFFICES ASSUME Wins(g, 1 - p) PROVE FALSE
  OBVIOUS
<1>1. 1 - p \in {0, 1} /\ 1 - (1 - p) = p
  OBVIOUS
<1>2. Saying(f, p) # {} /\ Saying(g, 1 - p) # {}
  BY DEF Wins
<1>3. Saying(f, 1 - p) # {}
  BY <1>1, <1>2, SayingShuffled
<1>4. /\ \A i, j \in Saying(f, p) : f[i].value = f[j].value
      /\ \A i, j \in Saying(f, 1 - p) : f[i].value = f[j].value
  <2>. DEFINE q == 1 - p
  <2>1. q \in {0, 1} /\ 1 - q = p
    OBVIOUS
  <2>. HIDE DEF q
  <2>2. \A i, j \in Saying(f, q) : f[i].value = f[j].value
    BY <1>2, <2>1 DEF OneSpelling
  <2>3. \A i, j \in Saying(f, p) : f[i].value = f[j].value
    BY <1>3 DEF OneSpelling
  <2>. QED  BY <2>2, <2>3 DEF q
<1>5. Saying(g, p) # {} /\ Standing(g, Saying(g, p)) = Standing(f, Saying(f, p))
  BY <1>2, <1>4, StandingShuffled
<1>6. Standing(g, Saying(g, 1 - p)) = Standing(f, Saying(f, 1 - p))
  <2>. DEFINE q == 1 - p
  <2>1. q \in {0, 1} /\ Saying(f, q) # {} /\ \A i, j \in Saying(f, q) : f[i].value = f[j].value
    BY <1>1, <1>3, <1>4
  <2>. HIDE DEF q
  <2>2. Standing(g, Saying(g, q)) = Standing(f, Saying(f, q))
    BY <2>1, StandingShuffled
  <2>. QED  BY <2>2 DEF q
<1>. DEFINE a == Standing(f, Saying(f, p))   b == Standing(f, Saying(f, 1 - p))
<1>7. Before(a, b)
  BY <1>3 DEF Wins
<1>8. Before(b, a)
  BY <1>1, <1>5, <1>6 DEF Wins
<1>9. Numerals(a, 4) /\ Numerals(b, 4)
  BY <1>1, <1>2, <1>3, StandingIs
<1>. HIDE DEF a, b
<1>10. 4 \in Nat
  OBVIOUS
<1>. QED  BY <1>7, <1>8, <1>9, <1>10, FirstPlaceDecides

(* And the same value is kept.                                               *)
LEMMA OrderDoesNotMatter ==
  ASSUME NEW f, NEW g, NEW order, Findings(f), Findings(g), Shuffled(f, g, order), OneSpelling(f),
         NEW v, NEW w, KeptValue(f, v), KeptValue(g, w)
  PROVE  v = w
<1>1. PICK p \in {0, 1} : Wins(f, p) /\ \E b \in Saying(f, p) : Best(f, p, b) /\ v = f[b].value
  BY DEF KeptValue
<1>2. PICK q \in {0, 1} : Wins(g, q) /\ \E c \in Saying(g, q) : Best(g, q, c) /\ w = g[c].value
  BY DEF KeptValue
<1>3. q = p
  <2>1. q = p \/ q = 1 - p
    OBVIOUS
  <2>2. ~Wins(g, 1 - p)
    BY <1>1, SameSideWins
  <2>. QED  BY <1>2, <2>1, <2>2
<1>4. PICK b \in Saying(f, p) : Best(f, p, b) /\ v = f[b].value
  BY <1>1
<1>5. PICK c \in Saying(g, p) : Best(g, p, c) /\ w = g[c].value
  BY <1>2, <1>3
<1>6. order[c] \in Saying(f, p) /\ g[c] = f[order[c]]
  BY SayingShuffled
<1>7. PICK d \in Saying(g, p) : g[d] = f[b]
  BY SayingShuffled
<1>. DEFINE first == Authority(f[b])   other == Authority(f[order[c]])
<1>8. Before(first, other) \/ first = other
  BY <1>4, <1>6 DEF Best
<1>9. Before(other, first) \/ first = other
  BY <1>5, <1>6, <1>7 DEF Best
<1>10. Numerals(first, 3) /\ first[3] = f[b].value
  BY AuthorityIs
<1>11. Numerals(other, 3) /\ other[3] = f[order[c]].value
  BY <1>6, AuthorityIs
<1>. HIDE DEF first, other
<1>12. 3 \in Nat
  OBVIOUS
<1>13. first = other
  BY <1>8, <1>9, <1>10, <1>11, <1>12, FirstPlaceDecides
<1>. QED  BY <1>4, <1>5, <1>6, <1>10, <1>11, <1>13

(* The sequences of a bounded length are sequences.                          *)
LEMMA SeqOfIs ==
  ASSUME NEW S, NEW m \in Nat
  PROVE  SeqOf(S, m) \subseteq Seq(S)
<1>. SUFFICES ASSUME NEW k \in 0 .. m, NEW s \in [1 .. k -> S] PROVE s \in Seq(S)
  BY DEF SeqOf
<1>1. k \in Nat
  OBVIOUS
<1>2. UNION {[1 .. n -> S] : n \in Nat} = Seq(S)
  BY SeqDef
<1>. QED  BY <1>1, <1>2, Zenon

(* A question about findings is of findings. *)
LEMMA FindingQuestionsAre ==
  ASSUME NEW q, q \in FindingQuestions
  PROVE  q.about = "findings" /\ Findings(q.findings) /\ q.answered \in BOOLEAN
<1>. DEFINE one == [value : Blank .. 3, score : Scores, kind : ReadKinds]
            alike == [value : 1 .. 3, score : {FullScore}, kind : {"NOTICE_OF_ASSESSMENT"}]
            some == SeqOf(one, MaxFindings)   more == SeqOf(alike, MaxFindings + 1)   few == SeqOf(alike, MaxFindings)
<1>1. \/ q \in [about : {"findings"}, findings : some \union more, answered : {FALSE}]
      \/ q \in [about : {"findings"}, findings : few, answered : {TRUE}]
  <2>1. FindingQuestions = [about : {"findings"}, findings : some \union more, answered : {FALSE}]
                           \union [about : {"findings"}, findings : few, answered : {TRUE}]
    BY Zenon DEF FindingQuestions
  <2>. HIDE DEF some, more, few
  <2>2. q \in FindingQuestions
    OBVIOUS
  <2>. QED  BY <2>1, <2>2
<1>2. MaxFindings \in Nat /\ MaxFindings + 1 \in Nat
  BY ExtractionAssumption
<1>4. FullScore \in Nat
  BY DEF FullScore
<1>5. /\ \A x \in one : x.value \in 0 .. 3 /\ x.score \in 0 .. FullScore
      /\ \A x \in alike : x.value \in 0 .. 3 /\ x.score \in 0 .. FullScore
  <2>. DEFINE any == 0 .. 3   full == 0 .. FullScore   three == 1 .. 3
  <2>1. Scores \subseteq full /\ FullScore \in full /\ three \subseteq any
    BY <1>4, ExtractionAssumption
  <2>2. one = [value : any, score : Scores, kind : ReadKinds]
    BY DEF Blank
  <2>3. alike = [value : three, score : {FullScore}, kind : {"NOTICE_OF_ASSESSMENT"}]
    OBVIOUS
  <2>. HIDE DEF one, alike, any, full, three
  <2>4. \A x \in one : x.value \in any /\ x.score \in Scores
    BY <2>2
  <2>5. \A x \in alike : x.value \in three /\ x.score = FullScore
    BY <2>3
  <2>. QED  BY <2>1, <2>4, <2>5, Zenon DEF any, full
<1>. HIDE DEF one, alike
<1>6. \A f \in Seq(one) : Findings(f)
  <2>. SUFFICES ASSUME NEW f \in Seq(one) PROVE Findings(f)
    OBVIOUS
  <2>1. Len(f) \in Nat /\ DOMAIN f = 1 .. Len(f) /\ \A i \in 1 .. Len(f) : f[i] \in one
    OBVIOUS
  <2>2. \A i \in 1 .. Len(f) : f[i].value \in 0 .. 3 /\ f[i].score \in 0 .. FullScore
    BY <1>5, <2>1, Zenon
  <2>. QED  BY <2>1, <2>2, Zenon DEF Findings
<1>7. \A f \in Seq(alike) : Findings(f)
  <2>. SUFFICES ASSUME NEW f \in Seq(alike) PROVE Findings(f)
    OBVIOUS
  <2>1. Len(f) \in Nat /\ DOMAIN f = 1 .. Len(f) /\ \A i \in 1 .. Len(f) : f[i] \in alike
    OBVIOUS
  <2>2. \A i \in 1 .. Len(f) : f[i].value \in 0 .. 3 /\ f[i].score \in 0 .. FullScore
    BY <1>5, <2>1, Zenon
  <2>. QED  BY <2>1, <2>2, Zenon DEF Findings
<1>8. some \subseteq Seq(one) /\ more \subseteq Seq(alike) /\ few \subseteq Seq(alike)
  BY <1>2, SeqOfIs
<1>. HIDE DEF some, more, few
<1>. QED  BY <1>1, <1>6, <1>7, <1>8

(* What is kept is worth as much as anything that was said.                  *)
LEMMA BestIsKept ==
  ASSUME NEW f, Findings(f), NEW v, KeptValue(f, v)
  PROVE  /\ \E i \in Said(f) : f[i].value = v
         /\ \E i \in Said(f) : /\ \A j \in Said(f) : f[i].score >= f[j].score
                              /\ Says(f[i].value) = Says(v)
         /\ Saying(f, 0) # {} /\ Saying(f, 1) # {} <=> \E i \in Said(f) : Says(f[i].value) # Says(v)
<1>1. PICK p \in {0, 1} : Wins(f, p) /\ \E b \in Saying(f, p) : Best(f, p, b) /\ v = f[b].value
  BY DEF KeptValue
<1>2. PICK b \in Saying(f, p) : v = f[b].value
  BY <1>1
<1>3. b \in Said(f) /\ Says(v) = p
  BY <1>2 DEF Saying
<1>. DEFINE q == 1 - p
<1>4. q \in {0, 1} /\ q # p /\ ((p = 0 /\ q = 1) \/ (p = 1 /\ q = 0))
  OBVIOUS
<1>5. Saying(f, p) # {} /\ (Saying(f, q) # {} => Before(Standing(f, Saying(f, p)), Standing(f, Saying(f, q))))
  BY <1>1 DEF Wins
<1>. HIDE DEF q
<1>. DEFINE a == Standing(f, Saying(f, p))   c == Standing(f, Saying(f, q))
<1>6. /\ Numerals(a, 4) /\ \A i \in Saying(f, p) : f[i].score =< -a[1]
      /\ \E i \in Saying(f, p) : f[i].score = -a[1]
  BY <1>5, StandingIs
<1>7. Saying(f, q) # {} => Numerals(c, 4) /\ \A i \in Saying(f, q) : f[i].score =< -c[1]
  BY <1>4, StandingIs
<1>8. Saying(f, q) # {} => Before(a, c)
  BY <1>5
<1>. HIDE DEF a, c
<1>9. PICK i \in Saying(f, p) : f[i].score = -a[1]
  BY <1>6
<1>10. \A j \in Said(f) : j \in Saying(f, p) \/ j \in Saying(f, q)
  BY <1>4, SaidIs
<1>11. \A j \in Saying(f, p) \union Saying(f, q) : f[j].score \in Nat
  <2>1. FullScore \in Nat
    BY DEF FullScore
  <2>2. \A j \in Saying(f, p) \union Saying(f, q) : f[j].score \in 0 .. FullScore
    BY <1>4, FindingIs
  <2>. QED  BY <2>1, <2>2
<1>12. ASSUME NEW j \in Said(f) PROVE f[i].score >= f[j].score
  <2>1. CASE j \in Saying(f, p)
    BY <1>6, <1>9, <1>11, <2>1
  <2>2. CASE j \in Saying(f, q)
    <3>1. Numerals(a, 4) /\ Numerals(c, 4) /\ Before(a, c) /\ f[j].score =< -c[1]
      BY <1>6, <1>7, <1>8, <2>2
    <3>2. 4 \in Nat /\ 4 > 0 /\ 1 \in 1 .. 4
      OBVIOUS
    <3>3. a[1] =< c[1]
      BY <3>1, <3>2, FirstPlaceDecides
    <3>4. a[1] \in Int /\ c[1] \in Int
      BY <3>1, <3>2 DEF Numerals
    <3>. QED  BY <1>9, <1>11, <2>2, <3>1, <3>3, <3>4
  <2>. QED  BY <1>10, <2>1, <2>2
<1>13. i \in Said(f) /\ Says(f[i].value) = Says(v)
  BY <1>3 DEF Saying
<1>14. Saying(f, q) # {} <=> \E j \in Said(f) : Says(f[j].value) # Says(v)
  BY <1>3, <1>4, <1>10 DEF Saying
<1>15. Saying(f, 0) # {} /\ Saying(f, 1) # {} <=> Saying(f, q) # {}
  BY <1>4, <1>5
<1>. QED  BY <1>2, <1>3, <1>12, <1>13, <1>14, <1>15

(* What is written of findings is what they amount to.                       *)
LEMMA MergedRightly ==
  ASSUME asked \in FindingQuestions, answer = writeFindings(asked)
  PROVE  MergedFairly
<1>. DEFINE f == asked.findings   merged == mergeDocumentFindings(f)
            kept == merged.value   apart == merged.disagreement   answered == asked.answered
            written == kept # Blank /\ ~answered
            value == IF written THEN kept ELSE Blank   wondered == written /\ apart
<1>1. Findings(f) /\ answered \in BOOLEAN
  BY FindingQuestionsAre
<1>2. answer.value = value /\ (answer.asked <=> wondered)
  <2>1. answer = [about |-> "findings", value |-> value, asked |-> wondered]
    BY DEF writeFindings
  <2>. HIDE DEF value, wondered
  <2>2. answer.value = value /\ answer.asked = wondered
    BY <2>1
  <2>. QED  BY <2>2, Zenon
<1>3. /\ Said(f) = {} => kept = Blank
      /\ Said(f) # {} => KeptValue(f, kept)
      /\ Said(f) # {} => (apart <=> Saying(f, 0) # {} /\ Saying(f, 1) # {})
  BY <1>1, MergeIs
<1>. HIDE DEF kept, apart, answered
<1>4. CASE answered \/ Said(f) = {}
  <2>1. ~written
    BY <1>3, <1>4
  <2>2. answer.value = Blank /\ ~answer.asked
    BY <1>2, <2>1
  <2>. QED  BY <1>4, <2>2, Zenon DEF MergedFairly, Said, answered
<1>5. CASE ~answered /\ Said(f) # {}
  <2>1. KeptValue(f, kept) /\ (apart <=> Saying(f, 0) # {} /\ Saying(f, 1) # {})
    BY <1>3, <1>5
  <2>2. /\ \E i \in Said(f) : f[i].value = kept
        /\ \E i \in Said(f) : /\ \A j \in Said(f) : f[i].score >= f[j].score
                             /\ Says(f[i].value) = Says(kept)
        /\ apart <=> \E i \in Said(f) : Says(f[i].value) # Says(kept)
    <3>. HIDE DEF f
    <3>. QED  BY <1>1, <2>1, BestIsKept
  <2>3. kept # Blank
    BY <2>2 DEF Said
  <2>4. answer.value = kept /\ (answer.asked <=> apart)
    BY <1>2, <1>5, <2>3
  <2>5. ASSUME {f[i].value : i \in Said(f)} # 1 .. 3, NEW order \in Bijection(DOMAIN f, DOMAIN f)
        PROVE  mergeDocumentFindings([i \in DOMAIN f |-> f[order[i]]]).value = kept
    <3>. DEFINE g == [i \in DOMAIN f |-> f[order[i]]]   other == mergeDocumentFindings(g).value
    <3>. HIDE DEF f
    <3>1. Shuffled(f, g, order) /\ Findings(g)
      BY <1>1, ShuffledIs
    <3>. HIDE DEF g
    <3>2. Said(g) # {}
      <4>1. PICK j \in Said(f) : TRUE
        BY <1>5
      <4>2. j \in DOMAIN f /\ f[j].value # Blank
        BY DEF Said
      <4>3. PICK i \in DOMAIN f : order[i] = j
        BY <3>1, <4>2, Zenon DEF Shuffled
      <4>4. i \in DOMAIN g /\ g[i] = f[j]
        BY <3>1, <4>3, Zenon DEF Shuffled
      <4>. QED  BY <4>2, <4>4 DEF Said
    <3>3. KeptValue(g, other)
      BY <3>1, <3>2, MergeIs
    <3>4. OneSpelling(f)
      BY <1>1, <2>5, TwoSpellings
    <3>. HIDE DEF other
    <3>5. kept = other
      BY <1>1, <2>1, <3>1, <3>3, <3>4, OrderDoesNotMatter
    <3>. QED  BY <3>5 DEF other, g
  <2>. DEFINE said == {i \in DOMAIN f : f[i].value # Blank}
              best == {i \in said : \A j \in said : f[i].score >= f[j].score}
  <2>6. said = Said(f)
    BY DEF Said
  <2>7. /\ \E i \in said : f[i].value = kept
        /\ \E i \in best : Says(f[i].value) = Says(kept)
        /\ apart <=> \E i \in said : Says(f[i].value) # Says(kept)
    BY <2>2, <2>6
  <2>8. {f[i].value : i \in said} = 1 .. 3 \/ \A order \in Bijection(DOMAIN f, DOMAIN f) :
          mergeDocumentFindings([i \in DOMAIN f |-> f[order[i]]]).value = kept
    BY <2>5, <2>6
  <2>9. ~(answered \/ said = {})
    BY <1>5, <2>6
  <2>. QED  BY <2>4, <2>7, <2>8, <2>9, Zenon DEF MergedFairly, answered
<1>. QED  BY <1>1, <1>4, <1>5

(* The question says which kind of question it is.                            *)
LEMMA AboutWhat ==
  /\ \A q \in Questions : q.about = "fee" => q \in FeeQuestions
  /\ \A q \in Questions : q.about = "field" => q \in FieldQuestions
  /\ \A q \in Questions : q.about = "date" => q \in DateQuestions
  /\ \A q \in Questions : q.about = "documents" => q \in DocumentQuestions
  /\ \A q \in Questions : q.about = "kind" => q \in KindQuestions
  /\ \A q \in Questions : q.about = "findings" => q \in FindingQuestions
<1>1. \A q \in DateQuestions : q.about = "date"
  BY DEF DateQuestions
<1>2. \A q \in DocumentQuestions : q.about = "documents"
  BY DEF DocumentQuestions
<1>3. \A q \in KindQuestions : q.about = "kind"
  BY KindQuestionsAre
<1>4. \A q \in FindingQuestions : q.about = "findings"
  BY FindingQuestionsAre
<1>5. \A q \in FeeQuestions : q.about = "fee"
  BY DEF FeeQuestions
<1>6. \A q \in FieldQuestions : q.about = "field"
  BY FieldQuestionsAre
<1>. QED  BY <1>1, <1>2, <1>3, <1>4, <1>5, <1>6 DEF Questions

(* There is a date question to begin with.                                    *)
LEMMA SomeDate ==
  LET q == CHOOSE d \in DateQuestions : TRUE IN q \in DateQuestions /\ q.about = "date"
<1>1. DateRules # {}
  BY Zenon DEF DateRules
<1>2. PICK r \in DateRules : TRUE
  BY <1>1
<1>3. [about |-> "date", rule |-> r, given |-> None, fact |-> TRUE] \in DateQuestions
  BY DEF DateQuestions
<1>. QED  BY <1>3 DEF DateQuestions

(* Which rule a stored fee is of, and of what fee it is the successor. *)
FeeIsOf ==
  /\ answer.previousFee \in Nat \union {None}
  /\ LET rule == resolveRule(asked.rules, context)
     IN  answer.ruleId = IF rule = None THEN None ELSE rule.id

(* A question is one that can be asked, and an answer keeps the properties.   *)
EnquiryInv ==
  /\ asked.about = "fee" => asked \in FeeQuestions
  /\ asked.about = "field" => asked \in FieldQuestions
  /\ asked.about = "date" => asked \in DateQuestions
  /\ answer # None /\ asked.about = "fee" => FeeIsOf /\ FeeCanBeStored /\ NoQuietChange
  /\ NothingUnreadIsReady /\ DeadlineByTheRule

(* The rule found is on file, and no other row has its id.                    *)
LEMMA TheRuleIsOnFile ==
  ASSUME asked \in FeeQuestions, resolveRule(asked.rules, context) # None
  PROVE  LET rule == resolveRule(asked.rules, context)
         IN  /\ rule \in FeeRules
             /\ \A other \in ToSet(asked.rules) : other.id = rule.id => other = rule
<1>. DEFINE rules == asked.rules
            rule == resolveRule(rules, context)
            N == Len(rules)
<1>1. /\ N \in Nat /\ DOMAIN rules = 1 .. N /\ \A i \in 1 .. N : rules[i] \in FeeRules
      /\ \A i, j \in 1 .. N : i # j => rules[i].id # rules[j].id
  BY FeeQuestionsAre
<1>2. \A i \in 1 .. N : Comparable(rules[i]) /\ rules[i] # None
  BY <1>1, RulesOfTheFirm
<1>3. Stands(rule, rules, N)
  BY <1>1, <1>2, TheBestStands
<1>4. PICK k \in 1 .. N : rule = rules[k]
  BY <1>3 DEF Stands
<1>5. \A other \in ToSet(rules) : \E i \in 1 .. N : other = rules[i]
  BY <1>1 DEF ToSet
<1>. QED  BY <1>1, <1>4, <1>5

(* calculateAndPersistFee keeps what the fee promises.                        *)
LEMMA CalculateFeeKeeps ==
  ASSUME EnquiryInv, CalculateFee
  PROVE  (answer # None => FeeIsOf /\ FeeCanBeStored /\ NoQuietChange)'
<1>. DEFINE rule == resolveRule(asked.rules, context)
            previous == asked.previousFee
            fee == calculateFee(rule, previous, None, Threshold)
<1>1. asked' = asked /\ asked \in FeeQuestions /\ previous \in Nat \union {None}
  BY FeeQuestionsAre DEF EnquiryInv, CalculateFee
<1>2. CASE rule = None
  <2>1. answer' = Stored(None, None, FALSE, Blocked)
    BY <1>2 DEF CalculateFee
  <2>2. answer'.ruleId = None /\ answer'.previousFee = None /\ answer'.isBlocked
    BY <2>1 DEF Stored, Blocked
  <2>. QED  BY <1>1, <1>2, <2>2 DEF FeeIsOf, FeeCanBeStored, NoQuietChange
<1>3. CASE rule # None
  <2>1. answer' = Stored(rule.id, previous, FALSE, fee)
    BY <1>3 DEF CalculateFee
  <2>2. /\ answer'.ruleId = rule.id /\ answer'.previousFee = previous
        /\ answer'.isManualOverride = FALSE /\ answer'.isBlocked = fee.isBlocked
        /\ answer'.unroundedFee = fee.unroundedFee /\ answer'.roundedFee = fee.roundedFee
        /\ answer'.requiredApproval = fee.requiredApproval
    BY <2>1 DEF Stored
  <2>3. /\ rule \in FeeRules
        /\ \A other \in ToSet(asked.rules) : other.id = rule.id => other = rule
    BY <1>1, <1>3, TheRuleIsOnFile
  <2>4. Unrounded(rule, previous, None) \in Nat \union {None}
    BY <1>1, <2>3, RulesOfTheFirm, UnroundedIs
  <2>5. FeeIsOf'
    BY <1>1, <1>3, <2>2 DEF FeeIsOf
  <2>6. ASSUME ~fee.isBlocked
        PROVE  /\ fee.unroundedFee \in Nat /\ fee.roundedFee - fee.unroundedFee \in 0 .. 499
               /\ ~rule.skipRounding => fee.roundedFee % 500 = 0
               /\ previous \notin {None, 0} => Judged(fee, previous)
    <3>. HIDE DEF rule, previous
    <3>1. Amounts(rule, previous, fee)
      BY <1>1, <2>4, <2>6, AmountsAre
    <3>. HIDE DEF fee
    <3>. QED  BY <3>1 DEF Amounts
  <2>. HIDE DEF fee, rule
  <2>7. FeeCanBeStored'
    BY <1>1, <2>2, <2>3, <2>6 DEF FeeCanBeStored
  <2>8. NoQuietChange'
    BY <1>1, <2>2, <2>6 DEF NoQuietChange, Judged
  <2>. QED  BY <2>5, <2>7, <2>8
<1>. QED  BY <1>2, <1>3

(* overrideFee keeps it, for the fee it replaces.                             *)
LEMMA OverrideFeeKeeps ==
  ASSUME EnquiryInv, OverrideFee
  PROVE  (answer # None => FeeIsOf /\ FeeCanBeStored /\ NoQuietChange)'
<1>1. asked' = asked /\ asked \in FeeQuestions /\ FeeIsOf
  BY DEF EnquiryInv, OverrideFee
<1>. DEFINE previous == answer.previousFee
<1>2. PICK amount \in Overrides :
        answer' = Stored(answer.ruleId, previous, TRUE,
                         calculateFee([GlobalRule EXCEPT !.method = "EXACT_TARGET",
                                                         !.percentage = None, !.exactTarget = amount],
                                      previous, amount, Threshold))
  BY DEF OverrideFee
<1>. DEFINE rule == [GlobalRule EXCEPT !.method = "EXACT_TARGET",
                                       !.percentage = None, !.exactTarget = amount]
            fee == calculateFee(rule, previous, amount, Threshold)
<1>3. amount \in Nat /\ amount # None /\ previous \in Nat \union {None}
  BY <1>1, RulesAssumption DEF FeeIsOf
<1>4. ~rule.skipRounding
  <2>1. GlobalRule.skipRounding = FALSE /\ "skipRounding" \in DOMAIN GlobalRule
    BY DEF GlobalRule
  <2>. QED  BY <2>1, Zenon
<1>. HIDE DEF rule
<1>5. Unrounded(rule, previous, amount) \in Nat \union {None}
  BY <1>3 DEF Unrounded
<1>6. ASSUME ~fee.isBlocked
      PROVE  /\ fee.unroundedFee \in Nat /\ fee.roundedFee - fee.unroundedFee \in 0 .. 499
             /\ fee.roundedFee % 500 = 0
             /\ previous \notin {None, 0} => Judged(fee, previous)
  <2>1. ~calculateFee(rule, previous, amount, Threshold).isBlocked
    BY <1>6
  <2>2. Amounts(rule, previous, fee)
    BY <1>3, <1>5, <2>1, AmountsAre
  <2>. HIDE DEF fee
  <2>. QED  BY <1>4, <2>2 DEF Amounts
<1>7. /\ answer'.ruleId = answer.ruleId /\ answer'.previousFee = previous
      /\ answer'.isManualOverride = TRUE /\ answer'.isBlocked = fee.isBlocked
      /\ answer'.unroundedFee = fee.unroundedFee /\ answer'.roundedFee = fee.roundedFee
      /\ answer'.requiredApproval = fee.requiredApproval
  BY <1>2 DEF Stored, rule
<1>. HIDE DEF fee
<1>8. FeeIsOf'
  BY <1>1, <1>3, <1>7 DEF FeeIsOf
<1>9. FeeCanBeStored'
  BY <1>1, <1>6, <1>7 DEF FeeCanBeStored
<1>10. NoQuietChange'
  BY <1>1, <1>6, <1>7 DEF NoQuietChange, Judged
<1>. QED  BY <1>8, <1>9, <1>10

(* The letter and the check of the same rows agree.                           *)
LEMMA ReadFieldKeeps == ASSUME EnquiryInv, ReadField PROVE NothingUnreadIsReady'
<1>1. asked' = asked /\ asked \in FieldQuestions
  BY DEF EnquiryInv, ReadField
<1>2. PICK printed \in LetterValues(asked) :
        answer' = [about |-> "field", printed |-> printed.value, report |-> check(asked)]
  BY DEF ReadField
<1>3. /\ answer'.printed = printed.value
      /\ answer'.report.unchecked = Outstanding(asked) /\ answer'.report.undecided = Undecided(asked)
  BY <1>2 DEF check
<1>4. ~Outstanding(asked) /\ ~Undecided(asked) => VouchedFor(printed.value)
  BY <1>1, UnreadIsSeen
<1>. QED  BY <1>1, <1>3, <1>4 DEF NothingUnreadIsReady, VouchedFor

(* A question about a date is of a rule on file. *)
LEMMA DateQuestionsAre ==
  ASSUME NEW q \in DateQuestions
  PROVE  q.rule \in DateRules /\ q.given \in Nat \union {None}
<1>1. FirstDay .. LastDay \subseteq Nat
  BY RulesAssumption
<1>. QED  BY <1>1 DEF DateQuestions

(* evaluateDateRule answers with the day its rule's words mean. *)
LEMMA EvaluateDateKeeps == ASSUME EnquiryInv, EvaluateDate PROVE DeadlineByTheRule'
<1>. DEFINE rule == asked.rule   given == asked.given   fact == asked.fact
            result == evaluateDateRule(rule, given, fact)
<1>1. asked' = asked /\ answer' = result /\ rule \in DateRules /\ given \in Nat \union {None}
  BY DateQuestionsAre DEF EnquiryInv, EvaluateDate
<1>. HIDE DEF rule, given, fact
<1>2. /\ rule.branch \in {NoBranch, SelfEmployed, Qualifies}
      /\ rule.requiredFacts = {rule.branch.whenFact} \ {None}
  BY <1>1, DateRulesAre, Zenon DEF Reads
<1>3. result.isBlocked <=> given = None \/ (fact = None /\ rule.branch # NoBranch)
  BY <1>1, <1>2, EvaluationIs, Zenon
<1>4. ASSUME ~result.isBlocked PROVE Meant(rule.code, given, fact, result.result)
  <2>. DEFINE steps == IF rule.branch # NoBranch /\ fact = TRUE THEN rule.branch.steps ELSE rule.steps
              date == applySteps(resolveBase(rule, given), steps)
              day == IF rule.rollToBusinessDay THEN Rolled(date) ELSE date
  <2>1. result.result = day
    BY <1>1, <1>2, <1>4, EvaluationIs, Zenon
  <2>2. given \in Nat
    BY <1>1, <1>3, <1>4
  <2>3. Meant(rule.code, given, fact, day)
    BY <1>1, <2>2, StepsLeadThere, Zenon
  <2>. HIDE DEF result, day
  <2>. QED  BY <2>1, <2>3
<1>. HIDE DEF result
<1>5. /\ (asked.rule)' = rule /\ (asked.given)' = given /\ (asked.fact)' = fact
  BY <1>1, SMTT(30) DEF rule, given, fact
<1>. QED  BY <1>1, <1>3, <1>4, <1>5 DEF DeadlineByTheRule

(* Every step of the rules keeps the invariant: the question never changes.   *)
LEMMA EnquiryInvStep == ASSUME EnquiryInv, RulesNext \/ UNCHANGED enquiry PROVE EnquiryInv'
<1>1. asked' = asked
  BY DEF RulesNext, enquiry, CalculateFee, OverrideFee, EvaluateDate, ReadField, JudgeDocuments,
         ReadDocument, MergeFindings
<1>2. CASE CalculateFee
  <2>1. asked.about = "fee"
    BY <1>2 DEF CalculateFee
  <2>. QED  BY <1>1, <1>2, <2>1, CalculateFeeKeeps DEF EnquiryInv, NothingUnreadIsReady, DeadlineByTheRule
<1>3. CASE OverrideFee
  <2>1. asked.about = "fee"
    BY <1>3 DEF OverrideFee
  <2>. QED  BY <1>1, <1>3, <2>1, OverrideFeeKeeps DEF EnquiryInv, NothingUnreadIsReady, DeadlineByTheRule
<1>4. CASE ReadField
  <2>1. asked.about = "field"
    BY <1>4 DEF ReadField
  <2>. QED  BY <1>1, <1>4, <2>1, ReadFieldKeeps DEF EnquiryInv, DeadlineByTheRule
<1>5. CASE EvaluateDate
  <2>1. asked.about = "date"
    BY <1>5 DEF EvaluateDate
  <2>. QED  BY <1>1, <1>5, <2>1, EvaluateDateKeeps DEF EnquiryInv, NothingUnreadIsReady
<1>6. CASE JudgeDocuments \/ ReadDocument \/ MergeFindings
  <2>1. asked.about \notin {"fee", "field", "date"}
    BY <1>6 DEF JudgeDocuments, ReadDocument, MergeFindings
  <2>. QED  BY <1>1, <2>1, SMTT(30) DEF EnquiryInv, NothingUnreadIsReady, DeadlineByTheRule
<1>7. CASE UNCHANGED enquiry
  BY <1>7 DEF enquiry, EnquiryInv, NothingUnreadIsReady, VouchedFor, FeeIsOf, FeeCanBeStored,
              NoQuietChange, DeadlineByTheRule
<1>. QED  BY <1>2, <1>3, <1>4, <1>5, <1>6, <1>7 DEF RulesNext

(* It holds before anything was answered.                                     *)
LEMMA EnquiryInvInit == Init => EnquiryInv
<1>. SUFFICES ASSUME Init PROVE EnquiryInv
  OBVIOUS
<1>1. asked \in Questions \/ (asked \in DateQuestions /\ asked.about = "date")
  BY SomeDate DEF Init
<1>2. answer = None
  BY DEF Init
<1>. QED  BY <1>1, <1>2, AboutWhat DEF EnquiryInv, NothingUnreadIsReady, DeadlineByTheRule

(* evaluateDateRule: a deadline is answered exactly when everything it       *)
(* depends on is known, and is the day the rule's words mean, in every year. *)
THEOREM DeadlinesAreByTheRule == Spec => []DeadlineByTheRule
<1>1. Init => EnquiryInv
  BY EnquiryInvInit
<1>2. EnquiryInv /\ [Stirs]_vars => EnquiryInv'
  BY OnePartSteps, EnquiryInvStep
<1>3. EnquiryInv => DeadlineByTheRule
  BY DEF EnquiryInv
<1>. QED  BY <1>1, <1>2, <1>3, PTL DEF Spec, Stirs

(* resolveRule, calculateFee, persist and override: the fee is the rule's    *)
(* that stands above all others, whatever order the rows come in, the        *)
(* database takes it, and it waits for a partner exactly when it should.     *)
THEOREM FeesAreByTheBook == Spec => []FeeByTheBook
<1>1. Init => EnquiryInv
  BY EnquiryInvInit
<1>2. EnquiryInv /\ [Stirs]_vars => EnquiryInv'
  BY OnePartSteps, EnquiryInvStep
<1>3. EnquiryInv => FeeByTheBook
  BY TheRuleStands DEF EnquiryInv, FeeByTheBook, FeeIsOf
<1>. QED  BY <1>1, <1>2, <1>3, PTL DEF Spec, Stirs

(* check against buildValues: nothing last year's letter alone vouches for   *)
(* is put before a reviewer unread.                                          *)
THEOREM UnreadIsAskedAbout == Spec => []NothingUnreadIsReady
<1>1. Init => EnquiryInv
  BY EnquiryInvInit
<1>2. EnquiryInv /\ [Stirs]_vars => EnquiryInv'
  BY OnePartSteps, EnquiryInvStep
<1>3. EnquiryInv => NothingUnreadIsReady
  BY DEF EnquiryInv
<1>. QED  BY <1>1, <1>2, <1>3, PTL DEF Spec, Stirs

(* What is answered of documents is what the functions of the scan make of    *)
(* the question.                                                              *)
AnsweredByTheScan ==
  /\ asked.about = "documents" =>
       /\ answer.selected = selectPriorYearDocument(asked.documents, asked.record)
       /\ answer.accepted = {i \in DOMAIN asked.documents :
                               decideBulkAccept(verifyCandidate(asked.documents[i], asked.record))}
  /\ asked.about = "kind" => answer = readDocument(asked)
  /\ asked.about = "findings" => answer = writeFindings(asked)

EvidenceInv == asked \in Questions /\ (answer # None => AnsweredByTheScan)

(* A scan that judges documents leaves what it makes of them.                 *)
LEMMA JudgeDocumentsAnswers == ASSUME JudgeDocuments PROVE AnsweredByTheScan'
<1>. DEFINE selected == selectPriorYearDocument(asked.documents, asked.record)
            accepted == {i \in DOMAIN asked.documents :
                           decideBulkAccept(verifyCandidate(asked.documents[i], asked.record))}
<1>1. /\ asked' = asked /\ asked.about = "documents"
      /\ answer' = [about |-> "documents", selected |-> selected, accepted |-> accepted]
  BY DEF JudgeDocuments
<1>. HIDE DEF selected, accepted
<1>2. answer'.selected = selected /\ answer'.accepted = accepted
  BY <1>1
<1>3. asked.about # "kind" /\ asked.about # "findings"
  BY <1>1
<1>. QED  BY <1>1, <1>2, <1>3 DEF AnsweredByTheScan, selected, accepted

(* Every step of the rules keeps the invariant: an answer to one of these     *)
(* questions is given once.                                                   *)
LEMMA EvidenceInvStep == ASSUME EvidenceInv, RulesNext \/ UNCHANGED enquiry PROVE EvidenceInv'
<1>1. asked' = asked
  BY DEF RulesNext, enquiry, CalculateFee, OverrideFee, EvaluateDate, ReadField, JudgeDocuments,
         ReadDocument, MergeFindings
<1>2. CASE CalculateFee \/ OverrideFee \/ ReadField \/ EvaluateDate
  <2>1. asked.about \notin {"documents", "kind", "findings"}
    BY <1>2 DEF CalculateFee, OverrideFee, ReadField, EvaluateDate
  <2>. QED  BY <1>1, <2>1 DEF EvidenceInv, AnsweredByTheScan
<1>3. CASE JudgeDocuments
  BY <1>1, <1>3, JudgeDocumentsAnswers DEF EvidenceInv
<1>4. CASE ReadDocument
  <2>1. asked.about = "kind" /\ answer' = readDocument(asked)
    BY <1>4 DEF ReadDocument
  <2>. QED  BY <1>1, <2>1 DEF EvidenceInv, AnsweredByTheScan
<1>5. CASE MergeFindings
  <2>1. asked.about = "findings" /\ answer' = writeFindings(asked)
    BY <1>5 DEF MergeFindings
  <2>. QED  BY <1>1, <2>1 DEF EvidenceInv, AnsweredByTheScan
<1>6. CASE UNCHANGED enquiry
  BY <1>6 DEF enquiry, EvidenceInv, AnsweredByTheScan
<1>. QED  BY <1>2, <1>3, <1>4, <1>5, <1>6 DEF RulesNext

(* It holds before anything was answered.                                     *)
LEMMA EvidenceInvInit == Init => EvidenceInv
<1>. SUFFICES ASSUME Init PROVE EvidenceInv
  OBVIOUS
<1>1. asked \in Questions \/ asked \in DateQuestions
  BY SomeDate DEF Init
<1>2. answer = None
  BY DEF Init
<1>. QED  BY <1>1, <1>2 DEF EvidenceInv, Questions

(* What the scan's functions make of a question is what the evidence says.    *)
LEMMA TheScanIsFair == EvidenceInv => ChosenOnEvidence
<1>. SUFFICES ASSUME EvidenceInv, answer # None PROVE ChosenOnEvidence
  BY DEF ChosenOnEvidence
<1>1. AnsweredByTheScan
  BY DEF EvidenceInv
<1>2. asked.about = "documents" => TheLetterStandsOut
  BY <1>1, AboutWhat, TheLetterIsFound DEF EvidenceInv, AnsweredByTheScan
<1>3. asked.about = "kind" => ReadForWhatItIs
  BY <1>1, AboutWhat, ReadRightly DEF EvidenceInv, AnsweredByTheScan
<1>4. asked.about = "findings" => MergedFairly
  BY <1>1, AboutWhat, MergedRightly DEF EvidenceInv, AnsweredByTheScan
<1>. QED  BY <1>2, <1>3, <1>4, Zenon DEF ChosenOnEvidence

(* selectPriorYearDocument, decideBulkAccept, classifyDocument, extract and   *)
(* mergeDocumentFindings: last year's letter is the one that stands out,      *)
(* however many documents the listing brings; each is read for what it is;    *)
(* and of what they say the best supported is kept, in whatever order they    *)
(* were read.                                                                 *)
THEOREM EvidenceDecides == Spec => []ChosenOnEvidence
<1>1. Init => EvidenceInv
  BY EvidenceInvInit
<1>2. EvidenceInv /\ [Stirs]_vars => EvidenceInv'
  BY OnePartSteps, EvidenceInvStep
<1>3. EvidenceInv => ChosenOnEvidence
  BY TheScanIsFair
<1>. QED  BY <1>1, <1>2, <1>3, PTL DEF Spec, Stirs

(***************************************************************************)
(* Connections.  A job that did not find Test Mode on began when it was    *)
(* off, and what it is given follows from what it found.                   *)
(***************************************************************************)
JobRecord ==
  job = [at |-> job.at, off |-> job.off, test |-> job.test, armed |-> job.armed,
         adapter |-> job.adapter, row |-> job.row]

ToProduction(row) == ~row.sandbox \/ (provider = "KARBON" /\ row.host = "production")

JobInv ==
  /\ JobRecord
  /\ job # Idling =>
       /\ ~job.test => job.off /\ ~pinned
       /\ job.armed => ~job.test
       /\ job.adapter = "real" /\ ToProduction(job.row) => ~job.test

LEMMA JobInvInit == WiringInit => JobInv
BY DEF WiringInit, JobInv, JobRecord, Idling

(* What is not the job's own leaves it alone, but for the note that Test   *)
(* Mode was turned off, which is turned off only where nothing pins it.    *)
LEMMA OthersLeaveTheJob ==
  ASSUME NEW a \in Admins,
         AskAdmin(a) \/ SavingConnection(a) \/ CheckingConnection(a) \/ Consenting(a) \/ Switching(a)
  PROVE  /\ UNCHANGED <<provider, pinned>>
         /\ \/ UNCHANGED job
            \/ job # Idling /\ ~pinned /\ job' = [job EXCEPT !.off = TRUE]
<1>1. CASE AskAdmin(a)
  BY <1>1 DEF AskAdmin
<1>2. CASE SavingConnection(a)
  BY <1>2 DEF SavingConnection, ReadTestModeForSave, ReadRowForSave, Save, RefuseSave, Left
<1>3. CASE CheckingConnection(a)
  BY <1>3 DEF CheckingConnection, ReadRowForCheck, RecordCheck, Clear, Left
<1>4. CASE Consenting(a)
  BY <1>4 DEF Consenting, LeaveForAdobe, ReturnFromAdobe, StoreGrant, Left
<1>5. CASE SwitchTestMode(a)
  BY <1>5 DEF SwitchTestMode, Left
<1>6. CASE SwitchSending(a)
  BY <1>6 DEF SwitchSending, Left
<1>. QED  BY <1>1, <1>2, <1>3, <1>4, <1>5, <1>6 DEF Switching

(* An adapter that writes to production is given to a job outside Test Mode. *)
LEMMA RealMeansOutOfTestMode ==
  ASSUME NEW row, NEW test,
         \/ provider = "KARBON" /\ KarbonAdapter(row, test) = "real"
         \/ provider # "KARBON" /\ AdobeAdapter(row, test) = "real",
         ToProduction(row)
  PROVE  ~test
<1>1. IsProduction(row)
  BY DEF IsProduction, ToProduction
<1>2. SUFFICES ASSUME test PROVE FALSE
  OBVIOUS
<1>3. CASE provider = "KARBON"
  BY <1>1, <1>2, <1>3 DEF KarbonAdapter
<1>4. CASE provider # "KARBON"
  BY <1>1, <1>2, <1>4 DEF AdobeAdapter
<1>. QED  BY <1>3, <1>4

LEMMA JobInvStep == ASSUME JobInv, WiringNext \/ UNCHANGED wiring PROVE JobInv'
<1>. USE DEF JobInv, JobRecord, ToProduction
<1>1. CASE UNCHANGED wiring
  BY <1>1 DEF wiring, Idling, Unconnected
<1>2. ASSUME NEW a \in Admins,
             AskAdmin(a) \/ SavingConnection(a) \/ CheckingConnection(a) \/ Consenting(a) \/ Switching(a)
      PROVE  JobInv'
  <2>1. /\ UNCHANGED <<provider, pinned>>
        /\ \/ UNCHANGED job
           \/ job # Idling /\ ~pinned /\ job' = [job EXCEPT !.off = TRUE]
    BY <1>2, OthersLeaveTheJob
  <2>. QED  BY <2>1 DEF Idling, Unconnected
<1>3. CASE BeginJob
  <2>1. job' = [at |-> "settings", off |-> ~InTestMode, test |-> InTestMode, armed |-> FALSE,
                adapter |-> "none", row |-> Unconnected]
    BY <1>3 DEF BeginJob, Idling
  <2>2. InTestMode \in BOOLEAN /\ (~InTestMode => ~pinned) /\ UNCHANGED pinned
    BY <1>3 DEF BeginJob, InTestMode
  <2>. QED  BY <2>1, <2>2
<1>4. CASE ReadSending
  <2>1. job # Idling
    BY <1>4 DEF ReadSending, Idling
  <2>2. /\ job' = [job EXCEPT !.at = "resolving", !.armed = ~job.test /\ sending]
        /\ UNCHANGED <<provider, pinned>>
    BY <1>4 DEF ReadSending
  <2>3. /\ JobRecord' /\ job'.off = job.off /\ job'.test = job.test /\ job'.adapter = job.adapter
        /\ job'.row = job.row /\ job'.armed = (~job.test /\ sending)
    BY <2>2
  <2>. QED  BY <2>1, <2>2, <2>3
<1>5. CASE Resolve
  <2>1. job # Idling
    BY <1>5 DEF Resolve, Idling
  <2>2. UNCHANGED <<provider, pinned>>
    BY <1>5 DEF Resolve
  <2>3. /\ job'.row = connection /\ job'.test = job.test /\ job'.off = job.off /\ job'.armed = job.armed
        /\ job'.adapter = IF provider = "KARBON" THEN KarbonAdapter(connection, job.test)
                          ELSE AdobeAdapter(connection, job.test)
        /\ JobRecord'
    BY <1>5 DEF Resolve
  <2>4. ASSUME job'.adapter = "real", ToProduction(connection) PROVE ~job.test
    BY <2>3, <2>4, RealMeansOutOfTestMode
  <2>. QED  BY <2>1, <2>2, <2>3, <2>4 DEF Unconnected, Idling
<1>6. CASE FinishJob
  BY <1>6 DEF FinishJob, Idling
<1>. QED  BY <1>1, <1>2, <1>3, <1>4, <1>5, <1>6 DEF WiringNext

(* A job that can write to production, or reads sending as armed, is one   *)
(* that found Test Mode off: resolveProviders and testModeState, whatever  *)
(* administrators do to the connection and the switches between its reads. *)
THEOREM TestModeIsStructural == Spec => []TestModeHolds
<1>1. Init => JobInv
  BY JobInvInit DEF Init
<1>2. JobInv /\ [Stirs]_vars => JobInv'
  BY JobInvStep, OnePartSteps
<1>3. JobInv => TestModeHolds
  BY DEF JobInv, TestModeHolds, ToProduction, Idling
<1>. QED  BY <1>1, <1>2, <1>3, PTL DEF Spec, Stirs

(***************************************************************************)
(* Rollout.  A letter is drafted by its row, which is of one key; so what  *)
(* was drafted, and what is about to be, is paid for by the row that is    *)
(* there or by one that was purged.                                        *)
(***************************************************************************)
RowStates == {"none", "pending", "succeeded"}
LetterRow(e) == generation[<<e, OneKey>>]
ToDraft(e) == IF LetterRow(e) = "pending" THEN 1 ELSE 0
RowOfIts(e) == IF LetterRow(e) = "none" THEN 0 ELSE 1

RolloutInv ==
  /\ generation \in [GenerationKeys -> RowStates]
  /\ drafted \in [Letters -> Nat] /\ purges \in Nat
  /\ \A e \in Letters, b \in Batches : generation[<<e, b>>] = "none"
  /\ \A e \in Letters : drafted[e] + ToDraft(e) =< purges + RowOfIts(e)

LEMMA RolloutInvInit == RolloutInit => RolloutInv
BY RolloutAssumption DEF RolloutInit, RolloutInv, GenerationKeys, RowStates, LetterRow, ToDraft, RowOfIts

LEMMA RolloutInvStep == ASSUME RolloutInv, RolloutNext \/ UNCHANGED rollout PROVE RolloutInv'
<1>1. CASE UNCHANGED <<generation, drafted, purges>>
  BY <1>1 DEF RolloutInv, LetterRow, ToDraft, RowOfIts
<1>2. CASE UNCHANGED rollout \/ Work \/ Submitting \/ ClaimItem
  BY <1>1, <1>2 DEF rollout, rolloutRows, Work, Submitting, SubmitRollout, Evaluate, QueueItem, ClerkGoes, ClaimItem
<1>3. CASE Expand
  <2>1. PICK k \in ItemKeys : generation' = Queue(generation, GenerationKey(k[1], k[2]))
    BY <1>3 DEF Expand
  <2>2. k[1] \in Letters \/ k[2] \in Letters
    BY DEF ItemKeys
  <2>. DEFINE key == GenerationKey(k[1], k[2])
  <2>3. key \in GenerationKeys /\ key[2] = OneKey /\ UNCHANGED <<drafted, purges>>
    BY <1>3 DEF Expand, GenerationKey, GenerationKeys, ItemKeys
  <2>4. generation' = IF generation[key] = "none" THEN [generation EXCEPT ![key] = "pending"] ELSE generation
    BY <2>1 DEF Queue
  <2>5. \A g \in GenerationKeys : generation'[g] = generation[g] \/ (g = key /\ generation[g] = "none" /\ generation'[g] = "pending")
    BY <2>3, <2>4 DEF RolloutInv
  <2>6. generation' \in [GenerationKeys -> RowStates]
    BY <2>3, <2>4 DEF RolloutInv, RowStates
  <2>. HIDE DEF key
  <2>7. ASSUME NEW e \in Letters, NEW b \in Batches PROVE generation'[<<e, b>>] = "none"
    <3>1. <<e, b>> \in GenerationKeys /\ <<e, b>>[2] = b /\ b # OneKey
      BY RolloutAssumption DEF GenerationKeys
    <3>. QED  BY <3>1, <2>3, <2>5 DEF RolloutInv
  <2>8. ASSUME NEW e \in Letters PROVE (drafted[e] + ToDraft(e) =< purges + RowOfIts(e))'
    <3>1. <<e, OneKey>> \in GenerationKeys
      BY DEF GenerationKeys
    <3>2. drafted[e] \in Nat /\ purges \in Nat /\ drafted[e] + ToDraft(e) =< purges + RowOfIts(e)
      BY DEF RolloutInv
    <3>. QED  BY <3>1, <3>2, <2>3, <2>5 DEF LetterRow, ToDraft, RowOfIts
  <2>. QED  BY <2>3, <2>6, <2>7, <2>8 DEF RolloutInv
<1>4. CASE Generate
  <2>1. PICK g \in GenerationKeys : /\ generation[g] = "pending" /\ generation' = [generation EXCEPT ![g] = "succeeded"]
                                    /\ drafted' = [drafted EXCEPT ![g[1]] = @ + 1]
    BY <1>4 DEF Generate
  <2>2. UNCHANGED purges
    BY <1>4 DEF Generate
  <2>3. g[1] \in Letters /\ g = <<g[1], OneKey>>
    BY <2>1 DEF GenerationKeys, RolloutInv
  <2>4. /\ generation' \in [GenerationKeys -> RowStates] /\ drafted' \in [Letters -> Nat]
        /\ \A h \in GenerationKeys : generation'[h] = IF h = g THEN "succeeded" ELSE generation[h]
        /\ \A e \in Letters : drafted'[e] = IF e = g[1] THEN drafted[e] + 1 ELSE drafted[e]
    BY <2>1, <2>3 DEF RolloutInv, RowStates
  <2>5. ASSUME NEW e \in Letters, NEW b \in Batches PROVE generation'[<<e, b>>] = "none"
    <3>1. <<e, b>> \in GenerationKeys /\ <<e, b>>[2] = b /\ b # OneKey
      BY RolloutAssumption DEF GenerationKeys
    <3>. QED  BY <3>1, <2>3, <2>4 DEF RolloutInv
  <2>6. ASSUME NEW e \in Letters PROVE (drafted[e] + ToDraft(e) =< purges + RowOfIts(e))'
    <3>1. <<e, OneKey>> \in GenerationKeys /\ (<<e, OneKey>> = g <=> e = g[1])
      BY <2>3 DEF GenerationKeys
    <3>2. drafted[e] \in Nat /\ purges \in Nat /\ drafted[e] + ToDraft(e) =< purges + RowOfIts(e)
      BY DEF RolloutInv
    <3>. QED  BY <3>1, <3>2, <2>1, <2>2, <2>4 DEF LetterRow, ToDraft, RowOfIts
  <2>. QED  BY <2>2, <2>4, <2>5, <2>6 DEF RolloutInv
<1>5. CASE PurgeRows
  <2>1. purges' = purges + 1 /\ UNCHANGED drafted
    BY <1>5 DEF PurgeRows
  <2>2. \/ UNCHANGED generation
        \/ \E g \in GenerationKeys : generation[g] = "succeeded" /\ generation' = [generation EXCEPT ![g] = "none"]
    BY <1>5 DEF PurgeRows
  <2>3. /\ generation' \in [GenerationKeys -> RowStates]
        /\ \A h \in GenerationKeys : generation'[h] = generation[h] \/ (generation[h] = "succeeded" /\ generation'[h] = "none")
    BY <2>2 DEF RolloutInv, RowStates
  <2>4. ASSUME NEW e \in Letters, NEW b \in Batches PROVE generation'[<<e, b>>] = "none"
    <3>1. <<e, b>> \in GenerationKeys
      BY DEF GenerationKeys
    <3>. QED  BY <3>1, <2>3 DEF RolloutInv
  <2>5. ASSUME NEW e \in Letters PROVE (drafted[e] + ToDraft(e) =< purges + RowOfIts(e))'
    <3>1. <<e, OneKey>> \in GenerationKeys
      BY DEF GenerationKeys
    <3>2. drafted[e] \in Nat /\ purges \in Nat /\ drafted[e] + ToDraft(e) =< purges + RowOfIts(e)
      BY DEF RolloutInv
    <3>. QED  BY <3>1, <3>2, <2>1, <2>3 DEF LetterRow, ToDraft, RowOfIts
  <2>. QED  BY <2>1, <2>3, <2>4, <2>5 DEF RolloutInv
<1>. QED  BY <1>2, <1>3, <1>4, <1>5 DEF RolloutNext

(* No engagement is drafted a second time by another batch, a page         *)
(* submitted twice or a worker that dies between queueing a letter and     *)
(* settling its item; every purge of an old row allows one more.           *)
THEOREM OneDraftPerEngagement == Spec => []OneDraftEach
<1>1. Init => RolloutInv
  BY RolloutInvInit DEF Init
<1>2. RolloutInv /\ [Stirs]_vars => RolloutInv'
  BY RolloutInvStep, OnePartSteps
<1>3. RolloutInv => OneDraftEach
  <2>1. SUFFICES ASSUME RolloutInv, NEW e \in Letters PROVE drafted[e] =< 1 + purges
    BY DEF OneDraftEach
  <2>2. /\ drafted[e] \in Nat /\ purges \in Nat /\ drafted[e] + ToDraft(e) =< purges + RowOfIts(e)
        /\ ToDraft(e) \in {0, 1} /\ RowOfIts(e) \in {0, 1}
    BY <2>1 DEF RolloutInv, ToDraft, RowOfIts
  <2>. QED  BY <2>2
<1>. QED  BY <1>1, <1>2, <1>3, PTL DEF Spec, Stirs

(***************************************************************************)
(* KarbonClient.  Lists first: what is in one, and what is left of it.     *)
(***************************************************************************)
LEMMA OneLess ==
  ASSUME NEW S, NEW s \in Seq(S), s # <<>>
  PROVE  /\ Tail(s) \in Seq(S) /\ Head(s) \in S
         /\ ToSet(s) = {Head(s)} \union ToSet(Tail(s))
         /\ Len(s) = 1 => ToSet(Tail(s)) = {}
         /\ Len(s) # 1 => Tail(s) # <<>>
<1>1. /\ Head(s) \in S /\ Tail(s) \in Seq(S) /\ Len(Tail(s)) = Len(s) - 1
      /\ \A i \in 1 .. Len(Tail(s)) : Tail(s)[i] = s[i + 1]
  BY HeadTailProperties
<1>2. Len(s) \in Nat \ {0} /\ DOMAIN s = 1 .. Len(s) /\ DOMAIN Tail(s) = 1 .. Len(s) - 1 /\ Head(s) = s[1]
  BY <1>1, EmptySeq, LenProperties
<1>3. ASSUME NEW x \in ToSet(s) PROVE x \in {Head(s)} \union ToSet(Tail(s))
  <2>1. PICK i \in 1 .. Len(s) : s[i] = x
    BY <1>2 DEF ToSet
  <2>2. CASE i = 1
    BY <1>2, <2>1, <2>2
  <2>3. CASE i # 1
    <3>1. i - 1 \in 1 .. Len(Tail(s)) /\ Tail(s)[i - 1] = x
      BY <1>1, <1>2, <2>1, <2>3
    <3>. QED  BY <3>1, <1>1, <1>2 DEF ToSet
  <2>. QED  BY <2>2, <2>3
<1>4. ASSUME NEW x \in {Head(s)} \union ToSet(Tail(s)) PROVE x \in ToSet(s)
  <2>1. CASE x = Head(s)
    BY <1>2, <2>1 DEF ToSet
  <2>2. CASE x \in ToSet(Tail(s))
    <3>1. PICK i \in 1 .. Len(s) - 1 : Tail(s)[i] = x
      BY <1>2, <2>2 DEF ToSet
    <3>2. i + 1 \in 1 .. Len(s) /\ s[i + 1] = x
      BY <1>1, <1>2, <3>1
    <3>. QED  BY <3>2, <1>2 DEF ToSet
  <2>. QED  BY <2>1, <2>2
<1>5. ASSUME Len(s) = 1 PROVE ToSet(Tail(s)) = {}
  <2>1. DOMAIN Tail(s) = {}
    BY <1>2, <1>5
  <2>. QED  BY <2>1 DEF ToSet
<1>6. ASSUME Tail(s) = <<>> PROVE Len(s) = 1
  <2>1. Len(s) - 1 = 0
    BY <1>1, <1>6, EmptySeq
  <2>2. Len(s) \in Nat
    BY <1>2
  <2>. QED  BY <2>1, <2>2
<1>. QED  BY <1>1, <1>3, <1>4, <1>5, <1>6

LEMMA ListsJoin ==
  ASSUME NEW S, NEW s \in Seq(S), NEW t \in Seq(S)
  PROVE  /\ s \o t \in Seq(S) /\ Len(s \o t) = Len(s) + Len(t)
         /\ ToSet(s \o t) = ToSet(s) \union ToSet(t)
<1>1. /\ s \o t \in Seq(S) /\ Len(s \o t) = Len(s) + Len(t)
      /\ \A i \in 1 .. Len(s) + Len(t) : (s \o t)[i] = IF i <= Len(s) THEN s[i] ELSE t[i - Len(s)]
  BY ConcatProperties
<1>2. /\ Len(s) \in Nat /\ Len(t) \in Nat /\ DOMAIN s = 1 .. Len(s) /\ DOMAIN t = 1 .. Len(t)
      /\ DOMAIN (s \o t) = 1 .. Len(s) + Len(t)
  BY <1>1, LenProperties
<1>. DEFINE both == s \o t
<1>3. /\ DOMAIN both = 1 .. Len(s) + Len(t)
      /\ \A i \in 1 .. Len(s) + Len(t) : both[i] = IF i <= Len(s) THEN s[i] ELSE t[i - Len(s)]
  BY <1>1, <1>2
<1>. HIDE DEF both
<1>4. ASSUME NEW x \in ToSet(both) PROVE x \in ToSet(s) \union ToSet(t)
  <2>1. PICK i \in 1 .. Len(s) + Len(t) : both[i] = x
    BY <1>3 DEF ToSet
  <2>2. CASE i =< Len(s)
    <3>1. i \in 1 .. Len(s) /\ s[i] = x
      BY <1>2, <1>3, <2>1, <2>2
    <3>. QED  BY <3>1, <1>2 DEF ToSet
  <2>3. CASE ~(i =< Len(s))
    <3>1. i - Len(s) \in 1 .. Len(t) /\ t[i - Len(s)] = x
      BY <1>2, <1>3, <2>1, <2>3
    <3>. QED  BY <3>1, <1>2 DEF ToSet
  <2>. QED  BY <2>2, <2>3
<1>5. ASSUME NEW x \in ToSet(s) PROVE x \in ToSet(both)
  <2>1. PICK i \in 1 .. Len(s) : s[i] = x
    BY <1>2 DEF ToSet
  <2>2. i \in 1 .. Len(s) + Len(t) /\ both[i] = x
    BY <1>2, <1>3, <2>1
  <2>. QED  BY <2>2, <1>3 DEF ToSet
<1>6. ASSUME NEW x \in ToSet(t) PROVE x \in ToSet(both)
  <2>1. PICK i \in 1 .. Len(t) : t[i] = x
    BY <1>2 DEF ToSet
  <2>2. i + Len(s) \in 1 .. Len(s) + Len(t) /\ ~(i + Len(s) =< Len(s)) /\ (i + Len(s)) - Len(s) = i
    BY <1>2, <2>1
  <2>3. both[i + Len(s)] = x
    BY <1>3, <2>1, <2>2
  <2>. QED  BY <2>2, <2>3, <1>3 DEF ToSet
<1>7. ToSet(both) = ToSet(s) \union ToSet(t)
  BY <1>4, <1>5, <1>6
<1>. QED  BY <1>1, <1>7 DEF both

(* The same by a name, for where the lists are known only by theirs.       *)
Joined(S, s, t) ==
  /\ s \o t \in Seq(S) /\ Len(s \o t) = Len(s) + Len(t)
  /\ ToSet(s \o t) = ToSet(s) \union ToSet(t)

LEMMA BothLists == ASSUME NEW S, NEW s \in Seq(S), NEW t \in Seq(S) PROVE Joined(S, s, t)
<1>1. /\ s \o t \in Seq(S) /\ Len(s \o t) = Len(s) + Len(t)
      /\ ToSet(s \o t) = ToSet(s) \union ToSet(t)
  BY ListsJoin
<1>. QED  BY <1>1 DEF Joined

LEMMA OneItem ==
  ASSUME NEW S, NEW x \in S
  PROVE  <<x>> \in Seq(S) /\ Len(<<x>>) = 1 /\ ToSet(<<x>>) = {x} /\ <<x>>[1] = x
BY DEF ToSet

(* Every element of a finite set is listed. *)
LEMMA AllListed ==
  ASSUME NEW S, IsFiniteSet(S)
  PROVE  SetToSeq(S) \in Seq(S) /\ ToSet(SetToSeq(S)) = S
<1>. DEFINE n == Cardinality(S)
            s == SetToSeq(S)
<1>1. n \in Nat /\ ExistsBijection(1 .. n, S)
  BY FS_CardinalityType
<1>2. \E f \in [1 .. n -> S] : IsInjective(f)
  BY <1>1 DEF ExistsBijection, Bijection, Injection
<1>3. s \in [1 .. n -> S] /\ IsInjective(s)
  BY <1>2 DEF SetToSeq
<1>. HIDE DEF s
<1>4. ToSet(s) \in SUBSET S
  BY <1>3 DEF ToSet
<1>5. DOMAIN s = 1 .. n
  BY <1>3
<1>6. s \in Bijection(1 .. n, ToSet(s))
  BY <1>3, <1>5 DEF ToSet, Bijection, Injection, Surjection
<1>7. Cardinality(ToSet(s)) = n
  BY <1>1, <1>6, FS_CountingElements DEF ExistsBijection
<1>8. ToSet(s) = S
  BY <1>4, <1>7, FS_Subset
<1>9. s \in Seq(S)
  BY <1>1, <1>3
<1>. QED  BY <1>8, <1>9 DEF s

(* One taken out of a list leaves the others where they can be found. *)
LEMMA OneTakenOut ==
  ASSUME NEW S, NEW s \in Seq(S), NEW i \in DOMAIN s
  PROVE  /\ RemoveAt(s, i) \in Seq(S)
         /\ \A x \in ToSet(s) : s[i] # x => x \in ToSet(RemoveAt(s, i))
<1>1. Len(s) \in Nat /\ DOMAIN s = 1 .. Len(s) /\ \A k \in 1 .. Len(s) : s[k] \in S
  BY LenProperties, ElementOfSeq
<1>. DEFINE before == SubSeq(s, 1, i - 1)
            after == SubSeq(s, i + 1, Len(s))
<1>2. /\ before \in Seq(S) /\ Len(before) = i - 1 /\ \A k \in 1 .. i - 1 : before[k] = s[k]
  <2>1. /\ before \in Seq(S) /\ Len(before) = IF 1 <= i - 1 THEN (i - 1) - 1 + 1 ELSE 0
        /\ \A k \in 1 .. (i - 1) - 1 + 1 : before[k] = s[1 + k - 1]
    BY <1>1, SubSeqProperties
  <2>. HIDE DEF before
  <2>. QED  BY <1>1, <2>1
<1>3. /\ after \in Seq(S) /\ Len(after) = Len(s) - i /\ \A k \in 1 .. Len(s) - i : after[k] = s[i + k]
  <2>1. /\ after \in Seq(S) /\ Len(after) = IF i + 1 <= Len(s) THEN Len(s) - (i + 1) + 1 ELSE 0
        /\ \A k \in 1 .. Len(s) - (i + 1) + 1 : after[k] = s[(i + 1) + k - 1]
    BY <1>1, SubSeqProperties
  <2>. HIDE DEF after
  <2>2. Len(after) = Len(s) - i /\ Len(s) - (i + 1) + 1 = Len(s) - i
    BY <1>1, <2>1
  <2>3. ASSUME NEW k \in 1 .. Len(s) - i PROVE after[k] = s[i + k]
    <3>1. (i + 1) + k - 1 = i + k
      BY <1>1
    <3>. QED  BY <2>1, <2>2, <3>1
  <2>. QED  BY <2>1, <2>2, <2>3
<1>. HIDE DEF before, after
<1>8. DOMAIN before = 1 .. i - 1 /\ DOMAIN after = 1 .. Len(s) - i
  BY <1>2, <1>3, LenProperties
<1>4. before \o after \in Seq(S) /\ ToSet(before \o after) = ToSet(before) \union ToSet(after)
  <2>1. Joined(S, before, after)
    BY <1>2, <1>3, BothLists
  <2>. QED  BY <2>1 DEF Joined
<1>5. ASSUME NEW k \in 1 .. Len(s), s[i] # s[k] PROVE s[k] \in ToSet(before) \union ToSet(after)
  <2>1. CASE k < i
    <3>1. k \in 1 .. i - 1 /\ before[k] = s[k]
      BY <1>1, <1>2, <2>1
    <3>. QED  BY <3>1, <1>8 DEF ToSet
  <2>2. CASE k > i
    <3>1. k - i \in 1 .. Len(s) - i /\ i + (k - i) = k
      BY <1>1, <2>2
    <3>2. after[k - i] = s[k]
      BY <1>3, <3>1
    <3>. QED  BY <3>1, <3>2, <1>8 DEF ToSet
  <2>. QED  BY <1>1, <1>5, <2>1, <2>2
<1>6. ASSUME NEW x \in ToSet(s), s[i] # x PROVE x \in ToSet(before) \union ToSet(after)
  BY <1>1, <1>5, <1>6 DEF ToSet
<1>. QED  BY <1>4, <1>6 DEF RemoveAt, before, after

(***************************************************************************)
(* What a call has read, and where the document is still to be found.      *)
(***************************************************************************)
Publishes == {"docx", "pdf", "note", "published"}
Syncs == Reading \union {"cataloguing", "finishing", "synced"}
IsShort(c) == c = [at |-> c.at, try |-> c.try]
IsSync(c) ==
  c = [at |-> c.at, try |-> c.try, left |-> c.left, contacts |-> c.contacts, listed |-> c.listed,
       skip |-> c.skip, found |-> c.found, failures |-> c.failures]
CallShape ==
  \/ call.at \in Publishes \union {"quiet"} /\ IsShort(call)
  \/ call.at \in Syncs /\ IsSync(call)

AnyArea == {OwnArea} \union People \union WorkItems
InOwnAreas == place = OwnArea \/ (record = "Organization" /\ place \in People)
PlaceInv == items \in Seq(WorkItems) /\ (InOwnAreas \/ place \in ToSet(items))

DraftInv ==
  /\ posted \in [Parts -> Nat]
  /\ honoured => \A p \in Parts : posted[p] =< 1
  /\ call.at \in {"pdf", "note", "published"} => posted["docx"] > 0
  /\ call.at \in {"note", "published"} => posted["pdf"] > 0
  /\ call.at = "published" => posted["note"] > 0

ListsInv ==
  /\ call.at \in Syncs => call.left \in Seq(AnyArea) /\ call.listed \in Seq(WorkItems) /\ call.skip \in Nat
  /\ call.at \in {"areas", "item_areas"} => call.left # <<>>
  /\ call.at = "contact" => record # "Organization"
  /\ call.at \in {"organization", "contact", "areas"} => call.listed = <<>> /\ call.skip = 0

(* While nothing failed and no item was taken away, the document has been   *)
(* found or is in what is still to be read.                                *)
Undisturbed == ~dropped /\ call.failures = {}
Ahead == \E j \in DOMAIN items : j > call.skip /\ items[j] = place
FoundInv ==
  /\ call.at = "areas" /\ Undisturbed => (InOwnAreas => call.found \/ place \in ToSet(call.left))
  /\ call.at = "search" /\ Undisturbed => (InOwnAreas => call.found)
  /\ call.at = "search" /\ Undisturbed => InOwnAreas \/ place \in ToSet(call.listed) \/ Ahead
  /\ call.at = "item_areas" /\ Undisturbed /\ ~Cut => call.found \/ place \in ToSet(call.left)
  /\ call.at = "cataloguing" /\ Undisturbed /\ ~Cut => call.found
  /\ call.at \in {"finishing", "synced"} /\ Undisturbed /\ ~Cut => catalogue
  /\ call.at = "synced" /\ recorded = "complete" => call.failures = {}

ClientInv == CallShape /\ PlaceInv /\ DraftInv /\ ListsInv /\ FoundInv

LEMMA ClientInvInit == ClientInit => ClientInv
<1>. SUFFICES ASSUME ClientInit PROVE ClientInv
  OBVIOUS
<1>1. call.at \in {"quiet", "docx"} /\ IsShort(call)
  BY DEF ClientInit, Quiet, ToPublish, IsShort
<1>2. items \in Seq(WorkItems)
  <2>1. PICK m \in 0 .. 2 : items \in [1 .. m -> WorkItems]
    BY DEF ClientInit, SeqOf
  <2>. QED  BY <2>1
<1>3. InOwnAreas \/ place \in ToSet(items)
  BY DEF ClientInit, InOwnAreas
<1>4. DraftInv
  BY <1>1 DEF ClientInit, DraftInv, Parts
<1>. QED  BY <1>1, <1>2, <1>3, <1>4
     DEF ClientInv, CallShape, Publishes, Syncs, Reading, PlaceInv, ListsInv, FoundInv

LEMMA ItemComesKeeps == ASSUME ClientInv, ItemComes PROVE ClientInv'
<1>1. PICK w \in WorkItems \ ToSet(items) : items' = <<w>> \o items
  BY DEF ItemComes
<1>2. UNCHANGED <<record, place, dropped, catalogue, recorded, posted, honoured, call>>
  BY DEF ItemComes
<1>3. /\ <<w>> \in Seq(WorkItems) /\ Len(<<w>>) = 1 /\ ToSet(<<w>>) = {w}
      /\ items \in Seq(WorkItems)
  BY OneItem DEF ClientInv, PlaceInv
<1>. DEFINE one == <<w>>
<1>11. one \in Seq(WorkItems) /\ Len(one) = 1 /\ ToSet(one) = {w} /\ items' = one \o items
  BY <1>1, <1>3
<1>. HIDE DEF one
<1>4. /\ items' \in Seq(WorkItems) /\ Len(items') = 1 + Len(items)
      /\ ToSet(items') = {w} \union ToSet(items)
  <2>1. /\ one \o items \in Seq(WorkItems) /\ Len(one \o items) = Len(one) + Len(items)
        /\ ToSet(one \o items) = ToSet(one) \union ToSet(items)
    <3>1. Joined(WorkItems, one, items)
      BY <1>3, <1>11, BothLists
    <3>. QED  BY <3>1 DEF Joined
  <2>. QED  BY <2>1, <1>11
<1>5. \A i \in 1 .. 1 + Len(items) : items'[i] = IF i <= 1 THEN one[i] ELSE items[i - 1]
  BY <1>3, <1>11, ConcatProperties, SMTT(30)
<1>6. /\ Len(items) \in Nat /\ DOMAIN items = 1 .. Len(items) /\ DOMAIN items' = 1 .. 1 + Len(items)
  BY <1>3, <1>4, LenProperties
<1>7. ASSUME call.at = "search", Ahead PROVE Ahead'
  <2>1. PICK j \in DOMAIN items : j > call.skip /\ items[j] = place
    BY <1>7 DEF Ahead
  <2>2. j + 1 \in 1 .. 1 + Len(items) /\ ~(j + 1 <= 1) /\ (j + 1) - 1 = j
    BY <1>6, <2>1
  <2>3. items'[j + 1] = place
    BY <1>5, <2>1, <2>2
  <2>4. j + 1 > call.skip
    BY <1>6, <1>7, <2>1 DEF ClientInv, ListsInv, Syncs, Reading
  <2>. QED  BY <1>2, <1>6, <2>2, <2>3, <2>4 DEF Ahead
<1>8. PlaceInv'
  BY <1>2, <1>4 DEF ClientInv, PlaceInv, InOwnAreas
<1>9. CallShape' /\ DraftInv' /\ ListsInv'
  BY <1>2 DEF ClientInv, CallShape, IsShort, IsSync, DraftInv, ListsInv
<1>10. FoundInv'
  BY <1>2, <1>7 DEF ClientInv, FoundInv, Undisturbed, InOwnAreas, Cut
<1>. QED  BY <1>8, <1>9, <1>10 DEF ClientInv

LEMMA ItemGoesKeeps == ASSUME ClientInv, ItemGoes PROVE ClientInv'
<1>1. PICK i \in DOMAIN items : items[i] # place /\ items' = RemoveAt(items, i)
  BY DEF ItemGoes
<1>2. dropped' /\ UNCHANGED <<record, place, catalogue, recorded, posted, honoured, call>>
  BY DEF ItemGoes
<1>3. items \in Seq(WorkItems)
  BY DEF ClientInv, PlaceInv
<1>4. items' \in Seq(WorkItems) /\ (place \in ToSet(items) => place \in ToSet(items'))
  BY <1>1, <1>3, OneTakenOut
<1>6. PlaceInv'
  BY <1>2, <1>4 DEF ClientInv, PlaceInv, InOwnAreas
<1>7. CallShape' /\ DraftInv' /\ ListsInv'
  BY <1>2 DEF ClientInv, CallShape, IsShort, IsSync, DraftInv, ListsInv
<1>8. FoundInv'
  BY <1>2 DEF ClientInv, FoundInv, Undisturbed
<1>. QED  BY <1>6, <1>7, <1>8 DEF ClientInv

(* A call that is tried again has read what it had read. *)
LEMMA TryAgainKeeps == ASSUME ClientInv, TryAgain PROVE ClientInv'
<1>1. call' = [call EXCEPT !.try = @ + 1] /\ UNCHANGED elsewhere /\ UNCHANGED <<dropped, catalogue, recorded, posted>>
  BY DEF TryAgain
<1>2. call.at \in Publishes \union {"quiet"} /\ IsShort(call) =>
        call'.at = call.at /\ IsShort(call')
  BY <1>1 DEF IsShort
<1>3. call.at \in Syncs /\ IsSync(call) =>
        /\ IsSync(call') /\ call'.at = call.at /\ call'.left = call.left /\ call'.listed = call.listed
        /\ call'.skip = call.skip /\ call'.found = call.found /\ call'.failures = call.failures
  BY <1>1 DEF IsSync
<1>4. CallShape' /\ call'.at = call.at
  BY <1>2, <1>3 DEF ClientInv, CallShape
<1>5. PlaceInv' /\ DraftInv' /\ (InOwnAreas' <=> InOwnAreas)
  BY <1>1, <1>4 DEF ClientInv, PlaceInv, InOwnAreas, DraftInv, elsewhere
<1>6. ListsInv' /\ FoundInv'
  <2>1. CASE call.at \in Syncs
    <3>1. IsSync(call)
      BY <2>1 DEF ClientInv, CallShape, Publishes, Syncs, Reading
    <3>2. UNCHANGED <<record, items, place>>
      BY <1>1 DEF elsewhere
    <3>. QED  BY <1>1, <1>3, <2>1, <3>1, <3>2
         DEF ClientInv, ListsInv, FoundInv, Undisturbed, InOwnAreas, Ahead, Cut
  <2>2. CASE call.at \notin Syncs
    BY <1>4, <2>2 DEF ListsInv, FoundInv, Syncs, Reading
  <2>. QED  BY <2>1, <2>2
<1>. QED  BY <1>4, <1>5, <1>6 DEF ClientInv

(* A step of a sync that has its lists in order is judged by what it found. *)
LEMMA SyncReads ==
  ASSUME ClientInv, call.at \in Syncs
  PROVE  /\ IsSync(call) /\ call.left \in Seq(AnyArea) /\ call.listed \in Seq(WorkItems) /\ call.skip \in Nat
         /\ items \in Seq(WorkItems)
BY DEF ClientInv, CallShape, ListsInv, PlaceInv, Syncs, Reading, Publishes

LEMMA SyncStepKeeps ==
  ASSUME ClientInv, UNCHANGED elsewhere, UNCHANGED posted,
         IsSync(call'), call'.at \in Syncs, ListsInv', FoundInv'
  PROVE  ClientInv'
<1>1. PlaceInv'
  BY DEF ClientInv, PlaceInv, InOwnAreas, elsewhere
<1>2. DraftInv'
  BY DEF ClientInv, DraftInv, elsewhere, Syncs, Reading
<1>. QED  BY <1>1, <1>2 DEF ClientInv, CallShape

LEMMA StartsOver ==
  ASSUME ClientInv, UNCHANGED elsewhere, UNCHANGED posted, call' = NothingRead
  PROVE  ClientInv'
<1>1. /\ IsSync(call') /\ call'.at = "organization" /\ call'.left = <<>> /\ call'.listed = <<>>
      /\ call'.skip = 0
  BY DEF NothingRead, IsSync
<1>2. ListsInv' /\ FoundInv'
  BY <1>1 DEF ListsInv, FoundInv
<1>. QED  BY <1>1, <1>2, SyncStepKeeps DEF Syncs, Reading

LEMMA DieOrThrowKeeps == ASSUME ClientInv, DieOrThrow PROVE ClientInv'
<1>1. UNCHANGED elsewhere /\ UNCHANGED posted
  BY DEF DieOrThrow
<1>2. CASE call.at \in Parts
  <2>1. call' = [at |-> "docx", try |-> 1]
    BY <1>2 DEF DieOrThrow, ToPublish, Quiet
  <2>2. CallShape' /\ ListsInv' /\ FoundInv'
    BY <2>1 DEF CallShape, IsShort, Publishes, ListsInv, FoundInv, Syncs, Reading
  <2>3. PlaceInv' /\ DraftInv'
    BY <1>1, <2>1 DEF ClientInv, PlaceInv, InOwnAreas, DraftInv, elsewhere
  <2>. QED  BY <2>2, <2>3 DEF ClientInv
<1>3. CASE call.at \notin Parts
  BY <1>1, <1>3, StartsOver DEF DieOrThrow
<1>. QED  BY <1>2, <1>3

LEMMA BeginSyncKeeps == ASSUME ClientInv, BeginSync PROVE ClientInv'
BY StartsOver DEF BeginSync

LEMMA AllAreas ==
  ASSUME NEW C \in SUBSET People
  PROVE  /\ AreasOf(C) \in Seq(AnyArea) /\ AreasOf(C) # <<>>
         /\ ToSet(AreasOf(C)) = {OwnArea} \union C
<1>. DEFINE one == <<OwnArea>>
            rest == SetToSeq(C)
<1>1. IsFiniteSet(C)
  BY KarbonClientAssumption, FS_Subset
<1>2. rest \in Seq(C) /\ ToSet(rest) = C
  BY <1>1, AllListed
<1>3. rest \in Seq(AnyArea)
  BY <1>2, SeqMonotonic DEF AnyArea
<1>4. one \in Seq(AnyArea) /\ Len(one) = 1 /\ ToSet(one) = {OwnArea}
  BY OneItem DEF AnyArea
<1>5. AreasOf(C) = one \o rest
  BY DEF AreasOf
<1>. HIDE DEF one, rest
<1>6. /\ one \o rest \in Seq(AnyArea) /\ Len(one \o rest) = Len(one) + Len(rest)
      /\ ToSet(one \o rest) = ToSet(one) \union ToSet(rest)
  <2>1. Joined(AnyArea, one, rest)
    BY <1>3, <1>4, BothLists
  <2>. QED  BY <2>1 DEF Joined
<1>7. Len(rest) \in Nat /\ Len(AreasOf(C)) # 0
  BY <1>3, <1>4, <1>5, <1>6, LenProperties
<1>8. AreasOf(C) # <<>>
  BY <1>7, EmptySeq
<1>. QED  BY <1>2, <1>4, <1>5, <1>6, <1>8

LEMMA ReadOrganizationKeeps == ASSUME ClientInv, ReadOrganization PROVE ClientInv'
<1>1. /\ UNCHANGED elsewhere /\ UNCHANGED <<dropped, catalogue, recorded, posted>>
      /\ call' = AtOnce(IF record = "Organization"
           THEN [call EXCEPT !.at = "areas", !.contacts = People, !.left = AreasOf(People)]
           ELSE [call EXCEPT !.at = "contact"])
      /\ call.at = "organization"
  BY DEF ReadOrganization, Gives
<1>2. /\ IsSync(call) /\ call.left \in Seq(AnyArea) /\ call.listed \in Seq(WorkItems) /\ call.skip \in Nat
      /\ call.listed = <<>> /\ call.skip = 0
  BY <1>1, SyncReads DEF Syncs, Reading, ClientInv, ListsInv
<1>3. CASE record = "Organization"
  <2>1. /\ IsSync(call') /\ call'.at = "areas" /\ call'.left = AreasOf(People)
        /\ call'.listed = call.listed /\ call'.skip = call.skip
    BY <1>1, <1>2, <1>3 DEF AtOnce, IsSync
  <2>2. AreasOf(People) \in Seq(AnyArea) /\ AreasOf(People) # <<>> /\ ToSet(AreasOf(People)) = {OwnArea} \union People
    BY AllAreas
  <2>3. ListsInv'
    BY <1>2, <2>1, <2>2 DEF ListsInv
  <2>4. place \in {OwnArea} \union People => place \in ToSet(call'.left)
    BY <2>1, <2>2
  <2>5. (InOwnAreas' => place' \in ToSet(call'.left))
    BY <1>1, <2>4 DEF InOwnAreas, elsewhere
  <2>6. FoundInv'
    BY <2>1, <2>5 DEF FoundInv
  <2>. QED  BY <1>1, <2>1, <2>3, <2>6, SyncStepKeeps DEF Syncs, Reading
<1>4. CASE record # "Organization"
  <2>1. /\ IsSync(call') /\ call'.at = "contact" /\ call'.left = call.left
        /\ call'.listed = call.listed /\ call'.skip = call.skip
    BY <1>1, <1>2, <1>4 DEF AtOnce, IsSync
  <2>2. ListsInv' /\ FoundInv'
    BY <1>1, <1>2, <1>4, <2>1 DEF ListsInv, FoundInv, elsewhere
  <2>. QED  BY <1>1, <2>1, <2>2, SyncStepKeeps DEF Syncs, Reading
<1>. QED  BY <1>3, <1>4

LEMMA ReadContactKeeps == ASSUME ClientInv, ReadContact PROVE ClientInv'
<1>1. /\ UNCHANGED elsewhere /\ UNCHANGED <<dropped, catalogue, recorded, posted>>
      /\ call' = AtOnce([call EXCEPT !.at = "areas", !.left = AreasOf({})])
      /\ call.at = "contact"
  BY DEF ReadContact, Gives
<1>2. /\ IsSync(call) /\ call.left \in Seq(AnyArea) /\ call.listed \in Seq(WorkItems) /\ call.skip \in Nat
      /\ call.listed = <<>> /\ call.skip = 0 /\ record # "Organization"
  BY <1>1, SyncReads DEF Syncs, Reading, ClientInv, ListsInv
<1>3. /\ IsSync(call') /\ call'.at = "areas" /\ call'.left = AreasOf({})
      /\ call'.listed = call.listed /\ call'.skip = call.skip
  BY <1>1, <1>2 DEF AtOnce, IsSync
<1>4. AreasOf({}) \in Seq(AnyArea) /\ AreasOf({}) # <<>> /\ ToSet(AreasOf({})) = {OwnArea} \union {}
  BY AllAreas
<1>5. ListsInv'
  BY <1>2, <1>3, <1>4 DEF ListsInv
<1>6. InOwnAreas' => place' \in ToSet(call'.left)
  BY <1>1, <1>2, <1>3, <1>4 DEF InOwnAreas, elsewhere
<1>7. FoundInv'
  BY <1>3, <1>6 DEF FoundInv
<1>. QED  BY <1>1, <1>3, <1>5, <1>7, SyncStepKeeps DEF Syncs, Reading

LEMMA RecordFailsKeeps == ASSUME ClientInv, RecordFails PROVE ClientInv'
<1>1. /\ UNCHANGED elsewhere /\ UNCHANGED <<dropped, catalogue, recorded, posted>>
      /\ call' = AtOnce([call EXCEPT !.at = "areas", !.left = AreasOf({}), !.failures = Failure(@, "record")])
      /\ call.at \in {"organization", "contact"}
  BY DEF RecordFails, Fails
<1>2. /\ IsSync(call) /\ call.left \in Seq(AnyArea) /\ call.listed \in Seq(WorkItems) /\ call.skip \in Nat
      /\ call.listed = <<>> /\ call.skip = 0
  BY <1>1, SyncReads DEF Syncs, Reading, ClientInv, ListsInv
<1>3. /\ IsSync(call') /\ call'.at = "areas" /\ call'.left = AreasOf({})
      /\ call'.listed = call.listed /\ call'.skip = call.skip
      /\ call'.failures = call.failures \union {"record"}
  BY <1>1, <1>2 DEF AtOnce, IsSync, Failure
<1>4. AreasOf({}) \in Seq(AnyArea) /\ AreasOf({}) # <<>>
  BY AllAreas
<1>5. ListsInv'
  BY <1>2, <1>3, <1>4 DEF ListsInv
<1>6. FoundInv'
  BY <1>3 DEF FoundInv, Undisturbed
<1>. QED  BY <1>1, <1>3, <1>5, <1>6, SyncStepKeeps DEF Syncs, Reading

(* One area the less, and the document was in it or is in the others. *)
LEMMA AreasKeep == ASSUME ClientInv, ListArea \/ AreaFails PROVE ClientInv'
<1>. DEFINE first == Head(call.left)
<1>1. /\ UNCHANGED elsewhere /\ UNCHANGED <<dropped, catalogue, recorded, posted>>
      /\ call.at \in {"areas", "item_areas"}
      /\ \/ call' = AtOnce(AfterArea([call EXCEPT !.found = @ \/ first = place], StageAfter))
         \/ call' = AtOnce(AfterArea([call EXCEPT !.failures = Failure(@, first)], StageAfter))
  BY DEF ListArea, Gives, AreaFails, Fails
<1>2. /\ IsSync(call) /\ call.left \in Seq(AnyArea) /\ call.listed \in Seq(WorkItems) /\ call.skip \in Nat
      /\ call.left # <<>> /\ (call.at = "areas" => call.listed = <<>> /\ call.skip = 0)
  BY <1>1, SyncReads DEF Syncs, Reading, ClientInv, ListsInv
<1>3. /\ Tail(call.left) \in Seq(AnyArea) /\ ToSet(call.left) = {first} \union ToSet(Tail(call.left))
      /\ Len(call.left) = 1 => ToSet(Tail(call.left)) = {}
      /\ Len(call.left) # 1 => Tail(call.left) # <<>>
  BY <1>2, OneLess
<1>. HIDE DEF first
<1>4. /\ IsSync(call') /\ call'.left = Tail(call.left) /\ call'.listed = call.listed /\ call'.skip = call.skip
      /\ call'.at = IF Len(call.left) = 1 THEN StageAfter ELSE call.at
      /\ \/ call'.found = (call.found \/ first = place) /\ call'.failures = call.failures
         \/ call'.failures = call.failures \union {first}
  <2>1. CASE call' = AtOnce(AfterArea([call EXCEPT !.found = @ \/ first = place], StageAfter))
    BY <1>2, <2>1 DEF AtOnce, IsSync, AfterArea
  <2>2. CASE call' = AtOnce(AfterArea([call EXCEPT !.failures = Failure(@, first)], StageAfter))
    BY <1>2, <2>2 DEF AtOnce, IsSync, AfterArea, Failure
  <2>. QED  BY <1>1, <2>1, <2>2
<1>5. ListsInv'
  <2>1. call'.at \in {"areas", "item_areas"} => call'.left # <<>>
    BY <1>1, <1>3, <1>4 DEF StageAfter
  <2>2. call'.at \in {"organization", "contact", "areas"} => call.at = "areas"
    BY <1>1, <1>4 DEF StageAfter
  <2>3. call'.at # "contact"
    BY <1>1, <1>4 DEF StageAfter
  <2>. QED  BY <1>2, <1>3, <1>4, <2>1, <2>2, <2>3 DEF ListsInv
<1>6. FoundInv'
  <2>1. SUFFICES ASSUME Undisturbed' PROVE FoundInv'
    <3>1. call'.at # "synced"
      BY <1>1, <1>4 DEF StageAfter
    <3>. QED  BY <3>1 DEF FoundInv
  <2>2. call'.found = (call.found \/ first = place) /\ call'.failures = call.failures /\ Undisturbed
    BY <1>1, <1>4, <2>1 DEF Undisturbed
  <2>3. UNCHANGED <<record, items, place>> /\ (InOwnAreas' <=> InOwnAreas)
    BY <1>1 DEF elsewhere, InOwnAreas
  <2>4. CASE call.at = "areas"
    <3>1. InOwnAreas => call'.found \/ place \in ToSet(call'.left)
      BY <1>3, <1>4, <2>2, <2>4 DEF ClientInv, FoundInv
    <3>2. CASE Len(call.left) # 1
      BY <1>4, <2>3, <2>4, <3>1, <3>2 DEF FoundInv
    <3>3. CASE Len(call.left) = 1
      <4>1. InOwnAreas => call'.found
        BY <1>3, <1>4, <3>1, <3>3
      <4>2. InOwnAreas \/ place \in ToSet(items)
        BY DEF ClientInv, PlaceInv
      <4>3. place \in ToSet(items) => Ahead
        <5>1. call.skip = 0 /\ DOMAIN items = 1 .. Len(items) /\ Len(items) \in Nat
          BY <1>2, <2>4, LenProperties DEF ClientInv, PlaceInv
        <5>. QED  BY <5>1 DEF ToSet, Ahead
      <4>4. Ahead' <=> Ahead
        BY <1>4, <2>3 DEF Ahead
      <4>5. call'.at = "search"
        BY <1>4, <2>4, <3>3 DEF StageAfter
      <4>. QED  BY <2>3, <4>1, <4>2, <4>3, <4>4, <4>5 DEF FoundInv
    <3>. QED  BY <3>2, <3>3
  <2>5. CASE call.at = "item_areas"
    <3>1. ~Cut => call'.found \/ place \in ToSet(call'.left)
      BY <1>3, <1>4, <2>2, <2>5 DEF ClientInv, FoundInv
    <3>2. Cut' <=> Cut
      BY <1>4 DEF Cut
    <3>3. CASE Len(call.left) # 1
      BY <1>4, <2>3, <2>5, <3>1, <3>2, <3>3 DEF FoundInv
    <3>4. CASE Len(call.left) = 1
      <4>1. ~Cut => call'.found
        BY <1>3, <1>4, <3>1, <3>4
      <4>2. call'.at = "cataloguing"
        BY <1>4, <2>5, <3>4 DEF StageAfter
      <4>. QED  BY <3>2, <4>1, <4>2 DEF FoundInv
    <3>. QED  BY <3>3, <3>4
  <2>. QED  BY <1>1, <2>4, <2>5
<1>7. call'.at \in Syncs
  BY <1>1, <1>4 DEF StageAfter, Syncs, Reading
<1>. QED  BY <1>1, <1>4, <1>5, <1>6, <1>7, SyncStepKeeps

(* What a page adds to the list, and what is still ahead of it. *)
ThisPage == IF call.skip < Len(items) THEN <<items[call.skip + 1]>> ELSE <<>>
SearchEnds(listed) == Len(listed) = ItemLimit \/ ThisPage = <<>> \/ ~(call.skip + 1 < Len(items))

LEMMA PageByPage ==
  ASSUME ClientInv, call.at = "search", NEW listed, listed = call.listed \o ThisPage
  PROVE  /\ listed \in Seq(WorkItems)
         /\ ToSet(call.listed) \subseteq ToSet(listed)
         /\ Ahead => \/ place \in ToSet(listed)
                     \/ /\ ~SearchEnds(listed) \/ Len(listed) = ItemLimit
                        /\ \E j \in DOMAIN items : j > call.skip + 1 /\ items[j] = place
<1>1. /\ call.listed \in Seq(WorkItems) /\ call.skip \in Nat /\ items \in Seq(WorkItems)
  BY SyncReads DEF Syncs, Reading
<1>2. Len(items) \in Nat /\ DOMAIN items = 1 .. Len(items) /\ \A k \in 1 .. Len(items) : items[k] \in WorkItems
  BY <1>1, LenProperties, ElementOfSeq
<1>3. ThisPage \in Seq(WorkItems) /\ (call.skip < Len(items) => ToSet(ThisPage) = {items[call.skip + 1]})
  <2>1. CASE call.skip < Len(items)
    <3>1. call.skip + 1 \in 1 .. Len(items)
      BY <1>1, <1>2, <2>1
    <3>2. items[call.skip + 1] \in WorkItems
      BY <1>2, <3>1
    <3>. QED  BY <2>1, <3>2, OneItem DEF ThisPage
  <2>2. CASE ~(call.skip < Len(items))
    BY <2>2 DEF ThisPage
  <2>. QED  BY <2>1, <2>2
<1>. HIDE DEF ThisPage
<1>4. listed \in Seq(WorkItems) /\ ToSet(listed) = ToSet(call.listed) \union ToSet(ThisPage)
  <2>1. Joined(WorkItems, call.listed, ThisPage)
    BY <1>1, <1>3, BothLists
  <2>. QED  BY <2>1, <1>1 DEF Joined
<1>5. ASSUME Ahead, place \notin ToSet(listed)
      PROVE  /\ ~SearchEnds(listed) \/ Len(listed) = ItemLimit
             /\ \E j \in DOMAIN items : j > call.skip + 1 /\ items[j] = place
  <2>1. PICK j \in DOMAIN items : j > call.skip /\ items[j] = place
    BY <1>5 DEF Ahead
  <2>2. call.skip < Len(items) /\ ToSet(ThisPage) = {items[call.skip + 1]}
    BY <1>1, <1>2, <1>3, <2>1
  <2>3. j # call.skip + 1
    BY <1>4, <1>5, <2>1, <2>2
  <2>4. j > call.skip + 1 /\ call.skip + 1 < Len(items)
    BY <1>1, <1>2, <2>1, <2>3
  <2>5. ThisPage # <<>>
    BY <2>2 DEF ThisPage
  <2>. QED  BY <2>1, <2>4, <2>5 DEF SearchEnds
<1>. QED  BY <1>4, <1>5

LEMMA SearchPageKeeps == ASSUME ClientInv, SearchPage PROVE ClientInv'
<1>. DEFINE listed == call.listed \o ThisPage
<1>1. /\ UNCHANGED elsewhere /\ UNCHANGED <<dropped, catalogue, recorded, posted>>
      /\ call.at = "search"
      /\ \/ SearchEnds(listed) /\ call' = AtOnce(ItemsFrom(listed))
         \/ /\ ~SearchEnds(listed) /\ call' = AtOnce([call EXCEPT !.skip = @ + 1, !.listed = listed])
         \/ call' = AtOnce([ItemsFrom(<<>>) EXCEPT !.failures = Failure(@, "items")])
  <2>. DEFINE more == call.skip + 1 < Len(items)
              onward == [call EXCEPT !.skip = @ + 1, !.listed = listed]
              given == ItemsFrom(listed)
              failed == [ItemsFrom(<<>>) EXCEPT !.failures = Failure(@, "items")]
  <2>1. Gives(CASE Len(listed) = ItemLimit \/ ThisPage = <<>> \/ ~more -> given
                [] Len(listed) # ItemLimit /\ more /\ call.skip + 1 < MaxPages -> onward
                [] OTHER -> failed)
    BY DEF SearchPage, ThisPage
  <2>2. call.at = "search"
    BY DEF SearchPage
  <2>3. SearchEnds(listed) <=> Len(listed) = ItemLimit \/ ThisPage = <<>> \/ ~more
    BY DEF SearchEnds
  <2>. HIDE DEF onward, given, failed, more, listed
  <2>4. CASE SearchEnds(listed)
    <3>1. CASE Len(listed) # ItemLimit /\ more /\ call.skip + 1 < MaxPages
      <4>1. ThisPage # <<>>
        <5>1. call.skip < Len(items)
          <6>1. call.skip \in Nat /\ Len(items) \in Nat
            BY <2>2, SyncReads, LenProperties DEF Syncs, Reading
          <6>. QED  BY <3>1, <6>1 DEF more
        <5>2. <<items[call.skip + 1]>> # <<>>
          OBVIOUS
        <5>. QED  BY <5>1, <5>2 DEF ThisPage
      <4>. QED  BY <2>3, <2>4, <3>1, <4>1
    <3>2. CASE ~(Len(listed) # ItemLimit /\ more /\ call.skip + 1 < MaxPages)
      BY <2>1, <2>2, <2>3, <2>4, <3>2 DEF Gives, given
    <3>. QED  BY <3>1, <3>2
  <2>5. CASE ~SearchEnds(listed)
    BY <2>1, <2>2, <2>3, <2>5 DEF Gives, onward, failed
  <2>. QED  BY <2>4, <2>5
<1>2. /\ listed \in Seq(WorkItems) /\ ToSet(call.listed) \subseteq ToSet(listed)
      /\ Ahead => \/ place \in ToSet(listed)
                  \/ /\ ~SearchEnds(listed) \/ Len(listed) = ItemLimit
                     /\ \E j \in DOMAIN items : j > call.skip + 1 /\ items[j] = place
  BY <1>1, PageByPage
<1>. HIDE DEF listed
<1>3. IsSync(call) /\ call.left \in Seq(AnyArea) /\ call.skip \in Nat
  BY <1>1, SyncReads DEF Syncs, Reading
<1>4. listed \in Seq(AnyArea)
  BY <1>2, SeqMonotonic DEF AnyArea
<1>5. UNCHANGED <<record, items, place>> /\ (InOwnAreas' <=> InOwnAreas)
  BY <1>1 DEF elsewhere, InOwnAreas
<1>6. Undisturbed => /\ InOwnAreas => call.found
                     /\ InOwnAreas \/ place \in ToSet(call.listed) \/ Ahead
  BY <1>1 DEF ClientInv, FoundInv
<1>7. CASE SearchEnds(listed) /\ call' = AtOnce(ItemsFrom(listed))
  <2>1. /\ IsSync(call') /\ call'.left = listed /\ call'.listed = listed /\ call'.skip = call.skip
        /\ call'.found = call.found /\ call'.failures = call.failures
        /\ call'.at = IF listed = <<>> THEN "cataloguing" ELSE "item_areas"
    BY <1>3, <1>7 DEF AtOnce, ItemsFrom, IsSync
  <2>2. ListsInv'
    BY <1>2, <1>3, <1>4, <2>1 DEF ListsInv
  <2>3. Undisturbed' /\ ~Cut' => call.found \/ place \in ToSet(listed)
    BY <1>1, <1>2, <1>6, <1>7, <2>1 DEF Undisturbed, Cut
  <2>4. listed = <<>> => ToSet(listed) = {}
    BY DEF ToSet
  <2>5. FoundInv'
    BY <1>5, <2>1, <2>3, <2>4 DEF FoundInv
  <2>6. call'.at \in Syncs
    BY <2>1 DEF Syncs, Reading
  <2>. QED  BY <1>1, <2>1, <2>2, <2>5, <2>6, SyncStepKeeps
<1>8. CASE ~SearchEnds(listed) /\ call' = AtOnce([call EXCEPT !.skip = @ + 1, !.listed = listed])
  <2>1. /\ IsSync(call') /\ call'.left = call.left /\ call'.listed = listed /\ call'.skip = call.skip + 1
        /\ call'.found = call.found /\ call'.failures = call.failures /\ call'.at = "search"
    BY <1>1, <1>3, <1>8 DEF AtOnce, IsSync
  <2>2. ListsInv'
    BY <1>2, <1>3, <2>1 DEF ListsInv
  <2>3. Undisturbed' => Undisturbed
    BY <1>1, <2>1 DEF Undisturbed
  <2>4. Undisturbed => InOwnAreas \/ place \in ToSet(listed) \/ Ahead'
    BY <1>2, <1>5, <1>6, <2>1 DEF Ahead
  <2>5. FoundInv'
    BY <1>5, <1>6, <2>1, <2>3, <2>4 DEF FoundInv
  <2>. QED  BY <1>1, <2>1, <2>2, <2>5, SyncStepKeeps DEF Syncs, Reading
<1>9. CASE call' = AtOnce([ItemsFrom(<<>>) EXCEPT !.failures = Failure(@, "items")])
  <2>1. /\ IsSync(call') /\ call'.left = <<>> /\ call'.listed = <<>> /\ call'.skip = call.skip
        /\ call'.failures = call.failures \union {"items"} /\ call'.at = "cataloguing"
    BY <1>3, <1>9 DEF AtOnce, ItemsFrom, IsSync, Failure
  <2>2. ListsInv' /\ FoundInv'
    BY <1>3, <2>1 DEF ListsInv, FoundInv, Undisturbed
  <2>. QED  BY <1>1, <2>1, <2>2, SyncStepKeeps DEF Syncs, Reading
<1>. QED  BY <1>1, <1>7, <1>8, <1>9

LEMMA SearchFailsKeeps == ASSUME ClientInv, SearchFails PROVE ClientInv'
<1>1. /\ UNCHANGED elsewhere /\ UNCHANGED <<dropped, catalogue, recorded, posted>>
      /\ call.at = "search"
      /\ call' = AtOnce([ItemsFrom(<<>>) EXCEPT !.failures = Failure(@, "items")])
  BY DEF SearchFails, Fails
<1>2. IsSync(call) /\ call.skip \in Nat
  BY <1>1, SyncReads DEF Syncs, Reading
<1>3. /\ IsSync(call') /\ call'.left = <<>> /\ call'.listed = <<>> /\ call'.skip = call.skip
      /\ call'.failures = call.failures \union {"items"} /\ call'.at = "cataloguing"
  BY <1>1, <1>2 DEF AtOnce, ItemsFrom, IsSync, Failure
<1>4. ListsInv' /\ FoundInv'
  BY <1>2, <1>3 DEF ListsInv, FoundInv, Undisturbed
<1>. QED  BY <1>1, <1>3, <1>4, SyncStepKeeps DEF Syncs, Reading

LEMMA SettlingKeeps == ASSUME ClientInv, Catalogue \/ FinishSync PROVE ClientInv'
<1>1. /\ UNCHANGED elsewhere /\ UNCHANGED <<dropped, posted>>
      /\ \/ /\ call.at = "cataloguing" /\ catalogue' = (catalogue \/ call.found)
            /\ call' = [call EXCEPT !.at = "finishing"] /\ UNCHANGED recorded
         \/ /\ call.at = "finishing" /\ recorded' = IF call.failures = {} THEN "complete" ELSE "incomplete"
            /\ call' = [call EXCEPT !.at = "synced"] /\ UNCHANGED catalogue
  BY DEF Catalogue, FinishSync
<1>2. /\ IsSync(call) /\ call.left \in Seq(AnyArea) /\ call.listed \in Seq(WorkItems) /\ call.skip \in Nat
  BY <1>1, SyncReads DEF Syncs
<1>3. /\ IsSync(call') /\ call'.at = IF call.at = "cataloguing" THEN "finishing" ELSE "synced"
      /\ call'.left = call.left /\ call'.listed = call.listed /\ call'.skip = call.skip
      /\ call'.found = call.found /\ call'.failures = call.failures
  BY <1>1, <1>2 DEF IsSync
<1>4. ListsInv'
  BY <1>2, <1>3 DEF ListsInv
<1>5. FoundInv'
  BY <1>1, <1>3 DEF ClientInv, FoundInv, Undisturbed, Cut
<1>6. call'.at \in Syncs
  BY <1>3 DEF Syncs
<1>. QED  BY <1>1, <1>3, <1>4, <1>5, <1>6, SyncStepKeeps

(* A part that arrives again under its key arrives no second time. *)
LEMMA PostingKeeps == ASSUME ClientInv, Posting PROVE ClientInv'
<1>. DEFINE part == call.at
<1>1. /\ UNCHANGED elsewhere /\ part \in Parts /\ Arrives(part)
      /\ \/ call' = [call EXCEPT !.at = AfterPart[part], !.try = 1]
         \/ call' = [call EXCEPT !.try = @ + 1]
         \/ call' = ToPublish
  BY DEF Posting, Post, PostIsLost
<1>2. IsShort(call)
  BY <1>1 DEF ClientInv, CallShape, Parts, Syncs, Reading
<1>3. IsShort(call') /\ call'.at \in {AfterPart[part], part, "docx"}
  BY <1>1, <1>2 DEF IsShort, ToPublish, Quiet
<1>4. /\ AfterPart["docx"] = "pdf" /\ AfterPart["pdf"] = "note" /\ AfterPart["note"] = "published"
  BY DEF AfterPart
<1>5. call'.at \in Publishes
  BY <1>1, <1>3, <1>4 DEF Parts, Publishes
<1>6. CallShape' /\ ListsInv' /\ FoundInv'
  BY <1>3, <1>5 DEF CallShape, Publishes, ListsInv, FoundInv, Syncs, Reading
<1>7. /\ posted' \in [Parts -> Nat] /\ posted'[part] > 0 /\ \A p \in Parts : posted'[p] >= posted[p]
      /\ honoured => \A p \in Parts : posted'[p] =< 1
  <2>1. posted \in [Parts -> Nat] /\ (honoured => \A p \in Parts : posted[p] =< 1)
    BY DEF ClientInv, DraftInv
  <2>. HIDE DEF part
  <2>2. CASE Recognised(part)
    BY <1>1, <2>1, <2>2 DEF Arrives, Recognised
  <2>3. CASE ~Recognised(part)
    BY <1>1, <2>1, <2>3 DEF Arrives, Recognised
  <2>. QED  BY <2>2, <2>3
<1>8. DraftInv'
  <2>1. /\ call.at \in {"pdf", "note"} => posted["docx"] > 0
        /\ call.at = "note" => posted["pdf"] > 0
        /\ posted \in [Parts -> Nat]
    BY DEF ClientInv, DraftInv
  <2>2. honoured' = honoured
    BY <1>1 DEF elsewhere
  <2>3. "docx" \in Parts /\ "pdf" \in Parts /\ "note" \in Parts
    BY DEF Parts
  <2>4. CASE part = "docx"
    BY <1>3, <1>4, <1>7, <2>1, <2>2, <2>3, <2>4 DEF DraftInv
  <2>5. CASE part = "pdf"
    BY <1>3, <1>4, <1>7, <2>1, <2>2, <2>3, <2>5 DEF DraftInv
  <2>6. CASE part = "note"
    BY <1>3, <1>4, <1>7, <2>1, <2>2, <2>3, <2>6 DEF DraftInv
  <2>. QED  BY <1>1, <2>4, <2>5, <2>6 DEF Parts
<1>9. PlaceInv'
  BY <1>1 DEF ClientInv, PlaceInv, InOwnAreas, elsewhere
<1>. QED  BY <1>6, <1>8, <1>9 DEF ClientInv

LEMMA ClientInvStep == ASSUME ClientInv, ClientNext \/ UNCHANGED client PROVE ClientInv'
<1>1. CASE UNCHANGED client
  BY <1>1 DEF client, ClientInv, CallShape, IsShort, IsSync, PlaceInv, InOwnAreas, DraftInv, ListsInv,
              FoundInv, Undisturbed, Ahead, Cut
<1>2. CASE SyncingLibrary
  BY <1>2, BeginSyncKeeps, ReadOrganizationKeeps, ReadContactKeeps, RecordFailsKeeps, AreasKeep,
     SearchPageKeeps, SearchFailsKeeps, SettlingKeeps DEF SyncingLibrary
<1>. QED  BY <1>1, <1>2, ItemComesKeeps, ItemGoesKeeps, TryAgainKeeps, DieOrThrowKeeps, PostingKeeps
     DEF ClientNext

(* A sync that is recorded as complete, that no item was taken from and no  *)
(* limit cut, catalogued what was filed: listClientLibrary, whatever was    *)
(* added, refused, lost or started over meanwhile.                          *)
THEOREM CompleteIsHonest == Spec => []LibraryIsHonest
<1>1. Init => ClientInv
  BY ClientInvInit DEF Init
<1>2. ClientInv /\ [Stirs]_vars => ClientInv'
  BY ClientInvStep, OnePartSteps
<1>3. ClientInv => LibraryIsHonest
  BY DEF ClientInv, FoundInv, Undisturbed, LibraryIsHonest
<1>. QED  BY <1>1, <1>2, <1>3, PTL DEF Spec, Stirs

(* Where Karbon honours the idempotency key, no part of a draft is filed     *)
(* twice, and a publication that ends has filed them all.                   *)
THEOREM DraftsArePublishedOnce == Spec => []PublishedOnce
<1>1. Init => ClientInv
  BY ClientInvInit DEF Init
<1>2. ClientInv /\ [Stirs]_vars => ClientInv'
  BY ClientInvStep, OnePartSteps
<1>3. ClientInv => PublishedOnce
  BY DEF ClientInv, DraftInv, PublishedOnce, Parts
<1>. QED  BY <1>1, <1>2, <1>3, PTL DEF Spec, Stirs

(***************************************************************************)
(* ClientFile.  A row keeps its id and its key and loses no contact; so    *)
(* what an import found is in the rows, in its hands, or still to be read. *)
(***************************************************************************)
Clients ==
  [clientId : Nat, karbonEntityKey : Keys \union {NoKey}, legalName : Names,
   city : {"blank", "typed", "vendor"}, karbonFullName : BOOLEAN, contacts : SUBSET Contacts]
Runs ==
  [at : {"off", "asked", "list", "mirror", "next", "here?", "write", "over"},
   source : {"CLIENT_LIST", "WORK_ITEMS"}, left : SUBSET Keys, told : SUBSET (Keys \X SUBSET Contacts),
   key : Keys \union {NoKey}, contacts : SUBSET Contacts, row : SUBSET Clients]
Forms == [at : {"closed"}] \union [at : {"name?", "new"}, name : Names] \union [at : {"form", "adopt"}, row : Clients]

ClientsInv ==
  /\ clients \in SUBSET Clients /\ IsFiniteSet(clients)
  /\ \A c \in clients : c.clientId \in 1 .. Cardinality(clients)
  /\ \A c, d \in clients : c.clientId = d.clientId => c = d
  /\ \A c \in clients : c.karbonFullName => c.karbonEntityKey \in Keys

Grown(before, after) ==
  \A c \in before : \E d \in after :
    d.clientId = c.clientId /\ d.karbonEntityKey = c.karbonEntityKey /\ c.contacts \subseteq d.contacts

Here(rows, t) == \E c \in rows : c.karbonEntityKey = t[1] /\ t[2] \subseteq c.contacts
ToCome(run, held, t) ==
  \/ t[1] \in run.left /\ t[2] \subseteq held[t[1]]
  \/ run.at \in {"here?", "write"} /\ t[1] = run.key /\ t[2] \subseteq run.contacts
RunOk(run, rows, held) ==
  /\ run.at \in {"mirror", "next", "here?", "write", "over"} =>
       \A t \in run.told : ToCome(run, held, t) \/ Here(rows, t)
  /\ run.at = "over" => run.left = {}
  /\ run.at \in {"here?", "write"} => run.key \in Keys
  /\ run.at = "write" =>
       \A row \in run.row : \E c \in rows : c.clientId = row.clientId /\ c.karbonEntityKey = run.key

FormOk(form, rows) ==
  form.at \in {"form", "adopt"} => \E c \in rows : c.clientId = form.row.clientId

FileInv ==
  /\ ClientsInv
  /\ karbonName \in [Keys -> Names] /\ book \in [Keys -> SUBSET Contacts]
  /\ imports \in [Imports -> Runs] /\ editors \in [Editors -> Forms]
  /\ \A i \in Imports : RunOk(imports[i], clients, book)
  /\ \A e \in Editors : FormOk(editors[e], clients)

LEMMA FileInvInit == FileInit => FileInv
<1>. SUFFICES ASSUME FileInit PROVE FileInv
  OBVIOUS
<1>1. ClientsInv
  BY FS_EmptySet DEF FileInit, ClientsInv
<1>2. Off \in Runs /\ Off.at = "off" /\ Closed \in Forms /\ Closed.at = "closed"
  BY DEF Off, Runs, Closed, Forms
<1>3. /\ imports \in [Imports -> Runs] /\ \A i \in Imports : imports[i].at = "off"
      /\ editors \in [Editors -> Forms] /\ \A e \in Editors : editors[e].at = "closed"
  BY <1>2 DEF FileInit
<1>4. karbonName \in [Keys -> Names] /\ book \in [Keys -> SUBSET Contacts]
  BY DEF FileInit
<1>. QED  BY <1>1, <1>3, <1>4 DEF FileInv, RunOk, FormOk

(* A run and a form that stay as they are stay in order while rows and the  *)
(* vendor's book only grow.                                                *)
LEMMA RunStays ==
  ASSUME NEW run \in Runs, NEW before, NEW after, NEW held, NEW more,
         RunOk(run, before, held), Grown(before, after), \A k \in Keys : held[k] \subseteq more[k]
  PROVE  RunOk(run, after, more)
<1>1. ASSUME NEW t \in run.told, Here(before, t) PROVE Here(after, t)
  <2>1. PICK c \in before : c.karbonEntityKey = t[1] /\ t[2] \subseteq c.contacts
    BY <1>1 DEF Here
  <2>2. PICK d \in after : d.karbonEntityKey = c.karbonEntityKey /\ c.contacts \subseteq d.contacts
    BY DEF Grown
  <2>. QED  BY <2>1, <2>2 DEF Here
<1>2. ASSUME NEW t \in run.told, ToCome(run, held, t) PROVE ToCome(run, more, t)
  <2>1. t[1] \in run.left => t[1] \in Keys
    BY DEF Runs
  <2>. QED  BY <1>2, <2>1 DEF ToCome
<1>3. ASSUME run.at = "write", NEW row \in run.row
      PROVE  \E c \in after : c.clientId = row.clientId /\ c.karbonEntityKey = run.key
  <2>1. PICK c \in before : c.clientId = row.clientId /\ c.karbonEntityKey = run.key
    BY <1>3 DEF RunOk
  <2>. QED  BY <2>1 DEF Grown
<1>. QED  BY <1>1, <1>2, <1>3 DEF RunOk

LEMMA FormStays ==
  ASSUME NEW form, NEW before, NEW after, FormOk(form, before), Grown(before, after)
  PROVE  FormOk(form, after)
BY DEF FormOk, Grown

LEMMA Unmoved == ASSUME NEW rows PROVE Grown(rows, rows)
BY DEF Grown

(* One import moves, and the others stay in order. *)
LEMMA OneRunMoves ==
  ASSUME FileInv, NEW i \in Imports, NEW run \in Runs, ImportTo(i, run), UNCHANGED <<vendor, editors>>,
         ClientsInv', Grown(clients, clients'), RunOk(run, clients', book)
  PROVE  FileInv'
<1>1. UNCHANGED <<karbonName, book, editors>>
  BY DEF vendor
<1>2. imports' \in [Imports -> Runs] /\ \A j \in Imports : imports'[j] = IF j = i THEN run ELSE imports[j]
  BY DEF ImportTo, FileInv
<1>3. ASSUME NEW j \in Imports PROVE RunOk(imports'[j], clients', book')
  <2>1. CASE j = i
    BY <1>1, <1>2, <2>1
  <2>2. CASE j # i
    BY <1>1, <1>2, <2>2, RunStays DEF FileInv
  <2>. QED  BY <2>1, <2>2
<1>4. ASSUME NEW e \in Editors PROVE FormOk(editors'[e], clients')
  BY <1>1, FormStays DEF FileInv
<1>. QED  BY <1>1, <1>2, <1>3, <1>4 DEF FileInv

(* One page moves. *)
LEMMA OneFormMoves ==
  ASSUME FileInv, NEW e \in Editors, NEW form \in Forms, Editing(e, form), UNCHANGED <<vendor, imports>>,
         ClientsInv', Grown(clients, clients'), FormOk(form, clients')
  PROVE  FileInv'
<1>1. UNCHANGED <<karbonName, book, imports>>
  BY DEF vendor
<1>2. editors' \in [Editors -> Forms] /\ \A f \in Editors : editors'[f] = IF f = e THEN form ELSE editors[f]
  BY DEF Editing, FileInv
<1>3. ASSUME NEW j \in Imports PROVE RunOk(imports'[j], clients', book')
  BY <1>1, RunStays DEF FileInv
<1>4. ASSUME NEW f \in Editors PROVE FormOk(editors'[f], clients')
  BY <1>2, FormStays DEF FileInv
<1>. QED  BY <1>1, <1>2, <1>3, <1>4 DEF FileInv

(***************************************************************************)
(* Rows.                                                                   *)
(***************************************************************************)
LEMMA RowById ==
  ASSUME ClientsInv, NEW c \in clients
  PROVE  RowOf(c.clientId) = c
BY DEF ClientsInv, RowOf

LEMMA StoreKeepsRows ==
  ASSUME ClientsInv, NEW c \in clients, NEW d \in Clients, Store(c, d),
         d.clientId = c.clientId, d.karbonEntityKey = c.karbonEntityKey,
         c.contacts \subseteq d.contacts, d.karbonFullName = c.karbonFullName
  PROVE  ClientsInv' /\ Grown(clients, clients') /\ d \in clients'
<1>. DEFINE others == clients \ {c}
<1>1. clients' = others \union {d} /\ IsFiniteSet(others) /\ Cardinality(others) = Cardinality(clients) - 1
  BY FS_RemoveElement DEF Store, ClientsInv
<1>2. d \notin others
  BY DEF ClientsInv
<1>3. IsFiniteSet(clients') /\ Cardinality(clients') = Cardinality(others) + 1
  BY <1>1, <1>2, FS_AddElement, SMTT(30)
<1>4. Cardinality(clients') = Cardinality(clients)
  BY <1>1, <1>3, FS_CardinalityType DEF ClientsInv
<1>5. ClientsInv'
  BY <1>1, <1>3, <1>4 DEF ClientsInv
<1>6. Grown(clients, clients')
  BY <1>1 DEF Grown
<1>. QED  BY <1>1, <1>5, <1>6

LEMMA AddKeepsRows ==
  ASSUME ClientsInv, NEW k \in Keys \union {NoKey}, NEW n \in Names, NEW m \in BOOLEAN,
         m => k \in Keys, NEW s \in SUBSET Contacts, AddClient(k, n, m, s)
  PROVE  /\ ClientsInv' /\ Grown(clients, clients')
         /\ \E c \in clients' : c.karbonEntityKey = k /\ c.contacts = s
<1>. DEFINE size == Cardinality(clients)
            row == [clientId |-> size + 1, karbonEntityKey |-> k, legalName |-> n,
                    city |-> IF k = NoKey THEN "typed" ELSE "vendor", karbonFullName |-> m, contacts |-> s]
<1>1. size \in Nat
  BY FS_CardinalityType DEF ClientsInv
<1>2. row \in Clients /\ row.clientId = size + 1 /\ row.karbonEntityKey = k /\ row.contacts = s
      /\ row.karbonFullName = m
  BY <1>1 DEF Clients
<1>3. clients' = clients \union {row}
  BY DEF AddClient
<1>. HIDE DEF row
<1>4. \A c \in clients : c.clientId \in 1 .. size
  BY DEF ClientsInv
<1>. HIDE DEF size
<1>5. row \notin clients
  BY <1>1, <1>2, <1>4
<1>6. IsFiniteSet(clients') /\ Cardinality(clients') = size + 1
  BY <1>3, <1>5, FS_AddElement DEF ClientsInv, size
<1>7. \A c \in clients' : c.clientId \in 1 .. size + 1
  BY <1>1, <1>2, <1>3, <1>4
<1>8. \A c, d \in clients' : c.clientId = d.clientId => c = d
  BY <1>1, <1>2, <1>3, <1>4 DEF ClientsInv
<1>9. ClientsInv'
  BY <1>2, <1>3, <1>6, <1>7, <1>8 DEF ClientsInv
<1>10. Grown(clients, clients')
  BY <1>3 DEF Grown
<1>. QED  BY <1>2, <1>3, <1>9, <1>10

(* Every row is given what the list called it, and none is lost or doubled. *)
LEMMA MirrorKeepsRows ==
  ASSUME ClientsInv, NEW f, f \in [clients -> Clients], clients' = {f[c] : c \in clients},
         \A c \in clients : /\ f[c].clientId = c.clientId /\ f[c].karbonEntityKey = c.karbonEntityKey
                            /\ f[c].contacts = c.contacts
                            /\ f[c].karbonFullName => c.karbonFullName \/ c.karbonEntityKey \in Keys
  PROVE  ClientsInv' /\ Grown(clients, clients')
<1>1. f \in Bijection(clients, clients')
  BY DEF ClientsInv, Bijection, Injection, Surjection, IsInjective
<1>2. IsFiniteSet(clients') /\ Cardinality(clients') = Cardinality(clients)
  BY <1>1, FS_Bijection DEF ExistsBijection, ClientsInv
<1>3. \A c \in clients : f[c] \in clients' /\ f[c] \in Clients
  OBVIOUS
<1>4. \A d \in clients' : \E c \in clients : d = f[c]
  OBVIOUS
<1>5. ClientsInv'
  <2>1. clients' \in SUBSET Clients
    BY <1>3, <1>4
  <2>2. \A d \in clients' : d.clientId \in 1 .. Cardinality(clients')
    BY <1>2, <1>4 DEF ClientsInv
  <2>3. ASSUME NEW d \in clients', NEW e \in clients', d.clientId = e.clientId PROVE d = e
    <3>1. PICK c \in clients : d = f[c]
      BY <1>4
    <3>2. PICK b \in clients : e = f[b]
      BY <1>4
    <3>3. c = b
      BY <2>3, <3>1, <3>2 DEF ClientsInv
    <3>. QED  BY <3>1, <3>2, <3>3
  <2>4. ASSUME NEW d \in clients', d.karbonFullName PROVE d.karbonEntityKey \in Keys
    <3>1. PICK c \in clients : d = f[c]
      BY <1>4
    <3>. QED  BY <2>4, <3>1 DEF ClientsInv
  <2>. QED  BY <1>2, <2>1, <2>2, <2>3, <2>4 DEF ClientsInv
<1>6. Grown(clients, clients')
  BY <1>3 DEF Grown
<1>. QED  BY <1>5, <1>6

(***************************************************************************)
(* Imports, one step after the other.                                      *)
(***************************************************************************)
LEMMA ListingKeeps ==
  ASSUME FileInv, NEW i \in Imports, AskImport(i) \/ QueueImport(i) \/ Discover(i)
  PROVE  FileInv'
<1>1. Off \in Runs /\ Off.told = {}
  BY DEF Off, Runs
<1>2. imports[i] \in Runs
  BY DEF FileInv
<1>3. ClientsInv /\ Grown(clients, clients)
  BY Unmoved DEF FileInv
<1>4. CASE AskImport(i)
  <2>1. PICK source \in {"CLIENT_LIST", "WORK_ITEMS"} : ImportTo(i, [Off EXCEPT !.at = "asked", !.source = source])
    BY <1>4 DEF AskImport
  <2>. DEFINE run == [Off EXCEPT !.at = "asked", !.source = source]
  <2>2. run \in Runs /\ run.at = "asked"
    BY <1>1 DEF Runs, Off
  <2>3. UNCHANGED <<vendor, clients, editors>>
    BY <1>4 DEF AskImport
  <2>. HIDE DEF run
  <2>4. RunOk(run, clients', book)
    BY <2>2 DEF RunOk
  <2>5. ClientsInv' /\ Grown(clients, clients')
    BY <1>3, <2>3 DEF ClientsInv
  <2>6. ImportTo(i, run)
    BY <2>1 DEF run
  <2>. QED  BY <2>2, <2>3, <2>4, <2>5, <2>6, OneRunMoves
<1>5. CASE QueueImport(i)
  <2>. DEFINE run == [imports[i] EXCEPT !.at = "list"]
  <2>1. ImportTo(i, run) /\ UNCHANGED <<vendor, clients, editors>>
    BY <1>5 DEF QueueImport, ImportOnly
  <2>2. run \in Runs /\ run.at = "list"
    BY <1>2 DEF Runs
  <2>. HIDE DEF run
  <2>3. RunOk(run, clients', book)
    BY <2>2 DEF RunOk
  <2>4. ClientsInv' /\ Grown(clients, clients')
    BY <1>3, <2>1 DEF ClientsInv
  <2>. QED  BY <2>1, <2>2, <2>3, <2>4, OneRunMoves
<1>6. CASE Discover(i)
  <2>1. PICK found \in SUBSET Keys :
          ImportTo(i, [imports[i] EXCEPT !.at = "mirror", !.left = found, !.told = {<<k, book[k]>> : k \in found}])
    BY <1>6 DEF Discover
  <2>. DEFINE told == {<<k, book[k]>> : k \in found}
              run == [imports[i] EXCEPT !.at = "mirror", !.left = found, !.told = told]
  <2>2. UNCHANGED <<vendor, clients, editors>>
    BY <1>6 DEF Discover, ImportOnly
  <2>3. told \in SUBSET (Keys \X SUBSET Contacts) /\ \A t \in told : t[1] \in found /\ t[2] = book[t[1]]
    BY DEF FileInv
  <2>. HIDE DEF told
  <2>4. run \in Runs /\ run.at = "mirror" /\ run.left = found /\ run.told = told
    BY <1>2, <2>3 DEF Runs
  <2>5. ImportTo(i, run)
    BY <2>1 DEF told
  <2>. HIDE DEF run
  <2>6. RunOk(run, clients', book)
    BY <2>3, <2>4 DEF RunOk, ToCome
  <2>7. ClientsInv' /\ Grown(clients, clients')
    BY <1>3, <2>2 DEF ClientsInv
  <2>. QED  BY <2>2, <2>4, <2>5, <2>6, <2>7, OneRunMoves
<1>. QED  BY <1>4, <1>5, <1>6

LEMMA MirrorKeeps == ASSUME FileInv, NEW i \in Imports, Mirror(i) PROVE FileInv'
<1>. DEFINE named(c) == imports[i].source = "CLIENT_LIST" /\ c.karbonEntityKey \in imports[i].left
            f == [c \in clients |-> IF named(c) THEN [c EXCEPT !.karbonFullName = TRUE] ELSE c]
            run == [imports[i] EXCEPT !.at = "next"]
<1>1. /\ imports[i].at = "mirror" /\ clients' = {f[c] : c \in clients} /\ ImportTo(i, run)
      /\ UNCHANGED <<vendor, editors>>
  BY DEF Mirror, ImportAt
<1>2. imports[i] \in Runs /\ clients \in SUBSET Clients /\ ClientsInv /\ RunOk(imports[i], clients, book)
      /\ book \in [Keys -> SUBSET Contacts]
  BY DEF FileInv, ClientsInv
<1>3. imports[i].left \subseteq Keys
  BY <1>2 DEF Runs
<1>4. ASSUME NEW c \in clients
      PROVE  /\ f[c] \in Clients /\ f[c].clientId = c.clientId /\ f[c].karbonEntityKey = c.karbonEntityKey
             /\ f[c].contacts = c.contacts
             /\ f[c].karbonFullName => c.karbonFullName \/ c.karbonEntityKey \in Keys
  <2>1. c \in Clients
    BY <1>2
  <2>2. CASE named(c)
    <3>1. f[c] = [c EXCEPT !.karbonFullName = TRUE] /\ c.karbonEntityKey \in Keys
      BY <1>3, <2>2
    <3>. HIDE DEF f
    <3>. QED  BY <2>1, <3>1 DEF Clients
  <2>3. CASE ~named(c)
    BY <2>1, <2>3
  <2>. QED  BY <2>2, <2>3
<1>5. f \in [clients -> Clients]
  BY <1>4
<1>. HIDE DEF f, named
<1>6. ClientsInv' /\ Grown(clients, clients')
  BY <1>1, <1>2, <1>4, <1>5, MirrorKeepsRows
<1>7. /\ run \in Runs /\ run.at = "next" /\ run.left = imports[i].left /\ run.told = imports[i].told
  BY <1>2 DEF Runs
<1>8. RunOk(imports[i], clients', book)
  BY <1>2, <1>6, RunStays
<1>. HIDE DEF run
<1>9. RunOk(run, clients', book)
  BY <1>1, <1>7, <1>8 DEF RunOk, ToCome
<1>. QED  BY <1>1, <1>6, <1>7, <1>9, OneRunMoves

LEMMA ReadingKeeps ==
  ASSUME FileInv, NEW i \in Imports, ReadClient(i) \/ CannotRead(i) \/ FinishImport(i) \/ WorkerLost(i)
  PROVE  FileInv'
<1>1. imports[i] \in Runs /\ RunOk(imports[i], clients, book) /\ book \in [Keys -> SUBSET Contacts]
  BY SMTT(30) DEF FileInv
<1>2. imports[i].left \subseteq Keys /\ imports[i].told \subseteq Keys \X SUBSET Contacts
  BY <1>1 DEF Runs
<1>3. UNCHANGED <<vendor, clients, editors>>
  BY DEF ReadClient, CannotRead, FinishImport, WorkerLost, ImportOnly
<1>4. ClientsInv' /\ Grown(clients, clients')
  BY <1>3, Unmoved, SMTT(30) DEF FileInv, ClientsInv
<1>5. CASE ReadClient(i)
  <2>1. PICK k \in imports[i].left :
          ImportTo(i, [imports[i] EXCEPT !.at = "here?", !.left = @ \ {k}, !.key = k, !.contacts = book[k]])
    BY <1>5 DEF ReadClient, ToRead
  <2>. DEFINE run == [imports[i] EXCEPT !.at = "here?", !.left = @ \ {k}, !.key = k, !.contacts = book[k]]
  <2>2. imports[i].at = "next"
    BY <1>5 DEF ReadClient, ImportAt
  <2>3. /\ run \in Runs /\ run.at = "here?" /\ run.left = imports[i].left \ {k} /\ run.key = k
        /\ run.contacts = book[k] /\ run.told = imports[i].told
    BY <1>1, <1>2 DEF Runs
  <2>4. ImportTo(i, run)
    BY <2>1
  <2>. HIDE DEF run
  <2>5. \A t \in run.told : ToCome(run, book, t) \/ Here(clients, t)
    <3>1. \A t \in run.told : ToCome(imports[i], book, t) \/ Here(clients, t)
      BY <1>1, <2>2, <2>3 DEF RunOk
    <3>. QED  BY <2>2, <2>3, <3>1 DEF ToCome
  <2>6. RunOk(run, clients', book)
    BY <1>2, <1>3, <2>3, <2>5 DEF RunOk
  <2>. QED  BY <1>3, <1>4, <2>3, <2>4, <2>6, OneRunMoves, SMTT(30)
<1>6. CASE CannotRead(i)
  <2>1. PICK k \in imports[i].left :
          ImportTo(i, [imports[i] EXCEPT !.left = @ \ {k}, !.told = Without(@, k)])
    BY <1>6 DEF CannotRead, ToRead
  <2>. DEFINE run == [imports[i] EXCEPT !.left = @ \ {k}, !.told = Without(@, k)]
  <2>2. imports[i].at = "next"
    BY <1>6 DEF CannotRead, ImportAt
  <2>3. Without(imports[i].told, k) \subseteq imports[i].told /\ \A t \in Without(imports[i].told, k) : t[1] # k
    BY DEF Without
  <2>4. /\ run \in Runs /\ run.at = "next" /\ run.left = imports[i].left \ {k}
        /\ run.told = Without(imports[i].told, k)
    <3>. DEFINE fewer == Without(imports[i].told, k)
    <3>1. fewer \in SUBSET (Keys \X SUBSET Contacts)
      BY <1>2, <2>3
    <3>2. run = [imports[i] EXCEPT !.left = @ \ {k}, !.told = fewer]
      BY <1>1 DEF Runs
    <3>. HIDE DEF fewer, run
    <3>3. /\ run \in Runs /\ run.at = "next" /\ run.left = imports[i].left \ {k} /\ run.told = fewer
      BY <1>1, <2>2, <3>1, <3>2 DEF Runs
    <3>. QED  BY <3>3 DEF fewer
  <2>5. ImportTo(i, run)
    BY <2>1
  <2>. HIDE DEF run
  <2>6. \A t \in run.told : ToCome(run, book, t) \/ Here(clients, t)
    <3>1. \A t \in imports[i].told : ToCome(imports[i], book, t) \/ Here(clients, t)
      BY <1>1, <2>2 DEF RunOk
    <3>. QED  BY <2>2, <2>3, <2>4, <3>1 DEF ToCome
  <2>7. RunOk(run, clients', book)
    BY <1>3, <2>4, <2>6 DEF RunOk
  <2>. QED  BY <1>3, <1>4, <2>4, <2>5, <2>7, OneRunMoves, SMTT(30)
<1>7. CASE FinishImport(i)
  <2>. DEFINE run == [imports[i] EXCEPT !.at = "over"]
  <2>1. imports[i].at = "next" /\ imports[i].left = {} /\ ImportTo(i, run)
    BY <1>7 DEF FinishImport, ImportAt, ToRead
  <2>2. run \in Runs /\ run.at = "over" /\ run.left = {} /\ run.told = imports[i].told
    BY <1>1, <2>1 DEF Runs
  <2>. HIDE DEF run
  <2>3. RunOk(run, clients', book)
    BY <1>1, <1>3, <2>1, <2>2 DEF RunOk, ToCome
  <2>. QED  BY <1>3, <1>4, <2>1, <2>2, <2>3, OneRunMoves
<1>8. CASE WorkerLost(i)
  <2>. DEFINE run == [Off EXCEPT !.at = "list", !.source = imports[i].source]
  <2>1. ImportTo(i, run)
    BY <1>8 DEF WorkerLost
  <2>2. run \in Runs /\ run.at = "list"
    BY <1>1 DEF Runs, Off
  <2>. HIDE DEF run
  <2>3. RunOk(run, clients', book)
    BY <2>2 DEF RunOk
  <2>. QED  BY <1>3, <1>4, <2>1, <2>2, <2>3, OneRunMoves
<1>. QED  BY <1>5, <1>6, <1>7, <1>8, SMTT(30)

(* What was told of the client dealt with is in its row by now, or is told  *)
(* no longer; of the others, nothing changed.                              *)
LEMMA DealtIsOk ==
  ASSUME FileInv, NEW i \in Imports, imports[i].at \in {"here?", "write"},
         NEW told \in SUBSET imports[i].told, Dealt(i, told), UNCHANGED <<vendor, editors>>,
         ClientsInv', Grown(clients, clients'),
         \A t \in told : t[1] = imports[i].key /\ t[2] \subseteq imports[i].contacts => Here(clients', t)
  PROVE  FileInv'
<1>. DEFINE run == [Off EXCEPT !.at = "next", !.source = imports[i].source, !.left = imports[i].left, !.told = told]
<1>1. imports[i] \in Runs /\ RunOk(imports[i], clients, book) /\ book \in [Keys -> SUBSET Contacts]
  BY DEF FileInv
<1>2. told \in SUBSET (Keys \X SUBSET Contacts)
  BY <1>1 DEF Runs
<1>3. /\ run \in Runs /\ run.at = "next" /\ run.left = imports[i].left /\ run.told = told
  BY <1>1, <1>2 DEF Off, Runs
<1>4. ImportTo(i, run)
  BY DEF Dealt
<1>. HIDE DEF run
<1>5. RunOk(imports[i], clients', book)
  BY <1>1, RunStays
<1>6. \A t \in told : ToCome(run, book, t) \/ Here(clients', t)
  <2>1. SUFFICES ASSUME NEW t \in told, ~Here(clients', t) PROVE ToCome(run, book, t)
    OBVIOUS
  <2>2. ToCome(imports[i], book, t)
    BY <1>5, <2>1 DEF RunOk
  <2>. QED  BY <1>3, <2>1, <2>2 DEF ToCome
<1>7. RunOk(run, clients', book)
  BY <1>3, <1>6 DEF RunOk
<1>. QED  BY <1>3, <1>4, <1>7, OneRunMoves

LEMMA FindClientKeeps == ASSUME FileInv, NEW i \in Imports, FindClient(i) PROVE FileInv'
<1>1. imports[i] \in Runs /\ RunOk(imports[i], clients, book) /\ imports[i].at = "here?"
  BY DEF FileInv, FindClient, ImportAt
<1>2. UNCHANGED <<vendor, clients, editors>>
  BY DEF FindClient, ImportOnly
<1>3. ClientsInv' /\ Grown(clients, clients')
  BY <1>2, Unmoved DEF FileInv, ClientsInv
<1>4. CASE ImportTo(i, [imports[i] EXCEPT !.at = "write", !.row = ClientOf(imports[i].key)])
  <2>. DEFINE rows == ClientOf(imports[i].key)
              run == [imports[i] EXCEPT !.at = "write", !.row = rows]
  <2>1. rows \in SUBSET Clients /\ \A c \in rows : c \in clients /\ c.karbonEntityKey = imports[i].key
    BY DEF ClientOf, FileInv, ClientsInv
  <2>2. ImportTo(i, run)
    BY <1>4
  <2>. HIDE DEF rows
  <2>3. /\ run \in Runs /\ run.at = "write" /\ run.left = imports[i].left /\ run.told = imports[i].told
        /\ run.key = imports[i].key /\ run.contacts = imports[i].contacts /\ run.row = rows
    BY <1>1, <2>1 DEF Runs
  <2>. HIDE DEF run
  <2>4. RunOk(run, clients', book)
    BY <1>1, <1>2, <2>1, <2>3 DEF RunOk, ToCome
  <2>. QED  BY <1>2, <1>3, <2>2, <2>3, <2>4, OneRunMoves
<1>5. CASE Dealt(i, Without(imports[i].told, imports[i].key))
  <2>. DEFINE told == Without(imports[i].told, imports[i].key)
  <2>1. told \in SUBSET imports[i].told /\ \A t \in told : t[1] # imports[i].key
    BY DEF Without
  <2>2. Dealt(i, told)
    BY <1>5
  <2>. HIDE DEF told
  <2>. QED  BY <1>1, <1>2, <1>3, <2>1, <2>2, DealtIsOk
<1>. QED  BY <1>4, <1>5 DEF FindClient

LEMMA BackfillKeeps == ASSUME FileInv, NEW i \in Imports, Backfill(i) PROVE FileInv'
<1>1. imports[i] \in Runs /\ RunOk(imports[i], clients, book) /\ imports[i].at = "write" /\ ClientsInv
  BY DEF FileInv, Backfill, ImportAt
<1>2. PICK row \in imports[i].row :
        LET c == RowOf(row.clientId) IN Store(c, Filled(c, row, imports[i].contacts))
  BY DEF Backfill
<1>3. PICK c \in clients : c.clientId = row.clientId /\ c.karbonEntityKey = imports[i].key
  BY <1>1 DEF RunOk
<1>4. RowOf(row.clientId) = c
  BY <1>1, <1>3, RowById
<1>. DEFINE d == Filled(c, row, imports[i].contacts)
<1>5. Store(c, d)
  BY <1>2, <1>4
<1>6. c \in Clients /\ row \in Clients /\ imports[i].contacts \in SUBSET Contacts
  BY <1>1 DEF ClientsInv, Runs
<1>7. /\ d \in Clients /\ d.clientId = c.clientId /\ d.karbonEntityKey = c.karbonEntityKey
      /\ d.contacts = c.contacts \union imports[i].contacts /\ d.karbonFullName = c.karbonFullName
  BY <1>6 DEF Filled, Clients
<1>. HIDE DEF d
<1>8. ClientsInv' /\ Grown(clients, clients') /\ d \in clients'
  BY <1>1, <1>5, <1>7, StoreKeepsRows
<1>9. \A t \in imports[i].told :
        t[1] = imports[i].key /\ t[2] \subseteq imports[i].contacts => Here(clients', t)
  BY <1>3, <1>7, <1>8 DEF Here
<1>10. Dealt(i, imports[i].told) /\ UNCHANGED <<vendor, editors>>
  BY DEF Backfill
<1>. QED  BY <1>1, <1>8, <1>9, <1>10, DealtIsOk

LEMMA CreateClientKeeps == ASSUME FileInv, NEW i \in Imports, CreateClient(i) PROVE FileInv'
<1>. DEFINE k == imports[i].key
<1>1. imports[i] \in Runs /\ RunOk(imports[i], clients, book) /\ imports[i].at = "write" /\ ClientsInv
      /\ karbonName \in [Keys -> Names]
  BY DEF FileInv, CreateClient, ImportAt
<1>2. k \in Keys /\ imports[i].contacts \in SUBSET Contacts
  BY <1>1 DEF RunOk, Runs
<1>3. UNCHANGED <<vendor, editors>>
  BY DEF CreateClient
<1>4. CASE k \in Known
  <2>. DEFINE run == [Off EXCEPT !.at = "list", !.source = imports[i].source]
  <2>1. ImportTo(i, run) /\ UNCHANGED clients
    BY <1>4 DEF CreateClient
  <2>2. run \in Runs /\ run.at = "list"
    BY <1>1 DEF Runs, Off
  <2>. HIDE DEF run
  <2>3. RunOk(run, clients', book)
    BY <2>2 DEF RunOk
  <2>4. ClientsInv' /\ Grown(clients, clients')
    BY <1>1, <2>1, Unmoved DEF ClientsInv
  <2>. QED  BY <1>3, <2>1, <2>2, <2>3, <2>4, OneRunMoves
<1>5. CASE k \notin Known
  <2>. DEFINE listed == imports[i].source = "CLIENT_LIST"
  <2>1. /\ AddClient(k, karbonName[k], listed, imports[i].contacts)
        /\ Dealt(i, imports[i].told)
    BY <1>5 DEF CreateClient
  <2>2. listed \in BOOLEAN /\ karbonName[k] \in Names
    BY <1>1, <1>2
  <2>. HIDE DEF listed
  <2>3. /\ ClientsInv' /\ Grown(clients, clients')
        /\ \E c \in clients' : c.karbonEntityKey = k /\ c.contacts = imports[i].contacts
    BY <1>1, <1>2, <2>1, <2>2, AddKeepsRows
  <2>4. \A t \in imports[i].told :
          t[1] = imports[i].key /\ t[2] \subseteq imports[i].contacts => Here(clients', t)
    BY <2>3 DEF Here
  <2>. QED  BY <1>1, <1>3, <2>1, <2>3, <2>4, DealtIsOk
<1>. QED  BY <1>4, <1>5

(***************************************************************************)
(* A client's page, and the vendor.                                        *)
(***************************************************************************)
LEMMA PagesKeep == ASSUME FileInv, NEW e \in Editors, OpenForm(e) \/ FindName(e) PROVE FileInv'
<1>1. UNCHANGED <<vendor, imports, clients>>
  BY DEF OpenForm, FindName, EditorOnly
<1>2. ClientsInv' /\ Grown(clients, clients')
  BY <1>1, Unmoved DEF FileInv, ClientsInv
<1>3. editors[e] \in Forms /\ clients \in SUBSET Clients
  BY DEF FileInv, ClientsInv
<1>4. \E form \in Forms : Editing(e, form) /\ FormOk(form, clients)
  <2>1. CASE OpenForm(e)
    <3>1. CASE \E n \in Names : Editing(e, [at |-> "name?", name |-> n])
      BY <3>1 DEF Forms, FormOk
    <3>2. CASE \E c \in clients, how \in {"form", "adopt"} : Editing(e, [at |-> how, row |-> c])
      <4>1. PICK c \in clients, how \in {"form", "adopt"} : Editing(e, [at |-> how, row |-> c])
        BY <3>2
      <4>2. [at |-> how, row |-> c] \in Forms /\ FormOk([at |-> how, row |-> c], clients)
        BY <1>3 DEF Forms, FormOk
      <4>. QED  BY <4>1, <4>2
    <3>. QED  BY <2>1, <3>1, <3>2 DEF OpenForm
  <2>2. CASE FindName(e)
    <3>1. Closed \in Forms /\ FormOk(Closed, clients)
      BY DEF Closed, Forms, FormOk
    <3>. DEFINE form == [editors[e] EXCEPT !.at = "new"]
    <3>2. editors[e] \in [at : {"name?", "new"}, name : Names]
      BY <1>3, <2>2 DEF FindName, Forms
    <3>3. form \in [at : {"name?", "new"}, name : Names] /\ form.at = "new"
      BY <3>2
    <3>4. form \in Forms /\ FormOk(form, clients)
      BY <3>3 DEF Forms, FormOk
    <3>5. Editing(e, Closed) \/ Editing(e, form)
      BY <2>2 DEF FindName
    <3>. QED  BY <3>1, <3>4, <3>5
  <2>. QED  BY <2>1, <2>2
<1>5. PICK form \in Forms : Editing(e, form) /\ FormOk(form, clients)
  BY <1>4
<1>. QED  BY <1>1, <1>2, <1>5, OneFormMoves

LEMMA SavingKeeps ==
  ASSUME FileInv, NEW e \in Editors, AddByHand(e) \/ SaveForm(e) \/ AdoptName(e) PROVE FileInv'
<1>1. UNCHANGED <<vendor, imports>> /\ Editing(e, Closed)
  BY DEF AddByHand, SaveForm, AdoptName, EditorOnly
<1>2. Closed \in Forms /\ FormOk(Closed, clients')
  BY DEF Closed, Forms, FormOk
<1>3. ClientsInv /\ editors[e] \in Forms /\ FormOk(editors[e], clients) /\ karbonName \in [Keys -> Names]
  BY DEF FileInv
<1>4. ClientsInv' /\ Grown(clients, clients')
  <2>1. CASE AddByHand(e)
    <3>1. editors[e] \in [at : {"name?", "new"}, name : Names]
      BY <1>3, <2>1 DEF AddByHand, Forms
    <3>2. AddClient(NoKey, editors[e].name, FALSE, {})
      BY <2>1 DEF AddByHand
    <3>. DEFINE k == NoKey
                n == editors[e].name
                m == FALSE
                s == {}
    <3>3. n \in Names /\ k \in Keys \union {NoKey} /\ m \in BOOLEAN /\ ~m /\ s \in SUBSET Contacts
      BY <3>1
    <3>4. AddClient(k, n, m, s)
      BY <3>2
    <3>. HIDE DEF k, n, m, s
    <3>. QED  BY <1>3, <3>3, <3>4, AddKeepsRows
  <2>2. CASE SaveForm(e) \/ AdoptName(e)
    <3>1. editors[e].at \in {"form", "adopt"}
      BY <2>2 DEF SaveForm, AdoptName
    <3>2. editors[e].row \in Clients
      BY <1>3, <3>1 DEF Forms
    <3>3. PICK c \in clients : c.clientId = editors[e].row.clientId
      BY <1>3, <3>1 DEF FormOk
    <3>4. RowOf(editors[e].row.clientId) = c /\ c \in Clients
      BY <1>3, <3>3, RowById DEF ClientsInv
    <3>5. CASE SaveForm(e)
      <4>1. PICK n \in Names, city \in {"blank", "typed", editors[e].row.city} :
              Store(c, [c EXCEPT !.legalName = n, !.city = city])
        BY <3>4, <3>5 DEF SaveForm
      <4>. DEFINE d == [c EXCEPT !.legalName = n, !.city = city]
      <4>2. city \in {"blank", "typed", "vendor"}
        BY <3>2 DEF Clients
      <4>3. /\ d \in Clients /\ d.clientId = c.clientId /\ d.karbonEntityKey = c.karbonEntityKey
            /\ d.contacts = c.contacts /\ d.karbonFullName = c.karbonFullName
        BY <3>4, <4>2 DEF Clients
      <4>4. Store(c, d)
        BY <4>1
      <4>. HIDE DEF d
      <4>. QED  BY <1>3, <4>3, <4>4, StoreKeepsRows, SMTT(30)
    <3>6. CASE AdoptName(e) /\ c.karbonFullName
      <4>. DEFINE n == karbonName[c.karbonEntityKey]
                  d == [c EXCEPT !.legalName = n]
      <4>1. Store(c, d)
        BY <3>4, <3>6 DEF AdoptName
      <4>2. n \in Names
        BY <1>3, <3>6 DEF ClientsInv
      <4>. HIDE DEF n
      <4>3. /\ d \in Clients /\ d.clientId = c.clientId /\ d.karbonEntityKey = c.karbonEntityKey
            /\ d.contacts = c.contacts /\ d.karbonFullName = c.karbonFullName
        BY <3>4, <4>2 DEF Clients
      <4>. HIDE DEF d
      <4>. QED  BY <1>3, <4>1, <4>3, StoreKeepsRows
    <3>7. CASE AdoptName(e) /\ ~c.karbonFullName
      <4>1. UNCHANGED clients
        BY <3>4, <3>7 DEF AdoptName
      <4>. QED  BY <1>3, <4>1, Unmoved DEF ClientsInv
    <3>. QED  BY <2>2, <3>5, <3>6, <3>7
  <2>. QED  BY <2>1, <2>2
<1>. QED  BY <1>1, <1>2, <1>4, OneFormMoves, SMTT(30)

LEMMA NewsKeeps == ASSUME FileInv, KarbonNews PROVE FileInv'
<1>1. PICK k \in Keys, p \in Contacts : book' = [book EXCEPT ![k] = @ \union {p}]
  BY DEF KarbonNews
<1>2. UNCHANGED <<karbonName, clients, imports, editors>>
  BY DEF KarbonNews
<1>3. book' \in [Keys -> SUBSET Contacts] /\ \A j \in Keys : book[j] \subseteq book'[j]
  BY <1>1 DEF FileInv
<1>4. \A i \in Imports : RunOk(imports[i], clients, book')
  BY <1>3, Unmoved, RunStays DEF FileInv
<1>. QED  BY <1>2, <1>3, <1>4 DEF FileInv, ClientsInv

LEMMA FileInvStep == ASSUME FileInv, FileNext \/ UNCHANGED file PROVE FileInv'
<1>1. CASE UNCHANGED file
  BY <1>1 DEF file, FileInv, ClientsInv
<1>2. ASSUME NEW i \in Imports, Importing(i) PROVE FileInv'
  BY <1>2, ListingKeeps, MirrorKeeps, ReadingKeeps, FindClientKeeps, BackfillKeeps, CreateClientKeeps
     DEF Importing
<1>3. ASSUME NEW e \in Editors, Correcting(e) PROVE FileInv'
  BY <1>3, PagesKeep, SavingKeeps DEF Correcting
<1>. QED  BY <1>1, <1>2, <1>3, NewsKeeps DEF FileNext

(* An import that is over left every client it found, and did not report,   *)
(* here with the contacts Karbon had for it: run, whatever other imports     *)
(* and people wrote meanwhile, and however often its worker died.            *)
THEOREM EverybodyFoundArrives == Spec => []EverybodyArrives
<1>1. Init => FileInv
  BY FileInvInit DEF Init
<1>2. FileInv /\ [Stirs]_vars => FileInv'
  BY FileInvStep, OnePartSteps
<1>3. FileInv => EverybodyArrives
  <2>1. SUFFICES ASSUME FileInv, NEW i \in Imports, imports[i].at = "over", NEW t \in imports[i].told
                 PROVE  \E c \in ClientOf(t[1]) : t[2] \subseteq c.contacts
    BY DEF EverybodyArrives
  <2>2. Here(clients, t)
    BY <2>1 DEF FileInv, RunOk, ToCome
  <2>. QED  BY <2>2 DEF Here, ClientOf
<1>. QED  BY <1>1, <1>2, <1>3, PTL DEF Spec, Stirs

(***************************************************************************)
(* Signers.  A rendering for signature differs from the draft in its       *)
(* signature fields only, and these are numbered as Adobe numbers those    *)
(* who sign; what a gate let through and what was sent are one roster.     *)
(***************************************************************************)
(* Ranked lists every element once. *)
LEMMA RankedLists ==
  ASSUME NEW D, IsFiniteSet(D), NEW rank \in [D -> Nat],
         \A x, y \in D : rank[x] = rank[y] => x = y
  PROVE  /\ Ranked(rank) \in [1 .. Cardinality(D) -> D]
         /\ \A i, j \in 1 .. Cardinality(D) : Ranked(rank)[i] = Ranked(rank)[j] => i = j
         /\ \A x \in D : \E i \in 1 .. Cardinality(D) : Ranked(rank)[i] = x
<1>. DEFINE below(x) == {y \in D : rank[y] =< rank[x]}
            seat == [x \in D |-> Cardinality(below(x))]
            N == Cardinality(D)
<1>1. N \in Nat /\ IsFiniteSet(1 .. N) /\ Cardinality(1 .. N) = N
  BY FS_CardinalityType, FS_Interval
<1>2. ASSUME NEW x \in D PROVE IsFiniteSet(below(x)) /\ seat[x] \in 1 .. N
  <2>1. IsFiniteSet(below(x)) /\ Cardinality(below(x)) =< N
    BY FS_Subset
  <2>2. below(x) # {}
    OBVIOUS
  <2>3. Cardinality(below(x)) \in Nat /\ Cardinality(below(x)) # 0
    BY <2>1, <2>2, FS_CardinalityType, FS_EmptySet
  <2>. QED  BY <1>1, <2>1, <2>3
<1>3. ASSUME NEW x \in D, NEW y \in D, seat[x] = seat[y] PROVE x = y
  <2>1. ASSUME NEW a \in D, NEW b \in D, rank[a] < rank[b] PROVE seat[a] # seat[b]
    <3>1. below(a) \subseteq below(b) /\ b \in below(b) /\ b \notin below(a)
      BY <2>1
    <3>2. below(a) # below(b)
      BY <3>1
    <3>3. Cardinality(below(a)) < Cardinality(below(b))
      <4>1. IsFiniteSet(below(b)) /\ IsFiniteSet(below(a)) /\ below(a) \in SUBSET below(b)
        BY <1>2, <3>1
      <4>2. Cardinality(below(a)) =< Cardinality(below(b)) /\ Cardinality(below(a)) # Cardinality(below(b))
        BY <3>2, <4>1, FS_Subset
      <4>3. Cardinality(below(a)) \in Nat /\ Cardinality(below(b)) \in Nat
        BY <4>1, FS_CardinalityType
      <4>. QED  BY <4>2, <4>3
    <3>4. seat[a] \in Nat /\ seat[b] \in Nat
      BY <1>2
    <3>. QED  BY <3>3, <3>4
  <2>2. rank[x] = rank[y]
    BY <1>3, <2>1
  <2>. QED  BY <2>2
<1>4. seat \in Injection(D, 1 .. N)
  BY <1>2, <1>3 DEF Injection, IsInjective
<1>5. seat \in Surjection(D, 1 .. N)
  BY <1>1, <1>4, FS_Injection
<1>6. \A n \in 1 .. N : \E x \in D : seat[x] = n
  BY <1>5 DEF Surjection
<1>7. DOMAIN rank = D
  OBVIOUS
<1>8. Ranked(rank) = [n \in 1 .. N |-> CHOOSE x \in D : seat[x] = n]
  BY <1>7 DEF Ranked
<1>9. \A n \in 1 .. N : Ranked(rank)[n] \in D /\ seat[Ranked(rank)[n]] = n
  BY <1>6, <1>8, ZenonT(40)
<1>. HIDE DEF seat
<1>10. Ranked(rank) \in [1 .. N -> D]
  BY <1>8, <1>9
<1>11. ASSUME NEW x \in D PROVE \E i \in 1 .. N : Ranked(rank)[i] = x
  <2>1. seat[x] \in 1 .. N /\ seat[Ranked(rank)[seat[x]]] = seat[x]
    BY <1>2, <1>9
  <2>2. Ranked(rank)[seat[x]] = x
    BY <1>3, <1>9, <2>1
  <2>. QED  BY <2>1, <2>2
<1>12. ASSUME NEW i \in 1 .. N, NEW j \in 1 .. N, Ranked(rank)[i] = Ranked(rank)[j] PROVE i = j
  BY <1>9, <1>12
<1>. QED  BY <1>10, <1>11, <1>12

Holders == {[role |-> r, order |-> signingOrder(r)] : r \in Roles}
RankOf(s) == 4 * s.order + RoleRank(s.role)
Sets(S) == Ranked([s \in S |-> RankOf(s)])

LEMMA HoldersAre ==
  /\ IsFiniteSet(Holders)
  /\ \A s \in Holders : RankOf(s) \in Nat
  /\ \A s, t \in Holders : s.role = t.role \/ RankOf(s) = RankOf(t) => s = t
<1>. DEFINE firm == [role |-> "FIRM_SIGNER", order |-> 1]
            officer == [role |-> "AUTHORIZED_SIGNING_OFFICER", order |-> 2]
            first == [role |-> "TAXPAYER_1", order |-> 2]
            second == [role |-> "TAXPAYER_2", order |-> 2]
<1>1. Holders \subseteq {firm, officer, first, second}
  BY DEF Holders, Roles, signingOrder
<1>2. IsFiniteSet({firm, officer, first, second})
  <2>1. IsFiniteSet({firm})
    BY FS_Singleton
  <2>2. IsFiniteSet({firm} \union {officer})
    BY <2>1, FS_AddElement
  <2>3. IsFiniteSet({firm} \union {officer} \union {first})
    BY <2>2, FS_AddElement
  <2>4. IsFiniteSet({firm} \union {officer} \union {first} \union {second})
    BY <2>3, FS_AddElement
  <2>5. {firm, officer, first, second} = {firm} \union {officer} \union {first} \union {second}
    OBVIOUS
  <2>. QED  BY <2>4, <2>5
<1>3. RankOf(firm) = 6 /\ RankOf(officer) = 9 /\ RankOf(first) = 11 /\ RankOf(second) = 12
  BY DEF RankOf, RoleRank
<1>. QED  BY <1>1, <1>2, <1>3, FS_Subset

(* Each of those who sign has a set, and only one. *)
LEMMA SetsOfARoster ==
  ASSUME NEW S \in SUBSET Holders
  PROVE  /\ DOMAIN Sets(S) = 1 .. Cardinality(S) /\ Cardinality(S) \in Nat
         /\ \A i \in DOMAIN Sets(S) : Sets(S)[i] \in S
         /\ \A i, j \in DOMAIN Sets(S) : Sets(S)[i].role = Sets(S)[j].role => i = j
         /\ ToSet(Sets(S)) = S
<1>. DEFINE rank == [s \in S |-> RankOf(s)]
<1>1. IsFiniteSet(S) /\ Cardinality(S) \in Nat
  BY HoldersAre, FS_Subset, FS_CardinalityType
<1>2. rank \in [S -> Nat] /\ \A x, y \in S : rank[x] = rank[y] => x = y
  BY HoldersAre
<1>3. /\ Sets(S) \in [1 .. Cardinality(S) -> S]
      /\ \A i, j \in 1 .. Cardinality(S) : Sets(S)[i] = Sets(S)[j] => i = j
      /\ \A x \in S : \E i \in 1 .. Cardinality(S) : Sets(S)[i] = x
  <2>. HIDE DEF rank
  <2>1. Sets(S) = Ranked(rank)
    BY DEF Sets, rank
  <2>. QED  BY <1>1, <1>2, <2>1, RankedLists
<1>. HIDE DEF rank
<1>4. ToSet(Sets(S)) = S
  BY <1>3 DEF ToSet
<1>. QED  BY <1>1, <1>3, <1>4, HoldersAre

LEMMA AdobeOrders ==
  ASSUME NEW rows PROVE orderForAdobeParticipantSets(rows) = Sets(ToSet(rows))
BY DEF orderForAdobeParticipantSets, Sets, RankOf

(* Two fillings of one body with the same values read the same. *)
LEMMA FilledAlike ==
  ASSUME NEW body, NEW v, NEW w, DOMAIN v = DOMAIN w,
         \A t \in DOMAIN v \ SignatureTokens : v[t] = w[t]
  PROVE  /\ ReadOf(substituteTokens(body, v)) = ReadOf(substituteTokens(body, w))
         /\ \A words : Shows(substituteTokens(body, v), words) <=> Shows(substituteTokens(body, w), words)
<1>. DEFINE text(i, u) == {mark \in body[i].text : mark[1] # "token"} \union
                            {Printed(t, u[t]) : t \in {x \in DOMAIN u : Token(x) \in body[i].text}}
            read(i, u) == {m \in text(i, u) : ~(m[1] = "printed" /\ m[2] \in SignatureTokens)}
<1>1. ASSUME NEW u PROVE
        /\ DOMAIN substituteTokens(body, u) = DOMAIN body
        /\ \A i \in DOMAIN body : /\ substituteTokens(body, u)[i].tag = body[i].tag
                                  /\ substituteTokens(body, u)[i].box = body[i].box
                                  /\ substituteTokens(body, u)[i].text = text(i, u)
  BY DEF substituteTokens, Block
<1>2. ASSUME NEW i \in DOMAIN body PROVE read(i, v) = read(i, w)
  <2>1. ASSUME NEW a, NEW b, DOMAIN a = DOMAIN b, \A t \in DOMAIN a \ SignatureTokens : a[t] = b[t],
               NEW m \in read(i, a)
        PROVE  m \in text(i, b)
    <3>1. CASE m \in body[i].text /\ m[1] # "token"
      BY <3>1
    <3>2. CASE m \in {Printed(t, a[t]) : t \in {x \in DOMAIN a : Token(x) \in body[i].text}}
      <4>1. PICK t \in DOMAIN a : Token(t) \in body[i].text /\ m = Printed(t, a[t])
        BY <3>2
      <4>2. m[1] = "printed" /\ m[2] = t
        BY <4>1 DEF Printed
      <4>3. t \notin SignatureTokens
        BY <2>1, <4>2
      <4>. QED  BY <2>1, <4>1, <4>3
    <3>. QED  BY <2>1, <3>1, <3>2
  <2>2. read(i, v) \subseteq text(i, w) /\ read(i, w) \subseteq text(i, v)
    BY <2>1
  <2>. QED  BY <2>2
<1>3. ReadOf(substituteTokens(body, v)) = ReadOf(substituteTokens(body, w))
  <2>1. ASSUME NEW u PROVE ReadOf(substituteTokens(body, u)) =
          [i \in DOMAIN body |-> [tag |-> body[i].tag, box |-> body[i].box, text |-> read(i, u)]]
    <3>. DEFINE out == substituteTokens(body, u)
                left(i) == {m \in out[i].text : ~(m[1] = "printed" /\ m[2] \in SignatureTokens)}
    <3>1. ReadOf(out) = [i \in DOMAIN out |-> [tag |-> out[i].tag, box |-> out[i].box, text |-> left(i)]]
      BY DEF ReadOf
    <3>2. \A i \in DOMAIN body : left(i) = read(i, u)
      BY <1>1
    <3>3. /\ DOMAIN out = DOMAIN body
          /\ \A i \in DOMAIN body : out[i].tag = body[i].tag /\ out[i].box = body[i].box
      BY <1>1
    <3>. HIDE DEF out, left, read
    <3>4. ReadOf(out) = [i \in DOMAIN body |-> [tag |-> body[i].tag, box |-> body[i].box, text |-> read(i, u)]]
      BY <3>1, <3>2, <3>3
    <3>. QED  BY <3>4 DEF out
  <2>. HIDE DEF read
  <2>. QED  BY <1>2, <2>1
<1>4. ASSUME NEW words, NEW u PROVE
        Shows(substituteTokens(body, u), words) <=> \E i \in DOMAIN body : Word(words) \in body[i].text
  <2>1. ASSUME NEW i \in DOMAIN body PROVE Word(words) \in text(i, u) <=> Word(words) \in body[i].text
    <3>1. Word(words)[1] = "word"
      BY DEF Word
    <3>2. \A t, x : Printed(t, x)[1] = "printed"
      BY DEF Printed
    <3>3. Word(words) \notin {Printed(t, u[t]) : t \in {x \in DOMAIN u : Token(x) \in body[i].text}}
      BY <3>1, <3>2
    <3>. QED  BY <3>1, <3>3
  <2>2. Shows(substituteTokens(body, u), words) <=> \E i \in DOMAIN body : Word(words) \in text(i, u)
    BY <1>1 DEF Shows, Showing
  <2>. HIDE DEF text
  <2>. QED  BY <2>1, <2>2
<1>. QED  BY <1>3, <1>4

(* Nothing is left out of the joint letter, and a change of wording takes   *)
(* the place of a paragraph, so every field stays where it is.              *)
LEMMA NothingRemoved ==
  ASSUME NEW N \in Nat, NEW body, body = [i \in 1 .. N |-> body[i]]
  PROVE  removeRanges(body, {}) = body
<1>. DEFINE same == [i \in 1 .. N |-> i]
            seat == [x \in 1 .. N |-> Cardinality({y \in 1 .. N : same[y] =< same[x]})]
<1>1. DOMAIN body = 1 .. N /\ (1 .. N) \ {} = 1 .. N
  OBVIOUS
<1>2. IsFiniteSet(1 .. N) /\ Cardinality(1 .. N) = N
  BY FS_Interval
<1>3. ASSUME NEW x \in 1 .. N PROVE seat[x] = x
  <2>1. {y \in 1 .. N : same[y] =< same[x]} = 1 .. x
    OBVIOUS
  <2>2. Cardinality(1 .. x) = x
    BY FS_Interval
  <2>. QED  BY <2>1, <2>2
<1>4. Ranked(same) = [n \in 1 .. Cardinality(1 .. N) |-> CHOOSE x \in 1 .. N : seat[x] = n]
  <2>1. DOMAIN same = 1 .. N
    OBVIOUS
  <2>. HIDE DEF same
  <2>. QED  BY <2>1 DEF Ranked
<1>5. removeRanges(body, {}) = [n \in DOMAIN Ranked(same) |-> body[Ranked(same)[n]]]
  BY <1>1 DEF removeRanges
<1>. HIDE DEF same, seat
<1>6. \A n \in 1 .. N : Ranked(same)[n] = n
  BY <1>2, <1>3, <1>4
<1>7. DOMAIN Ranked(same) = 1 .. N
  BY <1>2, <1>4
<1>. QED  BY <1>5, <1>6, <1>7

IsMark(m) == (\E words : m = Word(words)) \/ (\E name : m = Token(name))
TheBody == T1JointLetter.body

LEMMA TheJointLetter ==
  /\ DOMAIN TheBody = 1 .. 6 /\ TheBody = [i \in 1 .. 6 |-> TheBody[i]]
  /\ TheBody[4].tag = "w:tbl" /\ TheBody[5].tag = "w:tbl"
  /\ {Token("signature.taxpayer1"), Token("signature.taxpayer1_date"), Token("signature.taxpayer2")}
       \subseteq TheBody[4].text
  /\ Token("signature.firm") \in TheBody[5].text
  /\ \A i \in 1 .. 6 : \A m \in TheBody[i].text : IsMark(m)
  /\ \A read : Trimmed(T1JointLetter, read) = removeRanges(TheBody, {})
<1>. DEFINE b1 == Paragraph({Word("T1 PERSONAL INCOME TAX"), Token("taxpayer1.full_legal_name")})
            b2 == Box({Word("Federal T1 Return")})
            b3 == Box({Word("Fixed fee of"), Token("pricing.t1_fee")})
            b4 == Table({Word("ELECTRONIC ACCEPTANCE"), Token("signature.taxpayer1"),
                         Token("signature.taxpayer1_date"), Token("signature.taxpayer2")})
            b5 == Table({Token("signature.firm")})
            b6 == Page
<1>1. TheBody = <<b1, b2, b3, b4, b5, b6>>
  BY DEF TheBody, T1JointLetter
<1>2. /\ b4.tag = "w:tbl" /\ b5.tag = "w:tbl"
      /\ {Token("signature.taxpayer1"), Token("signature.taxpayer1_date"), Token("signature.taxpayer2")}
           \subseteq b4.text
      /\ Token("signature.firm") \in b5.text
  BY DEF Table, Block
<1>3. \A words : IsMark(Word(words)) /\ IsMark(Token(words))
  BY DEF IsMark
<1>4. \A b \in {b1, b2, b3, b4, b5, b6} : \A m \in b.text : IsMark(m)
  <2>1. \A m \in b1.text : IsMark(m)
    BY <1>3 DEF Paragraph, Block
  <2>2. \A m \in b2.text : IsMark(m)
    BY <1>3 DEF Box, Block
  <2>3. \A m \in b3.text : IsMark(m)
    BY <1>3 DEF Box, Block
  <2>4. \A m \in b4.text : IsMark(m)
    BY <1>3 DEF Table, Block
  <2>5. \A m \in b5.text : IsMark(m)
    BY <1>3 DEF Table, Block
  <2>6. \A m \in b6.text : IsMark(m)
    BY DEF Page, Block
  <2>. HIDE DEF b1, b2, b3, b4, b5, b6
  <2>. QED  BY <2>1, <2>2, <2>3, <2>4, <2>5, <2>6
<1>5. ASSUME NEW read PROVE Trimmed(T1JointLetter, read) = removeRanges(TheBody, {})
  BY DEF Trimmed, TheBody, T1JointLetter, includedSections
<1>. HIDE DEF b1, b2, b3, b4, b5, b6
<1>6. DOMAIN TheBody = 1 .. 6 /\ TheBody = [i \in 1 .. 6 |-> TheBody[i]]
  BY <1>1
<1>7. TheBody[4] = b4 /\ TheBody[5] = b5
  BY <1>1
<1>8. ASSUME NEW i \in 1 .. 6 PROVE TheBody[i] \in {b1, b2, b3, b4, b5, b6}
  <2>1. i = 1 \/ i = 2 \/ i = 3 \/ i = 4 \/ i = 5 \/ i = 6
    OBVIOUS
  <2>. QED  BY <1>1, <2>1
<1>. QED  BY <1>2, <1>4, <1>5, <1>6, <1>7, <1>8

LEMMA FieldsStay ==
  ASSUME NEW changes, NEW rules, NEW selected, NEW body,
         body = applyCheckboxes(Reworded(TheBody, changes), rules, selected)
  PROVE  /\ DOMAIN body = 1 .. 6
         /\ \A i \in {4, 5} : body[i].text = TheBody[i].text
         /\ \A i \in 1 .. 6 : \A m \in body[i].text : IsMark(m)
<1>. DEFINE reworded == Reworded(TheBody, changes)
            mine(i) == {c \in changes : i \in Earliest(Places(TheBody, c))}
<1>1. DOMAIN reworded = 1 .. 6
  BY TheJointLetter DEF Reworded
<1>2. ASSUME NEW i \in 1 .. 6
      PROVE  IF mine(i) = {} THEN reworded[i] = TheBody[i] ELSE \E words : reworded[i].text = {Word(words)}
  <2>1. reworded[i] = IF mine(i) = {} THEN TheBody[i] ELSE Paragraph({Word((CHOOSE c \in mine(i) : TRUE).revised)})
    BY TheJointLetter DEF Reworded
  <2>2. \A words : Paragraph({Word(words)}).text = {Word(words)}
    BY DEF Paragraph, Block
  <2>. DEFINE words == (CHOOSE c \in mine(i) : TRUE).revised
  <2>3. reworded[i] = IF mine(i) = {} THEN TheBody[i] ELSE Paragraph({Word(words)})
    BY <2>1
  <2>. HIDE DEF mine, reworded, words
  <2>. QED  BY <2>2, <2>3
<1>3. ASSUME NEW i \in {4, 5} PROVE mine(i) = {}
  <2>1. TheBody[i].tag # "w:p"
    BY TheJointLetter
  <2>. QED  BY <2>1 DEF Earliest, Places
<1>4. \A i \in 1 .. 6 : \A m \in reworded[i].text : IsMark(m)
  <2>. HIDE DEF mine, reworded
  <2>. QED  BY <1>2, TheJointLetter DEF IsMark
<1>5. DOMAIN body = 1 .. 6
  BY <1>1 DEF applyCheckboxes
<1>6. ASSUME NEW i \in 1 .. 6 PROVE body[i].text = reworded[i].text
  BY <1>1 DEF applyCheckboxes, Block
<1>. HIDE DEF mine, reworded
<1>7. \A i \in {4, 5} : reworded[i] = TheBody[i]
  BY <1>2, <1>3
<1>. QED  BY <1>4, <1>5, <1>6, <1>7

LEMMA EachFieldHasItsSigner ==
  ASSUME letterType = "T1_JOINT", NEW read, NEW rows, ToSet(rows) \subseteq Holders,
         NEW copy, copy = renderDocx(Template, read, "FOR_SIGNATURE", rows), copy # NoDocument
  PROVE  EachSignsTheirOwn(copy, Sets(ToSet(rows)))
<1>. DEFINE reworded == Reworded(TheBody, read.wording)
            ticked == applyCheckboxes(reworded, T1JointLetter.checkboxes, Selected(read))
            values == [t \in TokensOf(T1JointLetter) |-> ValueOf(T1JointLetter, read, "FOR_SIGNATURE", rows, t)]
            sets == Sets(ToSet(rows))
            index(role) == resolveSignerIndices(rows, role)
<1>1. Template = T1JointLetter
  BY DEF Template
<1>2. Trimmed(T1JointLetter, read) = TheBody
  BY TheJointLetter, NothingRemoved
<1>3. copy = substituteTokens(ticked, values) /\ Signable(T1JointLetter, reworded, rows)
  BY <1>1, <1>2 DEF renderDocx
<1>4. /\ DOMAIN ticked = 1 .. 6
      /\ \A i \in {4, 5} : ticked[i].text = TheBody[i].text
      /\ \A i \in 1 .. 6 : \A m \in ticked[i].text : IsMark(m)
  BY FieldsStay
<1>5. /\ \A i, j \in DOMAIN sets : sets[i].role = sets[j].role => i = j
      /\ 0 \notin DOMAIN sets
  BY SetsOfARoster
<1>6. ASSUME NEW role
      PROVE  /\ index(role) = 0 => \A i \in DOMAIN sets : sets[i].role # role
             /\ index(role) # 0 => index(role) \in DOMAIN sets /\ sets[index(role)].role = role
  BY <1>5, AdobeOrders DEF resolveSignerIndices
<1>7. ASSUME NEW anchor \in T1JointLetter.anchors
      PROVE  /\ anchor.token \in TokensOf(T1JointLetter)
             /\ \E b \in 1 .. 6 : Token(anchor.token) \in ticked[b].text
             /\ values[anchor.token] = IF index(anchor.role) = 0 THEN Line ELSE <<anchor.kind, index(anchor.role)>>
             /\ anchor.kind \in {"SIGNATURE", "DATE"}
  <2>1. /\ T1JointLetter.anchors =
              {Anchor("TAXPAYER_1", "signature.taxpayer1", "SIGNATURE", TRUE),
               Anchor("TAXPAYER_1", "signature.taxpayer1_date", "DATE", TRUE),
               Anchor("TAXPAYER_2", "signature.taxpayer2", "SIGNATURE", TRUE),
               Anchor("FIRM_SIGNER", "signature.firm", "SIGNATURE", FALSE)}
    BY DEF T1JointLetter
  <2>2. /\ anchor.kind \in {"SIGNATURE", "DATE"}
        /\ anchor.token \in {"signature.taxpayer1", "signature.taxpayer1_date", "signature.taxpayer2", "signature.firm"}
    BY <2>1 DEF Anchor
  <2>3. \A other \in T1JointLetter.anchors : other.token = anchor.token => other = anchor
    <3>. DEFINE a1 == Anchor("TAXPAYER_1", "signature.taxpayer1", "SIGNATURE", TRUE)
                a2 == Anchor("TAXPAYER_1", "signature.taxpayer1_date", "DATE", TRUE)
                a3 == Anchor("TAXPAYER_2", "signature.taxpayer2", "SIGNATURE", TRUE)
                a4 == Anchor("FIRM_SIGNER", "signature.firm", "SIGNATURE", FALSE)
    <3>1. /\ a1.token = "signature.taxpayer1" /\ a2.token = "signature.taxpayer1_date"
          /\ a3.token = "signature.taxpayer2" /\ a4.token = "signature.firm"
      BY DEF Anchor
    <3>2. T1JointLetter.anchors = {a1, a2, a3, a4}
      BY <2>1
    <3>. HIDE DEF a1, a2, a3, a4
    <3>. QED  BY <3>1, <3>2
  <2>4. PICK b \in {4, 5} : Token(anchor.token) \in TheBody[b].text
    BY <2>2, TheJointLetter
  <2>5. anchor.token \in TokensOf(T1JointLetter)
    <3>1. Token(anchor.token)[1] = "token" /\ Token(anchor.token)[2] = anchor.token
      BY DEF Token
    <3>2. Token(anchor.token) \in UNION {TheBody[i].text : i \in DOMAIN TheBody}
      BY <2>4, TheJointLetter
    <3>. QED  BY <3>1, <3>2 DEF TokensOf, TheBody
  <2>6. (CHOOSE a \in T1JointLetter.anchors : a.token = anchor.token) = anchor
    BY <2>3
  <2>7. ValueOf(T1JointLetter, read, "FOR_SIGNATURE", rows, anchor.token) = SignatureValue(anchor, "FOR_SIGNATURE", rows)
    BY <2>6 DEF ValueOf
  <2>8. values[anchor.token] = IF index(anchor.role) = 0 THEN Line ELSE <<anchor.kind, index(anchor.role)>>
    BY <2>2, <2>5, <2>7 DEF SignatureValue, buildAdobeTag
  <2>9. \E i \in 1 .. 6 : Token(anchor.token) \in ticked[i].text
    BY <2>4, <1>4
  <2>. QED  BY <2>2, <2>5, <2>8, <2>9
<1>8. DOMAIN values = TokensOf(T1JointLetter)
  OBVIOUS
<1>. HIDE DEF reworded, ticked, values, sets, index
<1>9. /\ DOMAIN copy = 1 .. 6
      /\ \A b \in 1 .. 6 : copy[b].text = {mark \in ticked[b].text : mark[1] # "token"} \union
            {Printed(t, values[t]) : t \in {u \in DOMAIN values : Token(u) \in ticked[b].text}}
  BY <1>3, <1>4 DEF substituteTokens, Block
<1>10. ASSUME NEW anchor \in T1JointLetter.anchors, NEW i \in DOMAIN sets, sets[i].role = anchor.role
       PROVE  \E b \in DOMAIN copy : Printed(anchor.token, <<anchor.kind, i>>) \in copy[b].text
  <2>1. index(anchor.role) = i
    BY <1>5, <1>6, <1>10
  <2>2. values[anchor.token] = <<anchor.kind, i>>
    BY <1>5, <1>7, <2>1
  <2>3. PICK b \in 1 .. 6 : Token(anchor.token) \in ticked[b].text
    BY <1>7
  <2>. QED  BY <1>7, <1>8, <1>9, <2>2, <2>3, ZenonT(40)
<1>11. ASSUME NEW anchor \in T1JointLetter.anchors, NEW i \in DOMAIN sets, NEW b \in DOMAIN copy,
              Printed(anchor.token, <<anchor.kind, i>>) \in copy[b].text
       PROVE  sets[i].role = anchor.role
  <2>1. Printed(anchor.token, <<anchor.kind, i>>) \notin ticked[b].text
    <3>1. \A t, v : Printed(t, v)[1] = "printed"
      BY DEF Printed
    <3>2. \A w : Word(w)[1] = "word" /\ Token(w)[1] = "token"
      BY DEF Word, Token
    <3>. QED  BY <1>4, <1>9, <3>1, <3>2 DEF IsMark
  <2>2. PICK t \in DOMAIN values : Printed(anchor.token, <<anchor.kind, i>>) = Printed(t, values[t])
    BY <1>9, <1>11, <2>1
  <2>3. t = anchor.token /\ values[t] = <<anchor.kind, i>>
    BY <2>2 DEF Printed
  <2>4. Line # <<anchor.kind, i>>
    BY <1>7 DEF Line
  <2>5. <<anchor.kind, index(anchor.role)>> = <<anchor.kind, i>> /\ index(anchor.role) # 0
    BY <1>7, <2>3, <2>4
  <2>. QED  BY <1>6, <2>5
<1>12. ASSUME NEW anchor \in T1JointLetter.anchors, anchor.required
       PROVE  \E i \in DOMAIN sets : sets[i].role = anchor.role
  BY <1>3, <1>6, <1>12 DEF Signable, index
<1>. QED  BY <1>1, <1>10, <1>11, <1>12 DEF EachSignsTheirOwn, sets

VersionFields == {"draft", "status", "signers", "copy", "errors"}
VersionOk(version) ==
  /\ version = [f \in VersionFields |-> version[f]]
  /\ version.signers \subseteq Holders
  /\ version.copy # NoDocument =>
       /\ ReadOf(version.copy) = ReadOf(version.draft)
       /\ EachSignsTheirOwn(version.copy, Sets(version.signers))
       /\ version.errors = {} => \A w \in Template.forbidden : ~Shows(version.copy, w)

(* What the gate let through, and for whom. *)
MayGo(version, passed) == version.copy # NoDocument /\ version.errors = {} /\ version.signers = passed
PostingFields == {"at", "of", "passed", "rows"}
PostingOk ==
  posting.at \in {"read", "transition", "create"} =>
    /\ posting.of \in DOMAIN letters /\ MayGo(letters[posting.of], posting.passed)
    /\ posting.at # "read" => /\ posting = [f \in PostingFields |-> posting[f]]
                              /\ ToSet(posting.rows) \subseteq Holders
AgreementOk ==
  agreement # NoAgreement =>
    /\ agreement.of \in DOMAIN letters /\ MayGo(letters[agreement.of], agreement.passed)
    /\ \E S \in SUBSET Holders : agreement.sets = Sets(S)

VersionsOk == \A v \in DOMAIN letters : VersionOk(letters[v])

SignersInv ==
  /\ letterType \in {"T2", "T1_JOINT"}
  /\ letters \in Seq(ToSet(letters)) /\ VersionsOk
  /\ PostingOk /\ AgreementOk

LEMMA SignersInvInit == SignersInit => SignersInv
<1>. SUFFICES ASSUME SignersInit PROVE SignersInv
  OBVIOUS
<1>1. letters = <<>> /\ posting = Unasked /\ agreement = NoAgreement
  BY DEF SignersInit
<1>2. posting.at = "rest"
  BY <1>1 DEF Unasked
<1>3. letters \in Seq(ToSet(letters)) /\ DOMAIN letters = {}
  BY <1>1
<1>. QED  BY <1>1, <1>2, <1>3 DEF SignersInv, SignersInit, VersionsOk, PostingOk, AgreementOk

LEMMA ListedSign == ASSUME NEW rows \in Listed PROVE ToSet(rows) \subseteq Holders
<1>. DEFINE named == {[role |-> r, order |-> signingOrder(r)] : r \in Named}
<1>1. named \subseteq Holders
  BY DEF Named, Holders
<1>2. rows \in [1 .. Cardinality(named) -> named]
  BY DEF Listed, SetToSeqs
<1>. QED  BY <1>1, <1>2 DEF ToSet

(* The copy is the draft, but for its signature fields. *)
LEMMA CopyReadsAsDraft ==
  ASSUME NEW read, NEW rows, NEW copy, copy = renderDocx(Template, read, "FOR_SIGNATURE", rows), copy # NoDocument,
         NEW draft, draft = renderDocx(Template, read, "DRAFT", <<>>)
  PROVE  /\ ReadOf(copy) = ReadOf(draft)
         /\ \A words : Shows(copy, words) <=> Shows(draft, words)
<1>. DEFINE body == applyCheckboxes(Reworded(Trimmed(Template, read), read.wording), Template.checkboxes, Selected(read))
            v == [t \in TokensOf(Template) |-> ValueOf(Template, read, "FOR_SIGNATURE", rows, t)]
            w == [t \in TokensOf(Template) |-> ValueOf(Template, read, "DRAFT", <<>>, t)]
<1>1. copy = substituteTokens(body, v) /\ draft = substituteTokens(body, w)
  BY DEF renderDocx
<1>2. \A t \in TokensOf(Template) \ SignatureTokens : v[t] = w[t]
  BY DEF SignatureTokens, ValueOf
<1>3. DOMAIN v = TokensOf(Template) /\ DOMAIN w = TokensOf(Template)
  OBVIOUS
<1>. HIDE DEF body, v, w
<1>. QED  BY <1>1, <1>2, <1>3, FilledAlike

LEMMA VersionIsOk ==
  ASSUME letterType \in {"T2", "T1_JOINT"}, NEW read, NEW rows, ToSet(rows) \subseteq Holders
  PROVE  VersionOk(Version(read, rows))
<1>. DEFINE version == Version(read, rows)
            draft == renderDocx(Template, read, "DRAFT", <<>>)
            signed == renderDocx(Template, read, "FOR_SIGNATURE", rows)
            errors == validateRenderedDocument(Template, read, draft)
<1>1. /\ version = [f \in VersionFields |-> version[f]]
      /\ version.signers = ToSet(rows) /\ version.draft = draft /\ version.errors = errors
      /\ version.copy # NoDocument => version.copy = signed
  BY DEF Version, VersionFields
<1>. SUFFICES ASSUME version.copy # NoDocument
              PROVE  /\ ReadOf(version.copy) = ReadOf(version.draft)
                     /\ EachSignsTheirOwn(version.copy, Sets(version.signers))
                     /\ version.errors = {} => \A w \in Template.forbidden : ~Shows(version.copy, w)
  BY <1>1 DEF VersionOk
<1>2. version.copy = signed /\ signed # NoDocument
  BY <1>1
<1>3. ReadOf(signed) = ReadOf(draft) /\ \A words : Shows(signed, words) <=> Shows(draft, words)
  BY <1>2, CopyReadsAsDraft
<1>4. errors = {} => \A w \in Template.forbidden : ~Shows(draft, w)
  BY DEF validateRenderedDocument
<1>5. EachSignsTheirOwn(signed, Sets(ToSet(rows)))
  <2>1. CASE letterType = "T1_JOINT"
    BY <1>2, <2>1, EachFieldHasItsSigner
  <2>2. CASE letterType = "T2"
    <3>1. \A anchor \in Template.anchors : anchor.kind = "AUTO_PLACED"
      BY <2>2 DEF Template, T2Letter, Anchor
    <3>. QED  BY <3>1 DEF EachSignsTheirOwn
  <2>. QED  BY <2>1, <2>2
<1>. HIDE DEF version, draft, signed, errors
<1>. QED  BY <1>1, <1>2, <1>3, <1>4, <1>5

(* A version keeps what it is, whatever its status becomes. *)
LEMMA StatusOnly ==
  ASSUME NEW version, version = [f \in VersionFields |-> version[f]], NEW other,
         \/ other = version
         \/ \E to : other = [version EXCEPT !.status = to]
  PROVE  /\ VersionOk(version) => VersionOk(other)
         /\ \A passed : MayGo(version, passed) => MayGo(other, passed)
<1>1. /\ other = [f \in VersionFields |-> other[f]]
      /\ other.draft = version.draft /\ other.signers = version.signers
      /\ other.copy = version.copy /\ other.errors = version.errors
  BY DEF VersionFields
<1>. QED  BY <1>1 DEF VersionOk, MayGo

LEMMA OneMore ==
  ASSUME NEW S, NEW old \in Seq(S), NEW new
  PROVE  LET t == old \o <<new>>
             n == Len(old)
         IN  /\ t \in Seq(S \union {new}) /\ DOMAIN t = 1 .. n + 1 /\ n \in Nat
             /\ \A i \in 1 .. n : t[i] = old[i]
             /\ t[n + 1] = new
<1>1. old \in Seq(S \union {new}) /\ <<new>> \in Seq(S \union {new}) /\ Len(<<new>>) = 1 /\ <<new>>[1] = new
  BY SMTT(30)
<1>. QED  BY <1>1, ConcatProperties

(* Versions are added and change their status. *)
Kept(before, after) ==
  /\ DOMAIN before \subseteq DOMAIN after
  /\ \A v \in DOMAIN before : \A passed : MayGo(before[v], passed) => MayGo(after[v], passed)

LEMMA LettersStep ==
  ASSUME SignersInv, SignersNext \/ UNCHANGED mailing
  PROVE  /\ UNCHANGED letterType /\ Kept(letters, letters')
         /\ letters' \in Seq(ToSet(letters')) /\ VersionsOk'
<1>. USE DEF SignersInv
<1>0. UNCHANGED letterType
  BY DEF SignersNext, mailing, Correct, ReadRow, WriteRow, Change, ReadDetails, StoreVersion, Regenerate,
         Approve, PressSend, ReadSigners, EnterSending, Create
<1>1. ASSUME \A v \in DOMAIN letters' : VersionOk(letters'[v]) PROVE VersionsOk'
  <2>1. Template' = Template /\ Holders' = Holders
    BY <1>0 DEF Template, Holders, Roles
  <2>2. SignatureTokens' = SignatureTokens
    BY <2>1 DEF SignatureTokens
  <2>3. ASSUME NEW v \in DOMAIN letters' PROVE VersionOk(letters[v])'
    <3>1. /\ ReadOf(letters[v].copy)' = ReadOf(letters'[v].copy)
          /\ ReadOf(letters[v].draft)' = ReadOf(letters'[v].draft)
      BY <2>2 DEF ReadOf
    <3>2. EachSignsTheirOwn(letters[v].copy, Sets(letters[v].signers))'
            <=> EachSignsTheirOwn(letters'[v].copy, Sets(letters'[v].signers))
      BY <2>1 DEF EachSignsTheirOwn
    <3>3. VersionOk(letters'[v])
      BY <1>1
    <3>. QED  BY <2>1, <3>1, <3>2, <3>3 DEF VersionOk
  <2>. QED  BY <2>3 DEF VersionsOk
<1>2. CASE UNCHANGED letters
  BY <1>0, <1>1, <1>2 DEF Kept, VersionsOk
<1>3. ASSUME NEW v \in DOMAIN letters, NEW to, letters' = [letters EXCEPT ![v].status = to] PROVE
        /\ Kept(letters, letters')
        /\ letters' \in Seq(ToSet(letters')) /\ VersionsOk'
  <2>1. DOMAIN letters' = DOMAIN letters
    BY <1>3
  <2>2. \A u \in DOMAIN letters : letters'[u] = letters[u] \/ letters'[u] = [letters[u] EXCEPT !.status = to]
    BY <1>3
  <2>3. \A u \in DOMAIN letters : letters[u] = [f \in VersionFields |-> letters[u][f]]
    BY DEF VersionsOk, VersionOk
  <2>4. \A u \in DOMAIN letters : /\ VersionOk(letters'[u])
                                   /\ \A passed : MayGo(letters[u], passed) => MayGo(letters'[u], passed)
    BY <2>2, <2>3, StatusOnly DEF VersionsOk
  <2>5. letters' \in Seq(ToSet(letters'))
    <3>1. DOMAIN letters = 1 .. Len(letters) /\ Len(letters) \in Nat
      OBVIOUS
    <3>2. letters' \in [1 .. Len(letters) -> ToSet(letters')]
      BY <1>3, <2>1, <3>1 DEF ToSet
    <3>. QED  BY <3>1, <3>2
  <2>. QED  BY <1>1, <2>1, <2>4, <2>5 DEF Kept
<1>4. CASE StoreVersion
  <2>1. PICK rows \in Listed :
          letters' = [i \in DOMAIN letters |-> IF i = Len(letters) THEN Superseded(letters[i]) ELSE letters[i]]
                     \o <<Version(drafting.read, rows)>>
    BY <1>4 DEF StoreVersion
  <2>. DEFINE new == Version(drafting.read, rows)
              old == [i \in DOMAIN letters |-> IF i = Len(letters) THEN Superseded(letters[i]) ELSE letters[i]]
              n == Len(letters)
  <2>2. VersionOk(new)
    BY ListedSign, VersionIsOk
  <2>3. \A u \in DOMAIN letters : letters[u] = [f \in VersionFields |-> letters[u][f]]
    BY DEF VersionsOk, VersionOk
  <2>4. \A u \in DOMAIN letters : /\ VersionOk(old[u])
                                   /\ \A passed : MayGo(letters[u], passed) => MayGo(old[u], passed)
    BY <2>3, StatusOnly DEF Superseded, VersionsOk
  <2>5. DOMAIN letters = 1 .. n /\ n \in Nat /\ old \in Seq(ToSet(old))
    <3>1. DOMAIN letters = 1 .. n /\ n \in Nat
      OBVIOUS
    <3>2. old \in [1 .. n -> ToSet(old)]
      BY <3>1 DEF ToSet
    <3>. QED  BY <3>1, <3>2
  <2>6. DOMAIN old = DOMAIN letters /\ letters' = old \o <<new>>
    BY <2>1
  <2>. HIDE DEF old, new, n
  <2>7. Len(old) = n
    BY <2>5, <2>6
  <2>8. /\ DOMAIN letters' = 1 .. n + 1
        /\ \A u \in 1 .. n : letters'[u] = old[u]
        /\ letters'[n + 1] = new
    BY <2>5, <2>6, <2>7, OneMore
  <2>9. letters' \in Seq(ToSet(letters'))
    <3>1. letters' \in Seq(ToSet(old) \union {new})
      BY <2>5, <2>6, OneMore
    <3>2. letters' \in [1 .. n + 1 -> ToSet(letters')]
      BY <2>8, <3>1 DEF ToSet
    <3>. QED  BY <2>5, <3>2
  <2>10. \A u \in DOMAIN letters' : VersionOk(letters'[u])
    BY <2>2, <2>4, <2>5, <2>8
  <2>. QED  BY <1>0, <1>1, <2>4, <2>5, <2>8, <2>9, <2>10 DEF Kept
<1>5. CASE Create /\ posting.at = "create"
  BY <1>0, <1>2, <1>3, <1>5, SMTT(30) DEF Create, PostingOk
<1>6. ASSUME NEW v \in DOMAIN letters, Approve(v) PROVE letters' = [letters EXCEPT ![v].status = "APPROVED"]
  BY <1>6 DEF Approve
<1>7. \/ UNCHANGED letters \/ StoreVersion \/ (Create /\ posting.at = "create")
      \/ \E v \in DOMAIN letters : Approve(v)
  BY DEF SignersNext, mailing, Correct, ReadRow, WriteRow, Change, ReadDetails, Regenerate,
         PressSend, ReadSigners, EnterSending, Create
<1>. QED  BY <1>0, <1>2, <1>3, <1>4, <1>5, <1>6, <1>7, SMTT(30)

LEMMA SignersInvStep == ASSUME SignersInv, SignersNext \/ UNCHANGED mailing PROVE SignersInv'
<1>1. /\ UNCHANGED letterType /\ Kept(letters, letters')
      /\ letters' \in Seq(ToSet(letters')) /\ VersionsOk'
  BY LettersStep
<1>2. Holders' = Holders
  BY <1>1 DEF Holders, Roles
<1>3. PostingOk /\ AgreementOk
  BY DEF SignersInv
<1>4. PostingOk'
  <2>1. CASE UNCHANGED posting
    BY <1>1, <1>2, <1>3, <2>1 DEF PostingOk, Kept
  <2>2. ASSUME NEW v \in DOMAIN letters, PressSend(v) PROVE PostingOk'
    <3>1. /\ letters[v].copy # NoDocument /\ letters[v].errors = {} /\ letters[v].signers = Roster
          /\ UNCHANGED letters /\ posting' = [at |-> "read", of |-> v, passed |-> Roster]
      BY <2>2 DEF PressSend, evaluateSendGate, rosterChanged
    <3>. QED  BY <3>1 DEF PostingOk, MayGo
  <2>3. CASE ReadSigners
    <3>1. PICK rows \in Listed :
            posting' = [at |-> "transition", of |-> posting.of, passed |-> posting.passed, rows |-> rows]
      BY <2>3 DEF ReadSigners
    <3>2. UNCHANGED letters /\ posting.at = "read"
      BY <2>3 DEF ReadSigners
    <3>3. ToSet(rows) \subseteq Holders
      BY ListedSign
    <3>4. posting' = [f \in PostingFields |-> posting'[f]] /\ posting'.rows = rows
          /\ posting'.of = posting.of /\ posting'.passed = posting.passed
      BY <3>1 DEF PostingFields
    <3>. QED  BY <1>2, <1>3, <3>2, <3>3, <3>4 DEF PostingOk
  <2>4. CASE EnterSending
    <3>1. UNCHANGED letters /\ posting.at = "transition"
      BY <2>4 DEF EnterSending
    <3>2. posting' = Unasked \/ posting' = [posting EXCEPT !.at = "create"]
      BY <2>4 DEF EnterSending
    <3>3. CASE posting' = Unasked
      BY <3>3 DEF PostingOk, Unasked
    <3>4. CASE posting' = [posting EXCEPT !.at = "create"]
      <4>1. posting = [f \in PostingFields |-> posting[f]] /\ ToSet(posting.rows) \subseteq Holders
        BY <1>3, <3>1, SMTT(30) DEF PostingOk
      <4>2. /\ posting' = [f \in PostingFields |-> posting'[f]] /\ posting'.rows = posting.rows
            /\ posting'.of = posting.of /\ posting'.passed = posting.passed
        BY <3>4, <4>1, SMTT(30) DEF PostingFields
      <4>. QED  BY <1>2, <1>3, <3>1, <4>1, <4>2 DEF PostingOk
    <3>. QED  BY <3>2, <3>3, <3>4
  <2>5. CASE Create
    BY <2>5 DEF Create, PostingOk, Unasked
  <2>6. \/ UNCHANGED posting \/ ReadSigners \/ EnterSending \/ Create
        \/ \E v \in DOMAIN letters : PressSend(v)
    BY DEF SignersNext, mailing, Correct, ReadRow, WriteRow, Change, ReadDetails, StoreVersion, Regenerate, Approve
  <2>. QED  BY <2>1, <2>2, <2>3, <2>4, <2>5, <2>6
<1>5. AgreementOk'
  <2>1. CASE UNCHANGED agreement
    BY <1>1, <1>2, <1>3, <2>1 DEF AgreementOk, Kept
  <2>2. CASE Create /\ posting.rows # <<>>
    <3>1. /\ posting.at = "create"
          /\ agreement' = [sets |-> createAgreement(posting.rows), of |-> posting.of, passed |-> posting.passed]
      BY <2>2 DEF Create
    <3>2. /\ posting.of \in DOMAIN letters /\ MayGo(letters[posting.of], posting.passed)
          /\ ToSet(posting.rows) \in SUBSET Holders
      BY <1>3, <3>1 DEF PostingOk
    <3>3. createAgreement(posting.rows) = Sets(ToSet(posting.rows))
      BY AdobeOrders DEF createAgreement
    <3>4. /\ agreement'.of = posting.of /\ agreement'.passed = posting.passed
          /\ agreement'.sets = Sets(ToSet(posting.rows))
      BY <3>1, <3>3
    <3>5. MayGo(letters'[posting.of], posting.passed) /\ posting.of \in DOMAIN letters'
      BY <1>1, <3>2 DEF Kept
    <3>6. \A S : Sets(S)' = Sets(S)
      BY SMTT(30)
    <3>. QED  BY <1>2, <3>2, <3>4, <3>5, <3>6 DEF AgreementOk
  <2>3. UNCHANGED agreement \/ (Create /\ posting.rows # <<>>)
    BY DEF SignersNext, mailing, Correct, ReadRow, WriteRow, Change, ReadDetails, StoreVersion, Regenerate,
           Approve, PressSend, ReadSigners, EnterSending, Create
  <2>. QED  BY <2>1, <2>2, <2>3
<1>. QED  BY <1>1, <1>4, <1>5 DEF SignersInv

(* What goes to Adobe says what the approved draft says, nothing internal among it, and each    *)
(* field is for the one who signs there, for every number of requests, corrections and drafts,  *)
(* unless the signers were changed while the send was past its gate.                            *)
THEOREM ApprovedIsWhatIsSigned == Spec => []SignedAsRead
<1>1. Init => SignersInv
  BY SignersInvInit DEF Init
<1>2. SignersInv /\ [Stirs]_vars => SignersInv'
  BY SignersInvStep, OnePartSteps
<1>3. SignersInv => SignedAsRead
  <2>. SUFFICES ASSUME SignersInv, agreement # NoAgreement, agreement.passed = ToSet(agreement.sets)
                PROVE  LET version == letters[agreement.of]
                       IN  /\ ReadOf(version.copy) = ReadOf(version.draft)
                           /\ \A w \in Template.forbidden : ~Shows(version.copy, w)
                           /\ EachSignsTheirOwn(version.copy, agreement.sets)
    BY DEF SignedAsRead
  <2>1. PICK S \in SUBSET Holders : agreement.sets = Sets(S)
    BY DEF SignersInv, AgreementOk
  <2>2. /\ agreement.of \in DOMAIN letters /\ MayGo(letters[agreement.of], agreement.passed)
        /\ VersionOk(letters[agreement.of])
    BY DEF SignersInv, VersionsOk, AgreementOk
  <2>3. agreement.passed = S
    BY <2>1, SetsOfARoster
  <2>. QED  BY <2>1, <2>2, <2>3 DEF VersionOk, MayGo
<1>. QED  BY <1>1, <1>2, <1>3, PTL DEF Spec, Stirs
===============================================================================
