-------------------------- MODULE TrustStoreProofs --------------------------
(***************************************************************************)
(* Proofs about times and the windows of trust made of them.               *)
(***************************************************************************)
EXTENDS TrustStore, Calendar, SymbolicProofs

-----------------------------------------------------------------------------
(***************************************************************************)
(* Day numbers are consecutive for ever, from any start whose own number   *)
(* is right.  The formula counts years from March, so that a leap day ends *)
(* one; what it counts for y of them is MarchDays(y), and a year adds 365  *)
(* or 366 to it as IsLeapYear says.                                        *)
(***************************************************************************)

MarchDays(y) == 365 * y + y \div 4 - y \div 100 + y \div 400

\* The days from 1 March to the first of a month.
MonthDays(month) == (153 * ((month + 9) % 12) + 2) \div 5

MarchYear(year, month) == IF month <= 2 THEN year - 1 ELSE year

\* The number of multiples of a divisor grows at each multiple.
LEMMA Multiples ==
    ASSUME NEW y \in Int
    PROVE  /\ y \div 4 - (y - 1) \div 4 = IF y % 4 = 0 THEN 1 ELSE 0
           /\ y \div 100 - (y - 1) \div 100 = IF y % 100 = 0 THEN 1 ELSE 0
           /\ y \div 400 - (y - 1) \div 400 = IF y % 400 = 0 THEN 1 ELSE 0
  OBVIOUS

\* A year that ends with a leap day is a day longer.
LEMMA YearLength ==
    ASSUME NEW y \in Int
    PROVE  MarchDays(y) - MarchDays(y - 1) = 365 + (IF IsLeapYear(y) THEN 1 ELSE 0)
<1>1. y % 100 = 0 => y % 4 = 0
  OBVIOUS
<1>2. y % 400 = 0 => y % 100 = 0
  OBVIOUS
<1>3. QED
  BY <1>1, <1>2, Multiples DEF MarchDays, IsLeapYear

\* Counting by eras of 400 years is counting by years.
LEMMA ByEras ==
    ASSUME NEW y \in Int
    PROVE  LET era == y \div 400
               r == y - era * 400
           IN  era * 146097 + r * 365 + r \div 4 - r \div 100 = MarchDays(y)
<1> DEFINE era == y \div 400
           r == y - era * 400
<1>1. era \in Int /\ r \in Int /\ y = 400 * era + r
  OBVIOUS
<1>2. y \div 4 = 100 * era + r \div 4
  BY <1>1
<1>3. y \div 100 = 4 * era + r \div 100
  BY <1>1
<1>4. QED
  BY <1>1, <1>2, <1>3 DEF MarchDays

LEMMA Formula ==
    ASSUME NEW year \in Nat, NEW month \in 1..12, NEW day \in Nat
    PROVE  DaysFromCivil(year, month, day)
               = MarchDays(MarchYear(year, month)) + MonthDays(month) + day - 1 - 719468
<1> DEFINE y == MarchYear(year, month)
           era == y \div 400
           r == y - era * 400
           m == MonthDays(month)
<1>1. y \in Int /\ y >= -1
  BY DEF MarchYear
<1>2. (IF y >= 0 THEN y ELSE y - 399) \div 400 = era
  BY <1>1
<1>3. DaysFromCivil(year, month, day)
          = era * 146097 + (r * 365 + r \div 4 - r \div 100 + (m + day - 1)) - 719468
  BY <1>2 DEF DaysFromCivil, MarchYear, MonthDays
<1> HIDE DEF y
<1>4. era * 146097 + r * 365 + r \div 4 - r \div 100 = MarchDays(y)
  BY <1>1, ByEras, SMTT(30)
<1>5. /\ era \in Int /\ r \in Int /\ m \in Int
      /\ r \div 4 \in Int /\ r \div 100 \in Int /\ MarchDays(y) \in Int
  BY <1>1 DEF MonthDays, MarchDays
<1> HIDE DEF era, r, m
<1>6. QED
  BY <1>3, <1>4, <1>5 DEF y, m

-----------------------------------------------------------------------------
DayNumber(d) == DaysFromCivil(d.year, d.month, d.day)

\* Between two months of one March year, the days of the first one pass.
LEMMA MonthLength ==
    ASSUME NEW year \in Nat, NEW month \in 1..12, month # 2
    PROVE  LET next == IF month = 12 THEN 1 ELSE month + 1
           IN  /\ MonthDays(next) - MonthDays(month) = DaysInMonth(year, month)
               /\ DaysInMonth(year, month) \in Nat \ {0}
<1> DEFINE next == IF month = 12 THEN 1 ELSE month + 1
<1>1. CASE month \in {1, 3, 5, 7, 8, 10, 12}
  BY <1>1 DEF MonthDays, DaysInMonth
<1>2. CASE month \in {4, 6, 9, 11}
  BY <1>2 DEF MonthDays, DaysInMonth
<1>3. QED
  BY <1>1, <1>2

\* The day after the last one of a month.
LEMMA NextMonth ==
    ASSUME NEW year \in Nat, NEW month \in 1..12
    PROVE  DaysFromCivil(IF month = 12 THEN year + 1 ELSE year, IF month = 12 THEN 1 ELSE month + 1, 1)
               = DaysFromCivil(year, month, DaysInMonth(year, month)) + 1
<1> DEFINE nextYear == IF month = 12 THEN year + 1 ELSE year
           nextMonth == IF month = 12 THEN 1 ELSE month + 1
           last == DaysInMonth(year, month)
<1>1. /\ nextYear \in Nat /\ nextMonth \in 1..12 /\ last \in Nat
      /\ MarchYear(year, month) \in Int /\ MonthDays(month) \in Int /\ MonthDays(nextMonth) \in Int
  BY DEF DaysInMonth, MarchYear, MonthDays
<1>2. /\ DaysFromCivil(nextYear, nextMonth, 1)
             = MarchDays(MarchYear(nextYear, nextMonth)) + MonthDays(nextMonth) + 1 - 1 - 719468
      /\ DaysFromCivil(year, month, last)
             = MarchDays(MarchYear(year, month)) + MonthDays(month) + last - 1 - 719468
  BY <1>1, Formula
<1>3. \A y \in Int : MarchDays(y) \in Int
  BY DEF MarchDays
<1>4. CASE month = 2
  <2>1. MarchYear(nextYear, nextMonth) = year /\ MarchYear(year, month) = year - 1
    BY <1>4 DEF MarchYear
  <2>2. MonthDays(nextMonth) = 0 /\ MonthDays(month) = 337
    BY <1>4 DEF MonthDays
  <2>3. last = 28 + (IF IsLeapYear(year) THEN 1 ELSE 0)
    BY <1>4 DEF DaysInMonth
  <2>4. MarchDays(year) = MarchDays(year - 1) + 365 + (IF IsLeapYear(year) THEN 1 ELSE 0)
    BY <1>3, YearLength
  <2>5. QED
    BY <1>1, <1>2, <1>3, <2>1, <2>2, <2>3, <2>4
<1>5. CASE month # 2
  <2>1. MarchYear(nextYear, nextMonth) = MarchYear(year, month)
    BY <1>5 DEF MarchYear
  <2>2. MonthDays(nextMonth) - MonthDays(month) = last
    BY <1>5, MonthLength
  <2>3. QED
    BY <1>1, <1>2, <1>3, <2>1, <2>2
<1>6. QED
  BY <1>4, <1>5
-----------------------------------------------------------------------------
ValidDates ==
    {d \in [year : Nat, month : 1..12, day : Nat] : d.day \in 1..DaysInMonth(d.year, d.month)}

LEMMA FollowingDay ==
    ASSUME NEW d \in ValidDates
    PROVE  /\ Following(d) \in ValidDates
           /\ DayNumber(Following(d)) = DayNumber(d) + 1
<1>1. /\ d.year \in Nat /\ d.month \in 1..12 /\ d.day \in Nat
      /\ d.day \in 1..DaysInMonth(d.year, d.month)
  BY DEF ValidDates
<1>2. CASE d.day < DaysInMonth(d.year, d.month)
  <2>1. /\ Following(d) = Date(d.year, d.month, d.day + 1)
        /\ d.day + 1 \in Nat
        /\ d.day + 1 \in 1..DaysInMonth(d.year, d.month)
    BY <1>1, <1>2 DEF Following, DaysInMonth
  <2>2. /\ DaysFromCivil(d.year, d.month, d.day + 1)
               = MarchDays(MarchYear(d.year, d.month)) + MonthDays(d.month) + (d.day + 1) - 1 - 719468
        /\ DaysFromCivil(d.year, d.month, d.day)
               = MarchDays(MarchYear(d.year, d.month)) + MonthDays(d.month) + d.day - 1 - 719468
    BY <1>1, <2>1, Formula
  <2>3. MarchDays(MarchYear(d.year, d.month)) \in Int /\ MonthDays(d.month) \in Int
    BY <1>1 DEF MarchDays, MarchYear, MonthDays
  <2>4. QED
    BY <1>1, <2>1, <2>2, <2>3 DEF ValidDates, Date, DayNumber
<1>3. CASE ~(d.day < DaysInMonth(d.year, d.month))
  <2> DEFINE year == IF d.month = 12 THEN d.year + 1 ELSE d.year
             month == IF d.month = 12 THEN 1 ELSE d.month + 1
  <2>1. d.day = DaysInMonth(d.year, d.month)
    BY <1>1, <1>3 DEF DaysInMonth
  <2>2. Following(d) = Date(year, month, 1)
    BY <1>1, <1>3 DEF Following
  <2>3. year \in Nat /\ month \in 1..12 /\ 1 \in 1..DaysInMonth(year, month)
    BY <1>1 DEF DaysInMonth
  <2>4. DaysFromCivil(year, month, 1) = DaysFromCivil(d.year, d.month, d.day) + 1
    BY <1>1, <2>1, NextMonth
  <2>5. QED
    BY <2>2, <2>3, <2>4 DEF ValidDates, Date, DayNumber
<1>4. QED
  BY <1>2, <1>3

\* The date stays one that parse_rfc3339 accepts; its number is the count.
CalendarInv == date \in ValidDates /\ days \in Int /\ DayNumbersAreConsecutive

StartsAreRight == \A start \in Starts : start.days = DaysFromCivil(start.year, 1, 1)

(***************************************************************************)
(* days_from_civil gives consecutive numbers to consecutive dates, for     *)
(* every year that parse_rfc3339 can read and beyond, if the days from     *)
(* which the count is made have their own numbers right.                   *)
(***************************************************************************)
THEOREM CalendarCorrect ==
    ASSUME StartsAreRight
    PROVE  CalendarSpec => []DayNumbersAreConsecutive
<1>1. CalendarInit => CalendarInv
  <2> SUFFICES ASSUME CalendarInit PROVE CalendarInv
    OBVIOUS
  <2>1. PICK start \in Starts : date = Date(start.year, 1, 1) /\ days = start.days
    BY DEF CalendarInit
  <2>2. start.year \in Nat /\ start.days \in Int /\ start.days = DaysFromCivil(start.year, 1, 1)
    BY CalendarAssumption DEF StartsAreRight
  <2>3. QED
    BY <2>1, <2>2 DEF CalendarInv, ValidDates, Date, DaysInMonth, DayNumbersAreConsecutive
<1>2. CalendarInv /\ [NextDay]_calendarVars => CalendarInv'
  <2> SUFFICES ASSUME CalendarInv, [NextDay]_calendarVars PROVE CalendarInv'
    OBVIOUS
  <2>1. CASE NextDay
    <3>1. date' = Following(date) /\ days' = days + 1
      BY <2>1 DEF NextDay
    <3>2. date' \in ValidDates /\ DayNumber(date') = DayNumber(date) + 1
      BY <3>1, FollowingDay DEF CalendarInv
    <3>3. QED
      BY <3>1, <3>2 DEF CalendarInv, DayNumbersAreConsecutive, DayNumber
  <2>2. CASE UNCHANGED calendarVars
    BY <2>2 DEF CalendarInv, DayNumbersAreConsecutive, calendarVars
  <2>3. QED
    BY <2>1, <2>2
<1>3. CalendarInv => DayNumbersAreConsecutive
  BY DEF CalendarInv
<1>4. QED
  BY <1>1, <1>2, <1>3, PTL DEF CalendarSpec

-----------------------------------------------------------------------------
LEMMA DayNumberIsInteger ==
    ASSUME NEW d \in ValidDates
    PROVE  DayNumber(d) \in Int
<1>1. d.year \in Nat /\ d.month \in 1..12 /\ d.day \in Nat
  BY DEF ValidDates
<1>2. MarchDays(MarchYear(d.year, d.month)) \in Int /\ MonthDays(d.month) \in Int
  BY <1>1 DEF MarchDays, MarchYear, MonthDays
<1>3. QED
  BY <1>1, <1>2, Formula DEF DayNumber

\* The texts the property compares are valid, and this is what they are read as.
LEMMA OneNumberPerInstant ==
    ASSUME date \in ValidDates
    PROVE  InstantsAreUnique
<1> DEFINE tomorrow == Following(date)
           n == DayNumber(date)
           lateToday == Text(date, 23, 30, 0, <<>>, Utc)
           lateEast == Text(tomorrow, 0, 30, 0, <<0>>, Zone(1, 1, 0))
           earlyTomorrow == Text(tomorrow, 0, 30, 0, <<>>, Utc)
           earlyWest == Text(date, 23, 30, 0, <<>>, Zone(-1, 1, 0))
           farWest == Text(date, 0, 1, 0, <<>>, Zone(-1, 23, 59))
           rounded == Text(date, 23, 59, 59, <<0, 1>>, Utc)
           midnight == Text(tomorrow, 0, 0, 0, <<>>, Utc)
<1>1. /\ n \in Int /\ date.year \in Nat /\ tomorrow.year \in Nat
      /\ DaysFromCivil(date.year, date.month, date.day) = n
      /\ date.month \in 1..12 /\ date.day \in 1..DaysInMonth(date.year, date.month)
      /\ DaysFromCivil(tomorrow.year, tomorrow.month, tomorrow.day) = n + 1
      /\ tomorrow.month \in 1..12 /\ tomorrow.day \in 1..DaysInMonth(tomorrow.year, tomorrow.month)
  <2>1. tomorrow \in ValidDates /\ DayNumber(tomorrow) = n + 1 /\ n \in Int
    BY FollowingDay, DayNumberIsInteger
  <2> HIDE DEF tomorrow
  <2>2. QED
    BY <2>1 DEF ValidDates, DayNumber
<1> HIDE DEF tomorrow, n
<1>2. ParseRfc3339(lateToday) = {n * 86400 + 84600}
  <2>1. WellFormed(lateToday) /\ InRange(lateToday)
    BY <1>1 DEF Text, Utc, Zone, WellFormed, InRange
  <2>2. UnixTime(lateToday) = n * 86400 + 84600
    BY <1>1 DEF Text, Utc, Zone, UnixTime, OffsetSeconds
  <2>3. ~HasNonzeroFraction(lateToday)
    BY DEF Text, HasNonzeroFraction
  <2> HIDE DEF lateToday
  <2>4. QED
    BY <1>1, <2>1, <2>2, <2>3 DEF ParseRfc3339, Rounded
<1>3. ParseRfc3339(lateEast) = {n * 86400 + 84600}
  <2>1. WellFormed(lateEast) /\ InRange(lateEast)
    BY <1>1 DEF Text, Utc, Zone, WellFormed, InRange
  <2>2. UnixTime(lateEast) = n * 86400 + 84600
    BY <1>1 DEF Text, Utc, Zone, UnixTime, OffsetSeconds
  <2>3. ~HasNonzeroFraction(lateEast)
    BY DEF Text, HasNonzeroFraction
  <2> HIDE DEF lateEast
  <2>4. QED
    BY <1>1, <2>1, <2>2, <2>3 DEF ParseRfc3339, Rounded
<1>4. ParseRfc3339(earlyTomorrow) = {n * 86400 + 88200}
  <2>1. WellFormed(earlyTomorrow) /\ InRange(earlyTomorrow)
    BY <1>1 DEF Text, Utc, Zone, WellFormed, InRange
  <2>2. UnixTime(earlyTomorrow) = n * 86400 + 88200
    BY <1>1 DEF Text, Utc, Zone, UnixTime, OffsetSeconds
  <2>3. ~HasNonzeroFraction(earlyTomorrow)
    BY DEF Text, HasNonzeroFraction
  <2> HIDE DEF earlyTomorrow
  <2>4. QED
    BY <1>1, <2>1, <2>2, <2>3 DEF ParseRfc3339, Rounded
<1>5. ParseRfc3339(earlyWest) = {n * 86400 + 88200}
  <2>1. WellFormed(earlyWest) /\ InRange(earlyWest)
    BY <1>1 DEF Text, Utc, Zone, WellFormed, InRange
  <2>2. UnixTime(earlyWest) = n * 86400 + 88200
    BY <1>1 DEF Text, Utc, Zone, UnixTime, OffsetSeconds
  <2>3. ~HasNonzeroFraction(earlyWest)
    BY DEF Text, HasNonzeroFraction
  <2> HIDE DEF earlyWest
  <2>4. QED
    BY <1>1, <2>1, <2>2, <2>3 DEF ParseRfc3339, Rounded
<1>6. ParseRfc3339(farWest) = {n * 86400 + 86400}
  <2>1. WellFormed(farWest) /\ InRange(farWest)
    BY <1>1 DEF Text, Utc, Zone, WellFormed, InRange
  <2>2. UnixTime(farWest) = n * 86400 + 86400
    BY <1>1 DEF Text, Utc, Zone, UnixTime, OffsetSeconds
  <2>3. ~HasNonzeroFraction(farWest)
    BY DEF Text, HasNonzeroFraction
  <2> HIDE DEF farWest
  <2>4. QED
    BY <1>1, <2>1, <2>2, <2>3 DEF ParseRfc3339, Rounded
<1>7. ParseRfc3339(rounded) = {n * 86400 + 86400}
  <2>1. WellFormed(rounded) /\ InRange(rounded)
    BY <1>1 DEF Text, Utc, Zone, WellFormed, InRange
  <2>2. UnixTime(rounded) = n * 86400 + 86399
    BY <1>1 DEF Text, Utc, Zone, UnixTime, OffsetSeconds
  <2>3. HasNonzeroFraction(rounded)
    BY DEF Text, HasNonzeroFraction
  <2> HIDE DEF rounded
  <2>4. QED
    BY <1>1, <2>1, <2>2, <2>3 DEF ParseRfc3339, Rounded
<1>8. ParseRfc3339(midnight) = {n * 86400 + 86400}
  <2>1. WellFormed(midnight) /\ InRange(midnight)
    BY <1>1 DEF Text, Utc, Zone, WellFormed, InRange
  <2>2. UnixTime(midnight) = n * 86400 + 86400
    BY <1>1 DEF Text, Utc, Zone, UnixTime, OffsetSeconds
  <2>3. ~HasNonzeroFraction(midnight)
    BY DEF Text, HasNonzeroFraction
  <2> HIDE DEF midnight
  <2>4. QED
    BY <1>1, <2>1, <2>2, <2>3 DEF ParseRfc3339, Rounded
<1>9. /\ SameInstant(lateToday, lateEast)
      /\ SameInstant(earlyTomorrow, earlyWest)
      /\ SameInstant(farWest, midnight)
      /\ SameInstant(rounded, midnight)
  <2> HIDE DEF lateToday, lateEast, earlyTomorrow, earlyWest, farWest, rounded, midnight
  <2>1. QED
    BY <1>2, <1>3, <1>4, <1>5, <1>6, <1>7, <1>8 DEF SameInstant
<1>10. QED
  BY <1>9 DEF InstantsAreUnique, tomorrow

(***************************************************************************)
(* An instant written in two ways, in UTC or with an offset or a fraction  *)
(* that carries it over midnight, is one number, on every day there is and *)
(* over every end of a month or year.                                      *)
(***************************************************************************)
THEOREM OneInstantOneNumber == CalendarSpec => []InstantsAreUnique
<1> DEFINE Valid == date \in ValidDates
<1>1. CalendarInit => Valid
  BY CalendarAssumption DEF CalendarInit, ValidDates, Date, DaysInMonth
<1>2. Valid /\ [NextDay]_calendarVars => Valid'
  BY FollowingDay DEF NextDay, calendarVars
<1>3. Valid => InstantsAreUnique
  BY OneNumberPerInstant
<1>4. QED
  BY <1>1, <1>2, <1>3, PTL DEF CalendarSpec

-----------------------------------------------------------------------------
(***************************************************************************)
(* Instants.  The second a text is rounded to is less than a second after  *)
(* the first millisecond that is not before what the text denotes, and     *)
(* never before it.                                                        *)
(***************************************************************************)
IsInstant(text) == WellFormed(text) /\ InRange(text)

LEMMA UnixTimeIsInteger ==
    ASSUME NEW text, IsInstant(text)
    PROVE  UnixTime(text) \in Int
<1> DEFINE d == Date(text.year, text.month, text.day)
<1>1. d \in ValidDates /\ d.year = text.year /\ d.month = text.month /\ d.day = text.day
  BY DEF IsInstant, WellFormed, InRange, ValidDates, Date
<1> HIDE DEF d
<1>2. DaysFromCivil(text.year, text.month, text.day) \in Int
  BY <1>1, DayNumberIsInteger DEF DayNumber
<1>3. OffsetSeconds(text.zone) \in Int
  <2> DEFINE sign == text.zone.sign
             h == text.zone.hour
             m == text.zone.minute
             s == h * 3600 + m * 60
  <2>1. h \in 0..23 /\ m \in 0..59 /\ sign \in {-1, 0, 1}
    BY Zenon DEF IsInstant, WellFormed, InRange
  <2>2. OffsetSeconds(text.zone) = sign * s
    BY DEF OffsetSeconds
  <2> HIDE DEF sign, h, m
  <2>3. s \in Int
    BY <2>1
  <2> HIDE DEF s
  <2>4. sign * s = IF sign = 0 THEN 0 ELSE IF sign = 1 THEN s ELSE -s
    BY <2>1, <2>3
  <2>5. QED
    BY <2>2, <2>3, <2>4
<1>4. text.hour \in Int /\ text.minute \in Int /\ text.second \in Int
  BY DEF IsInstant, InRange
<1>5. QED
  BY <1>2, <1>3, <1>4 DEF UnixTime

LEMMA RoundedUp ==
    ASSUME NEW text, IsInstant(text)
    PROVE  /\ Rounded(text) \in Int /\ Milliseconds(text) \in Int
           /\ 1000 * Rounded(text) - 1000 < Milliseconds(text)
           /\ Milliseconds(text) <= 1000 * Rounded(text)
<1> DEFINE digit(i) == IF i \in DOMAIN text.fraction THEN text.fraction[i] ELSE 0
           more == \E i \in DOMAIN text.fraction : i > 3 /\ text.fraction[i] # 0
           u == UnixTime(text)
           one == digit(1)
           two == digit(2)
           three == digit(3)
           rest == IF more THEN 1 ELSE 0
           up == IF HasNonzeroFraction(text) THEN 1 ELSE 0
<1>1. u \in Int
  BY UnixTimeIsInteger
<1>2. one \in 0..9 /\ two \in 0..9 /\ three \in 0..9 /\ rest \in 0..1 /\ up \in 0..1
  BY DEF IsInstant, WellFormed
<1>3. up = 0 => one = 0 /\ two = 0 /\ three = 0 /\ rest = 0
  BY DEF HasNonzeroFraction
<1>4. up = 1 => one # 0 \/ two # 0 \/ three # 0 \/ rest # 0
  <2>1. SUFFICES ASSUME up = 1
                 PROVE  one # 0 \/ two # 0 \/ three # 0 \/ rest # 0
    OBVIOUS
  <2>2. PICK i \in DOMAIN text.fraction : text.fraction[i] # 0
    BY <2>1 DEF HasNonzeroFraction
  <2>3. i \in Nat \ {0}
    BY <2>2 DEF IsInstant, WellFormed
  <2>4. QED
    BY <2>2, <2>3
<1>5. Milliseconds(text) = 1000 * u + 100 * one + 10 * two + three + rest
  BY DEF Milliseconds
<1>6. Rounded(text) = u + up
  BY DEF Rounded
<1> HIDE DEF u, one, two, three, rest, up
<1>7. QED
  BY <1>1, <1>2, <1>3, <1>4, <1>5, <1>6

-----------------------------------------------------------------------------
(***************************************************************************)
(* What the raw structs hold is what the document declares.                *)
(***************************************************************************)
LEMMA TheOne ==
    /\ \A x : The({x}) = x
    /\ \A option : option # {} => The(option) \in option
  BY DEF The

LEMMA GivenMember ==
    ASSUME NEW value, NEW i, NEW key, Given(value, i, key) # {}
    PROVE  Given(value, i, key) = {Member(value, i, key)}
<1>1. CASE Is(value, "obj")
  <2>1. Given(value, i, key) = {value.obj[key]}
    BY <1>1 DEF Given
  <2>2. QED
    BY <2>1, TheOne DEF Member
<1>2. CASE ~Is(value, "obj")
  <2>1. Given(value, i, key) = {value.arr[i]}
    BY <1>2 DEF Given
  <2>2. QED
    BY <2>1, TheOne DEF Member
<1>3. QED
  BY <1>1, <1>2

LEMMA StringField ==
    ASSUME NEW value, NEW i, NEW key, NEW x \in Field(value, i, key, String)
    PROVE  x = Member(value, i, key).str /\ Given(value, i, key) = {Member(value, i, key)}
<1>1. PICK v \in Given(value, i, key) : x \in String(v)
  BY DEF Field
<1>2. Given(value, i, key) = {Member(value, i, key)}
  BY <1>1, GivenMember
<1>3. QED
  BY <1>1, <1>2 DEF String

\* The window of a validFor that parses.
LEMMA ValidForMeans ==
    ASSUME NEW v, NEW r \in RawValidFor(v), ValidityPeriodFromRaw(r) = Ok
    PROVE  /\ IsInstant(Member(v, 1, "start").str)
           /\ ValidityPeriod(r).start = Rounded(Member(v, 1, "start").str)
           /\ \A e \in Given(v, 2, "end") \ {Null} : IsInstant(e.str)
           /\ ValidityPeriod(r).end = {Rounded(e.str) : e \in Given(v, 2, "end") \ {Null}}
<1> DEFINE A == Field(v, 1, "start", String)
           B == OptionField(v, 2, "end", String)
           text == Member(v, 1, "start").str
           ends == Given(v, 2, "end") \ {Null}
<1>1. r.start \in A /\ r.end \in B
  <2>1. r \in [start : A, end : B]
    BY DEF RawValidFor, Struct
  <2>2. QED
    BY <2>1
<1>2. r.start = text
  BY <1>1, StringField
<1>3. r.end = {e.str : e \in ends}
  <2>1. CASE Given(v, 2, "end") \subseteq {Null}
    <3>1. r.end = {} /\ ends = {}
      BY <1>1, <2>1 DEF OptionField
    <3>2. QED
      BY <3>1
  <2>2. CASE ~(Given(v, 2, "end") \subseteq {Null})
    <3>1. Given(v, 2, "end") = {Member(v, 2, "end")} /\ Member(v, 2, "end") # Null
      BY <2>2, GivenMember
    <3>2. PICK x \in Field(v, 2, "end", String) : r.end = {x}
      BY <1>1, <2>2 DEF OptionField
    <3>3. x = Member(v, 2, "end").str
      BY <3>2, StringField
    <3>4. ends = {Member(v, 2, "end")}
      BY <3>1
    <3> HIDE DEF ends
    <3>5. QED
      BY <3>2, <3>3, <3>4
  <2>3. QED
    BY <2>1, <2>2
<1>4. Rfc3339Of(r.start) = Ok /\ \A e \in r.end : Rfc3339Of(e) = Ok
  <2> DEFINE a == Rfc3339Of(r.start)
             b == Check(\A e \in r.end : Rfc3339Of(e) = Ok, "Rfc3339")
  <2>1. FirstError(<<a, b>>) = Ok
    BY DEF ValidityPeriodFromRaw
  <2> HIDE DEF a, b
  <2>2. a = Ok /\ b = Ok
    BY <2>1, FirstError2
  <2>3. QED
    BY <2>2 DEF a, b, Check, Ok
<1>5. ASSUME NEW t, Rfc3339Of(t) = Ok
      PROVE  IsInstant(t) /\ ParseRfc3339(t) = {Rounded(t)}
  BY <1>5 DEF Rfc3339Of, Check, Ok, ParseRfc3339, IsInstant
<1>6. IsInstant(text) /\ ValidityPeriod(r).start = Rounded(text)
  BY <1>2, <1>4, <1>5, TheOne DEF ValidityPeriod
<1> HIDE DEF ends, text
<1>7. \A e \in ends : IsInstant(e.str) /\ ParseRfc3339(e.str) = {Rounded(e.str)}
  BY <1>3, <1>4, <1>5
<1>8. ValidityPeriod(r).end = UNION {ParseRfc3339(t) : t \in r.end}
  BY DEF ValidityPeriod
<1>9. ValidityPeriod(r).end = {Rounded(e.str) : e \in ends}
  BY <1>3, <1>7, <1>8
<1>10. QED
  BY <1>6, <1>7, <1>9 DEF ends, text

(***************************************************************************)
(* So a window is the declared one for whole seconds, and for milliseconds *)
(* if it is declared in whole seconds; else it is within a second of it.   *)
(***************************************************************************)
LEMMA WindowMeans ==
    ASSUME NEW v, NEW r \in RawValidFor(v), ValidityPeriodFromRaw(r) = Ok
    PROVE  /\ SameWindow(ValidityPeriod(r), v)
           /\ \A ms \in Nat :
                 SctWithinASecond(ms, ValidityPeriod(r), v)
<1> DEFINE text == Member(v, 1, "start").str
           ends == Given(v, 2, "end") \ {Null}
           w == ValidityPeriod(r)
           s == Rounded(text)
           S == Milliseconds(text)
<1>1. /\ s \in Int /\ S \in Int /\ 1000 * s - 1000 < S /\ S <= 1000 * s
      /\ w.start = s /\ Start(v) = S
  BY ValidForMeans, RoundedUp DEF Start
<1>2. ASSUME NEW e \in ends
      PROVE  /\ Rounded(e.str) \in Int /\ Milliseconds(e.str) \in Int
             /\ 1000 * Rounded(e.str) - 1000 < Milliseconds(e.str)
             /\ Milliseconds(e.str) <= 1000 * Rounded(e.str)
  BY <1>2, ValidForMeans, RoundedUp
<1>3. w.end = {Rounded(e.str) : e \in ends} /\ Ends(v) = {Milliseconds(e.str) : e \in ends}
  BY ValidForMeans DEF Ends
<1> HIDE DEF text, ends, w, s, S
<1>4. \A t : WithinValidFor(t, w) <=> s <= t /\ \A e \in ends : t < Rounded(e.str)
  BY <1>1, <1>3 DEF WithinValidFor
<1>5. \A ms : DeclaredAt(v, ms) <=> S <= ms /\ \A e \in ends : ms < Milliseconds(e.str)
  BY <1>1, <1>3 DEF DeclaredAt
<1>6. ASSUME NEW t \in Nat
      PROVE  WithinValidFor(t, w) <=> DeclaredAt(v, 1000 * t)
  <2>1. s <= t <=> S <= 1000 * t
    BY <1>1
  <2>2. \A e \in ends : t < Rounded(e.str) <=> 1000 * t < Milliseconds(e.str)
    <3>1. ASSUME NEW a \in Int, NEW b \in Int, 1000 * a - 1000 < b, b <= 1000 * a
          PROVE  t < a <=> 1000 * t < b
      BY <3>1
    <3>2. QED
      BY <1>2, <3>1
  <2>3. QED
    BY <1>4, <1>5, <2>1, <2>2
<1>7. ASSUME NEW ms \in Nat
      PROVE  SctWithinASecond(ms, w, v)
  <2> DEFINE q == ms \div 1000
             passes == SctWithinValidFor(ms, w)
             inside == DeclaredAt(v, ms)
  <2>1. q \in Int /\ 1000 * q <= ms /\ ms < 1000 * q + 1000
    OBVIOUS
  <2>2. passes <=> s <= q /\ \A e \in ends : q < Rounded(e.str)
    BY <1>4 DEF SctWithinValidFor
  <2> HIDE DEF q, passes
  <2>3. inside <=> S <= ms /\ \A e \in ends : ms < Milliseconds(e.str)
    BY <1>5
  <2> HIDE DEF inside
  <2>4. ASSUME passes
        PROVE  S <= ms /\ \A e \in ends : ms < Milliseconds(e.str) + 1000
    <3>1. S <= ms
      BY <1>1, <2>1, <2>2, <2>4
    <3>2. ASSUME NEW e \in ends
          PROVE  ms < Milliseconds(e.str) + 1000
      <4>1. q < Rounded(e.str)
        BY <2>2, <2>4
      <4>2. QED
        BY <1>2, <2>1, <4>1
    <3>3. QED
      BY <3>1, <3>2
  <2>5. ASSUME inside, ~passes
        PROVE  ms < S + 1000
    <3>1. ASSUME NEW e \in ends
          PROVE  q < Rounded(e.str)
      <4>1. ms < Milliseconds(e.str)
        BY <2>3, <2>5
      <4>2. QED
        BY <1>2, <2>1, <4>1
    <3>2. ~(s <= q)
      BY <2>2, <2>5, <3>1
    <3>3. QED
      BY <1>1, <2>1, <3>2
  <2>6. ASSUME InWholeSeconds(v)
        PROVE  passes <=> inside
    <3>1. S % 1000 = 0 /\ \A e \in ends : Milliseconds(e.str) % 1000 = 0
      BY <1>1, <1>3, <2>6 DEF InWholeSeconds
    <3>2. s <= q <=> S <= ms
      <4>1. S = 1000 * s
        BY <1>1, <3>1
      <4>2. QED
        BY <1>1, <2>1, <4>1
    <3>3. ASSUME NEW e \in ends
          PROVE  q < Rounded(e.str) <=> ms < Milliseconds(e.str)
      <4>1. Milliseconds(e.str) = 1000 * Rounded(e.str)
        <5>1. ASSUME NEW a \in Int, NEW b \in Int, 1000 * a - 1000 < b, b <= 1000 * a, b % 1000 = 0
              PROVE  b = 1000 * a
          BY <5>1
        <5>2. QED
          BY <1>2, <3>1, <5>1
      <4>2. QED
        BY <1>2, <2>1, <4>1
    <3>4. QED
      BY <2>2, <2>3, <3>2, <3>3
  <2>7. QED
    BY <1>1, <1>3, <2>4, <2>5, <2>6 DEF SctWithinASecond, passes, inside
<1>8. QED
  BY <1>6, <1>7, TrustStoreAssumption DEF TrustStoreAssumption, SameWindow, w

\* The key of a log, and its window.
LEMMA LogMeans ==
    ASSUME NEW v, NEW r \in RawTlog(v), PublicKeyFromRaw(r.publicKey) = Ok
    PROVE  LET declared == DeclaredKey(v)
           IN  /\ PublicKey(r.publicKey).rawBytes = Member(declared, 1, "rawBytes").str
               /\ PublicKey(r.publicKey).validFor = ValidityPeriod(r.publicKey.validFor)
               /\ r.publicKey.validFor \in RawValidFor(Member(declared, 3, "validFor"))
               /\ ValidityPeriodFromRaw(r.publicKey.validFor) = Ok
<1> DEFINE F == Field(v, 3, "publicKey", RawPublicKey)
           declared == DeclaredKey(v)
           k == r.publicKey
<1>1. k \in F
  <2>1. r \in [baseUrl : Field(v, 1, "baseUrl", String), hashAlgorithm : Field(v, 2, "hashAlgorithm", String),
               publicKey : F, logId : Field(v, 4, "logId", RawLogId),
               checkpointKeyId : OptionField(v, 5, "checkpointKeyId", String)]
    BY DEF RawTlog, Struct
  <2>2. QED
    BY <2>1
<1>2. k \in RawPublicKey(declared)
  <2>1. PICK u \in Given(v, 3, "publicKey") : k \in RawPublicKey(u)
    BY <1>1 DEF Field
  <2>2. u = declared
    BY <2>1, GivenMember DEF DeclaredKey
  <2>3. QED
    BY <2>1, <2>2
<1> HIDE DEF declared, k
<1> DEFINE A == Field(declared, 1, "rawBytes", String)
           B == Field(declared, 2, "keyDetails", String)
           C == Field(declared, 3, "validFor", RawValidFor)
<1>3. k.rawBytes \in A /\ k.validFor \in C
  <2>1. k \in [rawBytes : A, keyDetails : B, validFor : C]
    BY <1>2 DEF RawPublicKey, Struct
  <2>2. QED
    BY <2>1
<1>4. k.rawBytes = Member(declared, 1, "rawBytes").str
  BY <1>3, StringField
<1>5. k.validFor \in RawValidFor(Member(declared, 3, "validFor"))
  <2>1. PICK u \in Given(declared, 3, "validFor") : k.validFor \in RawValidFor(u)
    BY <1>3 DEF Field
  <2>2. u = Member(declared, 3, "validFor")
    BY <2>1, GivenMember
  <2>3. QED
    BY <2>1, <2>2
<1>6. ValidityPeriodFromRaw(k.validFor) = Ok
  BY FirstError2 DEF PublicKeyFromRaw, k
<1>7. PublicKey(k).rawBytes = k.rawBytes /\ PublicKey(k).validFor = ValidityPeriod(k.validFor)
  BY DEF PublicKey
<1>8. QED
  BY <1>4, <1>5, <1>6, <1>7 DEF k, declared

\* The certificates of an authority, and its window.
LEMMA AuthorityMeans ==
    ASSUME NEW v, NEW r \in RawCertificateAuthority(v), CertificateAuthorityFromRaw(r) = Ok
    PROVE  LET chain == Member(Member(v, 3, "certChain"), 1, "certificates").arr
           IN  /\ DOMAIN CertificateAuthority(r).certificates = DOMAIN chain
               /\ \A j \in DOMAIN chain :
                     CertificateAuthority(r).certificates[j].rawBytes = Member(chain[j], 1, "rawBytes").str
               /\ SameWindow(CertificateAuthority(r).validFor, Member(v, 4, "validFor"))
<1> DEFINE F == Field(v, 3, "certChain", RawCertChain)
           G == Field(v, 4, "validFor", RawValidFor)
           link == Member(v, 3, "certChain")
           list == Member(link, 1, "certificates")
           certificates == r.certChain.certificates
<1>1. r.certChain \in F /\ r.validFor \in G
  <2>1. r \in [subject : Field(v, 1, "subject", RawCaSubject), uri : Field(v, 2, "uri", String),
               certChain : F, validFor : G]
    BY DEF RawCertificateAuthority, Struct
  <2>2. QED
    BY <2>1
<1>2. r.validFor \in RawValidFor(Member(v, 4, "validFor"))
  <2>1. PICK u \in Given(v, 4, "validFor") : r.validFor \in RawValidFor(u)
    BY <1>1 DEF Field
  <2>2. u = Member(v, 4, "validFor")
    BY <2>1, GivenMember
  <2>3. QED
    BY <2>1, <2>2
<1>3. r.certChain \in RawCertChain(link)
  <2>1. PICK u \in Given(v, 3, "certChain") : r.certChain \in RawCertChain(u)
    BY <1>1 DEF Field
  <2>2. u = link
    BY <2>1, GivenMember
  <2>3. QED
    BY <2>1, <2>2
<1> HIDE DEF link
<1>4. certificates \in RawCertEntries(list)
  <2> DEFINE H == Field(link, 1, "certificates", RawCertEntries)
  <2>1. r.certChain \in [certificates : H]
    BY <1>3 DEF RawCertChain, Struct
  <2>2. certificates \in H
    BY <2>1
  <2>3. PICK u \in Given(link, 1, "certificates") : certificates \in RawCertEntries(u)
    BY <2>2 DEF Field
  <2>4. u = list
    BY <2>3, GivenMember
  <2>5. QED
    BY <2>3, <2>4
<1> HIDE DEF list, certificates
<1>5. /\ \A j \in DOMAIN list.arr : RawCertEntry(list.arr[j]) # {}
      /\ certificates = [j \in DOMAIN list.arr |-> The(RawCertEntry(list.arr[j]))]
  BY <1>4 DEF RawCertEntries, Vec
<1>6. ASSUME NEW j \in DOMAIN list.arr
      PROVE  certificates[j].rawBytes = Member(list.arr[j], 1, "rawBytes").str
  <2> DEFINE c == certificates[j]
             H == Field(list.arr[j], 1, "rawBytes", String)
  <2>1. c \in RawCertEntry(list.arr[j])
    BY <1>5, TheOne
  <2>2. c \in [rawBytes : H]
    BY <2>1 DEF RawCertEntry, Struct
  <2>3. c.rawBytes \in H
    BY <2>2
  <2> HIDE DEF c
  <2>4. c.rawBytes = Member(list.arr[j], 1, "rawBytes").str
    BY <2>3, StringField
  <2>5. QED
    BY <2>4 DEF c
<1>7. ValidityPeriodFromRaw(r.validFor) = Ok
  BY FirstError3 DEF CertificateAuthorityFromRaw
<1>8. SameWindow(ValidityPeriod(r.validFor), Member(v, 4, "validFor"))
  BY <1>2, <1>7, WindowMeans
<1>9. CertificateAuthority(r).certificates = certificates /\ CertificateAuthority(r).validFor = ValidityPeriod(r.validFor)
  BY DEF CertificateAuthority, certificates
<1>10. DOMAIN certificates = DOMAIN list.arr
  BY <1>5
<1>11. QED
  BY <1>6, <1>8, <1>9, <1>10 DEF list, link

\* The sections of a root, element by element.
LEMMA LogSections ==
    ASSUME NEW v, NEW root \in RawTrustedRoot(v)
    PROVE  /\ root.tlogs \in VecField(v, 2, "tlogs", RawTlog)
           /\ root.ctlogs \in VecField(v, 3, "ctlogs", RawTlog)
           /\ root.certificateAuthorities \in VecField(v, 4, "certificateAuthorities", RawCertificateAuthority)
           /\ root.timestampAuthorities \in VecField(v, 5, "timestampAuthorities", RawCertificateAuthority)
           /\ IsStruct(v, 5)
<1> DEFINE A == VecField(v, 2, "tlogs", RawTlog)
           B == VecField(v, 3, "ctlogs", RawTlog)
           C == VecField(v, 4, "certificateAuthorities", RawCertificateAuthority)
           D == VecField(v, 5, "timestampAuthorities", RawCertificateAuthority)
<1>1. /\ root \in [mediaType : Field(v, 1, "mediaType", String), tlogs : A, ctlogs : B,
                   certificateAuthorities : C, timestampAuthorities : D]
      /\ IsStruct(v, 5)
  BY DEF RawTrustedRoot, Struct
<1>2. QED
  BY <1>1

LEMMA SectionIsList ==
    ASSUME NEW v, NEW i, NEW key, Given(v, i, key) # {},
           (\E list : list \in VecField(v, i, key, RawTlog))
               \/ \E list : list \in VecField(v, i, key, RawCertificateAuthority)
    PROVE  Is(Member(v, i, key), "arr") /\ Member(v, i, key) \in Given(v, i, key)
<1>1. Given(v, i, key) = {Member(v, i, key)}
  BY GivenMember
<1>2. (\E list : list \in Vec(Member(v, i, key), RawTlog))
        \/ \E list : list \in Vec(Member(v, i, key), RawCertificateAuthority)
  BY <1>1 DEF VecField
<1>3. Is(Member(v, i, key), "arr")
  BY <1>2 DEF Vec
<1>4. QED
  BY <1>1, <1>3

LEMMA LogList ==
    ASSUME NEW v, NEW i, NEW key, NEW list \in VecField(v, i, key, RawTlog)
    PROVE  LET declared == IF Given(v, i, key) = {} THEN <<>> ELSE Member(v, i, key).arr
           IN  /\ DOMAIN list = DOMAIN declared
               /\ \A j \in DOMAIN declared : list[j] \in RawTlog(declared[j])
<1>1. CASE Given(v, i, key) = {}
  <2>1. list = <<>>
    BY <1>1 DEF VecField
  <2>2. QED
    BY <1>1, <2>1
<1>2. CASE Given(v, i, key) # {}
  <2> DEFINE u == Member(v, i, key)
  <2>1. Given(v, i, key) = {u}
    BY <1>2, GivenMember
  <2> HIDE DEF u
  <2>2. list \in Vec(u, RawTlog)
    BY <1>2, <2>1 DEF VecField
  <2>3. /\ Is(u, "arr") /\ \A j \in DOMAIN u.arr : RawTlog(u.arr[j]) # {}
        /\ list = [j \in DOMAIN u.arr |-> The(RawTlog(u.arr[j]))]
    BY <2>2 DEF Vec
  <2>4. \A j \in DOMAIN u.arr : list[j] \in RawTlog(u.arr[j])
    BY <2>3, TheOne
  <2>5. QED
    BY <1>2, <2>1, <2>3, <2>4 DEF u
<1>3. QED
  BY <1>1, <1>2

LEMMA AuthorityList ==
    ASSUME NEW v, NEW i, NEW key, NEW list \in VecField(v, i, key, RawCertificateAuthority)
    PROVE  LET declared == IF Given(v, i, key) = {} THEN <<>> ELSE Member(v, i, key).arr
           IN  /\ DOMAIN list = DOMAIN declared
               /\ \A j \in DOMAIN declared : list[j] \in RawCertificateAuthority(declared[j])
<1>1. CASE Given(v, i, key) = {}
  <2>1. list = <<>>
    BY <1>1 DEF VecField
  <2>2. QED
    BY <1>1, <2>1
<1>2. CASE Given(v, i, key) # {}
  <2> DEFINE u == Member(v, i, key)
  <2>1. Given(v, i, key) = {u}
    BY <1>2, GivenMember
  <2> HIDE DEF u
  <2>2. list \in Vec(u, RawCertificateAuthority)
    BY <1>2, <2>1 DEF VecField
  <2>3. /\ Is(u, "arr") /\ \A j \in DOMAIN u.arr : RawCertificateAuthority(u.arr[j]) # {}
        /\ list = [j \in DOMAIN u.arr |-> The(RawCertificateAuthority(u.arr[j]))]
    BY <2>2 DEF Vec
  <2>4. \A j \in DOMAIN u.arr : list[j] \in RawCertificateAuthority(u.arr[j])
    BY <2>3, TheOne
  <2>5. QED
    BY <1>2, <2>1, <2>3, <2>4 DEF u
<1>3. QED
  BY <1>1, <1>2

-----------------------------------------------------------------------------
(***************************************************************************)
(* A document that was read as a root, and what is collected from it.      *)
(***************************************************************************)
IsRead == document \in Documents /\ document.json = Ok /\ Raw \in RawTrustedRoot(document.value)

LEMMA DeclaredLists ==
    ASSUME IsRead
    PROVE  /\ \A i \in 2..5 : DOMAIN Declared(i) \subseteq Nat
           /\ DOMAIN Raw.tlogs = DOMAIN Declared(2) /\ DOMAIN Raw.ctlogs = DOMAIN Declared(3)
           /\ DOMAIN Raw.certificateAuthorities = DOMAIN Declared(4)
           /\ DOMAIN Raw.timestampAuthorities = DOMAIN Declared(5)
           /\ \A j \in DOMAIN Declared(2) : Raw.tlogs[j] \in RawTlog(Declared(2)[j])
           /\ \A j \in DOMAIN Declared(3) : Raw.ctlogs[j] \in RawTlog(Declared(3)[j])
           /\ \A j \in DOMAIN Declared(4) : Raw.certificateAuthorities[j] \in RawCertificateAuthority(Declared(4)[j])
           /\ \A j \in DOMAIN Declared(5) : Raw.timestampAuthorities[j] \in RawCertificateAuthority(Declared(5)[j])
<1> DEFINE v == document.value
<1>1. /\ SectionNames[2] = "tlogs" /\ SectionNames[3] = "ctlogs"
      /\ SectionNames[4] = "certificateAuthorities" /\ SectionNames[5] = "timestampAuthorities"
  BY DEF SectionNames
<1>2. /\ Raw.tlogs \in VecField(v, 2, SectionNames[2], RawTlog)
      /\ Raw.ctlogs \in VecField(v, 3, SectionNames[3], RawTlog)
      /\ Raw.certificateAuthorities \in VecField(v, 4, SectionNames[4], RawCertificateAuthority)
      /\ Raw.timestampAuthorities \in VecField(v, 5, SectionNames[5], RawCertificateAuthority)
      /\ IsStruct(v, 5)
  BY <1>1, LogSections DEF IsRead
<1> HIDE DEF v
<1>3. /\ DOMAIN Raw.tlogs = DOMAIN Declared(2) /\ DOMAIN Raw.ctlogs = DOMAIN Declared(3)
      /\ \A j \in DOMAIN Declared(2) : Raw.tlogs[j] \in RawTlog(Declared(2)[j])
      /\ \A j \in DOMAIN Declared(3) : Raw.ctlogs[j] \in RawTlog(Declared(3)[j])
  BY <1>2, LogList DEF Declared, v
<1>4. /\ DOMAIN Raw.certificateAuthorities = DOMAIN Declared(4)
      /\ DOMAIN Raw.timestampAuthorities = DOMAIN Declared(5)
      /\ \A j \in DOMAIN Declared(4) : Raw.certificateAuthorities[j] \in RawCertificateAuthority(Declared(4)[j])
      /\ \A j \in DOMAIN Declared(5) : Raw.timestampAuthorities[j] \in RawCertificateAuthority(Declared(5)[j])
  BY <1>2, AuthorityList DEF Declared, v
<1>5. ASSUME NEW i \in 2..5
      PROVE  DOMAIN Declared(i) \subseteq Nat
  <2> DEFINE g == Given(v, i, SectionNames[i])
             u == Member(v, i, SectionNames[i])
  <2>1. CASE g = {}
    BY <2>1 DEF Declared, v
  <2>2. CASE g # {}
    <3>1. Is(u, "arr") /\ u \in g
      <4> DEFINE key == SectionNames[i]
      <4>1. (\E list : list \in VecField(v, i, key, RawTlog))
              \/ \E list : list \in VecField(v, i, key, RawCertificateAuthority)
        <5>1. i = 2 \/ i = 3 \/ i = 4 \/ i = 5
          OBVIOUS
        <5>2. QED
          BY <1>2, <5>1
      <4> HIDE DEF key
      <4>2. Given(v, i, key) # {}
        BY <2>2 DEF key
      <4>3. Is(Member(v, i, key), "arr") /\ Member(v, i, key) \in Given(v, i, key)
        BY <4>1, <4>2, SectionIsList
      <4>4. QED
        BY <4>3 DEF key
    <3>2. u.arr \in Seq(Range(u.arr))
      BY <1>2, <3>1, TrustStoreAssumption DEF TrustStoreAssumption, IsRead, v
    <3>3. DOMAIN u.arr \subseteq Nat
      BY <3>2
    <3>4. QED
      BY <2>2, <3>3 DEF Declared, v
  <2>3. QED
    BY <2>1, <2>2
<1>6. QED
  BY <1>3, <1>4, <1>5

\* What is collected from a section is what the section declares.
SctsAreClose ==
    \A i \in DOMAIN ctlogs, ms \in SctTimestamps :
        SctWithinASecond(ms, ctlogs[i].publicKey.validFor, DeclaredForScts(i))

LEMMA CollectedTlogs ==
    ASSUME IsRead, Collected(Raw.tlogs, TransparencyLogFromRaw) = Ok
    PROVE  SameKeys(Converted(Raw.tlogs, TransparencyLogFromRaw, TransparencyLog), Declared(2))
<1> DEFINE logs == Raw.tlogs
           parsed == [j \in DOMAIN logs |-> TransparencyLog(logs[j])]
           outcomes == [j \in DOMAIN logs |-> TransparencyLogFromRaw(logs[j])]
<1>1. /\ DOMAIN logs = DOMAIN Declared(2) /\ DOMAIN Declared(2) \subseteq Nat
      /\ \A j \in DOMAIN Declared(2) : logs[j] \in RawTlog(Declared(2)[j])
  BY DeclaredLists
<1>2. Converted(Raw.tlogs, TransparencyLogFromRaw, TransparencyLog) = parsed
  BY DEF Converted
<1>3. DOMAIN outcomes \subseteq Nat /\ FirstError(outcomes) = Ok
  BY <1>1 DEF Collected
<1> HIDE DEF logs
<1>4. \A j \in DOMAIN logs : TransparencyLogFromRaw(logs[j]) = Ok
  <2> HIDE DEF outcomes
  <2>1. \A j \in DOMAIN outcomes : outcomes[j] = Ok
    BY <1>3, FirstErrorOk
  <2>2. QED
    BY <2>1 DEF outcomes
<1>5. ASSUME NEW j \in DOMAIN Declared(2)
      PROVE  LET declared == DeclaredKey(Declared(2)[j])
             IN  /\ parsed[j].publicKey.rawBytes = Member(declared, 1, "rawBytes").str
                 /\ SameWindow(parsed[j].publicKey.validFor, Member(declared, 3, "validFor"))
  <2>1. PublicKeyFromRaw(logs[j].publicKey) = Ok
    <3> DEFINE a == PublicKeyFromRaw(logs[j].publicKey)
               b == StrictBase64(logs[j].logId.keyId)
               c == Check(\A id \in logs[j].checkpointKeyId : StrictBase64(id) = Ok, "Base64")
    <3>1. FirstError(<<a, b, c>>) = Ok
      BY <1>1, <1>4 DEF TransparencyLogFromRaw
    <3> HIDE DEF a, b, c
    <3>2. a = Ok
      BY <3>1, FirstError3
    <3>3. QED
      BY <3>2 DEF a
  <2>2. parsed[j].publicKey = PublicKey(logs[j].publicKey)
    BY <1>1 DEF TransparencyLog
  <2> HIDE DEF parsed
  <2>3. QED
    BY <1>1, <2>1, <2>2, LogMeans, WindowMeans
<1>6. DOMAIN parsed = DOMAIN Declared(2)
  BY <1>1
<1> HIDE DEF parsed
<1>7. QED
  BY <1>2, <1>5, <1>6 DEF SameKeys

LEMMA CollectedCtlogs ==
    ASSUME IsRead, Collected(Raw.ctlogs, CtLogFromRaw) = Ok, ctlogs = Converted(Raw.ctlogs, CtLogFromRaw, CtLog)
    PROVE  SameKeys(ctlogs, Declared(3)) /\ SctsAreClose
<1> DEFINE logs == Raw.ctlogs
           outcomes == [j \in DOMAIN logs |-> CtLogFromRaw(logs[j])]
<1>1. /\ DOMAIN logs = DOMAIN Declared(3) /\ DOMAIN Declared(3) \subseteq Nat
      /\ \A j \in DOMAIN Declared(3) : logs[j] \in RawTlog(Declared(3)[j])
  BY DeclaredLists
<1>2. ctlogs = [j \in DOMAIN logs |-> CtLog(logs[j])]
  BY DEF Converted
<1>3. DOMAIN outcomes \subseteq Nat /\ FirstError(outcomes) = Ok
  BY <1>1 DEF Collected
<1> HIDE DEF logs
<1>4. \A j \in DOMAIN logs : CtLogFromRaw(logs[j]) = Ok
  <2> HIDE DEF outcomes
  <2>1. \A j \in DOMAIN outcomes : outcomes[j] = Ok
    BY <1>3, FirstErrorOk
  <2>2. QED
    BY <2>1 DEF outcomes
<1>5. ASSUME NEW j \in DOMAIN Declared(3)
      PROVE  LET declared == DeclaredKey(Declared(3)[j])
                 window == Member(declared, 3, "validFor")
             IN  /\ ctlogs[j].publicKey.rawBytes = Member(declared, 1, "rawBytes").str
                 /\ SameWindow(ctlogs[j].publicKey.validFor, window)
                 /\ \A ms \in Nat : SctWithinASecond(ms, ctlogs[j].publicKey.validFor, window)
  <2>1. PublicKeyFromRaw(logs[j].publicKey) = Ok
    BY <1>1, <1>4, FirstError2 DEF CtLogFromRaw
  <2>2. ctlogs[j].publicKey = PublicKey(logs[j].publicKey)
    <3>1. ctlogs[j] = CtLog(logs[j])
      BY <1>1, <1>2
    <3>2. CtLog(logs[j]).publicKey = PublicKey(logs[j].publicKey)
      BY DEF CtLog
    <3>3. QED
      BY <3>1, <3>2
  <2>3. QED
    BY <1>1, <2>1, <2>2, LogMeans, WindowMeans
<1>6. DOMAIN ctlogs = DOMAIN Declared(3)
  BY <1>1, <1>2
<1>7. SctTimestamps \subseteq Nat
  BY TrustStoreAssumption DEF TrustStoreAssumption
<1>8. SameKeys(ctlogs, Declared(3))
  BY <1>5, <1>6 DEF SameKeys
<1>9. SctsAreClose
  BY <1>5, <1>6, <1>7 DEF SctsAreClose, DeclaredForScts
<1>10. QED
  BY <1>8, <1>9

LEMMA CollectedAuthorities ==
    ASSUME NEW raws, NEW declared, DOMAIN raws = DOMAIN declared, DOMAIN declared \subseteq Nat,
           \A j \in DOMAIN declared : raws[j] \in RawCertificateAuthority(declared[j]),
           Collected(raws, CertificateAuthorityFromRaw) = Ok
    PROVE  SameAuthorities(Converted(raws, CertificateAuthorityFromRaw, CertificateAuthority), declared)
<1> DEFINE parsed == [j \in DOMAIN raws |-> CertificateAuthority(raws[j])]
           outcomes == [j \in DOMAIN raws |-> CertificateAuthorityFromRaw(raws[j])]
<1>1. Converted(raws, CertificateAuthorityFromRaw, CertificateAuthority) = parsed
  BY DEF Converted
<1>2. DOMAIN outcomes \subseteq Nat /\ FirstError(outcomes) = Ok
  BY DEF Collected
<1>3. \A j \in DOMAIN raws : CertificateAuthorityFromRaw(raws[j]) = Ok
  <2> HIDE DEF outcomes
  <2>1. \A j \in DOMAIN outcomes : outcomes[j] = Ok
    BY <1>2, FirstErrorOk
  <2>2. QED
    BY <2>1 DEF outcomes
<1>4. DOMAIN parsed = DOMAIN declared /\ \A j \in DOMAIN declared : parsed[j] = CertificateAuthority(raws[j])
  OBVIOUS
<1> HIDE DEF parsed
<1>5. ASSUME NEW j \in DOMAIN declared
      PROVE  LET chain == Member(Member(declared[j], 3, "certChain"), 1, "certificates").arr
             IN  /\ DOMAIN parsed[j].certificates = DOMAIN chain
                 /\ \A k \in DOMAIN chain : parsed[j].certificates[k].rawBytes = Member(chain[k], 1, "rawBytes").str
                 /\ SameWindow(parsed[j].validFor, Member(declared[j], 4, "validFor"))
  <2>1. raws[j] \in RawCertificateAuthority(declared[j]) /\ CertificateAuthorityFromRaw(raws[j]) = Ok
    BY <1>3
  <2>2. QED
    BY <1>4, <2>1, AuthorityMeans
<1>6. QED
  BY <1>1, <1>4, <1>5 DEF SameAuthorities

(***************************************************************************)
(* The inductive invariant: from ParseJson on the raw root is the          *)
(* document's, and each section that was converted holds what the document *)
(* declares in it.                                                         *)
(***************************************************************************)
Reading == {"mediaType", "tlogs", "ctlogs", "cas", "tsas", "embedded"}

StoreInv ==
    /\ document \in Documents
    /\ pc # "done" => result = "Pending"
    /\ pc \in Reading => IsRead
    /\ pc \in {"ctlogs", "cas", "tsas", "embedded"} \/ result = Ok => SameKeys(tlogs, Declared(2))
    /\ pc \in {"cas", "tsas", "embedded"} \/ result = Ok => SameKeys(ctlogs, Declared(3)) /\ SctsAreClose
    /\ pc \in {"tsas", "embedded"} \/ result = Ok => SameAuthorities(cas, Declared(4))
    /\ pc = "embedded" \/ result = Ok => SameAuthorities(tsas, Declared(5))

LEMMA TryMeans ==
    ASSUME NEW outcome, NEW place, Try(outcome, place), result = "Pending"
    PROVE  \/ outcome = Ok /\ pc' = place /\ result' = "Pending"
           \/ outcome # Ok /\ pc' = "done" /\ result' = outcome
  BY DEF Try, Return

\* What is declared, and what was compared with it, does not change by itself.
LEMMA StoreUnmoved ==
    UNCHANGED document =>
        /\ Declared(2)' = Declared(2) /\ Declared(3)' = Declared(3)
        /\ Declared(4)' = Declared(4) /\ Declared(5)' = Declared(5)
        /\ UNCHANGED raw => (IsRead' <=> IsRead)
        /\ UNCHANGED tlogs => (SameKeys(tlogs, Declared(2))' <=> SameKeys(tlogs, Declared(2)))
        /\ UNCHANGED ctlogs => (SameKeys(ctlogs, Declared(3))' <=> SameKeys(ctlogs, Declared(3)))
        /\ UNCHANGED ctlogs => (SctsAreClose' <=> SctsAreClose)
        /\ UNCHANGED cas => (SameAuthorities(cas, Declared(4))' <=> SameAuthorities(cas, Declared(4)))
        /\ UNCHANGED tsas => (SameAuthorities(tsas, Declared(5))' <=> SameAuthorities(tsas, Declared(5)))
<1> SUFFICES ASSUME UNCHANGED document
             PROVE  /\ Declared(2)' = Declared(2) /\ Declared(3)' = Declared(3)
                    /\ Declared(4)' = Declared(4) /\ Declared(5)' = Declared(5)
                    /\ UNCHANGED raw => (IsRead' <=> IsRead)
                    /\ UNCHANGED tlogs => (SameKeys(tlogs, Declared(2))' <=> SameKeys(tlogs, Declared(2)))
                    /\ UNCHANGED ctlogs => (SameKeys(ctlogs, Declared(3))' <=> SameKeys(ctlogs, Declared(3)))
                    /\ UNCHANGED ctlogs => (SctsAreClose' <=> SctsAreClose)
                    /\ UNCHANGED cas => (SameAuthorities(cas, Declared(4))' <=> SameAuthorities(cas, Declared(4)))
                    /\ UNCHANGED tsas => (SameAuthorities(tsas, Declared(5))' <=> SameAuthorities(tsas, Declared(5)))
  OBVIOUS
<1>1. /\ Declared(2)' = Declared(2) /\ Declared(3)' = Declared(3)
      /\ Declared(4)' = Declared(4) /\ Declared(5)' = Declared(5)
  BY DEF Declared
<1>2. UNCHANGED raw => (IsRead' <=> IsRead)
  BY DEF IsRead, Raw
<1>3. UNCHANGED tlogs => (SameKeys(tlogs, Declared(2))' <=> SameKeys(tlogs, Declared(2)))
  BY <1>1 DEF SameKeys
<1>4. UNCHANGED ctlogs => (SameKeys(ctlogs, Declared(3))' <=> SameKeys(ctlogs, Declared(3)))
  BY <1>1 DEF SameKeys
<1>5. UNCHANGED ctlogs => (SctsAreClose' <=> SctsAreClose)
  BY <1>1 DEF SctsAreClose, DeclaredForScts
<1>6. UNCHANGED cas => (SameAuthorities(cas, Declared(4))' <=> SameAuthorities(cas, Declared(4)))
  BY <1>1 DEF SameAuthorities
<1>7. UNCHANGED tsas => (SameAuthorities(tsas, Declared(5))' <=> SameAuthorities(tsas, Declared(5)))
  BY <1>1 DEF SameAuthorities
<1>8. QED
  BY <1>1, <1>2, <1>3, <1>4, <1>5, <1>6, <1>7

\* The same of the next state.
LEMMA CtlogsCollected ==
    (IsRead /\ Collected(Raw.ctlogs, CtLogFromRaw) = Ok /\ ctlogs = Converted(Raw.ctlogs, CtLogFromRaw, CtLog) =>
         SameKeys(ctlogs, Declared(3)) /\ SctsAreClose)'
<1>1. IsRead /\ Collected(Raw.ctlogs, CtLogFromRaw) = Ok /\ ctlogs = Converted(Raw.ctlogs, CtLogFromRaw, CtLog) =>
          SameKeys(ctlogs, Declared(3)) /\ SctsAreClose
  BY CollectedCtlogs
<1>2. QED
  BY <1>1, PTL

LEMMA ReadingKeepsStoreInv ==
    ASSUME StoreInv, CheckInputSize \/ ParseJson \/ CheckMediaType
    PROVE  StoreInv'
<1>1. CASE CheckInputSize
  <2> DEFINE outcome == Check(document.size <= MaxInputBytes, "InputTooLarge")
  <2>1. Try(outcome, "json") /\ UNCHANGED document /\ pc = "size" /\ result = "Pending" /\ document \in Documents
    BY <1>1 DEF CheckInputSize, StoreInv
  <2> HIDE DEF outcome
  <2>2. pc' \in {"json", "done"} /\ result' # Ok /\ (pc' # "done" => result' = "Pending")
    BY <2>1, TryMeans DEF Ok
  <2>3. QED
    BY <2>1, <2>2 DEF StoreInv, Reading
<1>2. CASE ParseJson
  <2> DEFINE read == IF document.json = Ok THEN RawTrustedRoot(document.value) ELSE {}
             b == Check(read # {}, "Json")
             outcome == FirstError(<<document.json, b>>)
  <2>1. /\ Try(outcome, "mediaType") /\ UNCHANGED document /\ pc = "json" /\ result = "Pending"
        /\ document \in Documents /\ raw' = read
    BY <1>2 DEF ParseJson, StoreInv
  <2>2. b = Ok => read # {}
    BY DEF Check, Ok
  <2> HIDE DEF b
  <2>3. outcome = Ok => document.json = Ok /\ b = Ok
    BY FirstError2
  <2>4. outcome = Ok => IsRead'
    <3>1. SUFFICES ASSUME outcome = Ok
                   PROVE  IsRead'
      OBVIOUS
    <3>2. document.json = Ok /\ read = RawTrustedRoot(document.value) /\ The(read) \in read
      BY <2>2, <2>3, <3>1, TheOne
    <3> HIDE DEF read
    <3>3. QED
      BY <2>1, <3>2 DEF IsRead, Raw
  <2> HIDE DEF outcome
  <2>5. pc' \in {"mediaType", "done"} /\ result' # Ok /\ (pc' # "done" => result' = "Pending" /\ outcome = Ok)
    BY <2>1, TryMeans DEF Ok
  <2>6. QED
    BY <2>1, <2>4, <2>5 DEF StoreInv, Reading
<1>3. CASE CheckMediaType
  <2> DEFINE outcome == Check(Raw.mediaType = TrustedRootMediaType, "MediaType")
  <2>1. /\ Try(outcome, "tlogs") /\ UNCHANGED <<document, raw>> /\ pc = "mediaType" /\ result = "Pending"
        /\ document \in Documents /\ IsRead
    BY <1>3 DEF CheckMediaType, StoreInv, Reading
  <2>2. IsRead'
    BY <2>1, StoreUnmoved
  <2> HIDE DEF outcome
  <2>3. pc' \in {"tlogs", "done"} /\ result' # Ok /\ (pc' # "done" => result' = "Pending")
    BY <2>1, TryMeans DEF Ok
  <2>4. QED
    BY <2>1, <2>2, <2>3 DEF StoreInv, Reading
<1>4. QED
  BY <1>1, <1>2, <1>3

LEMMA ConvertingLogsKeepsStoreInv ==
    ASSUME StoreInv, ConvertTlogs \/ ConvertCtlogs
    PROVE  StoreInv'
<1>1. CASE ConvertTlogs
  <2> DEFINE outcome == Collected(Raw.tlogs, TransparencyLogFromRaw)
  <2>1. /\ Try(outcome, "ctlogs") /\ UNCHANGED <<document, raw>> /\ pc = "tlogs" /\ result = "Pending"
        /\ tlogs' = Converted(Raw.tlogs, TransparencyLogFromRaw, TransparencyLog)
        /\ document \in Documents /\ IsRead
    BY <1>1 DEF ConvertTlogs, StoreInv, Reading
  <2>2. IsRead' /\ Declared(2)' = Declared(2)
    BY <2>1, StoreUnmoved
  <2>3. outcome = Ok => SameKeys(tlogs', Declared(2)')
    BY <2>1, <2>2, CollectedTlogs
  <2> HIDE DEF outcome
  <2>4. pc' \in {"ctlogs", "done"} /\ result' # Ok /\ (pc' # "done" => result' = "Pending" /\ outcome = Ok)
    BY <2>1, TryMeans DEF Ok
  <2>5. SameKeys(tlogs', Declared(2)') => SameKeys(tlogs, Declared(2))'
    BY DEF SameKeys
  <2>6. QED
    BY <2>1, <2>2, <2>3, <2>4, <2>5 DEF StoreInv, Reading
<1>2. CASE ConvertCtlogs
  <2> DEFINE outcome == Collected(Raw.ctlogs, CtLogFromRaw)
  <2>1. /\ Try(outcome, "cas") /\ UNCHANGED <<document, raw, tlogs>> /\ pc = "ctlogs" /\ result = "Pending"
        /\ ctlogs' = Converted(Raw.ctlogs, CtLogFromRaw, CtLog)
        /\ document \in Documents /\ IsRead /\ SameKeys(tlogs, Declared(2))
    BY <1>2 DEF ConvertCtlogs, StoreInv, Reading
  <2>2. IsRead' /\ SameKeys(tlogs, Declared(2))'
    BY <2>1, StoreUnmoved
  <2>3. outcome = Ok => (SameKeys(ctlogs, Declared(3)) /\ SctsAreClose)'
    <3>1. Raw' = Raw
      BY <2>1 DEF Raw
    <3>2. (Collected(Raw.ctlogs, CtLogFromRaw))' = outcome
      BY <3>1 DEF Collected
    <3>3. (Converted(Raw.ctlogs, CtLogFromRaw, CtLog))' = Converted(Raw.ctlogs, CtLogFromRaw, CtLog)
      BY <3>1 DEF Converted, Collected
    <3> HIDE DEF outcome
    <3>4. QED
      BY <2>1, <2>2, <3>2, <3>3, CtlogsCollected
  <2> HIDE DEF outcome
  <2>4. pc' \in {"cas", "done"} /\ result' # Ok /\ (pc' # "done" => result' = "Pending" /\ outcome = Ok)
    BY <2>1, TryMeans DEF Ok
  <2>5. QED
    BY <2>1, <2>2, <2>3, <2>4 DEF StoreInv, Reading
<1>3. QED
  BY <1>1, <1>2

LEMMA ConvertingAuthoritiesKeepsStoreInv ==
    ASSUME StoreInv, ConvertCas \/ ConvertTsas \/ EmbeddedPublicGood
    PROVE  StoreInv'
<1>1. CASE ConvertCas
  <2> DEFINE raws == Raw.certificateAuthorities
             outcome == Collected(raws, CertificateAuthorityFromRaw)
             parsed == Converted(raws, CertificateAuthorityFromRaw, CertificateAuthority)
  <2>1. /\ Try(outcome, "tsas") /\ UNCHANGED <<document, raw, tlogs, ctlogs>> /\ pc = "cas" /\ result = "Pending"
        /\ cas' = parsed /\ document \in Documents /\ IsRead
        /\ SameKeys(tlogs, Declared(2)) /\ SameKeys(ctlogs, Declared(3)) /\ SctsAreClose
    BY <1>1 DEF ConvertCas, StoreInv, Reading
  <2>2. /\ IsRead' /\ Declared(4)' = Declared(4)
        /\ SameKeys(tlogs, Declared(2))' /\ SameKeys(ctlogs, Declared(3))' /\ SctsAreClose'
    BY <2>1, StoreUnmoved
  <2>3. outcome = Ok => SameAuthorities(parsed, Declared(4))
    <3>1. /\ DOMAIN raws = DOMAIN Declared(4) /\ DOMAIN Declared(4) \subseteq Nat
          /\ \A j \in DOMAIN Declared(4) : raws[j] \in RawCertificateAuthority(Declared(4)[j])
      BY <2>1, DeclaredLists
    <3>2. QED
      BY <3>1, CollectedAuthorities
  <2>4. cas' = parsed /\ Declared(4)' = Declared(4) /\ SameAuthorities(parsed, Declared(4)) =>
            SameAuthorities(cas, Declared(4))'
    BY DEF SameAuthorities
  <2> HIDE DEF outcome, parsed
  <2>5. pc' \in {"tsas", "done"} /\ result' # Ok /\ (pc' # "done" => result' = "Pending" /\ outcome = Ok)
    BY <2>1, TryMeans DEF Ok
  <2>6. QED
    BY <2>1, <2>2, <2>3, <2>4, <2>5 DEF StoreInv, Reading
<1>2. CASE ConvertTsas
  <2> DEFINE raws == Raw.timestampAuthorities
             outcome == Collected(raws, CertificateAuthorityFromRaw)
             parsed == Converted(raws, CertificateAuthorityFromRaw, CertificateAuthority)
  <2>1. /\ Try(outcome, "embedded") \/ Return(outcome)
        /\ UNCHANGED <<document, raw, tlogs, ctlogs, cas>> /\ pc = "tsas" /\ result = "Pending"
        /\ tsas' = parsed /\ document \in Documents /\ IsRead
        /\ SameKeys(tlogs, Declared(2)) /\ SameKeys(ctlogs, Declared(3)) /\ SctsAreClose
        /\ SameAuthorities(cas, Declared(4))
    BY <1>2 DEF ConvertTsas, StoreInv, Reading
  <2>2. /\ IsRead' /\ Declared(5)' = Declared(5)
        /\ SameKeys(tlogs, Declared(2))' /\ SameKeys(ctlogs, Declared(3))' /\ SctsAreClose'
        /\ SameAuthorities(cas, Declared(4))'
    BY <2>1, StoreUnmoved
  <2>3. outcome = Ok => SameAuthorities(parsed, Declared(5))
    <3>1. /\ DOMAIN raws = DOMAIN Declared(5) /\ DOMAIN Declared(5) \subseteq Nat
          /\ \A j \in DOMAIN Declared(5) : raws[j] \in RawCertificateAuthority(Declared(5)[j])
      BY <2>1, DeclaredLists
    <3>2. QED
      BY <3>1, CollectedAuthorities
  <2>4. tsas' = parsed /\ Declared(5)' = Declared(5) /\ SameAuthorities(parsed, Declared(5)) =>
            SameAuthorities(tsas, Declared(5))'
    BY DEF SameAuthorities
  <2> HIDE DEF outcome, parsed
  <2>5. /\ pc' \in {"embedded", "done"} /\ (pc' # "done" => result' = "Pending" /\ outcome = Ok)
        /\ result' = Ok => outcome = Ok
    BY <2>1, TryMeans DEF Return, Ok
  <2>6. QED
    BY <2>1, <2>2, <2>3, <2>4, <2>5 DEF StoreInv, Reading
<1>3. CASE EmbeddedPublicGood
  <2>1. /\ pc' = "done" /\ UNCHANGED <<document, raw, tlogs, ctlogs, cas, tsas>> /\ document \in Documents
        /\ SameKeys(tlogs, Declared(2)) /\ SameKeys(ctlogs, Declared(3)) /\ SctsAreClose
        /\ SameAuthorities(cas, Declared(4)) /\ SameAuthorities(tsas, Declared(5))
    BY <1>3 DEF EmbeddedPublicGood, Return, StoreInv, sections
  <2>2. /\ SameKeys(tlogs, Declared(2))' /\ SameKeys(ctlogs, Declared(3))' /\ SctsAreClose'
        /\ SameAuthorities(cas, Declared(4))' /\ SameAuthorities(tsas, Declared(5))'
    BY <2>1, StoreUnmoved
  <2>3. QED
    BY <2>1, <2>2 DEF StoreInv, Reading
<1>4. QED
  BY <1>1, <1>2, <1>3

LEMMA StoreInvHolds == Spec => []StoreInv
<1>1. Init => StoreInv
  BY DEF Init, StoreInv, Reading, Ok
<1>2. StoreInv /\ [Next]_vars => StoreInv'
  <2> SUFFICES ASSUME StoreInv, [Next]_vars
               PROVE  StoreInv'
    OBVIOUS
  <2>1. CASE UNCHANGED vars
    <3>1. UNCHANGED <<document, raw, pc, result, tlogs, ctlogs, cas, tsas>>
      BY <2>1 DEF vars, sections
    <3>2. /\ IsRead' <=> IsRead
          /\ SameKeys(tlogs, Declared(2))' <=> SameKeys(tlogs, Declared(2))
          /\ SameKeys(ctlogs, Declared(3))' <=> SameKeys(ctlogs, Declared(3))
          /\ SctsAreClose' <=> SctsAreClose
          /\ SameAuthorities(cas, Declared(4))' <=> SameAuthorities(cas, Declared(4))
          /\ SameAuthorities(tsas, Declared(5))' <=> SameAuthorities(tsas, Declared(5))
      BY <3>1, StoreUnmoved
    <3>3. QED
      BY <3>1, <3>2 DEF StoreInv
  <2>2. CASE Next
    BY <2>2, ReadingKeepsStoreInv, ConvertingLogsKeepsStoreInv, ConvertingAuthoritiesKeepsStoreInv DEF Next
  <2>3. QED
    BY <2>1, <2>2
<1>3. QED
  BY <1>1, <1>2, PTL DEF Spec

(***************************************************************************)
(* TrustStore::from_json keeps every key and authority in the section and  *)
(* the order it is declared in, and rounding the bounds of its window up,  *)
(* as parse_rfc3339 does, changes no comparison with a whole second: for   *)
(* every document, with bounds on any day, of any fraction and any offset. *)
(***************************************************************************)
THEOREM StoreIsAsDeclared == Spec => []TrustsExactlyWhatIsDeclared
<1>1. StoreInv => TrustsExactlyWhatIsDeclared
  BY DEF StoreInv, TrustsExactlyWhatIsDeclared
<1>2. QED
  BY <1>1, StoreInvHolds, PTL

(***************************************************************************)
(* verify_one_sct cuts off milliseconds and the store rounds seconds up.   *)
(* For a window declared in whole seconds the test is exact.  For any      *)
(* other, an SCT passes only from the declared start on and until less     *)
(* than a second after the declared end, and one inside the window is      *)
(* refused only in the first second after the declared start.              *)
(***************************************************************************)
THEOREM SctsAreWithinASecond == Spec => []SctWithinASecondOfDeclared
<1>1. StoreInv => SctWithinASecondOfDeclared
  BY DEF StoreInv, SctWithinASecondOfDeclared, SctsAreClose
<1>2. QED
  BY <1>1, StoreInvHolds, PTL
=============================================================================
