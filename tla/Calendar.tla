------------------------------ MODULE Calendar ------------------------------
(***************************************************************************)
(* The calendar of time.rs walked day by day: the months' lengths, which   *)
(* parse_rfc3339 validates a date with, say which day follows another, and *)
(* `days` counts them from a date whose day number is known.               *)
(***************************************************************************)
EXTENDS Rfc3339

CONSTANTS
    Starts,      \* [year, days]: a 1st of January and its day number
    Years,       \* how many years are walked from a start
    MaxDays      \* bound on the day numbers whose instants are compared

ASSUME CalendarAssumption ==
    Years \in Nat /\ MaxDays \in Nat /\ \A start \in Starts : start.year \in Nat /\ start.days \in Int

VARIABLES date, days, until

calendarVars == <<date, days, until>>

Date(year, month, day) == [year |-> year, month |-> month, day |-> day]

CalendarInit ==
    \E start \in Starts :
        /\ date = Date(start.year, 1, 1)
        /\ days = start.days
        /\ until = start.year + Years

Following(d) ==
    IF d.day < DaysInMonth(d.year, d.month) THEN Date(d.year, d.month, d.day + 1)
    ELSE IF d.month < 12 THEN Date(d.year, d.month + 1, 1)
    ELSE Date(d.year + 1, 1, 1)

NextDay ==
    /\ date.year < until
    /\ date' = Following(date)
    /\ days' = days + 1
    /\ UNCHANGED until

CalendarSpec == CalendarInit /\ [][NextDay]_calendarVars

-----------------------------------------------------------------------------
Utc == [sign |-> 0, hour |-> 0, minute |-> 0]

Text(d, hour, minute, second, fraction, zone) ==
    [wellFormed |-> TRUE, year |-> d.year, month |-> d.month, day |-> d.day,
     hour |-> hour, minute |-> minute, second |-> second, fraction |-> fraction, zone |-> zone]

(***************************************************************************)
(* days_from_civil and days_in_month, two formulas that share nothing, are *)
(* of one calendar: the day number grows by one from each valid date to    *)
(* the next, through the ends of months, leap years, centuries and eras    *)
(* and through the year 0, and 1970-01-01 is the epoch.                    *)
(***************************************************************************)
DayNumbersAreConsecutive == DaysFromCivil(date.year, date.month, date.day) = days

(***************************************************************************)
(* One instant written in two ways is one number: in UTC, or east or west  *)
(* of it on the day after or before, as the offset takes the reading past  *)
(* midnight, and over the end of a month and a year; and a fraction of the *)
(* last second of a day is rounded up into the next day.                   *)
(***************************************************************************)
Zone(sign, hour, minute) == [sign |-> sign, hour |-> hour, minute |-> minute]

SameInstant(one, other) == ParseRfc3339(one) = ParseRfc3339(other) /\ ParseRfc3339(one) # {}

InstantsAreUnique ==
    LET tomorrow == Following(date)
        midnight == Text(tomorrow, 0, 0, 0, <<>>, Utc)
    IN  days \in -MaxDays..MaxDays =>
        /\ SameInstant(Text(date, 23, 30, 0, <<>>, Utc), Text(tomorrow, 0, 30, 0, <<0>>, Zone(1, 1, 0)))
        /\ SameInstant(Text(tomorrow, 0, 30, 0, <<>>, Utc), Text(date, 23, 30, 0, <<>>, Zone(-1, 1, 0)))
        /\ SameInstant(Text(date, 0, 1, 0, <<>>, Zone(-1, 23, 59)), midnight)
        /\ SameInstant(Text(date, 23, 59, 59, <<0, 1>>, Utc), midnight)
=============================================================================
