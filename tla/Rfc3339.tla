------------------------------ MODULE Rfc3339 -------------------------------
(***************************************************************************)
(* time.rs: from an RFC 3339 text to unix seconds.  A text is the record   *)
(* of its fields, as read_digits reads them:                               *)
(*   [wellFormed, year, month, day, hour, minute, second, fraction, zone]  *)
(* where wellFormed says that the separators and the widths are right,     *)
(* fraction is the sequence of what stands for its digits, and zone is     *)
(* [sign, hour, minute] with sign 0 for Z.                                 *)
(***************************************************************************)
EXTENDS Integers, Sequences

\* Mutated form of IsLeapYear: the Julian rule.
IsLeapYearJulian(year) == year % 4 = 0

IsLeapYear(year) == (year % 4 = 0 /\ year % 100 # 0) \/ year % 400 = 0

DaysInMonth(year, month) ==
    IF month \in {1, 3, 5, 7, 8, 10, 12} THEN 31
    ELSE IF month \in {4, 6, 9, 11} THEN 30
    ELSE IF IsLeapYear(year) THEN 29 ELSE 28

\* Division in the code truncates; of the years before 0 only -1 is reached, where it is exact.
DaysFromCivil(year, month, day) ==
    LET y == IF month <= 2 THEN year - 1 ELSE year
        era == (IF y >= 0 THEN y ELSE y - 399) \div 400
        yearOfEra == y - era * 400
        dayOfYear == (153 * ((month + 9) % 12) + 2) \div 5 + day - 1
        dayOfEra == yearOfEra * 365 + yearOfEra \div 4 - yearOfEra \div 100 + dayOfYear
    IN  era * 146097 + dayOfEra - 719468

\* The texts that read_digits, expect_byte and the loop over the fraction get through.
WellFormed(text) ==
    /\ text.wellFormed /\ text.year \in Nat /\ text.fraction \in Seq(0..9)
    /\ text.zone.sign \in {-1, 0, 1}

InRange(text) ==
    /\ text.month \in 1..12
    /\ text.day \in 1..DaysInMonth(text.year, text.month)
    /\ text.hour \in 0..23 /\ text.minute \in 0..59 /\ text.second \in 0..59
    /\ text.zone.hour \in 0..23 /\ text.zone.minute \in 0..59

OffsetSeconds(zone) == zone.sign * (zone.hour * 3600 + zone.minute * 60)

\* Mutated form of UnixTime: the offset is added.
UnixTimeAdding(text) ==
    DaysFromCivil(text.year, text.month, text.day) * 86400
        + text.hour * 3600 + text.minute * 60 + text.second + OffsetSeconds(text.zone)

UnixTime(text) ==
    DaysFromCivil(text.year, text.month, text.day) * 86400
        + text.hour * 3600 + text.minute * 60 + text.second - OffsetSeconds(text.zone)

HasNonzeroFraction(text) == \E i \in DOMAIN text.fraction : text.fraction[i] # 0

\* Mutated form of Rounded: the fraction is truncated.
RoundedDown(text) == UnixTime(text)

\* A fraction is rounded up to the next whole second.
Rounded(text) == UnixTime(text) + (IF HasNonzeroFraction(text) THEN 1 ELSE 0)

\* parse_rfc3339, as an Option.
ParseRfc3339(text) == IF WellFormed(text) /\ InRange(text) THEN {Rounded(text)} ELSE {}
=============================================================================
