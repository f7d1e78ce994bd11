----------------------------- MODULE ParseUtil ------------------------------
(***************************************************************************)
(* parse_util.rs strict_stringified_u64, which reads the protojson integer *)
(* strings of a bundle.  A text is a sequence of one-character strings;    *)
(* U64Max is u64::MAX.                                                     *)
(***************************************************************************)
EXTENDS Symbolic

CONSTANT U64Max

ASSUME ParseUtilAssumption == U64Max \in Nat

Digits == << "0", "1", "2", "3", "4", "5", "6", "7", "8", "9" >>

IsDigit(c) == \E d \in DOMAIN Digits : Digits[d] = c

DigitValue(c) == (CHOOSE d \in DOMAIN Digits : Digits[d] = c) - 1

\* u64::from_str stops accumulating at the digit that overflows.
Accumulate(digits) ==
    LET value[i \in 0..Len(digits)] ==
            IF i = 0 THEN 0
            ELSE IF value[i-1] > U64Max THEN value[i-1]
            ELSE 10 * value[i-1] + DigitValue(digits[i])
    IN  value[Len(digits)]

\* Mutated form of FromStr: the sum wraps around at the width of the type.
FromStrWrapping(text) ==
    IF text = <<>> \/ \E i \in DOMAIN text : ~IsDigit(text[i]) THEN {}
    ELSE {Accumulate(text) % (U64Max + 1)}

\* str::parse::<u64>, as an Option: one leading `+` may come before the digits.
FromStr(text) ==
    LET digits == IF Len(text) > 1 /\ text[1] = "+" THEN Tail(text) ELSE text
    IN  IF digits = <<>> \/ \E i \in DOMAIN digits : ~IsDigit(digits[i]) THEN {}
        ELSE {n \in {Accumulate(digits)} : n <= U64Max}

StrictStringifiedU64(text) == Check(FromStr(text) # {}, "NotAnInteger")

-----------------------------------------------------------------------------
\* The decimal text of a number, without sign or leading zeros.
Canonical[n \in Nat] ==
    IF n < 10 THEN << Digits[n + 1] >> ELSE Append(Canonical[n \div 10], Digits[(n % 10) + 1])

\* The text without what str::parse tolerates in front of the number.
Stripped(text) ==
    LET start == IF text[1] = "+" THEN 2 ELSE 1
        skip == CHOOSE k \in start..Len(text) :
                    /\ \A i \in start..(k-1) : text[i] = "0"
                    /\ text[k] # "0" \/ k = Len(text)
    IN  SubSeq(text, skip, Len(text))
=============================================================================
