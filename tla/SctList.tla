------------------------------- MODULE SctList ------------------------------
(***************************************************************************)
(* sct.rs parse_sct_list: the TLS encoding of a list of SCTs.  A cursor is *)
(* an Option of the bytes left, since no read follows one that failed.     *)
(* ByteBase is 256 in the code, LogIdBytes 32, TimestampBytes 8.           *)
(***************************************************************************)
EXTENDS Symbolic

CONSTANTS ByteBase, LogIdBytes, TimestampBytes

ASSUME SctListAssumption == {ByteBase, LogIdBytes, TimestampBytes} \subseteq Nat \ {0}

Byte == 0..(ByteBase - 1)

\* Every field has the width that the encoding gives it.
ParsedScts ==
    {sct \in [version : Seq(Byte), logId : Seq(Byte), timestampMs : Seq(Byte), extensions : Seq(Byte),
              hashAlgorithm : Seq(Byte), signatureAlgorithm : Seq(Byte), signature : Seq(Byte)] :
        /\ Len(sct.version) = 1 /\ Len(sct.logId) = LogIdBytes /\ Len(sct.timestampMs) = TimestampBytes
        /\ Len(sct.hashAlgorithm) = 1 /\ Len(sct.signatureAlgorithm) = 1}

Cursor(bytes) == {bytes}

Split(bytes, n) == [head |-> SubSeq(bytes, 1, n), rest |-> SubSeq(bytes, n + 1, Len(bytes))]

\* Mutated form of Take: the last byte cannot be read.
TakeShort(cursor, n) == {Split(bytes, n) : bytes \in {left \in cursor : n < Len(left)}}

Take(cursor, n) == {Split(bytes, n) : bytes \in {left \in cursor : n <= Len(left)}}

After(taken) == {t.rest : t \in taken}

\* u16::from_be_bytes
FromBeBytes(head) == head[1] * ByteBase + head[2]

\* A length of two bytes, and as many bytes.
TakePrefixed(cursor) == UNION {Take({length.rest}, FromBeBytes(length.head)) : length \in Take(cursor, 2)}

\* The SCT that these bytes encode, as an Option.
ParseSingleSct(bytes) ==
    LET version    == Take(Cursor(bytes), 1)
        logId      == Take(After(version), LogIdBytes)
        timestamp  == Take(After(logId), TimestampBytes)
        extensions == TakePrefixed(After(timestamp))
        hashAlg    == Take(After(extensions), 1)
        sigAlg     == Take(After(hashAlg), 1)
        signature  == TakePrefixed(After(sigAlg))
    IN  {[version |-> The(version).head, logId |-> The(logId).head, timestampMs |-> The(timestamp).head,
          extensions |-> The(extensions).head, hashAlgorithm |-> The(hashAlg).head,
          signatureAlgorithm |-> The(sigAlg).head, signature |-> taken.head] :
             taken \in {t \in signature : t.rest = <<>>}}

-----------------------------------------------------------------------------
\* RFC 6962: the encoding of an SCT, and of a list of them.
U16(n) == << n \div ByteBase, n % ByteBase >>
Prefixed(bytes) == U16(Len(bytes)) \o bytes

EncodedSct(sct) ==
    sct.version \o sct.logId \o sct.timestampMs \o Prefixed(sct.extensions)
        \o sct.hashAlgorithm \o sct.signatureAlgorithm \o Prefixed(sct.signature)

EncodedList(scts) ==
    LET upTo[i \in 0..Len(scts)] == IF i = 0 THEN <<>> ELSE upTo[i - 1] \o Prefixed(EncodedSct(scts[i]))
    IN  Prefixed(upTo[Len(scts)])
=============================================================================
