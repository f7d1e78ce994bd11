----------------------------- MODULE Checkpoint -----------------------------
(***************************************************************************)
(* rekor.rs parse_checkpoint: a signed note as text.  A text is a sequence *)
(* of characters, of which "EM" is the dash of a signature line; the bytes *)
(* that a base64 text decodes to are a sequence too.                       *)
(***************************************************************************)
EXTENDS ParseUtil, SequencesExt

CONSTANTS
    Base64,             \* base64 text -> bytes
    KeyDigest,          \* key -> the bytes of its SHA-256
    Notes,              \* signature bytes -> what they sign, and by which key
    KeyHintBytes,       \* rekor.rs CHECKPOINT_KEY_HINT_BYTES
    MaxSignatureLines   \* limits.rs MAX_CHECKPOINT_SIGNATURES

Newline == "\n"
CarriageReturn == "\r"

\* The base64 alphabet has no carriage return.
ASSUME CheckpointAssumption ==
    /\ KeyHintBytes \in Nat /\ MaxSignatureLines \in Nat
    /\ \A text \in DOMAIN Base64 : \A i \in DOMAIN text : text[i] # CarriageReturn

SignaturePrefix == << "EM", " " >>

\* The positions where `pattern` occurs in the text; str::find takes the first.
OccurrencesOf(text, pattern) ==
    {i \in DOMAIN text : IsPrefix(pattern, SubSeq(text, i, Len(text)))}

First(positions) == CHOOSE i \in positions : \A j \in positions : i <= j

\* str::lines: a "\r" goes only with the "\n" after it.
Lines(text) ==
    LET ends == Ascending({i \in DOMAIN text : text[i] = Newline \/ i = Len(text)})
        begin(k) == IF k = 1 THEN 1 ELSE ends[k - 1] + 1
        end(k) == IF text[ends[k]] # Newline THEN ends[k]
                  ELSE IF ends[k] > begin(k) /\ text[ends[k] - 1] = CarriageReturn THEN ends[k] - 2
                  ELSE ends[k] - 1
    IN  [k \in DOMAIN ends |-> SubSeq(text, begin(k), end(k))]

NonEmptyLines(text) == Filter(Lines(text), LAMBDA line : line # <<>>)

-----------------------------------------------------------------------------
\* The text up to the blank line, and after it.  The final "\n" of the body is signed.
BlankLine == << Newline, Newline >>
HasBlankLine(text) == OccurrencesOf(text, BlankLine) # {}
SignedBody(text) == SubSeq(text, 1, First(OccurrencesOf(text, BlankLine)))
SignatureText(text) == SubSeq(text, First(OccurrencesOf(text, BlankLine)) + 2, Len(text))

\* Mutated form of OriginOf: the origin is the first of the lines().
OriginOfLines(body) == Lines(body)[1]

\* The origin keeps its bytes: it ends where the first "\n" is.
OriginOf(body) == SubSeq(body, 1, First(OccurrencesOf(body, << Newline >>)) - 1)

\* The lines below the origin; body_text is the body without its final "\n".
BelowOrigin(body) == Lines(SubSeq(body, First(OccurrencesOf(body, << Newline >>)) + 1, Len(body) - 1))

ParseBody(text) ==
    LET body == SignedBody(text)
        below == BelowOrigin(body)
    IN  IF ~HasBlankLine(text) THEN "Checkpoint"
        ELSE FirstError(<<
            Check(Cardinality(OccurrencesOf(body, << Newline >>)) > 1 /\ body[1] # Newline, "Checkpoint"),
            Check(below # <<>>, "Checkpoint"),
            IF below = <<>> THEN Ok ELSE Check(FromStr(below[1]) # {}, "Checkpoint"),
            Check(Len(below) > 1, "Checkpoint"),
            IF Len(below) < 2 THEN Ok ELSE Check(below[2] \in DOMAIN Base64, "Base64") >>)

TreeSizeOf(body) == FromStr(BelowOrigin(body)[1])
RootHashOf(body) == Base64[BelowOrigin(body)[2]]

\* "marker name blob": the blob is all that follows the first space after the marker.
NameAndBlob(line) ==
    LET rest == SubSeq(line, Len(SignaturePrefix) + 1, Len(line))
        spaces == {i \in DOMAIN rest : rest[i] = " "}
    IN  IF ~IsPrefix(SignaturePrefix, line) \/ spaces = {} THEN {}
        ELSE {[name |-> SubSeq(rest, 1, First(spaces) - 1), blob |-> SubSeq(rest, First(spaces) + 1, Len(rest))]}

ParseSignatureLine(line) ==
    FirstError(<<
        Check(NameAndBlob(line) # {}, "Checkpoint"),
        Check(\A l \in NameAndBlob(line) : l.blob \in DOMAIN Base64, "Base64"),
        Check(\A l \in NameAndBlob(line) : l.blob \in DOMAIN Base64 => Len(Base64[l.blob]) > KeyHintBytes, "Checkpoint") >>)

CheckpointSignature(line) ==
    LET parts == CHOOSE l \in NameAndBlob(line) : TRUE
        blob == Base64[parts.blob]
    IN  [name |-> parts.name, keyHint |-> SubSeq(blob, 1, KeyHintBytes),
         signature |-> SubSeq(blob, KeyHintBytes + 1, Len(blob))]

-----------------------------------------------------------------------------
\* The hint of a log as an Option: a declared id may be too short to have one.
KeyHint(log) ==
    LET ids == IF log.checkpointKeyId = {} THEN {KeyDigest[log.key]} ELSE log.checkpointKeyId
    IN  {SubSeq(id, 1, KeyHintBytes) : id \in {i \in ids : Len(i) >= KeyHintBytes}}

Scheme == << "https://" >>

CheckpointKeyNameMatches(log, name) ==
    name = log.baseUrl \/ Scheme \o name = log.baseUrl

\* EcdsaVerifyingKey::verify_der on the bytes of a signature.
SignsNote(key, body, signature) ==
    signature \in DOMAIN Notes /\ VerifyDer(key, body, Notes[signature])
=============================================================================
