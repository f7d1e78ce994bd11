---------------------------- MODULE FuzzingProofs ---------------------------
(***************************************************************************)
(* Proofs about the parsers of modules BundleSet and Fuzzing, for every    *)
(* input, embedded root, key and set of signatures.                        *)
(***************************************************************************)
EXTENDS Fuzzing, SymbolicProofs, SequenceTheorems

-----------------------------------------------------------------------------
(***************************************************************************)
(* Which parser is where.  Nothing is returned before "done", and only a   *)
(* checkpoint that is to be verified gets past its signature lines.        *)
(***************************************************************************)
CheckpointApis == {"checkpoint", "checkpointVerify", "proofCheckpoint"}

PlaceInv ==
    /\ input \in Inputs /\ next \in Nat \ {0}
    /\ pc # "done" => result = "Pending"
    /\ pc \in {"note", "bind", "matching", "others"} => Verifying
    /\ pc \in {"count", "lines"} => input.api \in CheckpointApis
    /\ pc = "scts" => input.api = "sctList"
    /\ pc = "items" => input.api \in {"jsonLines", "githubResponse"}
    /\ anchor # {} => Verifying

\* The steps of the other parsers, and the size check.
Elsewhere ==
    \/ Next /\ UNCHANGED wire
    \/ TakeListLength \/ TakeSct \/ EndOfSctList
    \/ ParseRekorCanonicalizedBody \/ ParseStatement \/ ParseTimestamp

\* A try goes on, or returns what is not Ok.
LEMMA TryMeans ==
    ASSUME NEW outcome, NEW place, Try(outcome, place), result = "Pending"
    PROVE  \/ outcome = Ok /\ pc' = place /\ result' = "Pending"
           \/ outcome # Ok /\ pc' = "done" /\ result' = outcome
  BY DEF Try, Return

LEMMA ElsewhereStep ==
    ASSUME PlaceInv, Elsewhere
    PROVE  /\ UNCHANGED <<input, root, lock, anchor, signatures, tried>>
           /\ next' \in Nat \ {0}
           /\ pc \in {"size", "document", "items", "scts"}
           /\ Verifying => pc = "size" /\ next' = next
           /\ pc # "size" => input.api \notin CheckpointApis
           /\ \/ pc = "size" /\ pc' = "document" /\ result' = "Pending" /\ next' = next
              \/ pc' = "items" /\ input.api \in {"jsonLines", "githubResponse"} /\ result' = "Pending"
              \/ pc' = "scts" /\ input.api = "sctList" /\ result' = "Pending"
              \/ pc' = "done" /\ (pc = "size" => result' = "InputTooLarge")
<1>1. ASSUME Next, UNCHANGED wire
      PROVE  /\ UNCHANGED <<input, root, lock, anchor, signatures, tried>>
             /\ next' \in Nat \ {0}
             /\ pc \in {"size", "document", "items"}
             /\ pc = "size" => next' = next
             /\ pc # "size" => input.api \in {"bundle", "jsonLines", "githubResponse"}
             /\ \/ pc = "size" /\ pc' = "document" /\ result' = "Pending"
                \/ pc' = "items" /\ input.api \in {"jsonLines", "githubResponse"} /\ result' = "Pending"
                \/ pc' = "done" /\ (pc = "size" => result' = "InputTooLarge")
  <2>1. CASE CheckInputSize
    <3> DEFINE outcome == Check(input.size <= MaxInputBytes, "InputTooLarge")
               place == IF input.api = "jsonLines" THEN "items" ELSE "document"
    <3>1. Try(outcome, place) /\ result = "Pending"
      BY <2>1 DEF CheckInputSize, PlaceInv
    <3>2. outcome \in {Ok, "InputTooLarge"} /\ place \in {"items", "document"}
          /\ (place = "items" => input.api = "jsonLines")
      BY DEF Check
    <3> HIDE DEF outcome, place
    <3>3. QED
      BY <1>1, <2>1, <3>1, <3>2, TryMeans DEF CheckInputSize, PlaceInv, wire
  <2>2. CASE ParseBundle
    BY <1>1, <2>2 DEF ParseBundle, PlaceInv, wire, Return
  <2>3. CASE ParseResponse
    <3> DEFINE response == IF Document.json = Ok THEN RawGithubResponse(Document.value) ELSE {}
               attestations == IF response = {} THEN <<>> ELSE The(response).attestations
               outcome == FirstError(<< Document.json, Check(response # {}, "Json"),
                                        Check(attestations # <<>>, "EmptyContainer"),
                                        Check(Len(attestations) <= MaxBundlesPerSet, "TooManyBundles") >>)
    <3>1. /\ pc = "document" /\ input.api = "githubResponse" /\ result = "Pending"
          /\ Try(outcome, "items") /\ UNCHANGED <<input, next>>
      BY <2>3 DEF ParseResponse, PlaceInv
    <3> HIDE DEF outcome
    <3>2. QED
      BY <1>1, <3>1, TryMeans DEF PlaceInv, wire
  <2>4. CASE SkipBlankLine
    BY <1>1, <2>4 DEF SkipBlankLine, PlaceInv, wire
  <2>5. CASE TakeLine
    <3>1. /\ pc = "items" /\ input.api = "jsonLines" /\ result = "Pending"
          /\ Try(BundleFromText(input.texts[next]), "items") /\ UNCHANGED input /\ next' = next + 1
      BY <2>5 DEF TakeLine, PlaceInv
    <3>2. QED
      BY <1>1, <3>1, TryMeans DEF PlaceInv, wire
  <2>6. CASE EndOfLines
    BY <1>1, <2>6 DEF EndOfLines, PlaceInv, wire, Return
  <2>7. CASE TakeAttestation
    <3>1. /\ pc = "items" /\ input.api = "githubResponse" /\ result = "Pending"
          /\ Try(FirstError(Outcomes(BundleFromValue, raw[next].bundle)), "items") /\ UNCHANGED input /\ next' = next + 1
      BY <2>7 DEF TakeAttestation, PlaceInv
    <3>2. QED
      BY <1>1, <3>1, TryMeans DEF PlaceInv, wire
  <2>8. CASE EndOfAttestations
    BY <1>1, <2>8 DEF EndOfAttestations, PlaceInv, wire, Return
  <2>9. QED
    BY <1>1, <2>1, <2>2, <2>3, <2>4, <2>5, <2>6, <2>7, <2>8 DEF Next
<1>2. CASE TakeListLength
  <2> DEFINE length == Take(Cursor(Document.bytes), 2)
             outcome == Check(\E taken \in length : FromBeBytes(taken.head) = Len(taken.rest), "SctInvalid")
  <2>1. /\ pc = "document" /\ input.api = "sctList" /\ result = "Pending" /\ Try(outcome, "scts")
        /\ UNCHANGED <<input, next, root, lock, anchor, signatures, tried>>
    BY <1>2 DEF TakeListLength, PlaceInv
  <2> HIDE DEF outcome
  <2>2. QED
    BY <2>1, TryMeans DEF PlaceInv, Verifying, CheckpointApis
<1>3. CASE TakeSct
  <2> DEFINE encoded == TakePrefixed(cursor)
             sct == UNION {ParseSingleSct(taken.head) : taken \in encoded}
             outcome == Check(sct # {}, "SctInvalid")
  <2>1. /\ pc = "scts" /\ result = "Pending" /\ Try(outcome, "scts")
        /\ UNCHANGED <<input, next, root, lock, anchor, signatures, tried>>
    BY <1>3 DEF TakeSct, PlaceInv
  <2> HIDE DEF outcome
  <2>2. QED
    BY <2>1, TryMeans DEF PlaceInv, Verifying, CheckpointApis
<1>4. CASE EndOfSctList
  BY <1>4 DEF EndOfSctList, PlaceInv, Return, wire, Verifying, CheckpointApis
<1>5. CASE ParseRekorCanonicalizedBody
  BY <1>5 DEF ParseRekorCanonicalizedBody, PlaceInv, Return, wire, Verifying, CheckpointApis
<1>6. CASE ParseStatement
  BY <1>6 DEF ParseStatement, PlaceInv, Return, wire, Verifying, CheckpointApis
<1>7. CASE ParseTimestamp
  BY <1>7 DEF ParseTimestamp, PlaceInv, Return, wire, Verifying, CheckpointApis
<1>8. CASE Next /\ UNCHANGED wire
  BY <1>1, <1>8 DEF Verifying, CheckpointApis
<1>9. QED
  BY <1>2, <1>3, <1>4, <1>5, <1>6, <1>7, <1>8 DEF Elsewhere

-----------------------------------------------------------------------------
(***************************************************************************)
(* Texts and their lines.                                                  *)
(***************************************************************************)
LEMMA FunctionIsSeq ==
    ASSUME NEW n \in Nat, NEW S, NEW f \in [1..n -> S]
    PROVE  f \in Seq(S) /\ Len(f) = n
<1>1. f \in Seq(S)
  BY SeqDef
<1>2. DOMAIN f = 1..n /\ Len(f) \in Nat /\ DOMAIN f = 1..Len(f)
  BY <1>1, LenProperties
<1>3. QED
  BY <1>1, <1>2

LEMMA IntervalSubset ==
    ASSUME NEW n \in Nat, NEW T \in SUBSET (1..n)
    PROVE  T \in SUBSET Nat /\ IsFiniteSet(T)
<1>1. IsFiniteSet(1..n)
  BY FS_Interval
<1>2. IsFiniteSet(T)
  BY <1>1, FS_Subset
<1>3. QED
  BY <1>2

LEMMA Positions ==
    ASSUME NEW S, NEW s \in Seq(S), NEW T \in SUBSET DOMAIN s
    PROVE  T \in SUBSET Nat /\ IsFiniteSet(T)
<1>1. Len(s) \in Nat /\ T \in SUBSET (1..Len(s))
  BY LenProperties
<1>2. QED
  BY <1>1, IntervalSubset

LEMMA FirstPosition ==
    ASSUME NEW S \in SUBSET Nat, S # {}
    PROVE  First(S) \in S /\ \A j \in S : First(S) <= j
  BY FirstHit DEF First

EndsOf(text) == {i \in DOMAIN text : text[i] = Newline \/ i = Len(text)}

LEMMA LineCount ==
    ASSUME NEW S, NEW text \in Seq(S)
    PROVE  /\ IsFiniteSet(EndsOf(text)) /\ EndsOf(text) \in SUBSET Nat
           /\ Cardinality(EndsOf(text)) \in Nat
           /\ DOMAIN Lines(text) = 1..Cardinality(EndsOf(text))
<1>1. EndsOf(text) \in SUBSET DOMAIN text
  BY DEF EndsOf
<1>2. IsFiniteSet(EndsOf(text)) /\ EndsOf(text) \in SUBSET Nat
  BY <1>1, Positions
<1>3. DOMAIN Ascending(EndsOf(text)) = 1..Cardinality(EndsOf(text)) /\ Cardinality(EndsOf(text)) \in Nat
  BY <1>2, AscendingProperties
<1>4. DOMAIN Lines(text) = DOMAIN Ascending(EndsOf(text))
  BY DEF Lines, EndsOf
<1>5. QED
  BY <1>2, <1>3, <1>4

LEMMA LinesAreSeq ==
    ASSUME NEW text, NEW n \in Nat, DOMAIN Lines(text) = 1..n
    PROVE  Len(Lines(text)) = n
<1> DEFINE lines == Lines(text)
<1>1. lines \in [1..n -> {lines[k] : k \in 1..n}]
  BY DEF Lines
<1> HIDE DEF lines
<1>2. QED
  BY <1>1, FunctionIsSeq DEF lines

LEMMA NonEmptyLineCount ==
    ASSUME NEW S, NEW text \in Seq(S)
    PROVE  Len(NonEmptyLines(text)) \in Nat /\ DOMAIN NonEmptyLines(text) = 1..Len(NonEmptyLines(text))
<1> DEFINE lines == Lines(text)
           n == Cardinality(EndsOf(text))
           full == {i \in DOMAIN lines : lines[i] # <<>>}
           kept == Ascending(full)
           result0 == [k \in DOMAIN kept |-> lines[kept[k]]]
<1>1. n \in Nat /\ DOMAIN lines = 1..n
  BY LineCount
<1>2. full \in SUBSET (1..n)
  BY <1>1
<1>3. NonEmptyLines(text) = result0
  BY DEF NonEmptyLines, Filter
<1> HIDE DEF full
<1>4. full \in SUBSET Nat /\ IsFiniteSet(full)
  BY <1>1, <1>2, IntervalSubset
<1>5. DOMAIN kept = 1..Cardinality(full) /\ Cardinality(full) \in Nat
  BY <1>4, AscendingProperties
<1> HIDE DEF kept, lines
<1>6. result0 \in [1..Cardinality(full) -> {result0[k] : k \in 1..Cardinality(full)}]
  BY <1>5
<1> HIDE DEF result0
<1>7. Len(result0) = Cardinality(full) /\ DOMAIN result0 = 1..Cardinality(full)
  BY <1>5, <1>6, FunctionIsSeq
<1>8. QED
  BY <1>3, <1>5, <1>7

\* The note and the text below it, when there is a blank line.
LEMMA NoteAndSignatures ==
    ASSUME NEW S, NEW text \in Seq(S), HasBlankLine(text)
    PROVE  LET blank == First(OccurrencesOf(text, BlankLine))
           IN  /\ blank \in 1..Len(text) /\ Len(text) \in Nat
               /\ SignedBody(text) = SubSeq(text, 1, blank)
               /\ SignedBody(text) \in Seq(S) /\ Len(SignedBody(text)) = blank
               /\ \A i \in 1..blank : SignedBody(text)[i] = text[i]
               /\ SignatureText(text) \in Seq(S)
<1> DEFINE occurrences == OccurrencesOf(text, BlankLine)
           blank == First(occurrences)
<1>1. Len(text) \in Nat /\ DOMAIN text = 1..Len(text) /\ \A i \in 1..Len(text) : text[i] \in S
  BY LenProperties, ElementOfSeq
<1>2. occurrences \in SUBSET (1..Len(text)) /\ occurrences # {}
  BY <1>1 DEF OccurrencesOf, HasBlankLine
<1>3. occurrences \in SUBSET Nat
  BY <1>1, <1>2
<1> HIDE DEF occurrences
<1>4. blank \in 1..Len(text)
  BY <1>2, <1>3, FirstPosition
<1> HIDE DEF blank
<1>5. \A i \in 1..blank : text[i] \in S
  BY <1>1, <1>4
<1>6. \A i \in (blank + 2)..Len(text) : text[i] \in S
  BY <1>1, <1>4
<1>7. SignedBody(text) = SubSeq(text, 1, blank) /\ SignatureText(text) = SubSeq(text, blank + 2, Len(text))
  BY DEF SignedBody, SignatureText, blank, occurrences
<1>8. /\ SubSeq(text, 1, blank) \in Seq(S) /\ Len(SubSeq(text, 1, blank)) = blank
      /\ \A i \in 1..blank : SubSeq(text, 1, blank)[i] = text[i]
  <2>1. /\ SubSeq(text, 1, blank) \in Seq(S)
        /\ Len(SubSeq(text, 1, blank)) = IF 1 <= blank THEN blank - 1 + 1 ELSE 0
        /\ \A i \in 1..(blank - 1 + 1) : SubSeq(text, 1, blank)[i] = text[1 + i - 1]
    BY <1>4, <1>5, SubSeqProperties
  <2>2. QED
    BY <1>1, <1>4, <2>1
<1>9. SubSeq(text, blank + 2, Len(text)) \in Seq(S)
  BY <1>1, <1>4, <1>6, SubSeqProperties
<1>10. QED
  BY <1>1, <1>4, <1>7, <1>8, <1>9 DEF blank, occurrences

-----------------------------------------------------------------------------
(***************************************************************************)
(* The inductive invariant of the checkpoint parsers.                      *)
(*                                                                         *)
(* BodyInv: past ParseNoteBody the note has parsed.                        *)
(* LinesInv: the signature lines are parsed once each, within the limit.   *)
(* TriedInv: what has been tried in either pass lies behind it.            *)
(* NamesInv: what has been passed over or tried in vain signs nothing.     *)
(***************************************************************************)
ParsedLines == {CheckpointSignature(SignatureLines[i]) : i \in Nat}

BodyInv ==
    pc \in {"count", "lines", "bind", "matching", "others"} => ParseBody(Envelope) = Ok

LinesInv ==
    /\ signatures \in Seq(ParsedLines)
    /\ Len(signatures) <= MaxSignatureLines
    /\ pc \in {"size", "document", "note", "count"} => signatures = <<>> /\ next = 1
    /\ pc = "bind" => next = 1
    /\ pc = "lines" => Len(SignatureLines) <= MaxSignatureLines /\ Len(signatures) = next - 1

HasLogName(i) == CheckpointKeyNameMatches(Log, signatures[i].name)

TriedInv ==
    /\ tried \in Seq(Nat)
    /\ pc \notin {"matching", "others", "done"} => tried = <<>>
    /\ pc = "matching" => \A i \in DOMAIN tried : HasLogName(tried[i]) /\ tried[i] < next
    /\ pc = "others" => \A i \in DOMAIN tried : HasLogName(tried[i]) \/ tried[i] < next
    /\ \A i, j \in DOMAIN tried : i < j =>
          /\ tried[i] # tried[j]
          /\ HasLogName(tried[j]) => HasLogName(tried[i])

IsValid(i) ==
    /\ signatures[i].keyHint \in KeyHint(Log)
    /\ SignsNote(Log.key, SignedBody(Envelope), signatures[i].signature)

NamesInv ==
    /\ pc = "matching" => \A i \in DOMAIN signatures : HasLogName(i) /\ i < next => ~IsValid(i)
    /\ pc = "others" => \A i \in DOMAIN signatures : HasLogName(i) \/ i < next => ~IsValid(i)
    /\ NamesDecideNothing

CheckpointInv == PlaceInv /\ BodyInv /\ LinesInv /\ TriedInv /\ NamesInv

\* The errors of parsing are not that of a signature.
LEMMA ParseErrors ==
    ASSUME NEW text, NEW line
    PROVE  /\ ParseBody(text) \in {Ok, "Checkpoint", "Base64"}
           /\ ParseSignatureLine(line) \in {Ok, "Checkpoint", "Base64"}
           /\ ParseBody(text) = Ok => HasBlankLine(text)
<1> DEFINE body == SignedBody(text)
           below == BelowOrigin(body)
           a == Check(Cardinality(OccurrencesOf(body, << Newline >>)) > 1 /\ body[1] # Newline, "Checkpoint")
           b == Check(below # <<>>, "Checkpoint")
           c == IF below = <<>> THEN Ok ELSE Check(FromStr(below[1]) # {}, "Checkpoint")
           d == Check(Len(below) > 1, "Checkpoint")
           e == IF Len(below) < 2 THEN Ok ELSE Check(below[2] \in DOMAIN Base64, "Base64")
<1>1. /\ ~HasBlankLine(text) => ParseBody(text) = "Checkpoint"
      /\ HasBlankLine(text) => ParseBody(text) = FirstError(<<a, b, c, d, e>>)
  BY DEF ParseBody
<1>2. /\ a \in {Ok, "Checkpoint"} /\ b \in {Ok, "Checkpoint"} /\ c \in {Ok, "Checkpoint"}
      /\ d \in {Ok, "Checkpoint"} /\ e \in {Ok, "Base64"}
  BY DEF Check
<1> DEFINE x == Check(NameAndBlob(line) # {}, "Checkpoint")
           y == Check(\A l \in NameAndBlob(line) : l.blob \in DOMAIN Base64, "Base64")
           z == Check(\A l \in NameAndBlob(line) : l.blob \in DOMAIN Base64 => Len(Base64[l.blob]) > KeyHintBytes,
                      "Checkpoint")
<1>3. ParseSignatureLine(line) = FirstError(<<x, y, z>>)
  BY DEF ParseSignatureLine
<1>4. x \in {Ok, "Checkpoint"} /\ y \in {Ok, "Base64"} /\ z \in {Ok, "Checkpoint"}
  BY DEF Check
<1> HIDE DEF a, b, c, d, e, x, y, z
<1>5. FirstError(<<a, b, c, d, e>>) \in {Ok, "Checkpoint", "Base64"}
  BY <1>2, FirstError5
<1>6. FirstError(<<x, y, z>>) \in {Ok, "Checkpoint", "Base64"}
  BY <1>4, FirstError3
<1>7. "Checkpoint" # Ok
  BY DEF Ok
<1>8. QED
  BY <1>1, <1>3, <1>5, <1>6, <1>7

LEMMA CheckpointInvInit ==
    ASSUME WireInit
    PROVE  CheckpointInv
<1>1. /\ input \in Inputs /\ pc = "size" /\ next = 1 /\ result = "Pending"
      /\ anchor = {} /\ signatures = <<>> /\ tried = <<>>
  BY DEF WireInit, Init
<1>2. PlaceInv /\ BodyInv
  BY <1>1 DEF PlaceInv, BodyInv
<1>3. LinesInv
  BY <1>1, CheckpointAssumption DEF LinesInv, CheckpointAssumption
<1>4. TriedInv
  BY <1>1 DEF TriedInv
<1>5. NamesInv
  BY <1>1 DEF NamesInv, NamesDecideNothing, Ok
<1>6. QED
  BY <1>2, <1>3, <1>4, <1>5 DEF CheckpointInv

\* What is read from the variables that a step leaves alone.
LEMMA Unmoved ==
    /\ UNCHANGED input =>
          /\ UNCHANGED <<Envelope, SignatureLines, ParsedLines>>
          /\ Verifying' <=> Verifying
    /\ UNCHANGED <<input, root, lock>> => UNCHANGED Log
    /\ UNCHANGED <<input, root, lock, signatures>> =>
          \A i : (HasLogName(i)' <=> HasLogName(i)) /\ (IsValid(i)' <=> IsValid(i))
<1>1. UNCHANGED input => UNCHANGED <<Envelope, SignatureLines, ParsedLines>> /\ (Verifying' <=> Verifying)
  BY DEF Envelope, Document, SignatureLines, ParsedLines, Verifying
<1>2. UNCHANGED <<input, root, lock>> => UNCHANGED Log
  BY DEF Log
<1>3. UNCHANGED <<input, root, lock, signatures>> =>
          \A i : (HasLogName(i)' <=> HasLogName(i)) /\ (IsValid(i)' <=> IsValid(i))
  BY <1>1, <1>2 DEF HasLogName, IsValid
<1>4. QED
  BY <1>1, <1>2, <1>3

\* Before the passes nothing is tried, and no verdict on the signatures is given.
LEMMA BeforePasses ==
    ASSUME CheckpointInv, UNCHANGED <<input, tried>>,
           pc \notin {"matching", "others", "done"}, pc' \notin {"matching", "others"},
           Verifying => result' \notin {Ok, "CheckpointSignatureInvalid"}
    PROVE  TriedInv' /\ NamesInv'
<1>1. tried' = <<>>
  BY DEF CheckpointInv, TriedInv
<1>2. TriedInv'
  BY <1>1 DEF TriedInv
<1>3. Verifying' <=> Verifying
  BY Unmoved
<1>4. NamesInv'
  BY <1>3 DEF NamesInv, NamesDecideNothing
<1>5. QED
  BY <1>2, <1>4

LEMMA SignatureLineCount ==
    ASSUME input \in Inputs, input.api \in CheckpointApis, ParseBody(Envelope) = Ok
    PROVE  Len(SignatureLines) \in Nat /\ DOMAIN SignatureLines = 1..Len(SignatureLines)
<1>1. Envelope \in Seq(Range(Envelope))
  BY FuzzingAssumption DEF FuzzingAssumption, CheckpointApis, Envelope, Document
<1>2. HasBlankLine(Envelope)
  BY ParseErrors
<1>3. SignatureText(Envelope) \in Seq(Range(Envelope))
  BY <1>1, <1>2, NoteAndSignatures
<1>4. QED
  BY <1>3, NonEmptyLineCount DEF SignatureLines

LEMMA ElsewhereKeepsCheckpointInv ==
    ASSUME CheckpointInv, Elsewhere
    PROVE  CheckpointInv'
<1>1. PlaceInv /\ BodyInv /\ LinesInv
  BY DEF CheckpointInv
<1>2. /\ UNCHANGED <<input, root, lock, anchor, signatures, tried>>
      /\ next' \in Nat \ {0}
      /\ pc \in {"size", "document", "items", "scts"}
      /\ Verifying => pc = "size" /\ next' = next
      /\ \/ pc = "size" /\ pc' = "document" /\ result' = "Pending" /\ next' = next
         \/ pc' = "items" /\ input.api \in {"jsonLines", "githubResponse"} /\ result' = "Pending"
         \/ pc' = "scts" /\ input.api = "sctList" /\ result' = "Pending"
         \/ pc' = "done" /\ (pc = "size" => result' = "InputTooLarge")
  BY <1>1, ElsewhereStep
<1>3. UNCHANGED <<Envelope, SignatureLines, ParsedLines>> /\ (Verifying' <=> Verifying)
  BY <1>2, Unmoved
<1>4. PlaceInv' /\ BodyInv'
  BY <1>1, <1>2, <1>3 DEF PlaceInv, BodyInv
<1>5. LinesInv'
  BY <1>1, <1>2, <1>3 DEF LinesInv
<1>6. TriedInv' /\ NamesInv'
  BY <1>2, BeforePasses DEF Ok
<1>7. QED
  BY <1>4, <1>5, <1>6 DEF CheckpointInv

\* The steps up to the binding of the note, the signature lines apart.
LEMMA PreambleKeepsCheckpointInv ==
    ASSUME CheckpointInv, EmbeddedRekorV1Log \/ ProofAnchor \/ ParseNoteBody \/ CountSignatureLines
    PROVE  CheckpointInv'
<1>1. PlaceInv /\ BodyInv /\ LinesInv
  BY DEF CheckpointInv
<1>2. CASE EmbeddedRekorV1Log
  <2> DEFINE outcome == Check(lock' # {{}}, "UnknownLogKey")
  <2>1. /\ Try(outcome, "note") /\ result = "Pending" /\ pc = "document" /\ input.api = "checkpointVerify"
        /\ UNCHANGED <<input, next, anchor, signatures, tried>>
    BY <1>1, <1>2 DEF EmbeddedRekorV1Log, PlaceInv
  <2>2. outcome \in {Ok, "UnknownLogKey"}
    BY DEF Check
  <2> HIDE DEF outcome
  <2>3. \/ pc' = "note" /\ result' = "Pending"
        \/ pc' = "done" /\ result' = "UnknownLogKey"
    BY <2>1, <2>2, TryMeans DEF Ok
  <2>4. Verifying /\ Verifying' /\ UNCHANGED <<Envelope, SignatureLines, ParsedLines>>
    BY <2>1, Unmoved DEF Verifying
  <2>5. PlaceInv' /\ BodyInv' /\ LinesInv'
    BY <1>1, <2>1, <2>3, <2>4 DEF PlaceInv, BodyInv, LinesInv
  <2>6. TriedInv' /\ NamesInv'
    BY <2>1, <2>3, BeforePasses DEF Ok
  <2>7. QED
    BY <2>5, <2>6 DEF CheckpointInv
<1>3. CASE ProofAnchor
  <2>1. /\ result' = "Pending" /\ pc = "document" /\ pc' = "note" /\ input.api = "proofCheckpoint"
        /\ UNCHANGED <<input, next, signatures, tried>>
    BY <1>1, <1>3 DEF ProofAnchor, PlaceInv
  <2>2. Verifying /\ Verifying' /\ UNCHANGED <<Envelope, SignatureLines, ParsedLines>>
    BY <2>1, Unmoved DEF Verifying
  <2>3. PlaceInv' /\ BodyInv' /\ LinesInv'
    BY <1>1, <2>1, <2>2 DEF PlaceInv, BodyInv, LinesInv
  <2>4. TriedInv' /\ NamesInv'
    BY <2>1, BeforePasses DEF Ok
  <2>5. QED
    BY <2>3, <2>4 DEF CheckpointInv
<1>4. CASE ParseNoteBody
  <2>1. /\ Try(ParseBody(Envelope), "count") /\ result = "Pending" /\ pc \in {"note", "document"}
        /\ input.api \in CheckpointApis
        /\ UNCHANGED <<input, next, anchor, signatures, tried>>
    BY <1>1, <1>4 DEF ParseNoteBody, PlaceInv, Verifying, CheckpointApis
  <2>2. ParseBody(Envelope) \in {Ok, "Checkpoint", "Base64"}
    BY ParseErrors
  <2>3. \/ pc' = "count" /\ result' = "Pending" /\ ParseBody(Envelope) = Ok
        \/ pc' = "done" /\ result' \in {"Checkpoint", "Base64"}
    BY <2>1, <2>2, TryMeans DEF Ok
  <2>4. (Verifying' <=> Verifying) /\ UNCHANGED <<Envelope, SignatureLines, ParsedLines>>
    BY <2>1, Unmoved
  <2>5. PlaceInv' /\ BodyInv' /\ LinesInv'
    BY <1>1, <2>1, <2>3, <2>4 DEF PlaceInv, BodyInv, LinesInv
  <2>6. TriedInv' /\ NamesInv'
    BY <2>1, <2>3, BeforePasses DEF Ok
  <2>7. QED
    BY <2>5, <2>6 DEF CheckpointInv
<1>5. CASE CountSignatureLines
  <2> DEFINE outcome == Check(Len(SignatureLines) <= MaxSignatureLines, "TooManyCheckpointSignatures")
  <2>1. /\ Try(outcome, "lines") /\ result = "Pending" /\ pc = "count"
        /\ UNCHANGED <<input, next, anchor, signatures, tried>>
    BY <1>1, <1>5 DEF CountSignatureLines, PlaceInv
  <2>2. /\ outcome \in {Ok, "TooManyCheckpointSignatures"}
        /\ outcome = Ok => Len(SignatureLines) <= MaxSignatureLines
    BY DEF Check, Ok
  <2> HIDE DEF outcome
  <2>3. \/ pc' = "lines" /\ result' = "Pending" /\ Len(SignatureLines) <= MaxSignatureLines
        \/ pc' = "done" /\ result' = "TooManyCheckpointSignatures"
    BY <2>1, <2>2, TryMeans DEF Ok
  <2>4. (Verifying' <=> Verifying) /\ UNCHANGED <<Envelope, SignatureLines, ParsedLines>>
    BY <2>1, Unmoved
  <2>5. PlaceInv' /\ BodyInv'
    BY <1>1, <2>1, <2>3, <2>4 DEF PlaceInv, BodyInv
  <2>6. LinesInv'
    <3>1. signatures = <<>> /\ next = 1 /\ Len(signatures) = 0
      BY <1>1, <2>1 DEF LinesInv
    <3>2. QED
      BY <1>1, <2>1, <2>3, <2>4, <3>1 DEF LinesInv
  <2>7. TriedInv' /\ NamesInv'
    BY <2>1, <2>3, BeforePasses DEF Ok
  <2>8. QED
    BY <2>5, <2>6, <2>7 DEF CheckpointInv
<1>6. QED
  BY <1>2, <1>3, <1>4, <1>5

LEMMA ParseLineKeepsCheckpointInv ==
    ASSUME CheckpointInv, ParseLine
    PROVE  CheckpointInv'
<1> DEFINE outcome == ParseSignatureLine(SignatureLines[next])
           line == CheckpointSignature(SignatureLines[next])
<1>1. PlaceInv /\ BodyInv /\ LinesInv
  BY DEF CheckpointInv
<1>2. /\ Try(outcome, "lines") /\ result = "Pending" /\ pc = "lines" /\ next <= Len(SignatureLines)
      /\ signatures' = IF outcome = Ok THEN Append(signatures, line) ELSE signatures
      /\ next' = next + 1 /\ UNCHANGED <<input, anchor, tried>>
  BY <1>1 DEF ParseLine, PlaceInv
<1>3. outcome \in {Ok, "Checkpoint", "Base64"}
  BY ParseErrors
<1>4. line \in ParsedLines /\ next \in Nat
  BY <1>1 DEF ParsedLines, PlaceInv
<1> HIDE DEF outcome, line
<1>5. \/ outcome = Ok /\ pc' = "lines" /\ result' = "Pending"
      \/ outcome # Ok /\ pc' = "done" /\ result' \in {"Checkpoint", "Base64"}
  BY <1>2, <1>3, TryMeans
<1>6. (Verifying' <=> Verifying) /\ UNCHANGED <<Envelope, SignatureLines, ParsedLines>>
  BY <1>2, Unmoved
<1>7. PlaceInv' /\ BodyInv'
  BY <1>1, <1>2, <1>5, <1>6 DEF PlaceInv, BodyInv
<1>8. LinesInv'
  <2>1. /\ Append(signatures, line) \in Seq(ParsedLines)
        /\ Len(Append(signatures, line)) = Len(signatures) + 1
    BY <1>1, <1>4, AppendProperties DEF LinesInv
  <2>2. Len(SignatureLines) \in Nat
    BY <1>1, <1>2, SignatureLineCount DEF PlaceInv, BodyInv
  <2>3. Len(signatures) = next - 1 /\ next <= MaxSignatureLines
    BY <1>1, <1>2, <1>4, <2>2, CheckpointAssumption DEF LinesInv, CheckpointAssumption
  <2>4. Len(signatures') <= MaxSignatureLines /\ (outcome = Ok => Len(signatures') = next' - 1)
    BY <1>1, <1>2, <1>4, <2>1, <2>3 DEF LinesInv
  <2>5. QED
    BY <1>1, <1>2, <1>5, <1>6, <2>1, <2>4 DEF LinesInv
<1>9. TriedInv' /\ NamesInv'
  BY <1>2, <1>5, BeforePasses DEF Ok
<1>10. QED
  BY <1>7, <1>8, <1>9 DEF CheckpointInv

LEMMA EndOfNoteKeepsCheckpointInv ==
    ASSUME CheckpointInv, EndOfNote
    PROVE  CheckpointInv'
<1>1. PlaceInv /\ BodyInv /\ LinesInv
  BY DEF CheckpointInv
<1>2. /\ result = "Pending" /\ pc = "lines" /\ next' = 1 /\ UNCHANGED <<input, tried>>
      /\ signatures' \in {signatures, <<>>}
      /\ anchor' # {} => Verifying
      /\ \/ pc' = "done" /\ result' = "Checkpoint"
         \/ pc' = "done" /\ input.api = "checkpoint"
         \/ pc' = "note" /\ result' = "Pending" /\ Verifying /\ signatures' = <<>>
         \/ pc' = "bind" /\ result' = "Pending" /\ Verifying
  <2>1. result = "Pending" /\ pc = "lines" /\ next' = 1 /\ UNCHANGED <<input, tried>>
    BY <1>1 DEF EndOfNote, PlaceInv
  <2>2. CASE signatures = <<>> /\ Return("Checkpoint") /\ UNCHANGED <<anchor, signatures>>
    BY <1>1, <2>1, <2>2 DEF Return, PlaceInv
  <2>3. CASE signatures # <<>> /\ input.api = "checkpoint" /\ Return(Ok) /\ UNCHANGED <<anchor, signatures>>
    BY <1>1, <2>1, <2>3 DEF Return, PlaceInv
  <2>4. CASE /\ input.api = "checkpointVerify"
             /\ signatures' = <<>> /\ pc' = "note" /\ UNCHANGED result
    BY <2>1, <2>4 DEF Verifying
  <2>5. CASE anchor # {} /\ pc' = "bind" /\ UNCHANGED <<result, anchor, signatures>>
    BY <1>1, <2>1, <2>5 DEF PlaceInv
  <2>6. QED
    BY <2>1, <2>2, <2>3, <2>4, <2>5 DEF EndOfNote
<1>3. (Verifying' <=> Verifying) /\ UNCHANGED <<Envelope, SignatureLines, ParsedLines>>
  BY <1>2, Unmoved
<1>4. PlaceInv' /\ BodyInv'
  BY <1>1, <1>2, <1>3 DEF PlaceInv, BodyInv
<1>5. LinesInv'
  <2>1. <<>> \in Seq(ParsedLines) /\ Len(<<>>) <= MaxSignatureLines
    BY CheckpointAssumption DEF CheckpointAssumption
  <2>2. QED
    BY <1>1, <1>2, <1>3, <2>1 DEF LinesInv
<1>6. TriedInv' /\ NamesInv'
  BY <1>2, BeforePasses DEF Ok, Verifying
<1>7. QED
  BY <1>4, <1>5, <1>6 DEF CheckpointInv

LEMMA BindCheckpointKeepsCheckpointInv ==
    ASSUME CheckpointInv, BindCheckpoint
    PROVE  CheckpointInv'
<1> DEFINE body == SignedBody(Envelope)
           a == Check(\A x \in anchor : TreeSizeOf(body) = {x.treeSize}, "CheckpointTreeSizeMismatch")
           b == Check(\A x \in anchor : RootHashOf(body) = x.rootHash, "CheckpointRootHashMismatch")
           c == Check(KeyHint(Log) # {}, "CheckpointSignatureInvalid")
           outcome == FirstError(<<a, b, c>>)
<1>1. PlaceInv /\ BodyInv /\ LinesInv /\ TriedInv
  BY DEF CheckpointInv
<1>2. /\ Try(outcome, "matching") /\ result = "Pending" /\ pc = "bind"
      /\ UNCHANGED <<input, next, root, lock, anchor, signatures, tried>>
  BY <1>1 DEF BindCheckpoint, PlaceInv
<1>3. /\ a \in {Ok, "CheckpointTreeSizeMismatch"} /\ b \in {Ok, "CheckpointRootHashMismatch"}
      /\ c \in {Ok, "CheckpointSignatureInvalid"} /\ (c # Ok => KeyHint(Log) = {})
  BY DEF Check
<1> HIDE DEF a, b, c
<1>4. outcome \in {Ok, a, b, c}
  BY FirstError3
<1> HIDE DEF outcome
<1>5. \/ pc' = "matching" /\ result' = "Pending"
      \/ pc' = "done" /\ result' # Ok /\ (result' = "CheckpointSignatureInvalid" => KeyHint(Log) = {})
  BY <1>2, <1>3, <1>4, TryMeans DEF Ok
<1>6. /\ UNCHANGED <<Envelope, SignatureLines, ParsedLines, Log>> /\ (Verifying' <=> Verifying)
      /\ \A i : (HasLogName(i)' <=> HasLogName(i)) /\ (IsValid(i)' <=> IsValid(i))
  BY <1>2, Unmoved
<1>7. PlaceInv' /\ BodyInv' /\ LinesInv'
  BY <1>1, <1>2, <1>5, <1>6 DEF PlaceInv, BodyInv, LinesInv
<1>8. tried' = <<>>
  BY <1>1, <1>2 DEF TriedInv
<1>9. TriedInv'
  BY <1>8 DEF TriedInv
<1>10. NamesInv'
  <2>1. CASE pc' = "matching" /\ result' = "Pending"
    <3>1. \A i \in DOMAIN signatures : ~(i < next)
      <4>1. next = 1 /\ DOMAIN signatures = 1..Len(signatures) /\ Len(signatures) \in Nat
        BY <1>1, <1>2, LenProperties DEF LinesInv
      <4>2. QED
        BY <4>1
    <3>2. QED
      BY <1>2, <2>1, <3>1 DEF NamesInv, NamesDecideNothing, Ok
  <2>2. CASE /\ pc' = "done" /\ result' # Ok
             /\ result' = "CheckpointSignatureInvalid" => KeyHint(Log) = {}
    BY <1>6, <2>2 DEF NamesInv, NamesDecideNothing
  <2>3. QED
    BY <1>5, <2>1, <2>2
<1>11. QED
  BY <1>7, <1>9, <1>10 DEF CheckpointInv

LEMMA TryLineKeepsCheckpointInv ==
    ASSUME CheckpointInv, TryLine
    PROVE  CheckpointInv'
<1> DEFINE candidate == IsCandidate(signatures[next], pc)
           signs == SignsNote(Log.key, SignedBody(Envelope), signatures[next].signature)
<1>1. PlaceInv /\ BodyInv /\ LinesInv /\ TriedInv /\ NamesInv
  BY DEF CheckpointInv
<1>2. /\ pc \in {"matching", "others"} /\ next <= Len(signatures) /\ next' = next + 1 /\ next \in Nat \ {0}
      /\ tried' = IF candidate THEN Append(tried, next) ELSE tried
      /\ UNCHANGED <<input, root, lock, anchor, signatures>>
      /\ result = "Pending" /\ Verifying
  BY <1>1 DEF TryLine, PlaceInv
<1>3. /\ candidate /\ signs => pc' = "done" /\ result' = Ok
      /\ ~(candidate /\ signs) => UNCHANGED <<pc, result>>
  BY DEF TryLine, Return
<1>4. candidate <=> /\ signatures[next].keyHint \in KeyHint(Log)
                    /\ (pc = "matching" <=> HasLogName(next))
  BY DEF IsCandidate, HasLogName, CheckpointKeyNameMatches
<1>5. IsValid(next) <=> signatures[next].keyHint \in KeyHint(Log) /\ signs
  BY DEF IsValid
<1>6. /\ UNCHANGED <<Envelope, SignatureLines, ParsedLines, Log>> /\ (Verifying' <=> Verifying)
      /\ \A i : (HasLogName(i)' <=> HasLogName(i)) /\ (IsValid(i)' <=> IsValid(i))
  BY <1>2, Unmoved
<1>7. next \in DOMAIN signatures /\ DOMAIN signatures = 1..Len(signatures) /\ Len(signatures) \in Nat
  BY <1>1, <1>2, LenProperties DEF LinesInv
<1> HIDE DEF candidate, signs
<1>8. PlaceInv' /\ BodyInv' /\ LinesInv'
  BY <1>1, <1>2, <1>3, <1>6 DEF PlaceInv, BodyInv, LinesInv
<1>9. TriedInv'
  <2>1. CASE ~candidate
    <3>1. tried' = tried /\ pc' = pc
      BY <1>2, <1>3, <2>1
    <3>2. \A i \in DOMAIN tried : tried[i] \in Nat
      BY <1>1, ElementOfSeq, LenProperties DEF TriedInv
    <3>3. QED
      BY <1>1, <1>2, <1>6, <3>1, <3>2 DEF TriedInv
  <2>2. CASE candidate
    <3>1. tried' = Append(tried, next) /\ tried \in Seq(Nat) /\ pc' \in {pc, "done"}
      BY <1>1, <1>2, <1>3, <2>2 DEF TriedInv
    <3> DEFINE last == Len(tried) + 1
    <3>2. /\ Append(tried, next) \in Seq(Nat) /\ Len(tried) \in Nat
          /\ DOMAIN tried = 1..Len(tried) /\ DOMAIN tried' = 1..last
          /\ tried'[last] = next /\ \A i \in 1..Len(tried) : tried'[i] = tried[i] /\ tried[i] \in Nat
      BY <1>2, <3>1, AppendProperties, LenProperties, ElementOfSeq
    <3>3. ASSUME NEW i \in 1..Len(tried)
          PROVE  tried[i] # next /\ (HasLogName(next) => HasLogName(tried[i]))
      <4>1. CASE pc = "matching"
        <5>1. HasLogName(tried[i]) /\ tried[i] < next /\ tried[i] \in Nat /\ next \in Nat
          BY <1>1, <1>2, <3>2, <4>1 DEF TriedInv
        <5>2. QED
          BY <5>1
      <4>2. CASE pc = "others"
        <5>1. (HasLogName(tried[i]) \/ tried[i] < next) /\ tried[i] \in Nat /\ next \in Nat
          BY <1>1, <1>2, <3>2, <4>2 DEF TriedInv
        <5>2. ~HasLogName(next)
          BY <1>4, <2>2, <4>2
        <5>3. tried[i] = next => ~(tried[i] < next)
          BY <5>1
        <5>4. QED
          BY <5>1, <5>2, <5>3
      <4>3. QED
        BY <1>2, <4>1, <4>2
    <3>4. ASSUME NEW i \in 1..last, NEW j \in 1..last, i < j
          PROVE  tried'[i] # tried'[j] /\ (HasLogName(tried'[j]) => HasLogName(tried'[i]))
      <4>1. i \in 1..Len(tried) /\ tried'[i] = tried[i]
        BY <3>2, <3>4
      <4>2. CASE j = last
        BY <3>2, <3>3, <4>1, <4>2
      <4>3. CASE j # last
        <5>1. j \in 1..Len(tried) /\ tried'[j] = tried[j]
          BY <3>2, <4>3
        <5>2. QED
          BY <1>1, <3>2, <3>4, <4>1, <5>1 DEF TriedInv
      <4>4. QED
        BY <4>2, <4>3
    <3>5. pc = "matching" => \A i \in 1..last : HasLogName(tried'[i]) /\ tried'[i] < next + 1
      <4>1. ASSUME pc = "matching", NEW i \in 1..Len(tried)
            PROVE  HasLogName(tried[i]) /\ tried[i] < next /\ tried'[i] = tried[i] /\ tried[i] \in Nat
        BY <1>1, <3>2, <4>1 DEF TriedInv
      <4>2. \A i \in 1..last : i = last \/ i \in 1..Len(tried)
        BY <3>2
      <4>3. pc = "matching" => HasLogName(next)
        BY <1>4, <2>2
      <4>4. QED
        BY <1>2, <3>2, <4>1, <4>2, <4>3
    <3>6. pc = "others" => \A i \in 1..last : HasLogName(tried'[i]) \/ tried'[i] < next + 1
      <4>1. ASSUME pc = "others", NEW i \in 1..Len(tried)
            PROVE  (HasLogName(tried[i]) \/ tried[i] < next) /\ tried'[i] = tried[i] /\ tried[i] \in Nat
        BY <1>1, <3>2, <4>1 DEF TriedInv
      <4>2. \A i \in 1..last : i = last \/ i \in 1..Len(tried)
        BY <3>2
      <4>3. QED
        BY <1>2, <3>2, <4>1, <4>2
    <3>7. QED
      BY <1>2, <1>6, <3>1, <3>2, <3>4, <3>5, <3>6 DEF TriedInv
  <2>3. QED
    BY <2>1, <2>2
<1>10. NamesInv'
  <2>1. CASE candidate /\ signs
    BY <1>2, <1>3, <1>4, <1>5, <1>6, <1>7, <2>1 DEF NamesInv, NamesDecideNothing, IsValid
  <2>2. CASE ~(candidate /\ signs)
    <3>1. UNCHANGED <<pc, result>> /\ result = "Pending"
      BY <1>2, <1>3, <2>2
    <3>2. (pc = "matching" <=> HasLogName(next)) => ~IsValid(next)
      BY <1>4, <1>5, <2>2
    <3>3. \A i \in DOMAIN signatures : i < next + 1 => i < next \/ i = next
      BY <1>2, <1>7
    <3>4. pc = "matching" => \A i \in DOMAIN signatures : HasLogName(i) /\ i < next' => ~IsValid(i)
      BY <1>1, <1>2, <3>2, <3>3 DEF NamesInv
    <3>5. pc = "others" => \A i \in DOMAIN signatures : HasLogName(i) \/ i < next' => ~IsValid(i)
      BY <1>1, <1>2, <3>2, <3>3 DEF NamesInv
    <3>6. QED
      BY <1>2, <1>6, <3>1, <3>4, <3>5 DEF NamesInv, NamesDecideNothing, Ok
  <2>3. QED
    BY <2>1, <2>2
<1>11. QED
  BY <1>8, <1>9, <1>10 DEF CheckpointInv

LEMMA EndOfPassKeepsCheckpointInv ==
    ASSUME CheckpointInv, EndOfPass
    PROVE  CheckpointInv'
<1>1. PlaceInv /\ BodyInv /\ LinesInv /\ TriedInv /\ NamesInv
  BY DEF CheckpointInv
<1>2. /\ pc \in {"matching", "others"} /\ next > Len(signatures) /\ next' = 1 /\ next \in Nat
      /\ UNCHANGED <<input, root, lock, anchor, signatures, tried>>
      /\ result = "Pending" /\ Verifying
      /\ \/ pc = "matching" /\ pc' = "others" /\ UNCHANGED result
         \/ pc = "others" /\ pc' = "done" /\ result' = "CheckpointSignatureInvalid"
  BY <1>1 DEF EndOfPass, PlaceInv, Return
<1>3. /\ UNCHANGED <<Envelope, SignatureLines, ParsedLines, Log>> /\ (Verifying' <=> Verifying)
      /\ \A i : (HasLogName(i)' <=> HasLogName(i)) /\ (IsValid(i)' <=> IsValid(i))
  BY <1>2, Unmoved
<1>4. \A i \in DOMAIN signatures : i < next /\ ~(i < 1)
  <2>1. DOMAIN signatures = 1..Len(signatures) /\ Len(signatures) \in Nat
    BY <1>1, LenProperties DEF LinesInv
  <2>2. QED
    BY <1>2, <2>1
<1>5. PlaceInv' /\ BodyInv' /\ LinesInv'
  BY <1>1, <1>2, <1>3 DEF PlaceInv, BodyInv, LinesInv
<1>6. TriedInv'
  BY <1>1, <1>2, <1>3 DEF TriedInv
<1>7. NamesInv'
  <2>1. CASE pc = "matching"
    BY <1>1, <1>2, <1>3, <1>4, <2>1 DEF NamesInv, NamesDecideNothing, Ok
  <2>2. CASE pc = "others"
    <3>1. \A i \in DOMAIN signatures : ~IsValid(i)
      BY <1>1, <1>4, <2>2 DEF NamesInv
    <3>2. pc' = "done" /\ result' = "CheckpointSignatureInvalid" /\ result' # Ok
      BY <1>2, <2>2 DEF Ok
    <3>3. QED
      BY <1>2, <1>3, <3>1, <3>2 DEF NamesInv, NamesDecideNothing, IsValid
  <2>3. QED
    BY <1>2, <2>1, <2>2
<1>8. QED
  BY <1>5, <1>6, <1>7 DEF CheckpointInv

LEMMA CheckpointInvStep ==
    ASSUME CheckpointInv, [WireNext]_allVars
    PROVE  CheckpointInv'
<1>1. CASE WireNext
  BY <1>1, ElsewhereKeepsCheckpointInv, PreambleKeepsCheckpointInv, ParseLineKeepsCheckpointInv,
     EndOfNoteKeepsCheckpointInv, BindCheckpointKeepsCheckpointInv, TryLineKeepsCheckpointInv,
     EndOfPassKeepsCheckpointInv DEF WireNext, Elsewhere
<1>2. CASE UNCHANGED allVars
  <2>1. UNCHANGED <<input, pc, next, result, root, lock, anchor, signatures, tried>>
    BY <1>2 DEF allVars, vars, wire
  <2>2. /\ UNCHANGED <<Envelope, SignatureLines, ParsedLines, Log>> /\ (Verifying' <=> Verifying)
        /\ \A i : (HasLogName(i)' <=> HasLogName(i)) /\ (IsValid(i)' <=> IsValid(i))
    BY <2>1, Unmoved
  <2>3. PlaceInv' /\ BodyInv' /\ LinesInv'
    BY <2>1, <2>2 DEF CheckpointInv, PlaceInv, BodyInv, LinesInv
  <2>4. TriedInv' /\ NamesInv'
    BY <2>1, <2>2 DEF CheckpointInv, TriedInv, NamesInv, NamesDecideNothing
  <2>5. QED
    BY <2>3, <2>4 DEF CheckpointInv
<1>3. QED
  BY <1>1, <1>2

LEMMA CheckpointInvHolds == WireSpec => []CheckpointInv
<1>1. WireInit => CheckpointInv
  BY CheckpointInvInit
<1>2. CheckpointInv /\ [WireNext]_allVars => CheckpointInv'
  BY CheckpointInvStep
<1>3. QED
  BY <1>1, <1>2, PTL DEF WireSpec

(***************************************************************************)
(* verify_checkpoint accepts an envelope exactly if some signature line    *)
(* with the log's hint holds a signature of the log over the note,         *)
(* whatever the lines' names, number and order.                            *)
(***************************************************************************)
THEOREM NamesDecideNothingHolds == WireSpec => []NamesDecideNothing
<1>1. CheckpointInv => NamesDecideNothing
  BY DEF CheckpointInv, NamesInv
<1>2. QED
  BY <1>1, CheckpointInvHolds, PTL

(***************************************************************************)
(* The two passes of verify_checkpoint try no signature line twice, those  *)
(* with the log's own name first, and never more than the limit allows.    *)
(***************************************************************************)
THEOREM EachLineIsTriedOnceHolds == WireSpec => []EachLineIsTriedOnce
<1>1. CheckpointInv => EachLineIsTriedOnce
  BY DEF CheckpointInv, LinesInv, TriedInv, EachLineIsTriedOnce, HasLogName
<1>2. QED
  BY <1>1, CheckpointInvHolds, PTL

-----------------------------------------------------------------------------
(***************************************************************************)
(* The lines of the note, with the origin and without.                     *)
(***************************************************************************)
LEMMA PrefixMeans ==
    ASSUME NEW S, NEW s \in Seq(S), NEW t \in Seq(S)
    PROVE  IsPrefix(s, t) <=> Len(s) <= Len(t) /\ \A i \in 1..Len(s) : s[i] = t[i]
<1>1. /\ Len(s) \in Nat /\ Len(t) \in Nat
      /\ \A i \in 1..Len(s) : s[i] \in S
      /\ \A i \in 1..Len(t) : t[i] \in S
  BY LenProperties, ElementOfSeq
<1>2. SubSeq(s, 1, Len(s)) = s
  BY SubSeqFull
<1>3. SUFFICES ASSUME Len(s) <= Len(t)
               PROVE  s = SubSeq(t, 1, Len(s)) <=> \A i \in 1..Len(s) : s[i] = t[i]
  BY <1>2 DEF IsPrefix
<1>4. \A i \in 1..Len(s) : t[i] \in S
  BY <1>1, <1>3
<1> DEFINE u == SubSeq(t, 1, Len(s))
<1>5. u \in Seq(S) /\ Len(u) = Len(s) /\ \A i \in 1..Len(s) : u[i] = t[i]
  <2>1. /\ u \in Seq(S)
        /\ Len(u) = IF 1 <= Len(s) THEN Len(s) - 1 + 1 ELSE 0
        /\ \A i \in 1..(Len(s) - 1 + 1) : u[i] = t[1 + i - 1]
    BY <1>1, <1>4, SubSeqProperties
  <2> HIDE DEF u
  <2>2. QED
    BY <1>1, <2>1
<1> HIDE DEF u
<1>6. s = u <=> \A i \in 1..Len(s) : s[i] = u[i]
  BY <1>5, SeqEqual
<1>7. QED
  BY <1>5, <1>6 DEF u

\* A piece of a text.
LEMMA Piece ==
    ASSUME NEW S, NEW s \in Seq(S), NEW m \in Nat \ {0}, NEW n \in Nat, n <= Len(s)
    PROVE  /\ SubSeq(s, m, n) \in Seq(S)
           /\ Len(SubSeq(s, m, n)) = IF m <= n THEN n - m + 1 ELSE 0
           /\ \A i \in 1..(n - m + 1) : SubSeq(s, m, n)[i] = s[m + i - 1]
<1>1. \A i \in m..n : s[i] \in S
  BY LenProperties, ElementOfSeq
<1>2. QED
  BY <1>1, SubSeqProperties

\* A piece of a piece.
LEMMA PieceOfPiece ==
    ASSUME NEW S, NEW s \in Seq(S), NEW f \in Nat, NEW l \in Nat, l <= Len(s),
           NEW m \in Nat \ {0}, NEW n \in Nat, f + n <= l
    PROVE  SubSeq(SubSeq(s, f + 1, l), m, n) = SubSeq(s, f + m, f + n)
<1> DEFINE t == SubSeq(s, f + 1, l)
           u == SubSeq(t, m, n)
           v == SubSeq(s, f + m, f + n)
<1>1. Len(s) \in Nat
  BY LenProperties
<1>2. /\ t \in Seq(S)
      /\ Len(t) = IF f + 1 <= l THEN l - (f + 1) + 1 ELSE 0
      /\ \A i \in 1..(l - (f + 1) + 1) : t[i] = s[(f + 1) + i - 1]
  BY Piece
<1>3. /\ v \in Seq(S)
      /\ Len(v) = IF f + m <= f + n THEN (f + n) - (f + m) + 1 ELSE 0
      /\ \A i \in 1..((f + n) - (f + m) + 1) : v[i] = s[(f + m) + i - 1]
  BY <1>1, Piece
<1> HIDE DEF t
<1>4. n <= Len(t)
  BY <1>2
<1>5. /\ u \in Seq(S)
      /\ Len(u) = IF m <= n THEN n - m + 1 ELSE 0
      /\ \A i \in 1..(n - m + 1) : u[i] = t[m + i - 1]
  BY <1>2, <1>4, Piece
<1> HIDE DEF u, v
<1>6. Len(u) = Len(v)
  BY <1>3, <1>5
<1>7. ASSUME NEW i \in 1..Len(u)
      PROVE  u[i] = v[i]
  <2>1. m <= n /\ i \in 1..(n - m + 1) /\ i \in 1..((f + n) - (f + m) + 1)
    BY <1>5
  <2>2. m + i - 1 \in 1..(l - (f + 1) + 1)
    BY <2>1
  <2>3. u[i] = s[(f + 1) + (m + i - 1) - 1] /\ v[i] = s[(f + m) + i - 1]
    BY <1>2, <1>3, <1>5, <2>1, <2>2
  <2>4. (f + 1) + (m + i - 1) - 1 = (f + m) + i - 1
    BY <2>1
  <2>5. QED
    BY <2>3, <2>4
<1>8. u = v
  BY <1>3, <1>5, <1>6, <1>7, SeqEqual
<1>9. QED
  BY <1>8 DEF t, u, v

\* Where a newline and a blank line occur.
LEMMA NewlineOccurs ==
    ASSUME NEW S, NEW text \in Seq(S)
    PROVE  OccurrencesOf(text, << Newline >>) = {i \in 1..Len(text) : text[i] = Newline}
<1>1. Len(text) \in Nat /\ DOMAIN text = 1..Len(text)
  BY LenProperties
<1>2. ASSUME NEW i \in 1..Len(text)
      PROVE  IsPrefix(<< Newline >>, SubSeq(text, i, Len(text))) <=> text[i] = Newline
  <2> DEFINE rest == SubSeq(text, i, Len(text))
             T == S \union {Newline}
  <2>1. /\ rest \in Seq(S) /\ Len(rest) = Len(text) - i + 1
        /\ \A k \in 1..(Len(text) - i + 1) : rest[k] = text[i + k - 1]
    BY <1>1, Piece
  <2> HIDE DEF rest
  <2>2. rest[1] = text[i] /\ Len(rest) >= 1 /\ rest \in Seq(T)
    BY <1>1, <2>1, SeqMonotonic
  <2> DEFINE one == << Newline >>
  <2>3. one \in Seq(T) /\ Len(one) = 1 /\ one[1] = Newline
    OBVIOUS
  <2> HIDE DEF one, T
  <2>4. IsPrefix(one, rest) <=> Len(one) <= Len(rest) /\ \A k \in 1..Len(one) : one[k] = rest[k]
    BY <2>2, <2>3, PrefixMeans
  <2>5. QED
    BY <2>2, <2>3, <2>4 DEF one, rest
<1>3. QED
  BY <1>1, <1>2 DEF OccurrencesOf

LEMMA BlankLineOccurs ==
    ASSUME NEW S, NEW text \in Seq(S), NEW i \in 1..Len(text)
    PROVE  i \in OccurrencesOf(text, BlankLine) <=>
               i + 1 <= Len(text) /\ text[i] = Newline /\ text[i + 1] = Newline
<1>1. Len(text) \in Nat /\ DOMAIN text = 1..Len(text)
  BY LenProperties
<1> DEFINE rest == SubSeq(text, i, Len(text))
           T == S \union {Newline}
<1>2. /\ rest \in Seq(S) /\ Len(rest) = Len(text) - i + 1
      /\ \A k \in 1..(Len(text) - i + 1) : rest[k] = text[i + k - 1]
  BY <1>1, Piece
<1> HIDE DEF rest
<1>3. rest[1] = text[i] /\ (Len(rest) >= 2 <=> i + 1 <= Len(text)) /\ (i + 1 <= Len(text) => rest[2] = text[i + 1])
  BY <1>1, <1>2
<1>4. rest \in Seq(T) /\ Len(rest) \in Nat
  BY <1>1, <1>2, SeqMonotonic
<1>5. BlankLine \in Seq(T) /\ Len(BlankLine) = 2 /\ BlankLine[1] = Newline /\ BlankLine[2] = Newline
  BY DEF BlankLine
<1> HIDE DEF T
<1>6. IsPrefix(BlankLine, rest) <=> Len(BlankLine) <= Len(rest) /\ \A k \in 1..Len(BlankLine) : BlankLine[k] = rest[k]
  <2>1. BlankLine \in Seq(T) /\ rest \in Seq(T)
    BY <1>4, <1>5
  <2>2. QED
    BY <2>1, PrefixMeans
<1>7. IsPrefix(BlankLine, rest) <=> Len(rest) >= 2 /\ rest[1] = Newline /\ rest[2] = Newline
  <2>1. \A k : k \in 1..2 <=> k = 1 \/ k = 2
    OBVIOUS
  <2>2. QED
    BY <1>4, <1>5, <1>6, <2>1
<1>8. QED
  BY <1>1, <1>3, <1>7 DEF OccurrencesOf, rest

\* Where a line begins and ends.
BeginOf(ends, k) == IF k = 1 THEN 1 ELSE ends[k - 1] + 1
EndOf(text, ends, k) ==
    IF text[ends[k]] # Newline THEN ends[k]
    ELSE IF ends[k] > BeginOf(ends, k) /\ text[ends[k] - 1] = CarriageReturn THEN ends[k] - 2
    ELSE ends[k] - 1

LEMMA LineMeans ==
    ASSUME NEW text, NEW k \in DOMAIN Ascending(EndsOf(text))
    PROVE  LET ends == Ascending(EndsOf(text))
           IN  Lines(text)[k] = SubSeq(text, BeginOf(ends, k), EndOf(text, ends, k))
  BY DEF Lines, EndsOf, BeginOf, EndOf

(***************************************************************************)
(* A note ends with a newline that no other comes before.  The lines of    *)
(* the text below its first one and without that newline are the note's    *)
(* own next lines, unless the last of them ends in a carriage return.      *)
(***************************************************************************)
LEMMA LinesBelow ==
    ASSUME NEW S, NEW b \in Seq(S), NEW f \in 1..(Len(b) - 1), b[f] = Newline,
           \A i \in 1..(f - 1) : b[i] # Newline,
           b[Len(b)] = Newline, b[Len(b) - 1] # Newline,
           LET t == SubSeq(b, f + 1, Len(b) - 1)
           IN  /\ Cardinality(EndsOf(t)) > 1
               /\ \A i \in DOMAIN Lines(t)[2] : Lines(t)[2][i] # CarriageReturn
    PROVE  LET t == SubSeq(b, f + 1, Len(b) - 1)
           IN  Lines(b)[2] = Lines(t)[1] /\ Lines(b)[3] = Lines(t)[2]
<1> DEFINE n == Len(b)
           t == SubSeq(b, f + 1, n - 1)
           m == n - 1 - f
           E == EndsOf(b)
           F == EndsOf(t)
           e1 == Ascending(F)[1]
           e2 == Ascending(F)[2]
           c == IF t[e2] = Newline THEN f + e2 ELSE n
<1>1. n \in Nat /\ f \in Nat /\ m \in Nat /\ DOMAIN b = 1..n /\ n = f + m + 1
  BY LenProperties
<1>2. t \in Seq(S) /\ Len(t) = m /\ \A i \in 1..m : t[i] = b[f + i]
  <2>1. /\ t \in Seq(S)
        /\ Len(t) = IF f + 1 <= n - 1 THEN (n - 1) - (f + 1) + 1 ELSE 0
        /\ \A i \in 1..((n - 1) - (f + 1) + 1) : t[i] = b[(f + 1) + i - 1]
    <3>1. f + 1 \in Nat \ {0} /\ n - 1 \in Nat /\ n - 1 <= Len(b)
      BY <1>1
    <3>2. b \in Seq(S)
      OBVIOUS
    <3> HIDE DEF n
    <3>3. QED
      BY ONLY <3>1, <3>2, Piece DEF t
  <2> HIDE DEF t
  <2>2. \A i \in 1..m : (f + 1) + i - 1 = f + i
    BY <1>1
  <2>3. Len(t) = m
    <3> HIDE DEF n, m
    <3>1. CASE m = 0
      <4>1. ~(f + 1 <= n - 1)
        BY <1>1, <3>1
      <4>2. QED
        BY <2>1, <3>1, <4>1
    <3>2. CASE m # 0
      <4>1. f + 1 <= n - 1 /\ (n - 1) - (f + 1) + 1 = m
        BY <1>1, <3>2
      <4>2. QED
        BY <2>1, <4>1
    <3>3. QED
      BY <3>1, <3>2
  <2>4. (n - 1) - (f + 1) + 1 = m
    BY <1>1
  <2>5. \A i \in 1..m : t[i] = b[(f + 1) + i - 1]
    BY <2>1, <2>4
  <2>6. QED
    BY <2>1, <2>2, <2>3, <2>5
<1>3. IsFiniteSet(E) /\ E \in SUBSET Nat /\ IsFiniteSet(F) /\ F \in SUBSET Nat /\ Cardinality(F) \in Nat
  BY <1>2, LineCount
<1>4. 1 \in 1..Cardinality(F) /\ 2 \in 1..Cardinality(F)
  BY <1>3
<1>5. /\ e1 \in F /\ e2 \in F /\ e1 < e2
      /\ \A j \in F : e1 <= j
      /\ \A j \in F : j <= e1 \/ e2 <= j
  <2> HIDE DEF F
  <2>1. e1 \in F /\ e2 \in F
    <3>1. Ascending(F) \in [1..Cardinality(F) -> F]
      BY <1>3, AscendingProperties
    <3>2. QED
      BY <1>4, <3>1
  <2>2. \A j \in F : e1 <= j
    BY <1>3, <1>4, AscendingFirst
  <2>3. e1 < Ascending(F)[1 + 1] /\ \A j \in F : j <= e1 \/ Ascending(F)[1 + 1] <= j
    BY <1>3, <1>4, AscendingNext
  <2>4. QED
    BY <2>1, <2>2, <2>3
<1>6. DOMAIN t = 1..m
  BY <1>2, LenProperties
<1>7. \A i : i \in F <=> i \in 1..m /\ (t[i] = Newline \/ i = m)
  BY <1>2, <1>6 DEF EndsOf
<1>8. \A i : i \in E <=> i \in 1..n /\ b[i] = Newline
  BY <1>1 DEF EndsOf
<1> HIDE DEF E, F, e1, e2, t, m, n
<1>9. /\ e1 \in 1..m /\ e2 \in 1..m /\ t[e1] = Newline /\ b[f + e1] = Newline
      /\ t[e2] = Newline => b[f + e2] = Newline
      /\ t[e2] # Newline => e2 = m
  <2>1. e1 \in 1..m /\ e2 \in 1..m /\ e1 # m /\ t[e1] = Newline
    BY <1>1, <1>5, <1>7
  <2>2. QED
    BY <1>2, <1>5, <1>7, <2>1
\* The members of E: f, then f + e1, then c.
<1>10. ASSUME NEW x \in E
       PROVE  /\ x \in Nat /\ f <= x
              /\ x <= f \/ f + e1 <= x
              /\ x <= f + e1 \/ c <= x
  <2>1. x \in 1..n /\ b[x] = Newline
    BY <1>8
  <2>2. ~(x \in 1..(f - 1))
    BY <2>1
  <2>3. x \in Nat /\ f <= x
    BY <1>1, <2>1, <2>2
  <2>4. CASE x = f
    BY <1>1, <1>9, <2>3, <2>4
  <2>5. CASE x = n
    <3>1. e1 <= m /\ e2 <= m /\ e1 \in Nat /\ e2 \in Nat
      BY <1>1, <1>9
    <3>2. QED
      BY <1>1, <2>3, <2>5, <3>1
  <2>6. CASE x # f /\ x # n
    <3> DEFINE i == x - f
    <3>1. i \in 1..m /\ x = f + i
      BY <1>1, <2>1, <2>3, <2>6
    <3> HIDE DEF i
    <3>2. t[i] = Newline /\ i \in F
      BY <1>2, <1>7, <2>1, <3>1
    <3>3. e1 <= i /\ (i <= e1 \/ e2 <= i)
      BY <1>5, <3>2
    <3>4. e1 \in Nat /\ e2 \in Nat /\ i \in Nat /\ e2 <= m /\ i <= m
      BY <1>1, <1>9, <3>1
    <3>5. f + e1 <= x /\ (x <= f + e1 \/ f + e2 <= x)
      BY <1>1, <3>1, <3>3, <3>4
    <3>6. CASE t[e2] = Newline
      BY <2>3, <3>5, <3>6
    <3>7. CASE t[e2] # Newline
      <4>1. e2 = m /\ i # m
        BY <1>9, <3>2, <3>7
      <4>2. ~(e2 <= i)
        BY <1>1, <3>4, <4>1
      <4>3. x <= f + e1
        BY <1>1, <3>1, <3>3, <3>4, <4>2
      <4>4. QED
        BY <2>3, <3>5, <4>3
    <3>8. QED
      BY <3>6, <3>7
  <2>7. QED
    BY <2>4, <2>5, <2>6
<1>11. f \in E /\ f + e1 \in E /\ c \in E /\ f < f + e1 /\ f + e1 < c
  <2>1. f \in 1..n /\ f + e1 \in 1..n /\ f < f + e1 /\ f + e1 < f + e2 /\ f + e2 \in 1..n /\ f + e2 <= n
    BY <1>1, <1>5, <1>9
  <2>2. b[n] = Newline /\ n \in 1..n
    BY <1>1 DEF n
  <2>3. CASE t[e2] = Newline
    BY <1>8, <1>9, <2>1, <2>3
  <2>4. CASE t[e2] # Newline
    <3>1. c = n /\ f + e1 < n
      BY <1>1, <2>1, <2>4
    <3>2. QED
      BY <1>8, <1>9, <2>1, <2>2, <3>1
  <2>5. QED
    BY <2>3, <2>4
<1> HIDE DEF c
<1>12. Cardinality(E) > 0 /\ Cardinality(E) \in Nat /\ Ascending(E)[1] = f
  <2>1. \A x \in E : f <= x
    BY <1>10
  <2>2. QED
    BY <1>3, <1>11, <2>1, AscendingFirst, AscendingProperties
<1>13. 1 + 1 \in 1..Cardinality(E) /\ Ascending(E)[1 + 1] = f + e1
  <2>1. 1 \in 1..Cardinality(E)
    BY <1>12
  <2>2. \A x \in E : x <= Ascending(E)[1] \/ f + e1 <= x
    BY <1>10, <1>12
  <2> DEFINE x == f + e1
  <2>3. x \in E /\ Ascending(E)[1] < x /\ \A j \in E : j <= Ascending(E)[1] \/ x <= j
    BY <1>11, <1>12, <2>2
  <2> HIDE DEF x
  <2>4. 1 + 1 \in 1..Cardinality(E) /\ Ascending(E)[1 + 1] = x
    BY <1>3, <2>1, <2>3, AscendingNext
  <2>5. QED
    BY <2>4 DEF x
<1>14. 2 + 1 \in 1..Cardinality(E) /\ Ascending(E)[2 + 1] = c
  <2>1. 2 \in 1..Cardinality(E) /\ Ascending(E)[2] = f + e1
    BY <1>13
  <2>2. \A x \in E : x <= Ascending(E)[2] \/ c <= x
    BY <1>10, <2>1
  <2>3. QED
    BY <1>3, <1>11, <2>1, <2>2, AscendingNext
<1> DEFINE be == Ascending(E)
           te == Ascending(F)
<1>15. be[1] = f /\ be[2] = f + e1 /\ be[3] = c /\ te[1] = e1 /\ te[2] = e2
  BY <1>12, <1>13, <1>14 DEF e1, e2
<1>16. /\ Lines(b)[2] = SubSeq(b, BeginOf(be, 2), EndOf(b, be, 2))
       /\ Lines(b)[3] = SubSeq(b, BeginOf(be, 3), EndOf(b, be, 3))
       /\ Lines(t)[1] = SubSeq(t, BeginOf(te, 1), EndOf(t, te, 1))
       /\ Lines(t)[2] = SubSeq(t, BeginOf(te, 2), EndOf(t, te, 2))
  <2>1. DOMAIN be = 1..Cardinality(E) /\ DOMAIN te = 1..Cardinality(F)
    BY <1>3, AscendingProperties
  <2>2. 2 \in DOMAIN be /\ 3 \in DOMAIN be /\ 1 \in DOMAIN te /\ 2 \in DOMAIN te
    BY <1>4, <1>13, <1>14, <2>1
  <2>3. QED
    BY <2>2, LineMeans DEF E, F
<1> HIDE DEF be, te
<1>17. BeginOf(be, 2) = f + 1 /\ BeginOf(be, 3) = f + e1 + 1 /\ BeginOf(te, 1) = 1 /\ BeginOf(te, 2) = e1 + 1
  BY <1>15 DEF BeginOf
<1>18. e1 \in Nat \ {0} /\ e2 \in Nat \ {0} /\ e2 <= m /\ c \in Nat /\ e1 < e2
  BY <1>1, <1>5, <1>8, <1>9, <1>11
<1>19. \A x, y \in Nat : x # 0 /\ y <= m => SubSeq(t, x, y) = SubSeq(b, f + x, f + y)
  <2> SUFFICES ASSUME NEW x \in Nat, NEW y \in Nat, x # 0, y <= m
               PROVE  SubSeq(t, x, y) = SubSeq(b, f + x, f + y)
    OBVIOUS
  <2>1. n - 1 \in Nat /\ n - 1 <= Len(b) /\ f + y <= n - 1
    BY <1>1 DEF n
  <2>2. QED
    BY <1>1, <2>1, PieceOfPiece DEF t
<1>20. Lines(b)[2] = Lines(t)[1]
  <2> DEFINE y == EndOf(t, te, 1)
  <2>1. y = IF e1 > 1 /\ t[e1 - 1] = CarriageReturn THEN e1 - 2 ELSE e1 - 1
    BY <1>9, <1>15, <1>17 DEF EndOf
  <2>2. EndOf(b, be, 2) = IF f + e1 > f + 1 /\ b[f + e1 - 1] = CarriageReturn THEN f + e1 - 2 ELSE f + e1 - 1
    BY <1>9, <1>15, <1>17 DEF EndOf
  <2>3. e1 > 1 => t[e1 - 1] = b[f + e1 - 1]
    <3>1. ASSUME e1 > 1
          PROVE  e1 - 1 \in 1..m /\ f + (e1 - 1) = f + e1 - 1
      BY <1>1, <1>18, <3>1
    <3>2. QED
      BY <1>2, <3>1
  <2>4. y \in Nat /\ y <= m
    BY <1>1, <1>18, <2>1
  <2>5. EndOf(b, be, 2) = f + y
    BY <1>1, <1>18, <2>1, <2>2, <2>3
  <2> HIDE DEF y
  <2>6. SubSeq(t, 1, y) = SubSeq(b, f + 1, f + y)
    BY <1>19, <2>4
  <2>7. QED
    BY <1>16, <1>17, <2>5, <2>6 DEF y
<1>21. Lines(b)[3] = Lines(t)[2]
  <2> DEFINE y == EndOf(t, te, 2)
  <2>1. ASSUME y \in Nat, y <= m, EndOf(b, be, 3) = f + y
        PROVE  Lines(b)[3] = Lines(t)[2]
    <3> HIDE DEF y
    <3>1. e1 + 1 \in Nat /\ e1 + 1 # 0 /\ f + (e1 + 1) = f + e1 + 1
      BY <1>1, <1>18
    <3>2. SubSeq(t, e1 + 1, y) = SubSeq(b, f + (e1 + 1), f + y)
      BY <1>19, <2>1, <3>1
    <3>3. QED
      BY <1>16, <1>17, <2>1, <3>1, <3>2 DEF y
  <2>2. CASE t[e2] = Newline
    <3>1. c = f + e2 /\ b[c] = Newline
      BY <1>9, <2>2 DEF c
    <3>2. y = IF e2 > e1 + 1 /\ t[e2 - 1] = CarriageReturn THEN e2 - 2 ELSE e2 - 1
      BY <1>15, <1>17, <2>2 DEF EndOf
    <3> DEFINE x == f + e2
               z == f + e1 + 1
    <3>3. x \in Nat /\ z \in Nat /\ x = f + e2 /\ z = f + e1 + 1
          /\ be[3] = x /\ b[be[3]] = Newline /\ BeginOf(be, 3) = z
      BY <1>1, <1>15, <1>17, <1>18, <3>1
    <3> HIDE DEF x, z
    <3>4. EndOf(b, be, 3) = IF x > z /\ b[x - 1] = CarriageReturn THEN x - 2 ELSE x - 1
      <4>1. EndOf(b, be, 3) = IF be[3] > BeginOf(be, 3) /\ b[be[3] - 1] = CarriageReturn THEN be[3] - 2 ELSE be[3] - 1
        BY <3>3, Zenon DEF EndOf
      <4>2. QED
        BY <3>3, <4>1
    <3>5. x > z => t[e2 - 1] = b[x - 1]
      <4>1. ASSUME x > z
            PROVE  e2 - 1 \in 1..m /\ f + (e2 - 1) = x - 1
        BY <1>1, <1>18, <3>3, <4>1
      <4>2. QED
        BY <1>2, <4>1
    <3>6. x > z <=> e2 > e1 + 1
      BY <1>1, <1>18, <3>3
    <3>7. y \in Nat /\ y <= m
      BY <1>1, <1>18, <3>2
    <3>8. EndOf(b, be, 3) = f + y
      BY <1>1, <1>18, <3>2, <3>3, <3>4, <3>5, <3>6
    <3>9. QED
      BY <2>1, <3>7, <3>8
  <2>3. CASE t[e2] # Newline
    <3>1. c = n /\ b[c] = Newline /\ e2 = m /\ c - 1 = f + m
      BY <1>1, <1>9, <2>3 DEF c, n
    <3>2. y = m
      BY <1>15, <2>3, <3>1 DEF EndOf
    <3>3. b[c - 1] # CarriageReturn
      <4> DEFINE line == SubSeq(t, e1 + 1, m)
                 l == m - (e1 + 1) + 1
      <4>1. Lines(t)[2] = line
        BY <1>16, <1>17, <3>2
      <4>2. /\ line \in Seq(S) /\ Len(line) = IF e1 + 1 <= m THEN l ELSE 0
            /\ \A i \in 1..l : line[i] = t[e1 + 1 + i - 1]
        <5>1. e1 + 1 \in Nat \ {0} /\ m <= Len(t)
          BY <1>1, <1>2, <1>18
        <5> DEFINE x == e1 + 1
        <5>2. x \in Nat \ {0}
          BY <5>1
        <5> HIDE DEF x
        <5>3. /\ SubSeq(t, x, m) \in Seq(S) /\ Len(SubSeq(t, x, m)) = IF x <= m THEN m - x + 1 ELSE 0
              /\ \A i \in 1..(m - x + 1) : SubSeq(t, x, m)[i] = t[x + i - 1]
          BY <1>1, <1>2, <5>1, <5>2, Piece
        <5>4. QED
          BY <5>3 DEF x
      <4>3. l \in 1..l /\ e1 + 1 <= m /\ e1 + 1 + l - 1 = m /\ m \in 1..m
        BY <1>1, <1>18, <3>1
      <4> HIDE DEF line, l
      <4>4. l \in DOMAIN line /\ line[l] = t[m]
        BY <4>2, <4>3, LenProperties
      <4>5. t[m] = b[c - 1]
        BY <1>2, <3>1, <4>3
      <4>6. \A i \in DOMAIN line : line[i] # CarriageReturn
        BY <4>1 DEF t, n
      <4>7. QED
        BY <4>4, <4>5, <4>6
    <3>4. EndOf(b, be, 3) = c - 1
      BY <1>15, <3>1, <3>3 DEF EndOf
    <3>5. QED
      BY <1>1, <2>1, <3>1, <3>2, <3>4
  <2>4. QED
    BY <2>2, <2>3
<1>22. QED
  BY <1>20, <1>21 DEF t, n

\* What a note that parses looks like: its last newline comes after the first, alone.
LEMMA ParsedNote ==
    ASSUME NEW S, NEW text \in Seq(S), ParseBody(text) = Ok
    PROVE  LET b == SignedBody(text)
               f == First(OccurrencesOf(b, << Newline >>))
           IN  /\ b \in Seq(S) /\ f \in 1..(Len(b) - 1) /\ b[f] = Newline
               /\ \A i \in 1..(f - 1) : b[i] # Newline
               /\ b[Len(b)] = Newline /\ b[Len(b) - 1] # Newline
               /\ Len(BelowOrigin(b)) > 1 /\ BelowOrigin(b)[2] \in DOMAIN Base64
<1> DEFINE b == SignedBody(text)
           found == OccurrencesOf(b, << Newline >>)
           f == First(found)
           below == BelowOrigin(b)
           blank == First(OccurrencesOf(text, BlankLine))
           l == Len(text)
<1>1. HasBlankLine(text)
  BY ParseErrors
<1>2. /\ Cardinality(found) > 1 /\ Len(below) > 1
      /\ ~(Len(below) < 2) => below[2] \in DOMAIN Base64
  <2> DEFINE u == Check(Cardinality(found) > 1 /\ b[1] # Newline, "Checkpoint")
             v == Check(below # <<>>, "Checkpoint")
             w == IF below = <<>> THEN Ok ELSE Check(FromStr(below[1]) # {}, "Checkpoint")
             x == Check(Len(below) > 1, "Checkpoint")
             y == IF Len(below) < 2 THEN Ok ELSE Check(below[2] \in DOMAIN Base64, "Base64")
  <2>1. FirstError(<<u, v, w, x, y>>) = Ok
    BY <1>1 DEF ParseBody
  <2> HIDE DEF u, v, w, x, y
  <2>2. u = Ok /\ x = Ok /\ y = Ok
    BY <2>1, FirstError5
  <2>3. QED
    BY <2>2 DEF u, x, y, Check, Ok
<1>3. /\ blank \in 1..l /\ l \in Nat /\ b \in Seq(S) /\ Len(b) = blank
      /\ \A i \in 1..blank : b[i] = text[i]
  BY <1>1, NoteAndSignatures
<1>4. /\ blank \in OccurrencesOf(text, BlankLine)
      /\ \A i \in OccurrencesOf(text, BlankLine) : blank <= i
  <2>1. OccurrencesOf(text, BlankLine) \in SUBSET DOMAIN text /\ OccurrencesOf(text, BlankLine) # {}
    BY <1>1 DEF OccurrencesOf, HasBlankLine
  <2>2. OccurrencesOf(text, BlankLine) \in SUBSET Nat
    BY <2>1, Positions
  <2>3. QED
    BY <2>1, <2>2, FirstPosition
<1>5. found = {i \in 1..blank : b[i] = Newline}
  BY <1>3, NewlineOccurs
<1> HIDE DEF b, found, below, blank, l
<1>6. blank + 1 <= l /\ text[blank] = Newline /\ b[blank] = Newline /\ blank \in found
  <2>1. blank + 1 <= l /\ text[blank] = Newline
    BY <1>3, <1>4, BlankLineOccurs DEF l
  <2>2. QED
    BY <1>3, <1>5, <2>1
<1>7. f \in found /\ \A j \in found : f <= j
  <2>1. found \in SUBSET Nat /\ found # {}
    BY <1>3, <1>5, <1>6
  <2>2. QED
    BY <2>1, FirstPosition
<1> HIDE DEF f
<1>8. f \in 1..(blank - 1) /\ blank \in Nat /\ b[f] = Newline
  <2>1. f \in 1..blank /\ f \in Nat /\ blank \in Nat /\ b[f] = Newline
    BY <1>3, <1>5, <1>7
  <2>2. f # blank
    <3>1. SUFFICES ASSUME f = blank
                   PROVE  FALSE
      OBVIOUS
    <3>2. found = {blank}
      <4>1. ASSUME NEW j \in found
            PROVE  j = blank
        <5>1. j \in 1..blank /\ f <= j
          BY <1>5, <1>7
        <5>2. QED
          BY <2>1, <3>1, <5>1
      <4>2. QED
        BY <1>6, <4>1
    <3>3. Cardinality(found) = 1
      BY <3>2, FS_Singleton
    <3>4. QED
      BY <1>2, <3>3
  <2>3. QED
    BY <2>1, <2>2
<1>9. \A i \in 1..(f - 1) : b[i] # Newline
  <2>1. SUFFICES ASSUME NEW i \in 1..(f - 1), b[i] = Newline
                 PROVE  FALSE
    OBVIOUS
  <2>2. i \in 1..blank /\ i < f
    BY <1>8
  <2>3. i \in found
    BY <1>5, <2>1, <2>2
  <2>4. QED
    BY <1>7, <1>8, <2>2, <2>3
<1>10. b[blank - 1] # Newline
  <2>1. SUFFICES ASSUME b[blank - 1] = Newline
                 PROVE  FALSE
    OBVIOUS
  <2> DEFINE i == blank - 1
  <2>2. i \in 1..l /\ i \in 1..blank /\ i + 1 <= l /\ i + 1 = blank
    BY <1>3, <1>6, <1>8
  <2> HIDE DEF i
  <2>3. text[i] = Newline /\ text[i + 1] = Newline
    BY <1>3, <1>6, <2>1, <2>2 DEF i
  <2>4. i \in OccurrencesOf(text, BlankLine)
    BY <2>2, <2>3, BlankLineOccurs DEF l
  <2>5. QED
    BY <1>4, <1>8, <2>2, <2>4
<1>11. below[2] \in DOMAIN Base64
  <2>1. Len(below) \in Nat
    <3>1. below = Lines(SubSeq(b, f + 1, blank - 1))
      BY <1>3 DEF below, BelowOrigin, f, found, b
    <3> DEFINE t == SubSeq(b, f + 1, blank - 1)
    <3>2. t \in Seq(S)
      <4>1. f + 1 \in Nat \ {0} /\ blank - 1 \in Nat /\ blank - 1 <= Len(b)
        BY <1>3, <1>8
      <4>2. QED
        BY <1>3, <4>1, Piece
    <3> HIDE DEF t
    <3>3. DOMAIN Lines(t) = 1..Cardinality(EndsOf(t)) /\ Cardinality(EndsOf(t)) \in Nat
      BY <3>2, LineCount
    <3>4. Len(Lines(t)) = Cardinality(EndsOf(t))
      BY <3>3, LinesAreSeq
    <3>5. QED
      BY <3>1, <3>3, <3>4 DEF t
  <2>2. QED
    BY <1>2, <2>1
<1>12. QED
  BY <1>2, <1>3, <1>6, <1>8, <1>9, <1>10, <1>11 DEF b, f, found, below

\* The note is the beginning of the text, and the origin that of the note.
LEMMA NoteIsAsRead ==
    ASSUME NEW S, NEW text \in Seq(S), ParseBody(text) = Ok
    PROVE  LET b == SignedBody(text)
           IN  /\ IsPrefix(OriginOf(b) \o << Newline >>, b)
               /\ IsPrefix(b, text)
               /\ Lines(b)[2] = BelowOrigin(b)[1] /\ Lines(b)[3] = BelowOrigin(b)[2]
<1> DEFINE b == SignedBody(text)
           f == First(OccurrencesOf(b, << Newline >>))
           t == SubSeq(b, f + 1, Len(b) - 1)
           blank == First(OccurrencesOf(text, BlankLine))
<1>1. /\ b \in Seq(S) /\ f \in 1..(Len(b) - 1) /\ b[f] = Newline
      /\ \A i \in 1..(f - 1) : b[i] # Newline
      /\ b[Len(b)] = Newline /\ b[Len(b) - 1] # Newline
      /\ Len(BelowOrigin(b)) > 1 /\ BelowOrigin(b)[2] \in DOMAIN Base64
  BY ParsedNote
<1>2. HasBlankLine(text)
  BY ParseErrors
<1>3. /\ blank \in 1..Len(text) /\ Len(text) \in Nat /\ Len(b) = blank
      /\ \A i \in 1..blank : b[i] = text[i]
  BY <1>2, NoteAndSignatures
<1>4. IsPrefix(b, text)
  <2> HIDE DEF b, blank
  <2>1. Len(b) <= Len(text) /\ \A i \in 1..Len(b) : b[i] = text[i]
    BY <1>3
  <2>2. QED
    BY <1>1, <2>1, PrefixMeans
<1>5. OriginOf(b) = SubSeq(b, 1, f - 1) /\ BelowOrigin(b) = Lines(t)
  BY DEF OriginOf, BelowOrigin
<1> HIDE DEF b, f, blank
<1>6. Len(b) \in Nat /\ f \in Nat \ {0} /\ f <= Len(b) - 1
  BY <1>1, LenProperties
<1>7. IsPrefix(OriginOf(b) \o << Newline >>, b)
  <2> DEFINE origin == SubSeq(b, 1, f - 1)
             line == origin \o << Newline >>
             T == S \union {Newline}
  <2>1. origin \in Seq(T) /\ Len(origin) = f - 1 /\ \A i \in 1..(f - 1) : origin[i] = b[i]
    <3> DEFINE m == f - 1
    <3>1. m \in Nat /\ m <= Len(b) /\ (1 <= m \/ m = 0)
      BY <1>6
    <3> HIDE DEF m
    <3>2. /\ SubSeq(b, 1, m) \in Seq(S) /\ Len(SubSeq(b, 1, m)) = IF 1 <= m THEN m - 1 + 1 ELSE 0
          /\ \A i \in 1..(m - 1 + 1) : SubSeq(b, 1, m)[i] = b[1 + i - 1]
      BY <1>1, <3>1, Piece
    <3>3. Len(SubSeq(b, 1, m)) = m /\ \A i \in 1..m : SubSeq(b, 1, m)[i] = b[i]
      BY <3>1, <3>2
    <3>4. SubSeq(b, 1, m) \in Seq(T)
      BY <3>2, SeqMonotonic
    <3>5. QED
      BY <3>3, <3>4 DEF m
  <2>2. << Newline >> \in Seq(T) /\ Len(<< Newline >>) = 1 /\ << Newline >>[1] = Newline /\ b \in Seq(T)
    BY <1>1, SeqMonotonic
  <2> DEFINE one == << Newline >>
  <2> HIDE DEF origin, one, T
  <2>3. /\ origin \o one \in Seq(T) /\ Len(origin \o one) = Len(origin) + Len(one)
        /\ \A i \in 1..(Len(origin) + Len(one)) :
              (origin \o one)[i] = IF i <= Len(origin) THEN origin[i] ELSE one[i - Len(origin)]
    BY <2>1, <2>2, ConcatProperties DEF one
  <2>4. Len(origin \o one) = f /\ Len(origin) + Len(one) = f
    BY <1>6, <2>1, <2>2, <2>3 DEF one
  <2>5. ASSUME NEW i \in 1..f
        PROVE  (origin \o one)[i] = b[i]
    <3>1. (origin \o one)[i] = IF i <= f - 1 THEN origin[i] ELSE one[i - (f - 1)]
      BY <2>1, <2>3, <2>4
    <3>2. CASE i <= f - 1
      <4>1. i \in 1..(f - 1)
        BY <1>6, <3>2
      <4>2. QED
        BY <2>1, <3>1, <3>2, <4>1
    <3>3. CASE ~(i <= f - 1)
      <4>1. i = f /\ i - (f - 1) = 1
        BY <1>6, <3>3
      <4>2. QED
        BY <1>1, <2>2, <3>1, <3>3, <4>1 DEF one
    <3>4. QED
      BY <3>2, <3>3
  <2>6. Len(origin \o one) <= Len(b) /\ \A i \in 1..Len(origin \o one) : (origin \o one)[i] = b[i]
    BY <1>6, <2>4, <2>5
  <2>7. IsPrefix(origin \o one, b)
    BY <2>2, <2>3, <2>6, PrefixMeans
  <2>8. QED
    BY <1>5, <2>7 DEF origin, one
<1>8. t \in Seq(S)
  <2>1. f + 1 \in Nat \ {0} /\ Len(b) - 1 \in Nat /\ Len(b) - 1 <= Len(b)
    BY <1>6
  <2>2. QED
    BY <1>1, <2>1, Piece
<1> HIDE DEF t
<1>9. Cardinality(EndsOf(t)) > 1
  <2>1. Cardinality(EndsOf(t)) \in Nat /\ DOMAIN Lines(t) = 1..Cardinality(EndsOf(t))
    BY <1>8, LineCount
  <2>2. Len(Lines(t)) = Cardinality(EndsOf(t))
    BY <2>1, LinesAreSeq
  <2>3. QED
    BY <1>1, <1>5, <2>2
<1>10. \A i \in DOMAIN Lines(t)[2] : Lines(t)[2][i] # CarriageReturn
  BY <1>1, <1>5, CheckpointAssumption DEF CheckpointAssumption
<1>11. Lines(b)[2] = Lines(t)[1] /\ Lines(b)[3] = Lines(t)[2]
  BY <1>1, <1>9, <1>10, LinesBelow DEF t
<1>12. QED
  BY <1>4, <1>5, <1>7, <1>11 DEF b

(***************************************************************************)
(* Past BindCheckpoint the note is the one with the anchor's tree size and *)
(* root hash, and no other step accepts a checkpoint to be verified.       *)
(***************************************************************************)
IsBound ==
    /\ ParseBody(Envelope) = Ok
    /\ \A a \in anchor : TreeSizeOf(SignedBody(Envelope)) = {a.treeSize}
                           /\ RootHashOf(SignedBody(Envelope)) = a.rootHash

BoundInv == pc \in {"matching", "others"} \/ (Verifying /\ result = Ok) => IsBound

LEMMA BoundInvStep ==
    ASSUME CheckpointInv, BoundInv, [WireNext]_allVars
    PROVE  BoundInv'
<1>1. PlaceInv /\ BodyInv
  BY DEF CheckpointInv
<1>2. UNCHANGED <<input, anchor>> => (IsBound' <=> IsBound) /\ (Verifying' <=> Verifying)
  BY Unmoved DEF IsBound
<1>3. ASSUME NEW outcome, NEW place, Try(outcome, place), place \notin {"matching", "others"},
             pc # "done"
      PROVE  BoundInv'
  <2>1. result = "Pending"
    BY <1>1, <1>3 DEF PlaceInv
  <2>2. pc' \notin {"matching", "others"} /\ result' # Ok
    BY <1>3, <2>1, TryMeans DEF Ok
  <2>3. QED
    BY <2>2 DEF BoundInv
<1>4. CASE Elsewhere
  <2>1. /\ UNCHANGED <<input, anchor>>
        /\ Verifying => pc = "size"
        /\ \/ pc = "size" /\ pc' = "document" /\ result' = "Pending"
           \/ pc' = "items" /\ result' = "Pending"
           \/ pc' = "scts" /\ result' = "Pending"
           \/ pc' = "done" /\ (pc = "size" => result' = "InputTooLarge")
    BY <1>1, <1>4, ElsewhereStep
  <2>2. QED
    BY <1>2, <2>1 DEF BoundInv, Ok
<1>5. CASE EmbeddedRekorV1Log
  BY <1>3, <1>5 DEF EmbeddedRekorV1Log
<1>6. CASE ProofAnchor
  BY <1>1, <1>6 DEF ProofAnchor, BoundInv, PlaceInv, Ok
<1>7. CASE ParseNoteBody
  BY <1>3, <1>7 DEF ParseNoteBody
<1>8. CASE CountSignatureLines
  BY <1>3, <1>8 DEF CountSignatureLines
<1>9. CASE ParseLine
  BY <1>3, <1>9 DEF ParseLine
<1>10. CASE EndOfNote
  <2>1. result = "Pending" /\ pc = "lines" /\ UNCHANGED input
    BY <1>1, <1>10 DEF EndOfNote, PlaceInv
  <2>2. Verifying' <=> Verifying
    BY <2>1, Unmoved
  <2>3. pc' \notin {"matching", "others"} /\ (Verifying => result' # Ok)
    BY <1>10, <2>1 DEF EndOfNote, Return, Verifying, Ok
  <2>4. QED
    BY <2>2, <2>3 DEF BoundInv
<1>11. CASE BindCheckpoint
  <2> DEFINE body == SignedBody(Envelope)
             u == Check(\A a \in anchor : TreeSizeOf(body) = {a.treeSize}, "CheckpointTreeSizeMismatch")
             v == Check(\A a \in anchor : RootHashOf(body) = a.rootHash, "CheckpointRootHashMismatch")
             w == Check(KeyHint(Log) # {}, "CheckpointSignatureInvalid")
             outcome == FirstError(<<u, v, w>>)
  <2>1. /\ Try(outcome, "matching") /\ result = "Pending" /\ pc = "bind" /\ UNCHANGED <<input, anchor>>
    BY <1>1, <1>11 DEF BindCheckpoint, PlaceInv
  <2>2. u = Ok /\ v = Ok => IsBound
    BY <1>1, <2>1 DEF Check, IsBound, BodyInv, Ok
  <2> HIDE DEF u, v, w
  <2>3. outcome = Ok => u = Ok /\ v = Ok
    BY FirstError3
  <2> HIDE DEF outcome
  <2>4. \/ outcome = Ok /\ pc' = "matching" /\ result' = "Pending"
        \/ outcome # Ok /\ pc' = "done" /\ result' = outcome
    BY <2>1, TryMeans
  <2>5. QED
    BY <1>2, <2>1, <2>2, <2>3, <2>4 DEF BoundInv
<1>12. CASE TryLine \/ EndOfPass \/ UNCHANGED allVars
  <2>1. /\ UNCHANGED <<input, anchor>>
        /\ pc \in {"matching", "others"} \/ UNCHANGED <<pc, result>>
    BY <1>12 DEF TryLine, EndOfPass, allVars, vars, wire
  <2>2. QED
    BY <1>2, <2>1 DEF BoundInv
<1>13. QED
  BY <1>4, <1>5, <1>6, <1>7, <1>8, <1>9, <1>10, <1>11, <1>12 DEF WireNext, Elsewhere

(***************************************************************************)
(* The origin that the policy is asked about is the first line of a note   *)
(* that the log signed, and the tree size and root hash that were compared *)
(* with the inclusion proof are on its second and third line: str::lines,  *)
(* str::find and the trimming of the final newline read the note that the  *)
(* signature covers, whatever text surrounds it.                           *)
(***************************************************************************)
THEOREM OriginIsAsSignedHolds == WireSpec => []OriginIsAsSigned
<1>1. WireInit => BoundInv
  BY DEF WireInit, Init, BoundInv, Ok
<1>2. CheckpointInv /\ BoundInv /\ [WireNext]_allVars => BoundInv'
  BY BoundInvStep
<1>3. CheckpointInv /\ BoundInv => OriginIsAsSigned
  <2> SUFFICES ASSUME CheckpointInv, BoundInv, Verifying, result = Ok
               PROVE  \E signed \in {Notes[s] : s \in DOMAIN Notes} :
                          /\ signed.by = Log.key
                          /\ IsPrefix(OriginOf(SignedBody(Envelope)) \o << Newline >>, signed.over)
                          /\ IsPrefix(signed.over, Envelope)
                          /\ \A a \in anchor : FromStr(Lines(signed.over)[2]) = {a.treeSize}
                                                 /\ Base64[Lines(signed.over)[3]] = a.rootHash
    BY DEF OriginIsAsSigned
  <2> DEFINE body == SignedBody(Envelope)
  <2>1. IsBound
    BY DEF BoundInv
  <2>2. PICK i \in DOMAIN signatures : SignsNote(Log.key, body, signatures[i].signature)
    BY DEF CheckpointInv, NamesInv, NamesDecideNothing
  <2> DEFINE signature == signatures[i].signature
             signed == Notes[signature]
  <2>3. signature \in DOMAIN Notes /\ signed.by = Log.key /\ signed.over = body
    BY <2>2 DEF SignsNote, VerifyDer, Signature
  <2>4. Envelope \in Seq(Range(Envelope)) /\ ParseBody(Envelope) = Ok
    BY <2>1, FuzzingAssumption DEF FuzzingAssumption, CheckpointInv, PlaceInv, Verifying, Envelope, Document, IsBound
  <2>5. /\ IsPrefix(OriginOf(body) \o << Newline >>, body) /\ IsPrefix(body, Envelope)
        /\ Lines(body)[2] = BelowOrigin(body)[1] /\ Lines(body)[3] = BelowOrigin(body)[2]
    BY <2>4, NoteIsAsRead
  <2>6. \A a \in anchor : FromStr(Lines(body)[2]) = {a.treeSize} /\ Base64[Lines(body)[3]] = a.rootHash
    BY <2>1, <2>5 DEF IsBound, TreeSizeOf, RootHashOf
  <2> HIDE DEF body, signature
  <2>7. QED
    BY <2>3, <2>5, <2>6 DEF body
<1>4. QED
  BY <1>1, <1>2, <1>3, CheckpointInvHolds, PTL DEF WireSpec

-----------------------------------------------------------------------------
(***************************************************************************)
(* Values read with serde.                                                 *)
(***************************************************************************)
LEMMA TheOne ==
    /\ \A x : The({x}) = x
    /\ \A option : option # {} => The(option) \in option
  BY DEF The

LEMMA GivenIsOption ==
    ASSUME NEW value, NEW i, NEW key
    PROVE  Given(value, i, key) = {} \/ \E x : Given(value, i, key) = {x}
<1>1. CASE Is(value, "obj")
  <2>1. CASE key \in DOMAIN value.obj
    <3>1. Given(value, i, key) = {value.obj[key]}
      BY <1>1, <2>1 DEF Given
    <3>2. QED
      BY <3>1
  <2>2. CASE key \notin DOMAIN value.obj
    <3>1. Given(value, i, key) = {}
      BY <1>1, <2>2 DEF Given
    <3>2. QED
      BY <3>1
  <2>3. QED
    BY <2>1, <2>2
<1>2. CASE ~Is(value, "obj")
  <2>1. CASE i \in DOMAIN value.arr
    <3>1. Given(value, i, key) = {value.arr[i]}
      BY <1>2, <2>1 DEF Given
    <3>2. QED
      BY <3>1
  <2>2. CASE i \notin DOMAIN value.arr
    <3>1. Given(value, i, key) = {}
      BY <1>2, <2>2 DEF Given
    <3>2. QED
      BY <3>1
  <2>3. QED
    BY <2>1, <2>2
<1>3. QED
  BY <1>1, <1>2

\* What a map of strings is read as.
LEMMA MapOfStrings ==
    ASSUME NEW value, NEW map \in Map(value, String)
    PROVE  map = [k \in DOMAIN value.obj |-> value.obj[k].str]
<1>1. /\ \A k \in DOMAIN value.obj : String(value.obj[k]) # {}
      /\ map = [k \in DOMAIN value.obj |-> The(String(value.obj[k]))]
  BY DEF Map
<1>2. \A k \in DOMAIN value.obj : The(String(value.obj[k])) = value.obj[k].str
  <2>1. SUFFICES ASSUME NEW k \in DOMAIN value.obj
                 PROVE  The(String(value.obj[k])) = value.obj[k].str
    OBVIOUS
  <2>2. String(value.obj[k]) = {value.obj[k].str}
    BY <1>1 DEF String
  <2>3. QED
    BY <2>2, TheOne
<1>3. QED
  BY <1>1, <1>2

-----------------------------------------------------------------------------
(***************************************************************************)
(* The subjects of a statement.                                            *)
(***************************************************************************)
\* What is read from the subject that a JSON value writes.
LEMMA SubjectMeans ==
    ASSUME NEW value, NEW subject \in RawStatementSubject(value)
    PROVE  /\ CheckSubject(subject) = Ok <=> WellDigested(value)
           /\ StatementSubject(subject).sha256 = Sha256Words(value)
<1> DEFINE given == Given(value, 2, "digest")
<1>1. subject.digest \in Defaulted(value, 2, "digest", RawDigest, [algorithm \in {} |-> ""])
  BY DEF RawStatementSubject, Struct
<1> DEFINE digested == DOMAIN subject.digest # {}
           isHex == "sha256" \in DOMAIN subject.digest => subject.digest["sha256"] # NotHex
<1>2. CheckSubject(subject) = Ok <=> digested /\ isHex
  <2>1. StrictHex(subject.digest["sha256"]) = Ok <=> subject.digest["sha256"] # NotHex
    BY DEF StrictHex, Check, Ok
  <2>2. CASE digested /\ isHex
    BY <2>1, <2>2 DEF CheckSubject, Check
  <2>3. CASE ~(digested /\ isHex)
    <3>1. ~(DOMAIN subject.digest # {} /\ ("sha256" \in DOMAIN subject.digest => StrictHex(subject.digest["sha256"]) = Ok))
      BY <2>1, <2>3
    <3>2. CheckSubject(subject) = "MalformedSubject"
      BY <3>1 DEF CheckSubject, Check
    <3>3. QED
      BY <2>3, <3>2 DEF Ok
  <2>4. QED
    BY <2>2, <2>3
<1>3. StatementSubject(subject).sha256 = {subject.digest[k].word : k \in {"sha256"} \intersect DOMAIN subject.digest}
  BY DEF StatementSubject
<1>4. CASE given = {}
  <2>1. subject.digest = [algorithm \in {} |-> ""]
    BY <1>1, <1>4 DEF Defaulted
  <2>2. DOMAIN subject.digest = {}
    BY <2>1
  <2>3. Sha256Words(value) = {} /\ ~WellDigested(value)
    BY <1>4 DEF Sha256Words, Sha256In, WellDigested
  <2>4. QED
    BY <1>2, <1>3, <2>2, <2>3
<1>5. CASE given # {}
  <2>1. PICK digest : given = {digest}
    BY <1>5, GivenIsOption
  <2>2. subject.digest \in Map(digest, String)
    BY <1>1, <1>5, <2>1 DEF Defaulted, Field, RawDigest
  <2>3. subject.digest = [k \in DOMAIN digest.obj |-> digest.obj[k].str]
    BY <2>2, MapOfStrings
  <2>4. Sha256In(value) = {digest.obj[k].str : k \in {"sha256"} \intersect DOMAIN digest.obj}
    BY <2>1 DEF Sha256In
  <2>5. CASE "sha256" \in DOMAIN digest.obj
    <3>1. Sha256In(value) = {digest.obj["sha256"].str}
      BY <2>4, <2>5
    <3>2. subject.digest["sha256"] = digest.obj["sha256"].str /\ "sha256" \in DOMAIN subject.digest
      BY <2>3, <2>5
    <3>3. StatementSubject(subject).sha256 = {digest.obj["sha256"].str.word}
      BY <1>3, <3>2
    <3>4. Sha256Words(value) = {digest.obj["sha256"].str.word}
      BY <3>1 DEF Sha256Words
    <3>5. WellDigested(value) <=> digest.obj["sha256"].str # NotHex
      BY <2>1, <2>5, <3>1 DEF WellDigested
    <3>6. digested /\ (isHex <=> WellDigested(value))
      BY <3>2, <3>5
    <3>7. QED
      BY <1>2, <3>3, <3>4, <3>6
  <2>6. CASE "sha256" \notin DOMAIN digest.obj
    <3>1. Sha256In(value) = {}
      BY <2>4, <2>6
    <3>2. DOMAIN subject.digest = DOMAIN digest.obj
      BY <2>3
    <3>3. StatementSubject(subject).sha256 = {} /\ Sha256Words(value) = {}
      BY <1>3, <2>6, <3>1, <3>2 DEF Sha256Words
    <3>4. WellDigested(value) <=> DOMAIN digest.obj # {}
      BY <2>1, <3>1 DEF WellDigested
    <3>5. isHex /\ (digested <=> WellDigested(value))
      BY <2>6, <3>2, <3>4
    <3>6. QED
      BY <1>2, <3>3, <3>5
  <2>7. QED
    BY <2>5, <2>6
<1>6. QED
  BY <1>4, <1>5

\* A digest map holds at most one sha256.
LEMMA OneSha256 ==
    ASSUME NEW value, NEW word
    PROVE  Sha256Words(value) = {word} <=> word \in Sha256Words(value)
<1> DEFINE given == Given(value, 2, "digest")
<1>1. CASE given = {}
  BY <1>1 DEF Sha256Words, Sha256In
<1>2. CASE given # {}
  <2>1. PICK digest : given = {digest}
    BY <1>2, GivenIsOption
  <2>2. Sha256In(value) = {digest.obj[k].str : k \in {"sha256"} \intersect DOMAIN digest.obj}
    BY <2>1 DEF Sha256In
  <2>3. CASE "sha256" \in DOMAIN digest.obj
    <3>1. Sha256In(value) = {digest.obj["sha256"].str}
      BY <2>2, <2>3
    <3>2. Sha256Words(value) = {digest.obj["sha256"].str.word}
      BY <3>1 DEF Sha256Words
    <3>3. QED
      BY <3>2
  <2>4. CASE "sha256" \notin DOMAIN digest.obj
    <3>1. Sha256Words(value) = {}
      BY <2>2, <2>4 DEF Sha256Words
    <3>2. QED
      BY <3>1
  <2>5. QED
    BY <2>3, <2>4
<1>3. QED
  BY <1>1, <1>2

\* What the subjects of the document given are read as, one by one, and why they are refused.
LEMMA SubjectsMean ==
    ASSUME input \in Inputs, input.api = "statement", NEW outcome \in {Ok, "MalformedSubject"},
           StatementFromText(Document) = outcome
    PROVE  /\ \E n \in Nat : DOMAIN WrittenSubjects = 1..n
           /\ DOMAIN StatementSubjects(Document) = DOMAIN WrittenSubjects
           /\ \A i \in DOMAIN WrittenSubjects :
                 /\ StatementSubjects(Document)[i].sha256 = Sha256Words(WrittenSubjects[i])
                 /\ outcome = Ok => WellDigested(WrittenSubjects[i])
           /\ outcome # Ok => \E i \in DOMAIN WrittenSubjects : ~WellDigested(WrittenSubjects[i])
<1> DEFINE value == Document.value
           raws == RawStatement(value)
           rawOne == The(raws)
           lists == Given(value, 2, "subject")
           checks == [i \in DOMAIN rawOne.subject |-> CheckSubject(rawOne.subject[i])]
           a == Check(rawOne._type = StatementType, "StatementType")
           b == Check(Len(rawOne.subject) <= MaxStatementSubjects, "TooManySubjects")
           c == FirstError(checks)
<1>1. /\ Document.json # "MalformedSubject"
      /\ Document.json = Ok /\ IsStruct(value, 4) =>
            \A list \in lists : Is(list, "arr") => list.arr \in Seq(Range(list.arr))
  BY FuzzingAssumption DEF FuzzingAssumption, Document
<1>2. Document.json = Ok /\ raws # {} /\ FirstError(<<a, b, c>>) = outcome
  BY <1>1 DEF StatementFromText, Ok
<1>3. rawOne \in raws
  BY <1>2, TheOne
<1>4. IsStruct(value, 4) /\ rawOne.subject \in VecField(value, 2, "subject", RawStatementSubject)
  BY <1>2, <1>3 DEF RawStatement, Struct
<1>5. c = outcome
  <2>1. a \in {Ok, "StatementType"} /\ b \in {Ok, "TooManySubjects"}
    BY DEF Check
  <2> HIDE DEF a, b, c
  <2>2. FirstError(<<a, b, c>>) = Ok => c = Ok
    BY FirstError3
  <2>3. FirstError(<<a, b, c>>) \in {Ok, a, b, c}
    BY FirstError3
  <2>4. QED
    BY <1>2, <2>1, <2>2, <2>3 DEF Ok
<1>6. StatementSubjects(Document) = [i \in DOMAIN rawOne.subject |-> StatementSubject(rawOne.subject[i])]
  BY DEF StatementSubjects
<1> HIDE DEF rawOne
<1>7. /\ \E n \in Nat : DOMAIN WrittenSubjects = 1..n
      /\ DOMAIN rawOne.subject = DOMAIN WrittenSubjects
      /\ \A i \in DOMAIN WrittenSubjects : rawOne.subject[i] \in RawStatementSubject(WrittenSubjects[i])
  <2>1. CASE lists = {}
    <3>1. rawOne.subject = <<>> /\ WrittenSubjects = <<>>
      BY <1>4, <2>1 DEF VecField, WrittenSubjects
    <3>2. DOMAIN WrittenSubjects = 1..0 /\ DOMAIN rawOne.subject = 1..0
      BY <3>1
    <3>3. QED
      BY <3>2
  <2>2. CASE lists # {}
    <3>1. PICK list : lists = {list}
      BY <2>2, GivenIsOption
    <3>2. rawOne.subject \in Vec(list, RawStatementSubject)
      BY <1>4, <2>2, <3>1 DEF VecField
    <3>3. WrittenSubjects = list.arr
      BY <2>2, <3>1, TheOne DEF WrittenSubjects
    <3>4. /\ Is(list, "arr")
          /\ \A i \in DOMAIN list.arr : RawStatementSubject(list.arr[i]) # {}
          /\ rawOne.subject = [i \in DOMAIN list.arr |-> The(RawStatementSubject(list.arr[i]))]
      BY <3>2 DEF Vec
    <3>5. list.arr \in Seq(Range(list.arr))
      BY <1>1, <1>2, <1>4, <3>1, <3>4
    <3>6. DOMAIN list.arr = 1..Len(list.arr) /\ Len(list.arr) \in Nat
      BY <3>5, LenProperties
    <3>7. \A i \in DOMAIN list.arr : rawOne.subject[i] \in RawStatementSubject(list.arr[i])
      BY <3>4, TheOne
    <3>8. QED
      BY <3>3, <3>4, <3>6, <3>7
  <2>3. QED
    BY <2>1, <2>2
<1>8. \A i \in DOMAIN WrittenSubjects :
        /\ checks[i] = Ok <=> WellDigested(WrittenSubjects[i])
        /\ StatementSubjects(Document)[i].sha256 = Sha256Words(WrittenSubjects[i])
  BY <1>6, <1>7, SubjectMeans
<1>9. DOMAIN checks = DOMAIN WrittenSubjects /\ DOMAIN checks \subseteq Nat
  BY <1>7
<1> HIDE DEF checks
<1>10. c = Ok <=> \A i \in DOMAIN checks : checks[i] = Ok
  BY <1>9, FirstErrorIff
<1>11. QED
  BY <1>5, <1>6, <1>7, <1>8, <1>9, <1>10

\* Which steps the parser of a statement and those of the containers take.
LEMMA ApiSteps ==
    ASSUME PlaceInv, WireNext
    PROVE  /\ UNCHANGED input
           /\ input.api = "statement" => CheckInputSize \/ ParseStatement
           /\ input.api \in ContainerApis => Next
<1>1. CASE Elsewhere
  <2>1. UNCHANGED input
    BY <1>1, ElsewhereStep
  <2>2. input.api = "statement" => CheckInputSize \/ ParseStatement
    BY <1>1 DEF Elsewhere, PlaceInv, Next, ParseBundle, ParseResponse, SkipBlankLine, TakeLine, EndOfLines,
                TakeAttestation, EndOfAttestations, TakeListLength, TakeSct, EndOfSctList,
                ParseRekorCanonicalizedBody, ParseTimestamp
  <2>3. input.api \in ContainerApis => Next
    BY <1>1 DEF Elsewhere, PlaceInv, TakeListLength, TakeSct, EndOfSctList, ContainerApis,
                ParseRekorCanonicalizedBody, ParseStatement, ParseTimestamp
  <2>4. QED
    BY <2>1, <2>2, <2>3
<1>2. CASE EmbeddedRekorV1Log \/ ProofAnchor
  BY <1>2 DEF EmbeddedRekorV1Log, ProofAnchor, ContainerApis
<1>3. CASE ParseNoteBody \/ CountSignatureLines \/ ParseLine \/ EndOfNote
  <2>1. UNCHANGED input /\ (pc \in {"note", "count", "lines"} \/ input.api = "checkpoint")
    BY <1>3 DEF ParseNoteBody, CountSignatureLines, ParseLine, EndOfNote
  <2>2. QED
    BY <2>1 DEF PlaceInv, Verifying, CheckpointApis, ContainerApis
<1>4. CASE BindCheckpoint \/ TryLine \/ EndOfPass
  <2>1. UNCHANGED input /\ pc \in {"bind", "matching", "others"}
    BY <1>4 DEF BindCheckpoint, TryLine, EndOfPass
  <2>2. QED
    BY <2>1 DEF PlaceInv, Verifying, ContainerApis
<1>5. QED
  BY <1>1, <1>2, <1>3, <1>4 DEF WireNext, Elsewhere

StatementInv ==
    input.api = "statement" /\ result \in {Ok, "MalformedSubject"} => StatementFromText(Document) = result

(***************************************************************************)
(* from_payload keeps the subjects of a statement one for one with the     *)
(* digests written there, so Statement::find_subject stops where a digest  *)
(* is written first: neither a field given as an array nor a subject       *)
(* without a sha256 makes it count or compare another subject; and one bad *)
(* digest fails the whole statement.  For statements of any length.        *)
(***************************************************************************)
THEOREM SubjectsAreAsWrittenHolds == WireSpec => []SubjectsAreAsWritten
<1>1. WireInit => StatementInv
  BY DEF WireInit, Init, StatementInv, Ok
<1>2. CheckpointInv /\ StatementInv /\ [WireNext]_allVars => StatementInv'
  <2> SUFFICES ASSUME CheckpointInv, StatementInv, [WireNext]_allVars, input'.api = "statement",
                      result' \in {Ok, "MalformedSubject"}
               PROVE  StatementFromText(Document') = result'
    BY DEF StatementInv
  <2>1. PlaceInv
    BY DEF CheckpointInv
  <2>2. CASE UNCHANGED allVars
    BY <2>2 DEF StatementInv, Document, allVars, vars
  <2>3. CASE WireNext
    <3>1. UNCHANGED input /\ input.api = "statement" /\ (CheckInputSize \/ ParseStatement)
      BY <2>1, <2>3, ApiSteps
    <3>2. CASE CheckInputSize
      <4> DEFINE outcome == Check(input.size <= MaxInputBytes, "InputTooLarge")
                 place == IF input.api = "jsonLines" THEN "items" ELSE "document"
      <4>1. Try(outcome, place) /\ result = "Pending" /\ outcome \in {Ok, "InputTooLarge"}
        BY <2>1, <3>2 DEF CheckInputSize, PlaceInv, Check
      <4> HIDE DEF outcome, place
      <4>2. result' \in {"Pending", "InputTooLarge"}
        BY <4>1, TryMeans
      <4>3. QED
        BY <4>2 DEF Ok
    <3>3. CASE ParseStatement
      BY <3>1, <3>3 DEF ParseStatement, Return, Document
    <3>4. QED
      BY <3>1, <3>2, <3>3
  <2>4. QED
    BY <2>2, <2>3
<1>3. CheckpointInv /\ StatementInv => SubjectsAreAsWritten
  <2> SUFFICES ASSUME CheckpointInv, StatementInv, input.api = "statement", result \in {Ok, "MalformedSubject"}
               PROVE  SubjectsAreAsWritten
    BY DEF SubjectsAreAsWritten
  <2> DEFINE read == StatementSubjects(Document)
  <2>1. input \in Inputs /\ StatementFromText(Document) = result
    BY DEF StatementInv, CheckpointInv, PlaceInv
  <2>2. /\ \E n \in Nat : DOMAIN WrittenSubjects = 1..n
        /\ DOMAIN read = DOMAIN WrittenSubjects
        /\ \A i \in DOMAIN WrittenSubjects :
              /\ read[i].sha256 = Sha256Words(WrittenSubjects[i])
              /\ result = Ok => WellDigested(WrittenSubjects[i])
        /\ result # Ok => \E i \in DOMAIN WrittenSubjects : ~WellDigested(WrittenSubjects[i])
    BY <2>1, SubjectsMean
  <2> HIDE DEF read
  <2>3. ASSUME NEW word
        PROVE  FindSubject([subjects |-> read], word) = FirstNaming(word)
    <3> DEFINE hits == {i \in DOMAIN read : read[i].sha256 = {word}}
               named == {i \in DOMAIN WrittenSubjects : word \in Sha256Words(WrittenSubjects[i])}
    <3>1. \A i \in DOMAIN WrittenSubjects : read[i].sha256 = {word} <=> word \in Sha256Words(WrittenSubjects[i])
      BY <2>2, OneSha256
    <3>2. hits = named
      BY <2>2, <3>1
    <3>3. FindSubject([subjects |-> read], word) = IF hits = {} THEN 0 ELSE CHOOSE i \in hits : \A j \in hits : i <= j
      BY DEF FindSubject, FirstIndex
    <3>4. FirstNaming(word) = IF named = {} THEN 0 ELSE CHOOSE i \in named : \A j \in named : i <= j
      BY DEF FirstNaming, FirstIndex
    <3> HIDE DEF hits, named
    <3>5. QED
      BY <3>2, <3>3, <3>4
  <2>4. result = Ok =>
            /\ DOMAIN read = DOMAIN WrittenSubjects
            /\ \A i \in DOMAIN read :
                  WellDigested(WrittenSubjects[i]) /\ read[i].sha256 = Sha256Words(WrittenSubjects[i])
            /\ \A word \in {NotHex.word} \union UNION {Sha256Words(s) : s \in Range(WrittenSubjects)} :
                  FindSubject([subjects |-> read], word) = FirstNaming(word)
    BY <2>2, <2>3
  <2>5. result = "MalformedSubject" => \E i \in DOMAIN WrittenSubjects : ~WellDigested(WrittenSubjects[i])
    BY <2>2 DEF Ok
  <2>6. QED
    BY <2>4, <2>5 DEF SubjectsAreAsWritten, read
<1>4. QED
  BY <1>1, <1>2, <1>3, CheckpointInvHolds, PTL DEF WireSpec

-----------------------------------------------------------------------------
(***************************************************************************)
(* Containers: the elements of a function at some positions, in order.     *)
(***************************************************************************)
Picked(positions, f) == [k \in 1..Cardinality(positions) |-> f[Ascending(positions)[k]]]

LEMMA PickedIsSeq ==
    ASSUME NEW S \in SUBSET Nat, IsFiniteSet(S), NEW f
    PROVE  /\ Cardinality(S) \in Nat
           /\ Picked(S, f) \in Seq({f[i] : i \in S})
           /\ Len(Picked(S, f)) = Cardinality(S) /\ DOMAIN Picked(S, f) = 1..Cardinality(S)
<1> DEFINE picked == Picked(S, f)
           n == Cardinality(S)
<1>1. n \in Nat /\ Ascending(S) \in [1..n -> S]
  BY AscendingProperties
<1>2. picked \in [1..n -> {f[i] : i \in S}]
  BY <1>1 DEF Picked
<1> HIDE DEF picked, n
<1>3. picked \in Seq({f[i] : i \in S}) /\ Len(picked) = n
  BY <1>1, <1>2, FunctionIsSeq
<1>4. QED
  BY <1>1, <1>2, <1>3 DEF picked, n

LEMMA PickedGrows ==
    ASSUME NEW S \in SUBSET Nat, IsFiniteSet(S), NEW n \in Nat, \A j \in S : j < n, NEW f
    PROVE  /\ Picked(S \union {n}, f) = Append(Picked(S, f), f[n])
           /\ Picked(S \union {n}, f) = Picked(S, f) \o << f[n] >>
<1> DEFINE T == S \union {n}
           V == {f[i] : i \in T}
           s == Picked(S, f)
           t == Picked(T, f)
           c == Cardinality(S)
<1>1. /\ T \in SUBSET Nat /\ IsFiniteSet(T) /\ c \in Nat /\ Cardinality(T) = c + 1
      /\ \A k \in 1..c : Ascending(T)[k] = Ascending(S)[k]
      /\ Ascending(T)[c + 1] = n
  BY AscendingGrows
<1>2. s \in Seq(V) /\ f[n] \in V /\ Len(s) = c
  <2>1. s \in Seq({f[i] : i \in S}) /\ Len(s) = c
    BY PickedIsSeq
  <2>2. {f[i] : i \in S} \subseteq V
    OBVIOUS
  <2> HIDE DEF s, V
  <2>3. s \in Seq(V)
    BY <2>1, <2>2, SeqMonotonic
  <2>4. QED
    BY <2>1, <2>3 DEF V
<1> HIDE DEF T
<1>3. t \in Seq(V) /\ Len(t) = c + 1
  BY <1>1, PickedIsSeq
<1>4. \A k \in 1..c : s[k] = f[Ascending(S)[k]] /\ t[k] = f[Ascending(T)[k]]
  BY <1>1 DEF Picked
<1>5. t[c + 1] = f[Ascending(T)[c + 1]]
  BY <1>1 DEF Picked
<1> HIDE DEF s, t, V, c
<1> DEFINE a == Append(s, f[n])
<1>6. /\ a \in Seq(V) /\ Len(a) = c + 1
      /\ \A i \in 1..c : a[i] = s[i]
      /\ a[c + 1] = f[n]
  BY <1>2, AppendProperties
<1>7. \A i \in 1..(c + 1) : a[i] = t[i]
  <2>1. \A i \in 1..(c + 1) : i \in 1..c \/ i = c + 1
    BY <1>1
  <2> HIDE DEF a
  <2>2. QED
    BY <1>1, <1>4, <1>5, <1>6, <2>1
<1> HIDE DEF a
<1>8. a = t
  BY <1>3, <1>6, <1>7, SeqEqual
<1>9. a = s \o << f[n] >>
  BY <1>2, AppendIsConcat DEF a
<1>10. QED
  BY <1>8, <1>9 DEF a, s, t, T

LEMMA PickedNone ==
    ASSUME NEW f
    PROVE  Picked({}, f) = <<>>
<1>1. Cardinality({}) = 0
  BY FS_EmptySet
<1>2. Picked({}, f) = [k \in 1..0 |-> f[Ascending({})[k]]]
  BY <1>1, Zenon DEF Picked
<1>3. QED
  BY <1>2

\* The sequence of an Option's value.
LEMMA SetToSeqOfOption ==
    /\ SetToSeq({}) = <<>>
    /\ \A x : SetToSeq({x}) = << x >>
<1>1. SetToSeq({}) = <<>>
  <2>1. Cardinality({}) = 0
    BY FS_EmptySet
  <2>2. <<>> \in [1..0 -> {}] /\ IsInjective(<<>>)
    BY DEF IsInjective
  <2>3. \A f \in [1..0 -> {}] : f = <<>>
    OBVIOUS
  <2>4. QED
    BY <2>1, <2>2, <2>3 DEF SetToSeq
<1>2. ASSUME NEW x
      PROVE  SetToSeq({x}) = << x >>
  <2>1. Cardinality({x}) = 1
    BY FS_Singleton
  <2>2. << x >> \in [1..1 -> {x}] /\ IsInjective(<< x >>)
    BY DEF IsInjective
  <2>3. \A f \in [1..1 -> {x}] : f = << x >>
    OBVIOUS
  <2>4. QED
    BY <2>1, <2>2, <2>3 DEF SetToSeq
<1>3. QED
  BY <1>1, <1>2

\* An attestation as serde reads it, and as it is written.
AttestationShape(a) ==
    /\ IsStruct(a, 4)
    /\ \E v \in Given(a, 1, "initiator") : Is(v, "str")
    /\ \A v \in Given(a, 2, "repositoryId") : v = Null \/ (Is(v, "num") /\ v.num \in Nat)
    /\ \A v \in Given(a, 3, "bundleUrl") : v = Null \/ Is(v, "str")

LEMMA InlineIsOption ==
    ASSUME NEW a
    PROVE  InlineIn(a) = {} \/ \E v : InlineIn(a) = {v}
<1>1. CASE Given(a, 4, "bundle") = {}
  BY <1>1 DEF InlineIn
<1>2. CASE \E v : Given(a, 4, "bundle") = {v}
  <2>1. PICK v : Given(a, 4, "bundle") = {v}
    BY <1>2
  <2>2. InlineIn(a) = IF v = Null THEN {} ELSE {v}
    BY <2>1 DEF InlineIn
  <2>3. QED
    BY <2>2
<1>3. QED
  BY <1>1, <1>2, GivenIsOption

LEMMA AttestationMeans ==
    ASSUME NEW a
    PROVE  /\ RawAttestationEntry(a) # {} <=> AttestationShape(a)
           /\ \A r \in RawAttestationEntry(a) :
                 r.bundle = InlineIn(a) /\ {v.str : v \in Given(a, 1, "initiator")} = {r.initiator}
<1> DEFINE A == Field(a, 1, "initiator", String)
           B == OptionField(a, 2, "repositoryId", U64)
           C == OptionField(a, 3, "bundleUrl", String)
           D == OptionField(a, 4, "bundle", AnyValue)
           entrySet == [initiator : A, repositoryId : B, bundleUrl : C, bundle : D]
<1>1. RawAttestationEntry(a) = IF IsStruct(a, 4) THEN entrySet ELSE {}
  BY DEF RawAttestationEntry, Struct
<1>2. D = {InlineIn(a)}
  <2>1. CASE Given(a, 4, "bundle") \subseteq {Null}
    BY <2>1 DEF OptionField, InlineIn
  <2>2. CASE ~(Given(a, 4, "bundle") \subseteq {Null})
    <3>1. PICK v : Given(a, 4, "bundle") = {v}
      BY <2>2, GivenIsOption
    <3>2. v # Null
      BY <2>2, <3>1
    <3>3. Field(a, 4, "bundle", AnyValue) = {v}
      BY <3>1 DEF Field, AnyValue
    <3>4. D = {{v}}
      BY <2>2, <3>3 DEF OptionField
    <3>5. InlineIn(a) = {v}
      BY <3>1, <3>2 DEF InlineIn
    <3>6. QED
      BY <3>4, <3>5
  <2>3. QED
    BY <2>1, <2>2
<1>3. /\ A # {} <=> \E v \in Given(a, 1, "initiator") : Is(v, "str")
      /\ \A text \in A : {v.str : v \in Given(a, 1, "initiator")} = {text}
  <2>1. CASE Given(a, 1, "initiator") = {}
    BY <2>1 DEF Field
  <2>2. CASE \E v : Given(a, 1, "initiator") = {v}
    <3>1. PICK v : Given(a, 1, "initiator") = {v}
      BY <2>2
    <3>2. A = String(v)
      BY <3>1 DEF Field
    <3>3. QED
      BY <3>1, <3>2 DEF String
  <2>3. QED
    BY <2>1, <2>2, GivenIsOption
<1>4. B # {} <=> \A v \in Given(a, 2, "repositoryId") : v = Null \/ (Is(v, "num") /\ v.num \in Nat)
  <2>1. CASE Given(a, 2, "repositoryId") \subseteq {Null}
    BY <2>1 DEF OptionField
  <2>2. CASE ~(Given(a, 2, "repositoryId") \subseteq {Null})
    <3>1. PICK v : Given(a, 2, "repositoryId") = {v}
      BY <2>2, GivenIsOption
    <3>2. v # Null
      BY <2>2, <3>1
    <3>3. B = {{n} : n \in U64(v)}
      BY <2>2, <3>1 DEF OptionField, Field
    <3>4. U64(v) # {} <=> Is(v, "num") /\ v.num \in Nat
      BY DEF U64
    <3>5. QED
      BY <3>1, <3>2, <3>3, <3>4
  <2>3. QED
    BY <2>1, <2>2
<1>5. C # {} <=> \A v \in Given(a, 3, "bundleUrl") : v = Null \/ Is(v, "str")
  <2>1. CASE Given(a, 3, "bundleUrl") \subseteq {Null}
    BY <2>1 DEF OptionField
  <2>2. CASE ~(Given(a, 3, "bundleUrl") \subseteq {Null})
    <3>1. PICK v : Given(a, 3, "bundleUrl") = {v}
      BY <2>2, GivenIsOption
    <3>2. v # Null
      BY <2>2, <3>1
    <3>3. C = {{n} : n \in String(v)}
      BY <2>2, <3>1 DEF OptionField, Field
    <3>4. String(v) # {} <=> Is(v, "str")
      BY DEF String
    <3>5. QED
      BY <3>1, <3>2, <3>3, <3>4
  <2>3. QED
    BY <2>1, <2>2
<1> HIDE DEF A, B, C, D
<1>6. entrySet # {} <=> A # {} /\ B # {} /\ C # {}
  <2>1. ASSUME A # {}, B # {}, C # {}
        PROVE  entrySet # {}
    <3>1. PICK x \in A, y \in B, z \in C : TRUE
      BY <2>1
    <3>2. [initiator |-> x, repositoryId |-> y, bundleUrl |-> z, bundle |-> InlineIn(a)] \in entrySet
      BY <1>2
    <3>3. QED
      BY <3>2
  <2>2. ASSUME entrySet # {}
        PROVE  A # {} /\ B # {} /\ C # {}
    <3>1. PICK r \in entrySet : TRUE
      BY <2>2
    <3>2. r.initiator \in A /\ r.repositoryId \in B /\ r.bundleUrl \in C
      BY <3>1
    <3>3. QED
      BY <3>2
  <2>3. QED
    BY <2>1, <2>2
<1>7. RawAttestationEntry(a) # {} <=> AttestationShape(a)
  BY <1>1, <1>3, <1>4, <1>5, <1>6 DEF AttestationShape
<1>8. ASSUME NEW r \in RawAttestationEntry(a)
      PROVE  r.bundle = InlineIn(a) /\ {v.str : v \in Given(a, 1, "initiator")} = {r.initiator}
  <2>1. r \in entrySet
    BY <1>1
  <2>2. r.bundle \in D /\ r.initiator \in A
    BY <2>1
  <2>3. QED
    BY <1>2, <1>3, <2>2
<1>9. QED
  BY <1>7, <1>8

\* A response as serde reads it, and as it is written.
LEMMA ResponseMeans ==
    ASSUME NEW value
    PROVE  LET attestations == The(Given(value, 1, "attestations")).arr
           IN  /\ RawGithubResponse(value) # {} <=>
                     /\ IsStruct(value, 1)
                     /\ \E list \in Given(value, 1, "attestations") : Is(list, "arr")
                     /\ \A i \in DOMAIN attestations : AttestationShape(attestations[i])
               /\ RawGithubResponse(value) # {} =>
                     /\ DOMAIN The(RawGithubResponse(value)).attestations = DOMAIN attestations
                     /\ \A i \in DOMAIN attestations :
                           The(RawGithubResponse(value)).attestations[i] \in RawAttestationEntry(attestations[i])
<1> DEFINE lists == Given(value, 1, "attestations")
           attestations == The(lists).arr
           F == Field(value, 1, "attestations", RawAttestations)
<1>1. RawGithubResponse(value) = IF IsStruct(value, 1) THEN [attestations : F] ELSE {}
  BY DEF RawGithubResponse, Struct
<1>2. CASE lists = {}
  <2>1. F = {}
    BY <1>2 DEF Field
  <2>2. \A r \in [attestations : F] : r.attestations \in F
    OBVIOUS
  <2>3. RawGithubResponse(value) = {}
    BY <1>1, <2>1, <2>2
  <2>4. QED
    BY <1>2, <2>3
<1>3. CASE lists # {}
  <2>1. PICK list : lists = {list}
    BY <1>3, GivenIsOption
  <2>2. attestations = list.arr
    BY <2>1, TheOne
  <2>3. F = Vec(list, RawAttestationEntry)
    BY <2>1 DEF Field, RawAttestations
  <2> DEFINE read == [i \in DOMAIN list.arr |-> The(RawAttestationEntry(list.arr[i]))]
             good == Is(list, "arr") /\ \A i \in DOMAIN list.arr : RawAttestationEntry(list.arr[i]) # {}
  <2>4. F = IF good THEN {read} ELSE {}
    BY <2>3 DEF Vec
  <2>5. good <=> /\ \E l \in lists : Is(l, "arr")
                 /\ \A i \in DOMAIN attestations : AttestationShape(attestations[i])
    BY <2>1, <2>2, AttestationMeans
  <2>6. good => DOMAIN read = DOMAIN list.arr /\ \A i \in DOMAIN list.arr : read[i] \in RawAttestationEntry(list.arr[i])
    BY TheOne
  <2> HIDE DEF good, read, attestations, F, lists
  <2>7. CASE IsStruct(value, 1) /\ good
    <3>1. [attestations |-> read] \in [attestations : F]
      BY <2>4, <2>7
    <3>2. RawGithubResponse(value) # {}
      BY <1>1, <2>7, <3>1
    <3>3. The(RawGithubResponse(value)) \in [attestations : F]
      BY <1>1, <2>7, <3>2, TheOne
    <3>4. The(RawGithubResponse(value)).attestations = read
      BY <2>4, <2>7, <3>3
    <3>5. QED
      BY <2>2, <2>5, <2>6, <2>7, <3>2, <3>4 DEF attestations, lists
  <2>8. CASE ~(IsStruct(value, 1) /\ good)
    <3>1. RawGithubResponse(value) = {}
      <4>1. \A r \in [attestations : F] : r.attestations \in F
        OBVIOUS
      <4>2. QED
        BY <1>1, <2>4, <2>8, <4>1
    <3>2. QED
      BY <2>5, <2>8, <3>1 DEF attestations, lists
  <2>9. QED
    BY <2>7, <2>8
<1>4. QED
  BY <1>2, <1>3

-----------------------------------------------------------------------------
(***************************************************************************)
(* The positions in a container where a bundle is expected, and the values *)
(* and raw bundles there.                                                  *)
(***************************************************************************)
IsResponse == input.api = "githubResponse"
IsLines == input.api = "jsonLines"

Responded == IsResponse => Document.json = Ok /\ ResponseShape

Items == IF IsResponse THEN Len(Attestations) ELSE Len(input.texts)

Holders ==
    IF IsResponse THEN {i \in DOMAIN Attestations : InlineIn(Attestations[i]) # {}}
    ELSE {i \in DOMAIN input.texts : input.api # "jsonLines" \/ ~input.texts[i].blank}

ValueAt == [i \in Nat |-> IF IsResponse THEN The(InlineIn(Attestations[i])) ELSE input.texts[i].value]
BundleAt == [i \in Nat |-> The(RawBundle(ValueAt[i]))]

LEMMA ContainerUnmoved ==
    UNCHANGED input =>
        /\ UNCHANGED <<Document, Attestations, Items, Holders, ValueAt, BundleAt, Written>>
        /\ (Acceptable' <=> Acceptable) /\ (Responded' <=> Responded)
        /\ (IsResponse' <=> IsResponse) /\ (IsLines' <=> IsLines)
<1> SUFFICES ASSUME UNCHANGED input
             PROVE  /\ UNCHANGED <<Document, Attestations, Items, Holders, ValueAt, BundleAt, Written>>
                    /\ (Acceptable' <=> Acceptable) /\ (Responded' <=> Responded)
                    /\ (IsResponse' <=> IsResponse) /\ (IsLines' <=> IsLines)
  OBVIOUS
<1>1. UNCHANGED <<Document, Attestations>> /\ (IsResponse' <=> IsResponse) /\ (IsLines' <=> IsLines)
  BY DEF Document, Attestations, IsResponse, IsLines
<1>2. UNCHANGED <<Items, Holders>>
  BY <1>1 DEF Items, Holders
<1>3. UNCHANGED <<ValueAt, BundleAt>>
  BY <1>1 DEF ValueAt, BundleAt
<1>4. UNCHANGED Written
  BY <1>1 DEF Written, Filter
<1>5. ResponseShape' <=> ResponseShape
  BY <1>1 DEF ResponseShape
<1>6. (Acceptable' <=> Acceptable) /\ (Responded' <=> Responded)
  BY <1>1, <1>4, <1>5 DEF Acceptable, Responded
<1>7. QED
  BY <1>1, <1>2, <1>3, <1>4, <1>6

LEMMA ShapeMeans ==
    ResponseShape <=> RawGithubResponse(Document.value) # {}
  BY ResponseMeans DEF ResponseShape, AttestationShape, Attestations

LEMMA HoldersArePositions ==
    ASSUME input \in Inputs, Responded
    PROVE  /\ Items \in Nat
           /\ IsResponse => DOMAIN Attestations = 1..Items
           /\ ~IsResponse => DOMAIN input.texts = 1..Items
           /\ Holders \in SUBSET (1..Items) /\ Holders \in SUBSET Nat /\ IsFiniteSet(Holders)
           /\ Cardinality(Holders) \in 0..Items
<1>1. input.texts \in Seq(Range(input.texts))
  BY BundleSetAssumption DEF BundleSetAssumption
<1>2. ~IsResponse => Items \in Nat /\ DOMAIN input.texts = 1..Items
  BY <1>1, LenProperties DEF Items
<1>3. IsResponse => Items \in Nat /\ DOMAIN Attestations = 1..Items
  <2> SUFFICES ASSUME IsResponse
               PROVE  Items \in Nat /\ DOMAIN Attestations = 1..Items
    OBVIOUS
  <2>1. Document.json = Ok /\ IsStruct(Document.value, 1)
        /\ \E list \in Given(Document.value, 1, "attestations") : Is(list, "arr")
    BY DEF Responded, ResponseShape
  <2>2. PICK list : Given(Document.value, 1, "attestations") = {list}
    BY <2>1, GivenIsOption
  <2>3. Attestations = list.arr
    BY <2>2, TheOne DEF Attestations
  <2>4. list.arr \in Seq(Range(list.arr))
    BY <2>1, <2>2, BundleSetAssumption DEF BundleSetAssumption, IsResponse, Document
  <2>5. QED
    BY <2>3, <2>4, LenProperties DEF Items
<1>4. Items \in Nat /\ Holders \in SUBSET (1..Items)
  BY <1>2, <1>3 DEF Holders
<1> HIDE DEF Holders, Items
<1>5. Holders \in SUBSET Nat /\ IsFiniteSet(Holders)
  BY <1>4, IntervalSubset
<1>6. Cardinality(Holders) \in 0..Items
  <2>1. IsFiniteSet(1..Items) /\ Cardinality(1..Items) = Items
    <3>1. IsFiniteSet(1..Items) /\ Cardinality(1..Items) = IF 1 > Items THEN 0 ELSE Items - 1 + 1
      BY <1>4, FS_Interval
    <3>2. QED
      BY <1>4, <3>1
  <2>2. Cardinality(Holders) <= Items /\ Cardinality(Holders) \in Nat
    BY <1>4, <1>5, <2>1, FS_Subset, FS_CardinalityType
  <2>3. QED
    BY <1>4, <2>2
<1>7. QED
  BY <1>2, <1>3, <1>4, <1>5, <1>6

\* What is written in a container is what its holders hold.
LEMMA WrittenMeans ==
    ASSUME input \in Inputs, Responded
    PROVE  /\ Written = Picked(Holders, ValueAt)
           /\ [i \in DOMAIN Written |-> The(RawBundle(Written[i]))] = Picked(Holders, BundleAt)
<1> DEFINE kept == Ascending(Holders)
           n == Cardinality(Holders)
<1>1. Holders \in SUBSET Nat /\ IsFiniteSet(Holders)
  BY HoldersArePositions
<1>2. n \in Nat /\ kept \in [1..n -> Holders]
  BY <1>1, AscendingProperties
<1>3. Written = [k \in DOMAIN kept |-> IF IsResponse THEN The(InlineIn(Attestations[kept[k]])) ELSE input.texts[kept[k]].value]
  <2>1. CASE IsResponse
    BY <2>1 DEF Written, Filter, IsResponse, Holders
  <2>2. CASE ~IsResponse
    BY <2>2 DEF Written, Filter, IsResponse, Holders
  <2>3. QED
    BY <2>1, <2>2
<1> HIDE DEF kept, n
<1>4. \A k \in 1..n : kept[k] \in Nat
  BY <1>1, <1>2
<1>5. Written = [k \in 1..n |-> ValueAt[kept[k]]]
  BY <1>2, <1>3, <1>4 DEF ValueAt
<1>6. DOMAIN Written = 1..n /\ \A k \in 1..n : Written[k] = ValueAt[kept[k]]
  BY <1>5
<1>7. [i \in DOMAIN Written |-> The(RawBundle(Written[i]))] = [k \in 1..n |-> BundleAt[kept[k]]]
  BY <1>4, <1>6 DEF BundleAt
<1>8. QED
  BY <1>5, <1>7 DEF Picked, kept, n

\* So what makes a container acceptable is said of its holders.
LEMMA AcceptableMeans ==
    ASSUME input \in Inputs, Responded
    PROVE  Acceptable <=>
               /\ input.size <= MaxInputBytes
               /\ \A i \in DOMAIN input.texts : (IsLines /\ input.texts[i].blank) \/ input.texts[i].json = Ok
               /\ IsResponse => Items <= MaxBundlesPerSet
               /\ Holders # {} /\ Cardinality(Holders) <= MaxBundlesPerSet
               /\ \A i \in Holders : BundleFromValue(ValueAt[i]) = Ok
<1> DEFINE n == Cardinality(Holders)
<1>1. Holders \in SUBSET Nat /\ IsFiniteSet(Holders)
  BY HoldersArePositions
<1>2. /\ n \in Nat /\ Ascending(Holders) \in [1..n -> Holders]
      /\ \A i \in Holders : PositionOf(Holders, i) \in 1..n /\ Ascending(Holders)[PositionOf(Holders, i)] = i
  BY <1>1, AscendingProperties
<1>3. /\ DOMAIN Written = 1..n /\ Len(Written) = n
      /\ \A k \in 1..n : Written[k] = ValueAt[Ascending(Holders)[k]]
  <2>1. Written = Picked(Holders, ValueAt)
    BY WrittenMeans
  <2>2. DOMAIN Picked(Holders, ValueAt) = 1..n /\ Len(Picked(Holders, ValueAt)) = n
    BY <1>1, PickedIsSeq
  <2>3. QED
    BY <2>1, <2>2 DEF Picked
<1>4. Written # <<>> <=> Holders # {}
  <2>1. Written \in Seq({ValueAt[i] : i \in Holders})
    BY <1>1, WrittenMeans, PickedIsSeq
  <2>2. Written = <<>> <=> Len(Written) = 0
    BY <2>1, EmptySeq
  <2>3. n = 0 <=> Holders = {}
    BY <1>1, FS_EmptySet
  <2>4. QED
    BY <1>3, <2>2, <2>3
<1> HIDE DEF n
<1>5. (\A k \in DOMAIN Written : BundleFromValue(Written[k]) = Ok)
          <=> (\A i \in Holders : BundleFromValue(ValueAt[i]) = Ok)
  <2>1. ASSUME \A k \in DOMAIN Written : BundleFromValue(Written[k]) = Ok, NEW i \in Holders
        PROVE  BundleFromValue(ValueAt[i]) = Ok
    BY <1>2, <1>3, <2>1
  <2>2. ASSUME \A i \in Holders : BundleFromValue(ValueAt[i]) = Ok, NEW k \in DOMAIN Written
        PROVE  BundleFromValue(Written[k]) = Ok
    BY <1>2, <1>3, <2>2
  <2>3. QED
    BY <2>1, <2>2
<1>6. QED
  BY <1>3, <1>4, <1>5 DEF Acceptable, Responded, IsLines, IsResponse, Items, n

\* The holders that have been read when the next item is the n-th.
Read(n) == {i \in Holders : i < n}

LEMMA ReadStep ==
    ASSUME input \in Inputs, Responded, NEW n \in Nat
    PROVE  /\ Read(n) \in SUBSET Nat /\ IsFiniteSet(Read(n)) /\ \A j \in Read(n) : j < n
           /\ n \in Holders => Read(n + 1) = Read(n) \union {n}
           /\ n \notin Holders => Read(n + 1) = Read(n)
           /\ n > Items => Read(n) = Holders
           /\ Read(1) = {}
<1>1. Items \in Nat /\ Holders \in SUBSET (1..Items) /\ Holders \in SUBSET Nat /\ IsFiniteSet(Holders)
  BY HoldersArePositions
<1>2. Read(n) \in SUBSET Holders
  BY DEF Read
<1>3. Read(n) \in SUBSET Nat /\ IsFiniteSet(Read(n)) /\ \A j \in Read(n) : j < n
  BY <1>1, <1>2, FS_Subset DEF Read
<1>4. \A i \in Holders : i \in Nat /\ 1 <= i /\ i <= Items
  BY <1>1
<1> HIDE DEF Holders, Items
<1>5. \A i \in Holders : i < n + 1 <=> i < n \/ i = n
  BY <1>4
<1>6. (n \in Holders => Read(n + 1) = Read(n) \union {n}) /\ (n \notin Holders => Read(n + 1) = Read(n))
  BY <1>5 DEF Read
<1>7. n > Items => Read(n) = Holders
  <2>1. n > Items => \A i \in Holders : i < n
    BY <1>1, <1>4
  <2>2. QED
    BY <2>1 DEF Read
<1>8. Read(1) = {}
  BY <1>4 DEF Read
<1>9. QED
  BY <1>3, <1>6, <1>7, <1>8

(***************************************************************************)
(* The inductive invariant of the containers: what has been read so far    *)
(* was in order and is what has been collected, in order; and an API       *)
(* response was found to be one before its items are taken.                *)
(***************************************************************************)
ItemsInv ==
    /\ Responded /\ next \in 1..(Items + 1)
    /\ bundles = Picked(Read(next), BundleAt)
    /\ \A i \in Read(next) : BundleFromValue(ValueAt[i]) = Ok
    /\ IsLines => \A i \in DOMAIN input.texts : i < next => input.texts[i].blank \/ input.texts[i].json = Ok
    /\ IsResponse =>
          /\ Items <= MaxBundlesPerSet
          /\ DOMAIN raw = 1..Items /\ Len(raw) = Items
          /\ \A i \in 1..Items : raw[i] \in RawAttestationEntry(Attestations[i])
          /\ entries = [i \in 1..(next - 1) |-> AttestationEntry(raw[i])]

ContainerInv ==
    input.api \in ContainerApis =>
        /\ pc \in {"size", "document"} => bundles = <<>> /\ entries = <<>> /\ next = 1
        /\ pc \in {"document", "items"} => input.size <= MaxInputBytes
        /\ pc = "document" => ~IsLines
        /\ pc = "items" => ItemsInv
        /\ AllOrNothing /\ EntriesInStep

\* The lists of an API response are in step while its items are taken.
LEMMA ItemsAreInStep ==
    ASSUME input \in Inputs, ItemsInv, IsResponse
    PROVE  EntriesInStep
<1> DEFINE K == {i \in DOMAIN entries : entries[i].bundle # {}}
           n == Cardinality(K)
           kept == Ascending(K)
           inline == [k \in DOMAIN kept |-> entries[kept[k]]]
<1>1. /\ Responded /\ next \in Nat /\ next - 1 \in Nat /\ next - 1 <= Items /\ Items \in Nat
      /\ bundles = Picked(Read(next), BundleAt)
      /\ entries = [i \in 1..(next - 1) |-> AttestationEntry(raw[i])]
      /\ \A i \in 1..Items : raw[i] \in RawAttestationEntry(Attestations[i])
      /\ DOMAIN Attestations = 1..Items
  BY HoldersArePositions DEF ItemsInv
<1>2. DOMAIN entries = 1..(next - 1) /\ Len(entries) = next - 1
  <2>1. entries \in [1..(next - 1) -> {AttestationEntry(raw[i]) : i \in 1..(next - 1)}]
    BY <1>1
  <2>2. QED
    BY <1>1, <2>1, FunctionIsSeq
<1>3. ASSUME NEW i \in 1..(next - 1)
      PROVE  /\ i \in 1..Items /\ i < next /\ i \in Nat
             /\ entries[i].bundle = {The(RawBundle(v)) : v \in InlineIn(Attestations[i])}
             /\ {v.str : v \in Given(Attestations[i], 1, "initiator")} = {entries[i].initiator}
  <2>1. i \in 1..Items /\ i < next /\ i \in Nat
    BY <1>1
  <2>2. raw[i] \in RawAttestationEntry(Attestations[i]) /\ entries[i] = AttestationEntry(raw[i])
    BY <1>1, <2>1
  <2>3. /\ raw[i].bundle = InlineIn(Attestations[i])
        /\ {v.str : v \in Given(Attestations[i], 1, "initiator")} = {raw[i].initiator}
    BY <2>2, AttestationMeans
  <2>4. entries[i].bundle = Inline(raw[i]) /\ entries[i].initiator = raw[i].initiator
    BY <2>2 DEF AttestationEntry
  <2>5. QED
    BY <2>1, <2>3, <2>4 DEF Inline
<1>4. K = Read(next)
  <2>1. ASSUME NEW i \in 1..Items
        PROVE  i < next <=> i \in 1..(next - 1)
    BY <1>1
  <2>2. \A i : i \in K <=> i \in 1..(next - 1) /\ InlineIn(Attestations[i]) # {}
    <3>1. \A i \in 1..(next - 1) : entries[i].bundle # {} <=> InlineIn(Attestations[i]) # {}
      BY <1>3
    <3>2. QED
      BY <1>2, <3>1
  <2>3. \A i : i \in Read(next) <=> i \in 1..Items /\ InlineIn(Attestations[i]) # {} /\ i < next
    BY <1>1 DEF Read, Holders
  <2> HIDE DEF K
  <2>4. \A i : i \in K <=> i \in Read(next)
    BY <1>3, <2>1, <2>2, <2>3
  <2>5. QED
    BY <2>4
<1>5. K \in SUBSET Nat /\ IsFiniteSet(K)
  BY <1>1, <1>4, ReadStep
<1>6. \A i \in K : i \in 1..(next - 1) /\ InlineIn(Attestations[i]) # {}
  BY <1>2, <1>3
<1>7. Filter(entries, LAMBDA e : e.bundle # {}) = inline
  BY DEF Filter
<1> HIDE DEF K
<1>8. n \in Nat /\ kept \in [1..n -> K]
  BY <1>5, AscendingProperties
<1> HIDE DEF kept
<1>9. DOMAIN inline = 1..n /\ Len(inline) = n
  <2>1. inline \in [1..n -> {inline[k] : k \in 1..n}]
    BY <1>8
  <2> HIDE DEF n, inline
  <2>2. QED
    BY <1>8, <2>1, FunctionIsSeq
<1>10. Len(bundles) = n /\ \A k \in 1..n : bundles[k] = BundleAt[kept[k]]
  <2>1. bundles = Picked(K, BundleAt)
    BY <1>1, <1>4
  <2>2. Len(bundles) = n
    BY <1>5, <2>1, PickedIsSeq
  <2>3. QED
    BY <2>1, <2>2 DEF Picked, kept
<1>11. ASSUME NEW k \in 1..n
       PROVE  inline[k].bundle = {bundles[k]}
  <2> DEFINE i == kept[k]
  <2>1. i \in K
    BY <1>8
  <2> HIDE DEF i
  <2>2. i \in 1..(next - 1) /\ InlineIn(Attestations[i]) # {} /\ i \in Nat
    BY <1>3, <1>6, <2>1
  <2>3. PICK v : InlineIn(Attestations[i]) = {v}
    BY <2>2, InlineIsOption
  <2>4. ValueAt[i] = v /\ BundleAt[i] = The(RawBundle(v))
    BY <2>2, <2>3, TheOne DEF ValueAt, BundleAt
  <2>5. entries[i].bundle = {The(RawBundle(v))}
    BY <1>3, <2>2, <2>3
  <2>6. inline[k] = entries[i]
    BY <1>9 DEF i
  <2>7. QED
    BY <1>10, <2>4, <2>5, <2>6 DEF i
<1> HIDE DEF inline, n
<1>12. \A i \in DOMAIN entries : {v.str : v \in Given(Attestations[i], 1, "initiator")} = {entries[i].initiator}
  BY <1>2, <1>3
<1>13. QED
  BY <1>2, <1>7, <1>9, <1>10, <1>11, <1>12 DEF EntriesInStep

LEMMA ItemsStayInStep == (input \in Inputs /\ ItemsInv /\ IsResponse => EntriesInStep)'
<1>1. input \in Inputs /\ ItemsInv /\ IsResponse => EntriesInStep
  BY ItemsAreInStep
<1>2. QED
  BY <1>1, PTL

LEMMA NothingIsInStep ==
    ASSUME entries = <<>>, bundles = <<>>, pc # "items"
    PROVE  EntriesInStep
<1> DEFINE K == {i \in DOMAIN entries : entries[i].bundle # {}}
           kept == Ascending(K)
           inline == [k \in DOMAIN kept |-> entries[kept[k]]]
<1>1. K = {}
  OBVIOUS
<1>2. DOMAIN kept = 1..Cardinality(K) /\ Cardinality(K) = 0
  BY <1>1, FS_EmptySet DEF Ascending
<1>3. Filter(entries, LAMBDA e : e.bundle # {}) = inline
  BY DEF Filter
<1> HIDE DEF kept, K
<1>4. inline = <<>>
  BY <1>2
<1>5. QED
  BY <1>3, <1>4 DEF EntriesInStep

\* A parser that returns, and collects nothing more, keeps its lists in step.
InlineEntries == Filter(entries, LAMBDA e : e.bundle # {})

LEMMA DoneInStep ==
    ASSUME EntriesInStep, UNCHANGED <<input, entries, bundles>>, pc' # "items"
    PROVE  EntriesInStep'
<1>1. InlineEntries' = InlineEntries
  BY DEF InlineEntries, Filter
<1>2. input.api = "githubResponse" =>
          /\ \A i \in DOMAIN InlineEntries : InlineEntries[i].bundle = {bundles[i]}
          /\ Len(bundles) = Len(InlineEntries)
  BY DEF EntriesInStep, InlineEntries
<1>3. EntriesInStep' <=>
          (input'.api = "githubResponse" =>
              /\ \A i \in DOMAIN InlineEntries' : InlineEntries'[i].bundle = {bundles'[i]}
              /\ Len(bundles') = Len(InlineEntries'))
  BY DEF EntriesInStep, InlineEntries
<1>4. QED
  BY <1>1, <1>2, <1>3

\* Whether the whole container is acceptable, when all of it was read.
LEMMA AllRead ==
    ASSUME input \in Inputs, ItemsInv, input.size <= MaxInputBytes, IsLines \/ IsResponse, next > Items
    PROVE  /\ bundles = [i \in DOMAIN Written |-> The(RawBundle(Written[i]))]
           /\ Len(bundles) = Cardinality(Holders)
           /\ bundles # <<>> <=> Holders # {}
           /\ Acceptable <=> Holders # {} /\ Cardinality(Holders) <= MaxBundlesPerSet
           /\ IsResponse => Cardinality(Holders) <= MaxBundlesPerSet
<1>1. Responded /\ next \in Nat /\ Items \in Nat
      /\ Holders \in SUBSET Nat /\ IsFiniteSet(Holders) /\ Cardinality(Holders) \in 0..Items
      /\ (~IsResponse => DOMAIN input.texts = 1..Items)
  BY HoldersArePositions DEF ItemsInv
<1>2. Read(next) = Holders
  BY <1>1, ReadStep
<1>3. bundles = Picked(Holders, BundleAt) /\ \A i \in Holders : BundleFromValue(ValueAt[i]) = Ok
  BY <1>2 DEF ItemsInv
<1>4. bundles = [i \in DOMAIN Written |-> The(RawBundle(Written[i]))]
  BY <1>1, <1>3, WrittenMeans
<1>5. Len(bundles) = Cardinality(Holders) /\ bundles \in Seq({BundleAt[i] : i \in Holders})
  BY <1>1, <1>3, PickedIsSeq
<1>6. bundles # <<>> <=> Holders # {}
  <2>1. bundles = <<>> <=> Len(bundles) = 0
    BY <1>5, EmptySeq
  <2>2. Cardinality(Holders) = 0 <=> Holders = {}
    BY <1>1, FS_EmptySet
  <2>3. QED
    BY <1>5, <2>1, <2>2
<1>7. \A i \in DOMAIN input.texts : (IsLines /\ input.texts[i].blank) \/ input.texts[i].json = Ok
  <2>1. CASE IsLines
    <3>1. ~IsResponse
      BY <2>1 DEF IsLines, IsResponse
    <3>2. \A i \in DOMAIN input.texts : i < next
      BY <1>1, <3>1
    <3>3. QED
      BY <2>1, <3>2 DEF ItemsInv
  <2>2. CASE IsResponse
    <3>1. input.texts \in Seq(Range(input.texts)) /\ Len(input.texts) = 1
      BY <2>2, BundleSetAssumption DEF BundleSetAssumption, IsResponse
    <3>2. \A i \in DOMAIN input.texts : i = 1
      BY <3>1, LenProperties
    <3>3. QED
      BY <1>1, <2>2, <3>2 DEF Responded, Document
  <2>3. QED
    BY <2>1, <2>2
<1>8. IsResponse => Items <= MaxBundlesPerSet
  BY DEF ItemsInv
<1>9. Acceptable <=> Holders # {} /\ Cardinality(Holders) <= MaxBundlesPerSet
  BY <1>1, <1>3, <1>7, <1>8, AcceptableMeans
<1>10. IsResponse => Cardinality(Holders) <= MaxBundlesPerSet
  BY <1>1, <1>8, BundleSetAssumption DEF BundleSetAssumption
<1>11. QED
  BY <1>4, <1>5, <1>6, <1>9, <1>10

\* Nothing has been read before the first item.
LEMMA NothingRead ==
    ASSUME input \in Inputs, Responded
    PROVE  /\ Picked(Read(1), BundleAt) = <<>> /\ Read(1) = {} /\ 1 \in 1..(Items + 1)
           /\ ~IsResponse => \A i \in DOMAIN input.texts : ~(i < 1)
<1>1. Read(1) = {}
  BY ReadStep
<1>2. Items \in Nat /\ (~IsResponse => DOMAIN input.texts = 1..Items)
  BY HoldersArePositions
<1>3. QED
  BY <1>1, <1>2, PickedNone

LEMMA CheckInputSizeKeepsContainerInv ==
    ASSUME PlaceInv, ContainerInv, CheckInputSize, input.api \in ContainerApis
    PROVE  ContainerInv'
<1> DEFINE outcome == Check(input.size <= MaxInputBytes, "InputTooLarge")
           place == IF IsLines THEN "items" ELSE "document"
<1>1. /\ Try(outcome, place) /\ result = "Pending" /\ pc = "size" /\ UNCHANGED <<input, next, raw, bundles, entries>>
      /\ input \in Inputs /\ bundles = <<>> /\ entries = <<>> /\ next = 1
  BY DEF CheckInputSize, PlaceInv, ContainerInv, IsLines
<1>2. /\ outcome = Ok => input.size <= MaxInputBytes
      /\ outcome # Ok => ~(input.size <= MaxInputBytes)
  BY DEF Check, Ok
<1> HIDE DEF outcome
<1>3. /\ UNCHANGED <<Document, Attestations, Items, Holders, ValueAt, BundleAt, Written>>
      /\ (Acceptable' <=> Acceptable) /\ (Responded' <=> Responded)
      /\ (IsResponse' <=> IsResponse) /\ (IsLines' <=> IsLines)
  BY <1>1, ContainerUnmoved
<1>4. CASE outcome = Ok /\ pc' = place /\ result' = "Pending"
  <2>1. AllOrNothing'
    BY <1>4 DEF AllOrNothing, Ok
  <2>2. CASE IsLines
    <3>1. Responded /\ ~IsResponse /\ ~IsResponse'
      BY <1>3, <2>2 DEF Responded, IsLines, IsResponse
    <3>2. ItemsInv
      BY <1>1, <3>1, NothingRead DEF ItemsInv
    <3>3. ItemsInv'
      BY <1>1, <1>3, <3>1, <3>2 DEF ItemsInv, Read
    <3>4. EntriesInStep'
      BY <3>1 DEF EntriesInStep, IsResponse
    <3>5. QED
      BY <1>1, <1>2, <1>4, <2>1, <2>2, <3>3, <3>4 DEF ContainerInv
  <2>3. CASE ~IsLines
    <3>1. EntriesInStep'
      <4>1. EntriesInStep
        BY DEF ContainerInv
      <4>2. QED
        BY <1>1, <1>4, <2>3, <4>1, DoneInStep
    <3>2. QED
      BY <1>1, <1>2, <1>3, <1>4, <2>1, <2>3, <3>1 DEF ContainerInv
  <2>4. QED
    BY <2>2, <2>3
<1>5. CASE outcome # Ok /\ pc' = "done" /\ result' = outcome
  <2>1. ~Acceptable
    BY <1>2, <1>5 DEF Acceptable
  <2>2. AllOrNothing'
    BY <1>3, <1>5, <2>1 DEF AllOrNothing
  <2>3. EntriesInStep'
    BY <1>1, <1>5, DoneInStep DEF ContainerInv
  <2>4. QED
    BY <1>5, <2>2, <2>3 DEF ContainerInv
<1>6. QED
  BY <1>1, <1>4, <1>5, TryMeans

LEMMA ParseBundleKeepsContainerInv ==
    ASSUME PlaceInv, ContainerInv, ParseBundle
    PROVE  ContainerInv'
<1> DEFINE outcome == BundleFromText(Document)
<1>1. /\ pc = "document" /\ input.api = "bundle" /\ pc' = "done" /\ result' = outcome
      /\ bundles' = IF outcome = Ok THEN << The(RawBundle(Document.value)) >> ELSE bundles
      /\ UNCHANGED <<input, next, raw, entries>> /\ input \in Inputs
      /\ input.size <= MaxInputBytes
  BY DEF ParseBundle, Return, PlaceInv, ContainerInv, ContainerApis
<1>2. Responded /\ ~IsResponse /\ ~IsLines
  BY <1>1 DEF Responded, IsResponse, IsLines
<1>3. (Acceptable' <=> Acceptable) /\ UNCHANGED Written
  BY <1>1, ContainerUnmoved
<1>4. DOMAIN input.texts = {1}
  <2>1. input.texts \in Seq(Range(input.texts)) /\ Len(input.texts) = 1
    BY <1>1, BundleSetAssumption DEF BundleSetAssumption
  <2>2. QED
    BY <2>1, LenProperties
<1>5. Holders = {1} /\ Holders = {} \union {1} /\ ValueAt[1] = Document.value
      /\ BundleAt[1] = The(RawBundle(Document.value))
  BY <1>1, <1>2, <1>4 DEF Holders, ValueAt, BundleAt, Document
<1>6. Cardinality(Holders) = 1
  BY <1>5, FS_Singleton
<1>7. Picked(Holders, BundleAt) = << The(RawBundle(Document.value)) >>
  <2>1. Picked({} \union {1}, BundleAt) = <<>> \o << BundleAt[1] >>
    <3>1. {} \in SUBSET Nat /\ IsFiniteSet({}) /\ \A j \in {} : j < 1
      BY FS_EmptySet
    <3>2. Picked({} \union {1}, BundleAt) = Picked({}, BundleAt) \o << BundleAt[1] >>
      BY <3>1, PickedGrows
    <3>3. QED
      BY <3>2, PickedNone
  <2>2. <<>> \o << BundleAt[1] >> = << BundleAt[1] >>
    OBVIOUS
  <2>3. QED
    BY <1>5, <2>1, <2>2
<1>8. Acceptable <=> outcome = Ok
  <2>1. Acceptable <=> Document.json = Ok /\ BundleFromValue(Document.value) = Ok
    <3>1. 1 <= MaxBundlesPerSet
      BY BundleSetAssumption DEF BundleSetAssumption
    <3>2. QED
      BY <1>1, <1>2, <1>4, <1>5, <1>6, <3>1, AcceptableMeans DEF Document
  <2>2. QED
    BY <2>1 DEF BundleFromText
<1>9. outcome = Ok => bundles' = [i \in DOMAIN Written |-> The(RawBundle(Written[i]))]
  BY <1>1, <1>2, <1>7, WrittenMeans
<1> HIDE DEF outcome
<1>10. AllOrNothing'
  BY <1>1, <1>3, <1>8, <1>9 DEF AllOrNothing
<1>11. EntriesInStep'
  BY <1>1 DEF EntriesInStep
<1>12. QED
  BY <1>1, <1>10, <1>11 DEF ContainerInv

LEMMA ParseResponseKeepsContainerInv ==
    ASSUME PlaceInv, ContainerInv, ParseResponse
    PROVE  ContainerInv'
<1> DEFINE response == IF Document.json = Ok THEN RawGithubResponse(Document.value) ELSE {}
           attestations == IF response = {} THEN <<>> ELSE The(response).attestations
           a == Document.json
           b == Check(response # {}, "Json")
           c == Check(attestations # <<>>, "EmptyContainer")
           d == Check(Len(attestations) <= MaxBundlesPerSet, "TooManyBundles")
           outcome == FirstError(<<a, b, c, d>>)
<1>1. /\ pc = "document" /\ IsResponse /\ ~IsLines /\ Try(outcome, "items") /\ raw' = attestations
      /\ UNCHANGED <<input, next, bundles, entries>> /\ input \in Inputs /\ result = "Pending"
      /\ input.size <= MaxInputBytes /\ bundles = <<>> /\ entries = <<>> /\ next = 1
      /\ EntriesInStep /\ input.api \in ContainerApis
  BY DEF ParseResponse, PlaceInv, ContainerInv, ContainerApis, IsResponse, IsLines
<1>2. /\ a = Ok /\ b = Ok => Responded /\ response = RawGithubResponse(Document.value) /\ response # {}
      /\ ~(a = Ok /\ b = Ok) => ~Responded
  BY <1>1, ShapeMeans DEF Responded, Check, Ok
<1>3. ASSUME Responded, response = RawGithubResponse(Document.value), response # {}
      PROVE  /\ Items \in Nat /\ DOMAIN attestations = 1..Items /\ Len(attestations) = Items
             /\ \A i \in 1..Items : attestations[i] \in RawAttestationEntry(Attestations[i])
             /\ attestations = <<>> => Items = 0
  <2>1. Items \in Nat /\ DOMAIN Attestations = 1..Items
    BY <1>1, <1>3, HoldersArePositions
  <2>2. /\ DOMAIN attestations = 1..Items
        /\ \A i \in 1..Items : attestations[i] \in RawAttestationEntry(Attestations[i])
    BY <1>3, <2>1, ResponseMeans DEF Attestations
  <2> DEFINE S == UNION {RawAttestationEntry(Attestations[i]) : i \in 1..Items}
  <2>3. attestations = [i \in 1..Items |-> attestations[i]]
    <3>1. RawGithubResponse(Document.value) # {}
      BY <1>3
    <3>2. \E lst : attestations \in Vec(lst, RawAttestationEntry)
      <4>1. The(response) \in [attestations : Field(Document.value, 1, "attestations", RawAttestations)]
        BY <1>3, TheOne DEF RawGithubResponse, Struct
      <4>2. attestations \in Field(Document.value, 1, "attestations", RawAttestations)
        BY <1>3, <4>1
      <4>3. QED
        BY <4>2 DEF Field, RawAttestations
    <3>3. PICK lst : attestations = [i \in DOMAIN lst.arr |-> The(RawAttestationEntry(lst.arr[i]))]
      BY <3>2 DEF Vec
    <3> HIDE DEF attestations
    <3>4. QED
      BY <2>2, <3>3
  <2> HIDE DEF attestations
  <2>4. attestations \in [1..Items -> S]
    BY <2>2, <2>3
  <2> HIDE DEF S
  <2>5. Len(attestations) = Items
    BY <2>1, <2>4, FunctionIsSeq
  <2>6. attestations = <<>> => Items = 0
    BY <2>5
  <2>7. QED
    BY <2>1, <2>2, <2>5, <2>6
<1>4. /\ c = Ok <=> attestations # <<>>
      /\ d = Ok <=> Len(attestations) <= MaxBundlesPerSet
  BY DEF Check, Ok
<1> HIDE DEF a, b, c, d, attestations, response
<1>5. outcome = Ok <=> a = Ok /\ b = Ok /\ c = Ok /\ d = Ok
  BY FirstError4
<1> HIDE DEF outcome
<1>6. /\ UNCHANGED <<Document, Attestations, Items, Holders, ValueAt, BundleAt, Written>>
      /\ (Acceptable' <=> Acceptable) /\ (Responded' <=> Responded)
      /\ (IsResponse' <=> IsResponse) /\ (IsLines' <=> IsLines)
  BY <1>1, ContainerUnmoved
<1>7. CASE outcome = Ok /\ pc' = "items" /\ result' = "Pending"
  <2>1. Responded /\ Items <= MaxBundlesPerSet /\ Items \in Nat
        /\ DOMAIN attestations = 1..Items /\ Len(attestations) = Items
        /\ \A i \in 1..Items : attestations[i] \in RawAttestationEntry(Attestations[i])
    BY <1>2, <1>3, <1>4, <1>5, <1>7
  <2>2. Picked(Read(1), BundleAt) = <<>> /\ Read(1) = {} /\ 1 \in 1..(Items + 1)
    BY <1>1, <2>1, NothingRead
  <2>3. entries' = [i \in 1..(next' - 1) |-> AttestationEntry(raw'[i])]
    BY <1>1
  <2>4. ItemsInv'
    BY <1>1, <1>6, <2>1, <2>2, <2>3 DEF ItemsInv, Read
  <2>5. EntriesInStep'
    BY <1>1, <1>6, <2>4, ItemsStayInStep
  <2>6. AllOrNothing'
    BY <1>7 DEF AllOrNothing, Ok
  <2>7. QED
    BY <1>1, <1>7, <2>4, <2>5, <2>6 DEF ContainerInv
<1>8. CASE outcome # Ok /\ pc' = "done" /\ result' = outcome
  <2>1. ~Acceptable
    <3>1. CASE ~(a = Ok /\ b = Ok)
      <4>1. ~Responded
        BY <1>2, <3>1
      <4>2. Acceptable => ResponseShape
        BY <1>1 DEF Acceptable, IsResponse
      <4>3. Acceptable => Document.json = Ok
        <5>1. 1 \in DOMAIN input.texts
          <6>1. input.texts \in Seq(Range(input.texts)) /\ Len(input.texts) = 1
            BY <1>1, BundleSetAssumption DEF BundleSetAssumption, IsResponse
          <6>2. QED
            BY <6>1, LenProperties
        <5>2. QED
          BY <1>1, <5>1 DEF Acceptable, IsResponse, Document
      <4>4. QED
        BY <4>1, <4>2, <4>3 DEF Responded
    <3>2. CASE a = Ok /\ b = Ok
      <4>1. Responded /\ Items \in Nat /\ Len(attestations) = Items /\ (attestations = <<>> => Items = 0)
        BY <1>2, <1>3, <3>2
      <4>2. Items = 0 \/ ~(Items <= MaxBundlesPerSet)
        BY <1>4, <1>5, <1>8, <3>2, <4>1
      <4>3. Items = 0 => Holders = {}
        BY <1>1, <4>1, HoldersArePositions
      <4>4. QED
        BY <1>1, <4>1, <4>2, <4>3, AcceptableMeans
    <3>3. QED
      BY <3>1, <3>2
  <2>2. AllOrNothing'
    BY <1>6, <1>8, <2>1 DEF AllOrNothing
  <2>3. EntriesInStep'
    BY <1>1, <1>8, DoneInStep
  <2>4. QED
    BY <1>8, <2>2, <2>3 DEF ContainerInv
<1>9. QED
  BY <1>1, <1>7, <1>8, TryMeans

LEMMA SkipBlankLineKeepsContainerInv ==
    ASSUME PlaceInv, ContainerInv, SkipBlankLine
    PROVE  ContainerInv'
<1>1. /\ pc = "items" /\ IsLines /\ ~IsResponse /\ next <= Len(input.texts) /\ input.texts[next].blank
      /\ next' = next + 1 /\ UNCHANGED <<input, pc, raw, bundles, entries, result>>
      /\ input \in Inputs /\ result = "Pending" /\ input.api \in ContainerApis /\ ItemsInv /\ input.size <= MaxInputBytes
  BY DEF SkipBlankLine, PlaceInv, ContainerInv, ContainerApis, IsLines, IsResponse
<1>2. /\ UNCHANGED <<Document, Attestations, Items, Holders, ValueAt, BundleAt, Written>>
      /\ (Acceptable' <=> Acceptable) /\ (Responded' <=> Responded)
      /\ (IsResponse' <=> IsResponse) /\ (IsLines' <=> IsLines)
  BY <1>1, ContainerUnmoved
<1>3. Responded /\ next \in Nat /\ Items \in Nat /\ Items = Len(input.texts) /\ DOMAIN input.texts = 1..Items
  BY <1>1, HoldersArePositions DEF ItemsInv, Items
<1>4. next + 1 \in 1..(Items + 1)
  BY <1>1, <1>3
<1>5. next \notin Holders
  BY <1>1 DEF Holders, IsLines
<1>6. Read(next + 1) = Read(next)
  BY <1>1, <1>3, <1>5, ReadStep
<1>7. \A i \in DOMAIN input.texts : i < next + 1 => input.texts[i].blank \/ input.texts[i].json = Ok
  <2>1. \A i \in DOMAIN input.texts : i < next + 1 => i < next \/ i = next
    BY <1>3
  <2>2. QED
    BY <1>1, <2>1 DEF ItemsInv
<1>8. ItemsInv'
  BY <1>1, <1>2, <1>3, <1>4, <1>6, <1>7 DEF ItemsInv, Read
<1>9. AllOrNothing' /\ EntriesInStep'
  BY <1>1, <1>2 DEF AllOrNothing, EntriesInStep, IsResponse, Ok
<1>10. QED
  BY <1>1, <1>8, <1>9 DEF ContainerInv

LEMMA TakeLineKeepsContainerInv ==
    ASSUME PlaceInv, ContainerInv, TakeLine
    PROVE  ContainerInv'
<1> DEFINE outcome == BundleFromText(input.texts[next])
<1>1. /\ pc = "items" /\ IsLines /\ ~IsResponse /\ next <= Len(input.texts) /\ ~input.texts[next].blank
      /\ Try(outcome, "items")
      /\ bundles' = IF outcome = Ok THEN Append(bundles, The(RawBundle(input.texts[next].value))) ELSE bundles
      /\ next' = next + 1 /\ UNCHANGED <<input, raw, entries>>
      /\ input \in Inputs /\ result = "Pending" /\ input.api \in ContainerApis /\ ItemsInv /\ input.size <= MaxInputBytes
  BY DEF TakeLine, PlaceInv, ContainerInv, ContainerApis, IsLines, IsResponse
<1>2. /\ UNCHANGED <<Document, Attestations, Items, Holders, ValueAt, BundleAt, Written>>
      /\ (Acceptable' <=> Acceptable) /\ (Responded' <=> Responded)
      /\ (IsResponse' <=> IsResponse) /\ (IsLines' <=> IsLines)
  BY <1>1, ContainerUnmoved
<1>3. Responded /\ next \in Nat /\ Items \in Nat /\ Items = Len(input.texts) /\ DOMAIN input.texts = 1..Items
      /\ next \in 1..Items
  BY <1>1, HoldersArePositions DEF ItemsInv, Items
<1>4. next + 1 \in 1..(Items + 1)
  BY <1>1, <1>3
<1>5. next \in Holders /\ ValueAt[next] = input.texts[next].value
      /\ BundleAt[next] = The(RawBundle(input.texts[next].value))
  BY <1>1, <1>3 DEF Holders, ValueAt, BundleAt
<1>6. outcome = Ok <=> input.texts[next].json = Ok /\ BundleFromValue(ValueAt[next]) = Ok
  BY <1>5 DEF BundleFromText
<1> HIDE DEF outcome
<1>7. EntriesInStep'
  BY <1>1, <1>2 DEF EntriesInStep, IsResponse
<1>8. CASE outcome = Ok /\ pc' = "items" /\ result' = "Pending"
  <2>1. Read(next + 1) = Read(next) \union {next}
    BY <1>1, <1>3, <1>5, ReadStep
  <2>2. Read(next) \in SUBSET Nat /\ IsFiniteSet(Read(next)) /\ \A j \in Read(next) : j < next
    BY <1>1, <1>3, ReadStep
  <2>3. Picked(Read(next) \union {next}, BundleAt) = Append(Picked(Read(next), BundleAt), BundleAt[next])
    BY <1>3, <2>2, PickedGrows
  <2>4. bundles' = Picked(Read(next + 1), BundleAt)
    BY <1>1, <1>5, <1>8, <2>1, <2>3 DEF ItemsInv
  <2>5. \A i \in Read(next + 1) : BundleFromValue(ValueAt[i]) = Ok
    BY <1>1, <1>6, <1>8, <2>1 DEF ItemsInv
  <2>6. \A i \in DOMAIN input.texts : i < next + 1 => input.texts[i].blank \/ input.texts[i].json = Ok
    <3>1. \A i \in DOMAIN input.texts : i < next + 1 => i < next \/ i = next
      BY <1>3
    <3>2. QED
      BY <1>1, <1>6, <1>8, <3>1 DEF ItemsInv
  <2>7. ItemsInv'
    BY <1>1, <1>2, <1>3, <1>4, <2>4, <2>5, <2>6 DEF ItemsInv, Read
  <2>8. AllOrNothing'
    BY <1>8 DEF AllOrNothing, Ok
  <2>9. QED
    BY <1>1, <1>7, <1>8, <2>7, <2>8 DEF ContainerInv
<1>9. CASE outcome # Ok /\ pc' = "done" /\ result' = outcome
  <2>1. ~Acceptable
    BY <1>1, <1>3, <1>5, <1>6, <1>9, AcceptableMeans
  <2>2. AllOrNothing'
    BY <1>2, <1>9, <2>1 DEF AllOrNothing
  <2>3. QED
    BY <1>7, <1>9, <2>2 DEF ContainerInv
<1>10. QED
  BY <1>1, <1>8, <1>9, TryMeans

LEMMA EndOfLinesKeepsContainerInv ==
    ASSUME PlaceInv, ContainerInv, EndOfLines
    PROVE  ContainerInv'
<1> DEFINE a == Check(bundles # <<>>, "EmptyContainer")
           b == Check(Len(bundles) <= MaxBundlesPerSet, "TooManyBundles")
           outcome == FirstError(<<a, b>>)
<1>1. /\ pc = "items" /\ IsLines /\ ~IsResponse /\ next > Items /\ pc' = "done" /\ result' = outcome
      /\ UNCHANGED <<input, next, raw, bundles, entries>>
      /\ input \in Inputs /\ input.api \in ContainerApis /\ ItemsInv /\ input.size <= MaxInputBytes
  BY DEF EndOfLines, Return, PlaceInv, ContainerInv, ContainerApis, IsLines, IsResponse, Items
<1>2. UNCHANGED Written /\ (Acceptable' <=> Acceptable) /\ (IsResponse' <=> IsResponse)
  BY <1>1, ContainerUnmoved
<1>3. /\ a = Ok <=> bundles # <<>>
      /\ b = Ok <=> Len(bundles) <= MaxBundlesPerSet
  BY DEF Check, Ok
<1> HIDE DEF a, b
<1>4. outcome = Ok <=> a = Ok /\ b = Ok
  BY FirstError2
<1> HIDE DEF outcome
<1>5. /\ bundles = [i \in DOMAIN Written |-> The(RawBundle(Written[i]))]
      /\ Acceptable <=> outcome = Ok
  BY <1>1, <1>3, <1>4, AllRead
<1>6. AllOrNothing'
  BY <1>1, <1>2, <1>5 DEF AllOrNothing
<1>7. EntriesInStep'
  BY <1>1, <1>2 DEF EntriesInStep, IsResponse
<1>8. QED
  BY <1>1, <1>6, <1>7 DEF ContainerInv

LEMMA EndOfAttestationsKeepsContainerInv ==
    ASSUME PlaceInv, ContainerInv, EndOfAttestations
    PROVE  ContainerInv'
<1> DEFINE outcome == Check(bundles # <<>>, "BundlesNotInline")
<1>1. /\ pc = "items" /\ IsResponse /\ next > Len(raw) /\ pc' = "done" /\ result' = outcome
      /\ UNCHANGED <<input, next, raw, bundles, entries>>
      /\ input \in Inputs /\ input.api \in ContainerApis /\ ItemsInv /\ input.size <= MaxInputBytes /\ EntriesInStep
  BY DEF EndOfAttestations, Return, PlaceInv, ContainerInv, ContainerApis, IsResponse
<1>2. UNCHANGED Written /\ (Acceptable' <=> Acceptable)
  BY <1>1, ContainerUnmoved
<1>3. outcome = Ok <=> bundles # <<>>
  BY DEF Check, Ok
<1> HIDE DEF outcome
<1>4. next > Items
  BY <1>1 DEF ItemsInv
<1>5. /\ bundles = [i \in DOMAIN Written |-> The(RawBundle(Written[i]))]
      /\ Acceptable <=> outcome = Ok
  BY <1>1, <1>3, <1>4, AllRead
<1>6. AllOrNothing'
  BY <1>1, <1>2, <1>5 DEF AllOrNothing
<1>7. EntriesInStep'
  BY <1>1, DoneInStep
<1>8. QED
  BY <1>1, <1>6, <1>7 DEF ContainerInv

\* What an attestation does: nothing if it holds no bundle, and else what that one does.
LEMMA AttestationTaken ==
    ASSUME input \in Inputs, ItemsInv, IsResponse, next \in 1..Items
    PROVE  /\ next \notin Holders =>
                 /\ FirstError(Outcomes(BundleFromValue, raw[next].bundle)) = Ok
                 /\ SetToSeq(Inline(raw[next])) = <<>>
           /\ next \in Holders =>
                 /\ FirstError(Outcomes(BundleFromValue, raw[next].bundle)) = BundleFromValue(ValueAt[next])
                 /\ SetToSeq(Inline(raw[next])) = << BundleAt[next] >>
<1>1. /\ DOMAIN Attestations = 1..Items /\ next \in Nat
      /\ raw[next].bundle = InlineIn(Attestations[next])
  <2>1. Responded /\ raw[next] \in RawAttestationEntry(Attestations[next]) /\ Items \in Nat
    BY HoldersArePositions DEF ItemsInv
  <2>2. QED
    BY <2>1, HoldersArePositions, AttestationMeans
<1>2. next \in Holders <=> raw[next].bundle # {}
  BY <1>1 DEF Holders
<1>3. CASE raw[next].bundle = {}
  <2>1. Outcomes(BundleFromValue, raw[next].bundle) = <<>> /\ SetToSeq(Inline(raw[next])) = <<>>
    BY <1>3, SetToSeqOfOption DEF Outcomes, Inline
  <2>2. FirstError(<<>>) = Ok
    BY DEF FirstError
  <2>3. QED
    BY <1>2, <1>3, <2>1, <2>2
<1>4. CASE raw[next].bundle # {}
  <2>1. PICK v : raw[next].bundle = {v}
    BY <1>1, <1>4, InlineIsOption
  <2>2. ValueAt[next] = v /\ BundleAt[next] = The(RawBundle(v))
    BY <1>1, <2>1, TheOne DEF ValueAt, BundleAt
  <2>3. Outcomes(BundleFromValue, raw[next].bundle) = << BundleFromValue(v) >>
    <3>1. {BundleFromValue(w) : w \in raw[next].bundle} = {BundleFromValue(v)}
      BY <2>1
    <3>2. QED
      BY <3>1, SetToSeqOfOption DEF Outcomes
  <2>4. SetToSeq(Inline(raw[next])) = << The(RawBundle(v)) >>
    <3>1. Inline(raw[next]) = {The(RawBundle(v))}
      BY <2>1 DEF Inline
    <3>2. QED
      BY <3>1, SetToSeqOfOption
  <2> DEFINE x == BundleFromValue(v)
             s == << x >>
  <2> HIDE DEF x
  <2>5. DOMAIN s \subseteq Nat /\ \A i \in DOMAIN s : s[i] = x
    OBVIOUS
  <2>6. 1 \in DOMAIN s
    OBVIOUS
  <2>7. FirstError(s) = x
    <3>1. (FirstError(s) = Ok <=> x = Ok) /\ (FirstError(s) # Ok => \E i \in DOMAIN s : FirstError(s) = s[i])
      BY <2>5, <2>6, FirstErrorIff
    <3>2. QED
      BY <2>5, <3>1
  <2>8. QED
    BY <1>2, <1>4, <2>2, <2>3, <2>4, <2>7 DEF x
<1>5. QED
  BY <1>3, <1>4

LEMMA TakeAttestationKeepsContainerInv ==
    ASSUME PlaceInv, ContainerInv, TakeAttestation
    PROVE  ContainerInv'
<1> DEFINE outcome == FirstError(Outcomes(BundleFromValue, raw[next].bundle))
           inline == SetToSeq(Inline(raw[next]))
           entry == AttestationEntry(raw[next])
<1>1. /\ pc = "items" /\ IsResponse /\ ~IsLines /\ next <= Len(raw) /\ Try(outcome, "items")
      /\ bundles' = IF outcome = Ok THEN bundles \o inline ELSE bundles
      /\ entries' = IF outcome = Ok THEN Append(entries, entry) ELSE entries
      /\ next' = next + 1 /\ UNCHANGED <<input, raw>>
      /\ input \in Inputs /\ result = "Pending" /\ input.api \in ContainerApis /\ ItemsInv /\ input.size <= MaxInputBytes
      /\ EntriesInStep
  BY DEF TakeAttestation, PlaceInv, ContainerInv, ContainerApis, IsLines, IsResponse
<1>2. /\ UNCHANGED <<Document, Attestations, Items, Holders, ValueAt, BundleAt, Written>>
      /\ (Acceptable' <=> Acceptable) /\ (Responded' <=> Responded)
      /\ (IsResponse' <=> IsResponse) /\ (IsLines' <=> IsLines)
  BY <1>1, ContainerUnmoved
<1>3. /\ Responded /\ next \in Nat /\ next - 1 \in Nat /\ Items \in Nat /\ next \in 1..Items
      /\ next + 1 \in 1..(Items + 1) /\ next + 1 - 1 = next
  BY <1>1, HoldersArePositions DEF ItemsInv
<1>4. /\ next \notin Holders => outcome = Ok /\ inline = <<>>
      /\ next \in Holders => outcome = BundleFromValue(ValueAt[next]) /\ inline = << BundleAt[next] >>
  BY <1>1, <1>3, AttestationTaken
<1> HIDE DEF outcome, inline, entry
<1>5. CASE outcome = Ok /\ pc' = "items" /\ result' = "Pending"
  <2>1. Read(next) \in SUBSET Nat /\ IsFiniteSet(Read(next)) /\ \A j \in Read(next) : j < next
    BY <1>1, <1>3, ReadStep
  <2>2. bundles' = Picked(Read(next + 1), BundleAt) /\ \A i \in Read(next + 1) : BundleFromValue(ValueAt[i]) = Ok
    <3>1. CASE next \in Holders
      <4>1. Read(next + 1) = Read(next) \union {next}
        BY <1>1, <1>3, <3>1, ReadStep
      <4>2. Picked(Read(next) \union {next}, BundleAt) = Picked(Read(next), BundleAt) \o << BundleAt[next] >>
        BY <1>3, <2>1, PickedGrows
      <4>3. QED
        BY <1>1, <1>4, <1>5, <3>1, <4>1, <4>2 DEF ItemsInv
    <3>2. CASE next \notin Holders
      <4>1. Read(next + 1) = Read(next)
        BY <1>1, <1>3, <3>2, ReadStep
      <4>2. bundles \in Seq({BundleAt[i] : i \in Read(next)})
        BY <1>1, <2>1, PickedIsSeq DEF ItemsInv
      <4>3. bundles \o <<>> = bundles
        BY <4>2, ConcatEmptySeq
      <4>4. QED
        BY <1>1, <1>4, <1>5, <3>2, <4>1, <4>3 DEF ItemsInv
    <3>3. QED
      BY <3>1, <3>2
  <2>3. entries' = [i \in 1..(next' - 1) |-> AttestationEntry(raw'[i])]
    <3> DEFINE n == next - 1
               V == {AttestationEntry(raw[i]) : i \in 1..next}
               grown == [i \in 1..next |-> AttestationEntry(raw[i])]
    <3>1. entries = [i \in 1..n |-> AttestationEntry(raw[i])]
      BY <1>1 DEF ItemsInv
    <3>2. n \in Nat /\ n + 1 = next /\ 1..n \subseteq 1..next
      BY <1>3
    <3>3. entries \in [1..n -> V] /\ grown \in [1..next -> V] /\ entry \in V
      BY <1>3, <3>1, <3>2 DEF entry
    <3>4. \A i \in 1..n : entries[i] = grown[i]
      BY <3>1, <3>2
    <3>5. grown[next] = entry
      BY <1>3 DEF entry
    <3> HIDE DEF n, V, grown
    <3>6. entries \in Seq(V) /\ Len(entries) = n
      BY <3>2, <3>3, FunctionIsSeq
    <3>7. grown \in Seq(V) /\ Len(grown) = next
      BY <1>3, <3>3, FunctionIsSeq
    <3> DEFINE longer == Append(entries, entry)
    <3>8. /\ longer \in Seq(V) /\ Len(longer) = n + 1
          /\ \A i \in 1..n : longer[i] = entries[i]
          /\ longer[n + 1] = entry
      BY <3>3, <3>6, AppendProperties
    <3>9. \A i \in 1..next : i \in 1..n \/ i = next
      BY <1>3, <3>2
    <3> HIDE DEF longer
    <3>10. \A i \in 1..next : longer[i] = grown[i]
      BY <3>2, <3>4, <3>5, <3>8, <3>9
    <3>11. longer = grown
      BY <3>2, <3>7, <3>8, <3>10, SeqEqual
    <3>12. QED
      BY <1>1, <1>3, <1>5, <3>11 DEF longer, grown
  <2>4. ItemsInv'
    BY <1>1, <1>2, <1>3, <2>2, <2>3 DEF ItemsInv, Read
  <2>5. EntriesInStep'
    BY <1>1, <1>2, <2>4, ItemsStayInStep
  <2>6. AllOrNothing'
    BY <1>5 DEF AllOrNothing, Ok
  <2>7. QED
    BY <1>1, <1>5, <2>4, <2>5, <2>6 DEF ContainerInv
<1>6. CASE outcome # Ok /\ pc' = "done" /\ result' = outcome
  <2>1. ~Acceptable
    BY <1>1, <1>3, <1>4, <1>6, AcceptableMeans
  <2>2. AllOrNothing'
    BY <1>2, <1>6, <2>1 DEF AllOrNothing
  <2>3. EntriesInStep'
    BY <1>1, <1>6, DoneInStep
  <2>4. QED
    BY <1>6, <2>2, <2>3 DEF ContainerInv
<1>7. QED
  BY <1>1, <1>5, <1>6, TryMeans

LEMMA ContainerInvStep ==
    ASSUME PlaceInv, ContainerInv, [WireNext]_allVars
    PROVE  ContainerInv'
<1>1. CASE UNCHANGED allVars
  <2>1. UNCHANGED <<input, pc, next, raw, bundles, entries, result>>
    BY <1>1 DEF allVars, vars
  <2>2. /\ UNCHANGED <<Document, Attestations, Items, Holders, ValueAt, BundleAt, Written, InlineEntries>>
        /\ (Acceptable' <=> Acceptable) /\ (Responded' <=> Responded)
        /\ (IsResponse' <=> IsResponse) /\ (IsLines' <=> IsLines)
    <3>1. UNCHANGED InlineEntries
      BY <2>1 DEF InlineEntries, Filter
    <3>2. QED
      BY <2>1, <3>1, ContainerUnmoved
  <2>3. ItemsInv => ItemsInv'
    BY <2>1, <2>2 DEF ItemsInv, Read
  <2>4. AllOrNothing => AllOrNothing'
    BY <2>1, <2>2 DEF AllOrNothing
  <2>5. EntriesInStep => EntriesInStep'
    BY <2>1, <2>2 DEF EntriesInStep, InlineEntries
  <2>6. QED
    BY <2>1, <2>2, <2>3, <2>4, <2>5 DEF ContainerInv
<1>2. CASE WireNext
  <2>1. UNCHANGED input /\ (input.api \in ContainerApis => Next)
    BY <1>2, ApiSteps
  <2>2. CASE input.api \notin ContainerApis
    BY <2>1, <2>2 DEF ContainerInv
  <2>3. CASE input.api \in ContainerApis
    BY <2>1, <2>3, CheckInputSizeKeepsContainerInv, ParseBundleKeepsContainerInv, ParseResponseKeepsContainerInv,
       SkipBlankLineKeepsContainerInv, TakeLineKeepsContainerInv, EndOfLinesKeepsContainerInv,
       TakeAttestationKeepsContainerInv, EndOfAttestationsKeepsContainerInv DEF Next
  <2>4. QED
    BY <2>2, <2>3
<1>3. QED
  BY <1>1, <1>2

LEMMA ContainerInvHolds == WireSpec => []ContainerInv
<1>1. WireInit => ContainerInv
  <2> SUFFICES ASSUME WireInit
               PROVE  ContainerInv
    OBVIOUS
  <2>1. pc = "size" /\ next = 1 /\ bundles = <<>> /\ entries = <<>> /\ result = "Pending"
    BY DEF WireInit, Init
  <2>2. AllOrNothing
    BY <2>1 DEF AllOrNothing, Ok
  <2>3. EntriesInStep
    BY <2>1, NothingIsInStep
  <2>4. QED
    BY <2>1, <2>2, <2>3 DEF ContainerInv
<1>2. WireSpec => []PlaceInv
  BY CheckpointInvHolds, PTL DEF CheckpointInv
<1>3. PlaceInv /\ ContainerInv /\ [WireNext]_allVars => ContainerInv'
  BY ContainerInvStep
<1>4. QED
  BY <1>1, <1>2, <1>3, PTL DEF WireSpec

(***************************************************************************)
(* Bundle::from_json, from_json_lines and from_github_response return the  *)
(* bundles of the whole container, in order, or none: for every container, *)
(* however many lines, blanks, attestations or nulls it holds, and only    *)
(* what is wrong with it is a reason to refuse it.                         *)
(***************************************************************************)
THEOREM AllOrNothingHolds == WireSpec => []AllOrNothing
<1>1. ContainerInv => AllOrNothing
  BY DEF ContainerInv, AllOrNothing
<1>2. QED
  BY <1>1, ContainerInvHolds, PTL

(***************************************************************************)
(* The bundles from_github_response has collected are, at every moment,    *)
(* the inline ones among its entries, in order, and there is one entry for *)
(* each attestation read, for every response.                              *)
(***************************************************************************)
THEOREM EntriesInStepHolds == WireSpec => []EntriesInStep
<1>1. ContainerInv => EntriesInStep
  BY DEF ContainerInv, EntriesInStep, ContainerApis
<1>2. QED
  BY <1>1, ContainerInvHolds, PTL

-----------------------------------------------------------------------------
(***************************************************************************)
(* The seeds of the corpus.  The lock holds what EmbeddedLog selects,      *)
(* whichever iteration filled it, and no check before the passes over the  *)
(* signature lines can fail on a seed.                                     *)
(***************************************************************************)
IsSeed == input.api = "checkpointVerify" /\ Document.seed /\ input.size <= MaxInputBytes

CorpusLogs == {log \in Range(root) : log.key = CorpusKey}

\* What KeyHint gives for the corpus log if it declares no other key id.
CorpusHint == KeyHint([key |-> CorpusKey, checkpointKeyId |-> {}])

AreHintsCorpus == \A log \in CorpusLogs : KeyHint(log) = CorpusHint

LockIsFilled ==
    /\ lock = {EmbeddedLog(root)}
    /\ CorpusLogs # {} /\ Log \in CorpusLogs

SeedAnchor ==
    anchor \subseteq {[treeSize |-> n, rootHash |-> RootHashOf(SignedBody(Envelope))] :
                          n \in TreeSizeOf(SignedBody(Envelope))}

SignaturesRead == \A i \in DOMAIN signatures : signatures[i] = CheckpointSignature(SignatureLines[i])

SeedIsJudged ==
    /\ CorpusLogs = {} => result = "UnknownLogKey"
    /\ CorpusLogs # {} /\ AreHintsCorpus => result = Ok

SeedInv ==
    IsSeed =>
        /\ root \in EmbeddedRoots /\ lock \in {{}, {EmbeddedLog(root)}} /\ SeedAnchor
        /\ pc \notin {"size", "document", "done"} => LockIsFilled
        /\ pc \in {"lines", "bind", "matching", "others"} => SignaturesRead
        /\ pc = "lines" => next <= Len(SignatureLines) + 1
        /\ pc \in {"bind", "matching", "others"} => Len(signatures) = Len(SignatureLines)
        /\ pc = "done" => SeedIsJudged

LEMMA EmbeddedLogIs ==
    ASSUME input \in Inputs, IsSeed, root \in EmbeddedRoots
    PROVE  /\ EmbeddedLog(root) = {} <=> CorpusLogs = {}
           /\ \A log \in EmbeddedLog(root) : EmbeddedLog(root) = {log} /\ log \in CorpusLogs
<1> DEFINE hits == {j \in DOMAIN root : root[j].key = CorpusKey}
           first == CHOOSE j \in hits : \A k \in hits : j <= k
           i == IF hits = {} THEN 0 ELSE first
<1>1. FromSpkiDer(CorpusKey) = Ok
  BY CorpusAssumption DEF CorpusAssumption, IsSeed, Document
<1>2. DOMAIN root = 1..Len(root) /\ Len(root) \in Nat
  BY FuzzingAssumption, LenProperties DEF FuzzingAssumption
<1>3. EmbeddedLog(root) = {root[j] : j \in {j \in {i} \ {0} : FromSpkiDer(root[j].key) = Ok}}
  BY DEF EmbeddedLog, FirstIndex
<1>4. CorpusLogs = {root[j] : j \in hits}
  BY DEF CorpusLogs, Range
<1>5. CASE hits = {}
  BY <1>3, <1>4, <1>5
<1>6. CASE hits # {}
  <2>1. hits \in SUBSET Nat /\ 0 \notin hits
    BY <1>2
  <2>2. first \in hits
    BY <1>6, <2>1, FirstHit
  <2> HIDE DEF first
  <2>3. i = first /\ root[first].key = CorpusKey /\ first # 0
    BY <1>6, <2>1, <2>2
  <2>4. EmbeddedLog(root) = {root[first]}
    BY <1>1, <1>3, <2>3
  <2>5. root[first] \in CorpusLogs
    BY <1>4, <2>2
  <2>6. QED
    BY <2>4, <2>5
<1>7. QED
  BY <1>5, <1>6

LEMMA SeedNote ==
    ASSUME input \in Inputs, IsSeed
    PROVE  /\ ParseBody(Envelope) = Ok
           /\ Len(SignatureLines) \in Nat \ {0} /\ Len(SignatureLines) <= MaxSignatureLines
           /\ \A i \in 1..Len(SignatureLines) : ParseSignatureLine(SignatureLines[i]) = Ok
           /\ \E i \in 1..Len(SignatureLines) :
                 /\ SignsNote(CorpusKey, SignedBody(Envelope), CheckpointSignature(SignatureLines[i]).signature)
                 /\ CheckpointSignature(SignatureLines[i]).keyHint \in CorpusHint
<1>1. /\ ParseBody(Envelope) = Ok /\ Len(SignatureLines) <= MaxSignatureLines
      /\ \A i \in DOMAIN SignatureLines : ParseSignatureLine(SignatureLines[i]) = Ok
      /\ \E i \in DOMAIN SignatureLines :
            /\ SignsNote(CorpusKey, SignedBody(Envelope), CheckpointSignature(SignatureLines[i]).signature)
            /\ CheckpointSignature(SignatureLines[i]).keyHint \in CorpusHint
  BY CorpusAssumption DEF CorpusAssumption, IsSeed, Document, Envelope, SignatureLines, CorpusHint
<1>2. Len(SignatureLines) \in Nat /\ DOMAIN SignatureLines = 1..Len(SignatureLines)
  BY <1>1, SignatureLineCount DEF IsSeed, CheckpointApis
<1>3. QED
  BY <1>1, <1>2

\* What the property says, in these words.
LEMMA SeedMeans == input \in Inputs /\ SeedInv => SeedsAreVerified
<1> SUFFICES ASSUME SeedInv, IsSeed, pc = "done"
             PROVE  LET held == {log \in Range(root) : log.key = CorpusKey}
                        undeclared(log) == [log EXCEPT !.checkpointKeyId = {}]
                    IN  /\ held = {} => result = "UnknownLogKey"
                        /\ held # {} /\ (\A log \in held : KeyHint(log) = KeyHint(undeclared(log))) => result = Ok
  BY DEF SeedsAreVerified, IsSeed
<1>1. SeedIsJudged
  BY DEF SeedInv
<1>2. ASSUME NEW log \in CorpusLogs
      PROVE  KeyHint([log EXCEPT !.checkpointKeyId = {}]) = CorpusHint
  <2>1. root \in EmbeddedRoots /\ log \in Range(root) /\ log.key = CorpusKey
    BY <1>2 DEF SeedInv, CorpusLogs
  <2>2. DOMAIN log = {"key", "checkpointKeyId", "baseUrl"}
    BY <2>1, FuzzingAssumption DEF FuzzingAssumption
  <2>3. /\ [log EXCEPT !.checkpointKeyId = {}].key = CorpusKey
        /\ [log EXCEPT !.checkpointKeyId = {}].checkpointKeyId = {}
    BY <2>1, <2>2
  <2>4. QED
    BY <2>3 DEF KeyHint, CorpusHint
<1>3. QED
  BY <1>1, <1>2 DEF SeedIsJudged, AreHintsCorpus, CorpusLogs

\* A step that leaves all of it alone.
LEMMA SeedUnmoved ==
    ASSUME UNCHANGED <<input, root>>
    PROVE  /\ IsSeed' <=> IsSeed
           /\ UNCHANGED <<Envelope, SignatureLines, CorpusLogs>>
           /\ AreHintsCorpus' <=> AreHintsCorpus
           /\ UNCHANGED anchor => (SeedAnchor' <=> SeedAnchor)
           /\ UNCHANGED lock => (LockIsFilled' <=> LockIsFilled) /\ UNCHANGED Log
           /\ UNCHANGED signatures => (SignaturesRead' <=> SignaturesRead)
<1>1. UNCHANGED <<Envelope, SignatureLines, CorpusLogs>> /\ (IsSeed' <=> IsSeed)
  BY DEF Envelope, Document, SignatureLines, CorpusLogs, IsSeed
<1>2. AreHintsCorpus' <=> AreHintsCorpus
  BY <1>1 DEF AreHintsCorpus
<1>3. UNCHANGED anchor => (SeedAnchor' <=> SeedAnchor)
  BY <1>1 DEF SeedAnchor
<1>4. UNCHANGED lock => UNCHANGED Log
  BY Unmoved
<1>5. UNCHANGED lock => (LockIsFilled' <=> LockIsFilled)
  BY <1>1, <1>4 DEF LockIsFilled
<1>6. UNCHANGED signatures => (SignaturesRead' <=> SignaturesRead)
  BY <1>1 DEF SignaturesRead
<1>7. QED
  BY <1>1, <1>2, <1>3, <1>4, <1>5, <1>6

LEMMA SeedInvInit ==
    ASSUME WireInit
    PROVE  SeedInv
<1> SUFFICES ASSUME IsSeed
             PROVE  /\ root \in EmbeddedRoots /\ lock \in {{}, {EmbeddedLog(root)}} /\ SeedAnchor
                    /\ pc = "size"
  BY DEF SeedInv
<1>1. QED
  BY DEF WireInit, Init, IsSeed, SeedAnchor

\* The size check of a seed passes, and nothing else of the other parsers is reached.
LEMMA ElsewhereKeepsSeedInv ==
    ASSUME CheckpointInv, SeedInv, Elsewhere
    PROVE  SeedInv'
<1>1. PlaceInv
  BY DEF CheckpointInv
<1>2. /\ UNCHANGED <<input, root, lock, anchor, signatures, tried>>
      /\ pc \in {"size", "document", "items", "scts"}
      /\ Verifying => pc = "size"
      /\ \/ pc = "size" /\ pc' = "document"
         \/ pc' = "items" /\ input.api \in {"jsonLines", "githubResponse"}
         \/ pc' = "scts" /\ input.api = "sctList"
         \/ pc' = "done"
  BY <1>1, ElsewhereStep
<1>3. SUFFICES ASSUME IsSeed PROVE SeedInv'
  BY <1>2, SeedUnmoved DEF SeedInv
<1>4. pc = "size" /\ pc' \in {"document", "done"}
  BY <1>2, <1>3 DEF IsSeed, Verifying
<1>5. pc' # "done"
  <2>1. CheckInputSize
    BY <1>4 DEF Elsewhere, Next, ParseBundle, ParseResponse, SkipBlankLine, TakeLine, EndOfLines,
                TakeAttestation, EndOfAttestations, TakeListLength, TakeSct, EndOfSctList,
                ParseRekorCanonicalizedBody, ParseStatement, ParseTimestamp
  <2>2. Try(Ok, "document")
    BY <1>3, <2>1 DEF CheckInputSize, IsSeed, Check
  <2>3. QED
    BY <2>2 DEF Try
<1>6. QED
  BY <1>2, <1>3, <1>4, <1>5, SeedUnmoved DEF SeedInv

LEMMA SelectKeepsSeedInv ==
    ASSUME CheckpointInv, SeedInv, IsSeed, EmbeddedRekorV1Log
    PROVE  SeedInv'
<1> DEFINE outcome == Check(lock' # {{}}, "UnknownLogKey")
<1>1. /\ Try(outcome, "note") /\ result = "Pending" /\ input.api = "checkpointVerify"
      /\ lock' = IF lock = {} THEN {EmbeddedLog(root)} ELSE lock
      /\ UNCHANGED <<input, root, anchor, signatures>>
  BY DEF EmbeddedRekorV1Log, CheckpointInv, PlaceInv
<1>2. input \in Inputs /\ root \in EmbeddedRoots /\ lock' = {EmbeddedLog(root)} /\ SeedAnchor
  BY <1>1 DEF SeedInv, CheckpointInv, PlaceInv
<1>3. outcome = IF EmbeddedLog(root) # {} THEN Ok ELSE "UnknownLogKey"
  BY <1>2 DEF Check
<1> HIDE DEF outcome
<1>4. \/ EmbeddedLog(root) # {} /\ pc' = "note" /\ result' = "Pending"
      \/ EmbeddedLog(root) = {} /\ pc' = "done" /\ result' = "UnknownLogKey"
  BY <1>1, <1>3, TryMeans DEF Ok
<1>5. (IsSeed' <=> IsSeed) /\ CorpusLogs' = CorpusLogs /\ (SeedAnchor' <=> SeedAnchor)
  BY <1>1, SeedUnmoved
<1>6. CASE EmbeddedLog(root) = {}
  BY <1>1, <1>2, <1>4, <1>5, <1>6, EmbeddedLogIs DEF SeedInv, SeedIsJudged
<1>7. CASE EmbeddedLog(root) # {}
  <2>1. PICK log \in EmbeddedLog(root) : EmbeddedLog(root) = {log} /\ log \in CorpusLogs
    BY <1>2, <1>7, EmbeddedLogIs
  <2>2. lock' = {{log}}
    BY <1>2, <2>1
  <2>3. Log' = log
    BY <1>1, <2>2 DEF Log
  <2>4. LockIsFilled'
    BY <1>1, <1>2, <1>5, <2>1, <2>3 DEF LockIsFilled
  <2>5. QED
    BY <1>1, <1>2, <1>4, <1>5, <1>7, <2>4 DEF SeedInv
<1>8. QED
  BY <1>6, <1>7

\* None of the checks on a seed's note and lines fails.
LEMMA NoteKeepsSeedInv ==
    ASSUME CheckpointInv, SeedInv, IsSeed, ProofAnchor \/ ParseNoteBody \/ CountSignatureLines \/ ParseLine
    PROVE  SeedInv'
<1>1. input \in Inputs /\ input.api = "checkpointVerify" /\ next \in Nat \ {0} /\ LinesInv
      /\ (pc # "done" => result = "Pending")
  BY DEF CheckpointInv, PlaceInv, IsSeed
<1>2. /\ ParseBody(Envelope) = Ok
      /\ Len(SignatureLines) \in Nat /\ Len(SignatureLines) <= MaxSignatureLines
      /\ \A i \in 1..Len(SignatureLines) : ParseSignatureLine(SignatureLines[i]) = Ok
  BY <1>1, SeedNote
<1>3. CASE ProofAnchor
  BY <1>1, <1>3 DEF ProofAnchor
<1>4. CASE ParseNoteBody
  <2>1. Try(Ok, "count") /\ pc = "note" /\ UNCHANGED <<input, root, lock, anchor>>
    BY <1>1, <1>2, <1>4 DEF ParseNoteBody
  <2>2. pc' = "count"
    BY <2>1 DEF Try
  <2>3. QED
    BY <2>1, <2>2, SeedUnmoved DEF SeedInv
<1>5. CASE CountSignatureLines
  <2>1. Try(Ok, "lines") /\ pc = "count" /\ UNCHANGED <<input, root, lock, anchor, signatures>>
    BY <1>2, <1>5 DEF CountSignatureLines, Check
  <2>2. pc' = "lines" /\ signatures = <<>>
    BY <1>1, <2>1 DEF Try, LinesInv
  <2>3. SignaturesRead /\ next' = 1
    BY <1>1, <1>5, <2>1, <2>2 DEF SignaturesRead, CountSignatureLines, LinesInv
  <2>4. QED
    BY <1>2, <2>1, <2>2, <2>3, SeedUnmoved DEF SeedInv
<1>6. CASE ParseLine
  <2> DEFINE line == CheckpointSignature(SignatureLines[next])
  <2>1. /\ pc = "lines" /\ next \in 1..Len(SignatureLines) /\ next' = next + 1
        /\ UNCHANGED <<input, root, lock, anchor>>
    BY <1>1, <1>2, <1>6 DEF ParseLine
  <2>2. Try(Ok, "lines") /\ signatures' = Append(signatures, line)
    BY <1>2, <1>6, <2>1 DEF ParseLine
  <2>3. pc' = "lines"
    BY <2>2 DEF Try
  <2>4. signatures \in Seq(ParsedLines) /\ Len(signatures) = next - 1 /\ line \in ParsedLines
    BY <1>1, <2>1 DEF LinesInv, ParsedLines
  <2> HIDE DEF line
  <2>5. /\ DOMAIN signatures' = 1..next /\ signatures'[next] = line
        /\ \A i \in 1..(next - 1) : signatures'[i] = signatures[i] /\ i \in DOMAIN signatures
    BY <1>1, <2>2, <2>4, AppendProperties, LenProperties
  <2>6. SignaturesRead
    BY <2>1 DEF SeedInv
  <2>7. \A i \in 1..next : signatures'[i] = CheckpointSignature(SignatureLines[i])
    BY <1>1, <2>5, <2>6 DEF SignaturesRead, line
  <2>8. SignaturesRead'
    BY <2>1, <2>5, <2>7, SeedUnmoved DEF SignaturesRead
  <2>9. QED
    BY <1>1, <1>2, <2>1, <2>3, <2>8, SeedUnmoved DEF SeedInv
<1>7. QED
  BY <1>3, <1>4, <1>5, <1>6

LEMMA EndOfNoteKeepsSeedInv ==
    ASSUME CheckpointInv, SeedInv, IsSeed, EndOfNote
    PROVE  SeedInv'
<1>1. input \in Inputs /\ input.api = "checkpointVerify" /\ next \in Nat \ {0} /\ LinesInv
  BY DEF CheckpointInv, PlaceInv, IsSeed
<1>2. /\ pc = "lines" /\ next > Len(SignatureLines) /\ next <= Len(SignatureLines) + 1
      /\ UNCHANGED <<input, root, lock>>
  BY DEF EndOfNote, SeedInv
<1>3. Len(SignatureLines) \in Nat \ {0}
  BY <1>1, SeedNote
<1>4. signatures \in Seq(ParsedLines) /\ Len(signatures) = next - 1
  BY <1>1, <1>2 DEF LinesInv
<1>5. signatures # <<>>
  BY <1>1, <1>2, <1>3, <1>4
<1>6. CASE /\ anchor' = {[treeSize |-> n, rootHash |-> RootHashOf(SignedBody(Envelope))] :
                            n \in TreeSizeOf(SignedBody(Envelope))}
           /\ pc' = "note"
  <2>1. SeedAnchor'
    BY <1>2, <1>6, SeedUnmoved DEF SeedAnchor
  <2>2. QED
    BY <1>2, <1>6, <2>1, SeedUnmoved DEF SeedInv
<1>7. CASE pc' = "bind" /\ UNCHANGED <<anchor, signatures>>
  <2>1. Len(signatures) = Len(SignatureLines)
    BY <1>1, <1>2, <1>3, <1>4
  <2>2. QED
    BY <1>2, <1>7, <2>1, SeedUnmoved DEF SeedInv
<1>8. QED
  BY <1>1, <1>5, <1>6, <1>7 DEF EndOfNote

LEMMA BindKeepsSeedInv ==
    ASSUME CheckpointInv, SeedInv, IsSeed, BindCheckpoint
    PROVE  SeedInv'
<1> DEFINE body == SignedBody(Envelope)
           a == Check(\A x \in anchor : TreeSizeOf(body) = {x.treeSize}, "CheckpointTreeSizeMismatch")
           b == Check(\A x \in anchor : RootHashOf(body) = x.rootHash, "CheckpointRootHashMismatch")
           c == Check(KeyHint(Log) # {}, "CheckpointSignatureInvalid")
           outcome == FirstError(<<a, b, c>>)
<1>1. /\ Try(outcome, "matching") /\ result = "Pending" /\ pc = "bind" /\ input \in Inputs
      /\ UNCHANGED <<input, root, lock, anchor, signatures>>
  BY DEF BindCheckpoint, CheckpointInv, PlaceInv
<1>2. LockIsFilled /\ SeedAnchor /\ SignaturesRead /\ Len(signatures) = Len(SignatureLines)
  BY <1>1 DEF SeedInv
<1>3. \A m, n \in TreeSizeOf(body) : m = n
  BY DEF TreeSizeOf, FromStr
<1>4. a = Ok /\ b = Ok
  BY <1>2, <1>3 DEF SeedAnchor, Check
<1>5. AreHintsCorpus => c = Ok
  BY <1>1, <1>2, SeedNote DEF AreHintsCorpus, LockIsFilled, Check
<1> HIDE DEF a, b, c
<1>6. AreHintsCorpus => outcome = Ok
  BY <1>4, <1>5, FirstError3
<1> HIDE DEF outcome
<1>7. \/ outcome = Ok /\ pc' = "matching"
      \/ outcome # Ok /\ pc' = "done"
  BY <1>1, TryMeans
<1>8. pc' = "done" => SeedIsJudged'
  BY <1>1, <1>2, <1>6, <1>7, SeedUnmoved DEF SeedIsJudged, LockIsFilled
<1>9. QED
  BY <1>1, <1>2, <1>7, <1>8, SeedUnmoved DEF SeedInv

\* The passes accept if some line is valid, whichever it is.
LEMMA PassesKeepSeedInv ==
    ASSUME CheckpointInv, CheckpointInv', SeedInv, IsSeed, TryLine \/ EndOfPass
    PROVE  SeedInv'
<1>1. /\ pc \in {"matching", "others"} /\ input \in Inputs /\ Verifying
      /\ UNCHANGED <<input, root, lock, anchor, signatures>>
      /\ \/ pc' \in {"matching", "others"}
         \/ pc' = "done" /\ result' \in {Ok, "CheckpointSignatureInvalid"}
  BY DEF TryLine, EndOfPass, Return, CheckpointInv, PlaceInv
<1>2. LockIsFilled /\ SeedAnchor /\ SignaturesRead /\ Len(signatures) = Len(SignatureLines)
  BY <1>1 DEF SeedInv
<1>3. /\ UNCHANGED <<Envelope, Log>> /\ (Verifying' <=> Verifying)
  BY <1>1, Unmoved
<1>4. ASSUME pc' = "done", AreHintsCorpus
      PROVE  result' = Ok
  <2>1. PICK i \in 1..Len(SignatureLines) :
              /\ SignsNote(CorpusKey, SignedBody(Envelope), CheckpointSignature(SignatureLines[i]).signature)
              /\ CheckpointSignature(SignatureLines[i]).keyHint \in CorpusHint
    BY <1>1, SeedNote
  <2>2. i \in DOMAIN signatures /\ signatures[i] = CheckpointSignature(SignatureLines[i])
    BY <1>2, LenProperties DEF CheckpointInv, LinesInv, SignaturesRead
  <2>3. Log.key = CorpusKey /\ KeyHint(Log) = CorpusHint
    BY <1>2, <1>4 DEF LockIsFilled, CorpusLogs, AreHintsCorpus
  <2>4. /\ signatures[i].keyHint \in KeyHint(Log)
        /\ SignsNote(Log.key, SignedBody(Envelope), signatures[i].signature)
    BY <2>1, <2>2, <2>3
  <2>5. NamesDecideNothing'
    BY DEF CheckpointInv, NamesInv
  <2>6. QED
    BY <1>1, <1>3, <1>4, <2>2, <2>4, <2>5 DEF NamesDecideNothing
<1>5. pc' = "done" => SeedIsJudged'
  BY <1>1, <1>2, <1>4, SeedUnmoved DEF SeedIsJudged, LockIsFilled
<1>6. QED
  BY <1>1, <1>2, <1>5, SeedUnmoved DEF SeedInv

LEMMA SeedInvStep ==
    ASSUME CheckpointInv, SeedInv, [WireNext]_allVars
    PROVE  SeedInv'
<1>1. CheckpointInv'
  BY CheckpointInvStep
<1>2. CASE Elsewhere
  BY <1>2, ElsewhereKeepsSeedInv
<1>3. CASE UNCHANGED allVars
  <2>1. UNCHANGED <<input, pc, next, result, root, lock, anchor, signatures>>
    BY <1>3 DEF allVars, vars, wire
  <2>2. QED
    BY <2>1, SeedUnmoved DEF SeedInv, SeedIsJudged
<1>4. CASE WireNext /\ ~Elsewhere
  <2>1. UNCHANGED <<input, root>>
    BY <1>4 DEF WireNext, Elsewhere, EmbeddedRekorV1Log, ProofAnchor, ParseNoteBody, CountSignatureLines, ParseLine,
                EndOfNote, BindCheckpoint, TryLine, EndOfPass
  <2>2. SUFFICES ASSUME IsSeed PROVE SeedInv'
    BY <2>1, SeedUnmoved DEF SeedInv
  <2>3. QED
    BY <1>1, <1>4, <2>2, SelectKeepsSeedInv, NoteKeepsSeedInv, EndOfNoteKeepsSeedInv, BindKeepsSeedInv,
       PassesKeepSeedInv DEF WireNext, Elsewhere
<1>5. QED
  BY <1>2, <1>3, <1>4

(***************************************************************************)
(* A seed reaches signature verification and passes it whenever the root   *)
(* holds the corpus log under its own hint: for every number and order of  *)
(* other logs, every note with a line of that log, and both for the        *)
(* iteration that fills the lock and for those that find it filled.        *)
(***************************************************************************)
THEOREM SeedsAreVerifiedHolds == WireSpec => []SeedsAreVerified
<1>1. WireInit => SeedInv
  BY SeedInvInit
<1>2. CheckpointInv /\ SeedInv /\ [WireNext]_allVars => SeedInv'
  BY SeedInvStep
<1>3. CheckpointInv /\ SeedInv => SeedsAreVerified
  BY SeedMeans DEF CheckpointInv, PlaceInv
<1>4. QED
  BY <1>1, <1>2, <1>3, CheckpointInvHolds, PTL DEF WireSpec

-----------------------------------------------------------------------------
(***************************************************************************)
(* The TLS encoding of an SCT list.  A read splits the bytes left, so what *)
(* has been read and what is left make up the input; and what has the form *)
(* of an encoding is split where its lengths say.                          *)
(***************************************************************************)
Bytes == Seq(Nat)

LEMMA BigEndian ==
    /\ \A n \in Nat : U16(n) \in Bytes /\ Len(U16(n)) = 2 /\ FromBeBytes(U16(n)) = n
    /\ \A head \in Seq(Byte) : Len(head) = 2 => FromBeBytes(head) \in Nat /\ U16(FromBeBytes(head)) = head
<1>1. ByteBase \in Nat \ {0}
  BY SctListAssumption DEF SctListAssumption
<1>2. ASSUME NEW n \in Nat
      PROVE  U16(n) \in Bytes /\ Len(U16(n)) = 2 /\ FromBeBytes(U16(n)) = n
  <2>1. n \div ByteBase \in Nat /\ n % ByteBase \in Nat /\ (n \div ByteBase) * ByteBase + (n % ByteBase) = n
    BY <1>1
  <2>2. U16(n) \in Bytes /\ Len(U16(n)) = 2 /\ U16(n)[1] = n \div ByteBase /\ U16(n)[2] = n % ByteBase
    BY <2>1 DEF U16, Bytes
  <2>3. QED
    BY <2>1, <2>2 DEF FromBeBytes
<1>3. ASSUME NEW head \in Seq(Byte), Len(head) = 2
      PROVE  FromBeBytes(head) \in Nat /\ U16(FromBeBytes(head)) = head
  <2>1. head[1] \in Byte /\ head[2] \in Byte /\ head = << head[1], head[2] >>
    BY <1>3, LenProperties, ElementOfSeq
  <2>2. PICK h \in Nat, l \in 0..(ByteBase - 1) : head = << h, l >>
    BY <1>1, <2>1 DEF Byte
  <2>3. FromBeBytes(head) = h * ByteBase + l /\ h * ByteBase + l \in Nat
    BY <1>1, <1>3, <2>2 DEF FromBeBytes
  <2>4. (h * ByteBase + l) \div ByteBase = h /\ (h * ByteBase + l) % ByteBase = l
    BY <1>1, <2>2
  <2>5. U16(h * ByteBase + l) = << h, l >>
    BY <2>4 DEF U16
  <2>6. QED
    BY <2>2, <2>3, <2>5
<1>4. QED
  BY <1>2, <1>3

\* What a read of bytes comes to: the head and the rest of them.
Splits(bytes, taken, S) ==
    taken.head \in Seq(S) /\ taken.rest \in Seq(S) /\ bytes = taken.head \o taken.rest

LEMMA BytesAreNumbers ==
    /\ Byte \subseteq Nat /\ Seq(Byte) \subseteq Bytes
    /\ \A x, y \in Bytes : x \o y \in Bytes /\ Prefixed(x) \in Bytes
<1>1. ByteBase \in Nat \ {0}
  BY SctListAssumption DEF SctListAssumption
<1>2. Byte \subseteq Nat
  BY <1>1 DEF Byte
<1>3. ASSUME NEW x \in Seq(Byte) PROVE x \in Bytes
  <2>1. Len(x) \in Nat /\ x \in [1..Len(x) -> Byte]
    BY LenProperties
  <2>2. x \in [1..Len(x) -> Nat]
    BY <1>2, <2>1
  <2>3. QED
    BY <2>1, <2>2, SeqDef DEF Bytes
<1>4. ASSUME NEW x \in Bytes, NEW y \in Bytes PROVE x \o y \in Bytes
  BY ConcatProperties DEF Bytes
<1>5. ASSUME NEW x \in Bytes PROVE Prefixed(x) \in Bytes
  <2>1. U16(Len(x)) \in Bytes
    BY BigEndian, LenProperties DEF Bytes
  <2>2. QED
    BY <1>4, <2>1 DEF Prefixed
<1>6. QED
  BY <1>2, <1>3, <1>4, <1>5

\* A read that succeeds splits what was left.
LEMMA TakeSplits ==
    ASSUME NEW S, NEW bytes \in Seq(S), NEW n \in Nat, NEW taken \in Take(Cursor(bytes), n)
    PROVE  /\ Splits(bytes, taken, S) /\ Len(taken.head) = n
           /\ Take(Cursor(bytes), n) = {taken} /\ After(Take(Cursor(bytes), n)) = Cursor(taken.rest)
<1> DEFINE x == SubSeq(bytes, 1, n)
           y == SubSeq(bytes, n + 1, Len(bytes))
<1>1. Len(bytes) \in Nat /\ n <= Len(bytes) /\ taken = [head |-> x, rest |-> y] /\ Take(Cursor(bytes), n) = {taken}
  BY LenProperties DEF Take, Cursor, Split
<1>2. x \o y = bytes
  <2>1. 1 \in 1..(Len(bytes) + 1) /\ n \in (1 - 1)..Len(bytes) /\ Len(bytes) \in n..Len(bytes)
    BY <1>1
  <2>2. x \o y = SubSeq(bytes, 1, Len(bytes))
    BY <1>1, <2>1, ConcatAdjacentSubSeq
  <2>3. QED
    BY <2>2, SubSeqFull
<1>3. \A i \in 1..Len(bytes) : bytes[i] \in S
  BY <1>1, ElementOfSeq
<1>4. x \in Seq(S) /\ Len(x) = n
  <2>1. \A i \in 1..n : bytes[i] \in S
    BY <1>1, <1>3
  <2>2. QED
    BY <2>1, SubSeqProperties
<1>5. y \in Seq(S)
  <2>1. \A i \in (n + 1)..Len(bytes) : bytes[i] \in S
    BY <1>1, <1>3
  <2>2. QED
    BY <1>1, <2>1, SubSeqProperties
<1> HIDE DEF x, y
<1>6. After({taken}) = {taken.rest}
  BY DEF After
<1>7. QED
  BY <1>1, <1>2, <1>4, <1>5, <1>6 DEF Splits, Cursor

\* Nothing is read after a read that failed.
LEMMA TakeNone ==
    ASSUME NEW n
    PROVE  Take({}, n) = {} /\ After({}) = {} /\ TakePrefixed({}) = {}
<1>1. Take({}, n) = {} /\ Take({}, 2) = {} /\ After({}) = {}
  BY DEF Take, After
<1>2. TakePrefixed({}) = UNION {Take({length.rest}, FromBeBytes(length.head)) : length \in {}}
  BY <1>1 DEF TakePrefixed
<1>3. QED
  BY <1>1, <1>2

\* What begins with the n bytes of x is read as x.
LEMMA TakeGives ==
    ASSUME NEW x \in Bytes, NEW y \in Bytes
    PROVE  Take(Cursor(x \o y), Len(x)) = {[head |-> x, rest |-> y]}
<1> DEFINE n == Len(x)
           m == Len(y)
           z == x \o y
<1>1. n \in Nat /\ m \in Nat /\ z \in Bytes /\ Len(z) = n + m
      /\ \A i \in 1..(n + m) : z[i] = IF i <= n THEN x[i] ELSE y[i - n]
  BY LenProperties, ConcatProperties DEF Bytes
<1>2. \A i \in 1..(n + m) : z[i] \in Nat
  BY <1>1, ElementOfSeq DEF Bytes
<1>3. SubSeq(z, 1, n) = x
  <2>1. \A i \in 1..n : z[i] \in Nat
    BY <1>1, <1>2
  <2>2. /\ SubSeq(z, 1, n) \in Seq(Nat) /\ Len(SubSeq(z, 1, n)) = n
        /\ \A i \in 1..n : SubSeq(z, 1, n)[i] = x[i]
    BY <1>1, <2>1, SubSeqProperties
  <2>3. QED
    BY <2>2, SeqEqual DEF Bytes
<1>4. SubSeq(z, n + 1, n + m) = y
  <2>1. \A i \in (n + 1)..(n + m) : z[i] \in Nat
    BY <1>1, <1>2
  <2>2. /\ SubSeq(z, n + 1, n + m) \in Seq(Nat) /\ Len(SubSeq(z, n + 1, n + m)) = m
        /\ \A i \in 1..((n + m) - (n + 1) + 1) : SubSeq(z, n + 1, n + m)[i] = z[(n + 1) + i - 1]
    BY <1>1, <2>1, SubSeqProperties
  <2>3. \A i \in 1..m : SubSeq(z, n + 1, n + m)[i] = y[i]
    BY <1>1, <2>2
  <2>4. QED
    BY <2>2, <2>3, SeqEqual DEF Bytes
<1> HIDE DEF z, n, m
<1>5. Split(z, n) = [head |-> x, rest |-> y] /\ n <= Len(z)
  <2>1. Len(z) = n + m /\ n <= n + m
    BY <1>1
  <2>2. Split(z, n) = [head |-> SubSeq(z, 1, n), rest |-> SubSeq(z, n + 1, n + m)]
    BY <2>1 DEF Split
  <2>3. QED
    BY <1>3, <1>4, <2>1, <2>2
<1>6. QED
  BY <1>5 DEF Take, Cursor, n, z

\* The same for bytes with their length before them.
LEMMA TakePrefixedSplits ==
    ASSUME NEW bytes \in Seq(Byte), NEW taken \in TakePrefixed(Cursor(bytes))
    PROVE  /\ taken.head \in Seq(Byte) /\ taken.rest \in Seq(Byte)
           /\ bytes = Prefixed(taken.head) \o taken.rest
           /\ TakePrefixed(Cursor(bytes)) = {taken} /\ After(TakePrefixed(Cursor(bytes))) = Cursor(taken.rest)
<1>1. PICK length \in Take(Cursor(bytes), 2) : taken \in Take({length.rest}, FromBeBytes(length.head))
  BY DEF TakePrefixed
<1> DEFINE n == FromBeBytes(length.head)
<1>2. /\ Splits(bytes, length, Byte) /\ Len(length.head) = 2 /\ Take(Cursor(bytes), 2) = {length}
  <2>1. length \in Take(Cursor(bytes), 2)
    BY <1>1
  <2> HIDE DEF n
  <2>2. bytes \in Seq(Byte) /\ 2 \in Nat
    OBVIOUS
  <2>3. QED
    BY ONLY <2>1, <2>2, TakeSplits, ZenonT(30)
<1>3. n \in Nat /\ U16(n) = length.head
  BY <1>2, BigEndian DEF Splits
<1>4. taken \in Take(Cursor(length.rest), n) /\ length.rest \in Seq(Byte)
  BY <1>1, <1>2 DEF Cursor, Splits
<1> HIDE DEF n
<1>5. Splits(length.rest, taken, Byte) /\ Len(taken.head) = n /\ Take(Cursor(length.rest), n) = {taken}
  BY <1>3, <1>4, TakeSplits
<1>6. TakePrefixed(Cursor(bytes)) = {taken}
  BY <1>2, <1>5 DEF TakePrefixed, Cursor, n
<1>7. Prefixed(taken.head) = length.head \o taken.head
  BY <1>3, <1>5 DEF Prefixed
<1>8. (length.head \o taken.head) \o taken.rest = length.head \o (taken.head \o taken.rest)
  <2> DEFINE a == length.head
             b == taken.head
             c == taken.rest
  <2>1. a \in Seq(Byte) /\ b \in Seq(Byte) /\ c \in Seq(Byte)
    BY <1>2, <1>5 DEF Splits
  <2> HIDE DEF a, b, c
  <2>2. (a \o b) \o c = a \o (b \o c)
    BY <2>1, ConcatAssociative, SMTT(30)
  <2>3. QED
    BY <2>2 DEF a, b, c
<1>9. After({taken}) = Cursor(taken.rest)
  BY DEF After, Cursor
<1>10. QED
  BY <1>2, <1>5, <1>6, <1>7, <1>8, <1>9 DEF Splits

LEMMA TakePrefixedGives ==
    ASSUME NEW x \in Bytes, NEW y \in Bytes
    PROVE  TakePrefixed(Cursor(Prefixed(x) \o y)) = {[head |-> x, rest |-> y]}
<1> DEFINE u == U16(Len(x))
<1>1. u \in Bytes /\ Len(u) = 2 /\ FromBeBytes(u) = Len(x)
  BY BigEndian, LenProperties DEF Bytes
<1>2. Prefixed(x) \o y = u \o (x \o y)
  <2>1. u \in Seq(Nat) /\ x \in Seq(Nat) /\ y \in Seq(Nat) /\ Prefixed(x) = u \o x
    BY <1>1 DEF Prefixed, Bytes
  <2> HIDE DEF u
  <2>2. (u \o x) \o y = u \o (x \o y)
    BY <2>1, ConcatAssociative, SMTT(30)
  <2>3. QED
    BY <2>1, <2>2
<1>3. Take(Cursor(u \o (x \o y)), 2) = {[head |-> u, rest |-> x \o y]}
  BY <1>1, BytesAreNumbers, TakeGives
<1>4. Take(Cursor(x \o y), FromBeBytes(u)) = {[head |-> x, rest |-> y]}
  BY <1>1, TakeGives
<1> HIDE DEF u
<1> DEFINE z == u \o (x \o y)
<1>5. TakePrefixed(Cursor(z)) = Take({x \o y}, FromBeBytes(u))
  <2>1. Take(Cursor(z), 2) = {[head |-> u, rest |-> x \o y]}
    BY <1>3
  <2> DEFINE t == [head |-> u, rest |-> x \o y]
  <2>2. TakePrefixed(Cursor(z)) = Take({t.rest}, FromBeBytes(t.head))
    <3>1. Take(Cursor(z), 2) = {t}
      BY <2>1
    <3> HIDE DEF z, t
    <3>2. QED
      BY <3>1 DEF TakePrefixed
  <2>3. QED
    BY <2>2
<1>6. QED
  BY <1>2, <1>4, <1>5 DEF Cursor

\* What is read after a read, when the last one succeeds.
Step(S, from, taken, n) ==
    \E bytes \in Seq(S) : \E t :
        /\ from = Cursor(bytes) /\ taken = {t} /\ After(taken) = Cursor(t.rest)
        /\ Splits(bytes, t, S) /\ Len(t.head) = n

PrefixedStep(from, taken) ==
    \E bytes \in Seq(Byte) : \E t :
        /\ from = Cursor(bytes) /\ taken = {t} /\ After(taken) = Cursor(t.rest)
        /\ t.head \in Seq(Byte) /\ t.rest \in Seq(Byte) /\ bytes = Prefixed(t.head) \o t.rest

IsCursor(from) == from = {} \/ \E bytes \in Seq(Byte) : from = Cursor(bytes)

LEMMA TakeStep ==
    ASSUME NEW from, IsCursor(from), NEW n \in Nat
    PROVE  /\ IsCursor(After(Take(from, n)))
           /\ Take(from, n) # {} => Step(Byte, from, Take(from, n), n) /\ from # {}
           /\ Take(from, n) = {} => After(Take(from, n)) = {}
<1>1. CASE Take(from, n) = {}
  BY <1>1, TakeNone DEF IsCursor
<1>2. CASE Take(from, n) # {}
  <2>1. PICK bytes \in Seq(Byte) : from = Cursor(bytes)
    BY <1>2, TakeNone DEF IsCursor
  <2>2. PICK t : t \in Take(Cursor(bytes), n)
    BY <1>2, <2>1
  <2>3. /\ Splits(bytes, t, Byte) /\ Len(t.head) = n
        /\ Take(Cursor(bytes), n) = {t} /\ After(Take(Cursor(bytes), n)) = Cursor(t.rest)
    BY <2>2, TakeSplits
  <2>4. Step(Byte, from, Take(from, n), n)
    BY <2>1, <2>3 DEF Step
  <2>5. t.rest \in Seq(Byte) /\ from # {}
    BY <2>1, <2>3 DEF Splits, Cursor
  <2>6. QED
    BY <1>2, <2>1, <2>3, <2>4, <2>5 DEF IsCursor
<1>3. QED
  BY <1>1, <1>2

LEMMA TakePrefixedStep ==
    ASSUME NEW from, IsCursor(from)
    PROVE  /\ IsCursor(After(TakePrefixed(from)))
           /\ TakePrefixed(from) # {} => PrefixedStep(from, TakePrefixed(from)) /\ from # {}
           /\ TakePrefixed(from) = {} => After(TakePrefixed(from)) = {}
<1>1. CASE TakePrefixed(from) = {}
  BY <1>1, TakeNone DEF IsCursor
<1>2. CASE TakePrefixed(from) # {}
  <2>1. PICK bytes \in Seq(Byte) : from = Cursor(bytes)
    BY <1>2, TakeNone DEF IsCursor
  <2>2. PICK t : t \in TakePrefixed(Cursor(bytes))
    BY <1>2, <2>1
  <2>3. /\ t.head \in Seq(Byte) /\ t.rest \in Seq(Byte) /\ bytes = Prefixed(t.head) \o t.rest
        /\ TakePrefixed(Cursor(bytes)) = {t} /\ After(TakePrefixed(Cursor(bytes))) = Cursor(t.rest)
    BY <2>2, TakePrefixedSplits
  <2>4. PrefixedStep(from, TakePrefixed(from))
    BY <2>1, <2>3 DEF PrefixedStep
  <2>5. from # {}
    BY <2>1 DEF Cursor
  <2>6. QED
    BY <1>2, <2>1, <2>3, <2>4, <2>5 DEF IsCursor
<1>3. QED
  BY <1>1, <1>2

LEMMA OneOf ==
    /\ \A x, y : Cursor(x) = Cursor(y) => x = y
    /\ \A x : The({x}) = x
  BY DEF Cursor, The

LEMMA Joining ==
    /\ \A x, y \in Bytes : x \o y \in Bytes
    /\ \A x, y, z \in Bytes : (x \o y) \o z = x \o (y \o z)
    /\ \A x \in Bytes : x \o <<>> = x /\ <<>> \o x = x
  BY ConcatProperties, ConcatAssociative, ConcatEmptySeq DEF Bytes

LEMMA Shift ==
    ASSUME NEW x, NEW y, NEW z, x \in Bytes, y \in Bytes, z \in Bytes
    PROVE  x \o y \in Bytes /\ (x \o y) \o z = x \o (y \o z)
  BY Joining

\* The bytes of an SCT, field after field.
LEMMA EncodedSctIs ==
    ASSUME NEW sct \in ParsedScts
    PROVE  /\ EncodedSct(sct) \in Bytes
           /\ EncodedSct(sct) = sct.version \o (sct.logId \o (sct.timestampMs \o (Prefixed(sct.extensions)
                  \o (sct.hashAlgorithm \o (sct.signatureAlgorithm \o (Prefixed(sct.signature) \o <<>>))))))
<1> DEFINE v == sct.version
           l == sct.logId
           t == sct.timestampMs
           e == Prefixed(sct.extensions)
           h == sct.hashAlgorithm
           a == sct.signatureAlgorithm
           s == Prefixed(sct.signature)
           p1 == v \o l
           p2 == p1 \o t
           p3 == p2 \o e
           p4 == p3 \o h
           p5 == p4 \o a
           q5 == a \o s
           q4 == h \o q5
           q3 == e \o q4
           q2 == t \o q3
<1>1. /\ v \in Seq(Byte) /\ l \in Seq(Byte) /\ t \in Seq(Byte) /\ sct.extensions \in Seq(Byte)
      /\ h \in Seq(Byte) /\ a \in Seq(Byte) /\ sct.signature \in Seq(Byte)
  BY DEF ParsedScts
<1>v. v \in Bytes
  BY <1>1, BytesAreNumbers
<1>l. l \in Bytes
  BY <1>1, BytesAreNumbers
<1>t. t \in Bytes
  BY <1>1, BytesAreNumbers
<1>e. e \in Bytes
  BY <1>1, BytesAreNumbers
<1>h. h \in Bytes
  BY <1>1, BytesAreNumbers
<1>a. a \in Bytes
  BY <1>1, BytesAreNumbers
<1>s. s \in Bytes
  BY <1>1, BytesAreNumbers
<1>2. EncodedSct(sct) = p5 \o s
  BY DEF EncodedSct
<1> HIDE DEF v, l, t, e, h, a, s
<1>3. s \o <<>> = s
  BY <1>s, Joining
<1>4. p1 \in Bytes
  BY <1>v, <1>l, Shift
<1>5. q5 \in Bytes
  BY <1>a, <1>s, Shift
<1> HIDE DEF p1, q5
<1>6. p2 \in Bytes
  BY <1>4, <1>t, Shift
<1>7. q4 \in Bytes
  BY <1>h, <1>5, Shift
<1> HIDE DEF p2, q4
<1>8. p3 \in Bytes
  BY <1>6, <1>e, Shift
<1>9. q3 \in Bytes
  BY <1>e, <1>7, Shift
<1> HIDE DEF p3, q3
<1>10. p4 \in Bytes
  BY <1>8, <1>h, Shift
<1>11. q2 \in Bytes
  BY <1>t, <1>9, Shift
<1> HIDE DEF p4, q2
<1>12. p5 \in Bytes
  BY <1>10, <1>a, Shift
<1>13. p5 \o s = p4 \o q5
  BY <1>10, <1>a, <1>s, Shift DEF p5, q5
<1> HIDE DEF p5
<1>14. p4 \o q5 = p3 \o q4
  BY <1>8, <1>h, <1>5, Shift DEF p4, q4
<1>15. p3 \o q4 = p2 \o q3
  BY <1>6, <1>e, <1>7, Shift DEF p3, q3
<1>16. p2 \o q3 = p1 \o q2
  BY <1>4, <1>t, <1>9, Shift DEF p2, q2
<1>17. p1 \o q2 = v \o (l \o q2)
  BY <1>v, <1>l, <1>11, Shift DEF p1
<1>18. p5 \o s \in Bytes
  BY <1>12, <1>s, Shift
<1>19. EncodedSct(sct) = v \o (l \o (t \o (e \o (h \o (a \o (s \o <<>>))))))
  BY <1>2, <1>3, <1>13, <1>14, <1>15, <1>16, <1>17 DEF q2, q3, q4, q5
<1>20. QED
  BY <1>2, <1>18, <1>19 DEF v, l, t, e, h, a, s

\* parse_single_sct reads what encodes an SCT, and nothing else.
LEMMA SctSplits ==
    ASSUME NEW bytes \in Seq(Byte),
           NEW version, NEW logId, NEW timestamp, NEW extensions, NEW hashAlg, NEW sigAlg, NEW signature,
           version = Take(Cursor(bytes), 1),
           logId = Take(After(version), LogIdBytes),
           timestamp = Take(After(logId), TimestampBytes),
           extensions = TakePrefixed(After(timestamp)),
           hashAlg = Take(After(extensions), 1),
           sigAlg = Take(After(hashAlg), 1),
           signature = TakePrefixed(After(sigAlg)),
           NEW taken \in signature, taken.rest = <<>>
    PROVE  LET sct == [version |-> The(version).head, logId |-> The(logId).head, timestampMs |-> The(timestamp).head,
                       extensions |-> The(extensions).head, hashAlgorithm |-> The(hashAlg).head,
                       signatureAlgorithm |-> The(sigAlg).head, signature |-> taken.head]
           IN  sct \in ParsedScts /\ EncodedSct(sct) = bytes /\ signature = {taken}
<1> DEFINE sct == [version |-> The(version).head, logId |-> The(logId).head, timestampMs |-> The(timestamp).head,
                   extensions |-> The(extensions).head, hashAlgorithm |-> The(hashAlg).head,
                   signatureAlgorithm |-> The(sigAlg).head, signature |-> taken.head]
<1>1. 1 \in Nat /\ LogIdBytes \in Nat /\ TimestampBytes \in Nat
  BY SctListAssumption DEF SctListAssumption
<1>2. IsCursor(Cursor(bytes))
  BY DEF IsCursor
<1>3. IsCursor(After(version))
  BY <1>1, <1>2, TakeStep
<1>4. IsCursor(After(logId))
  BY <1>1, <1>3, TakeStep
<1>5. IsCursor(After(timestamp))
  BY <1>1, <1>4, TakeStep
<1>6. IsCursor(After(extensions))
  BY <1>5, TakePrefixedStep
<1>7. IsCursor(After(hashAlg))
  BY <1>1, <1>6, TakeStep
<1>8. IsCursor(After(sigAlg))
  BY <1>1, <1>7, TakeStep
<1>9. PrefixedStep(After(sigAlg), signature) /\ After(sigAlg) # {}
  BY <1>8, TakePrefixedStep
<1>10. Step(Byte, After(hashAlg), sigAlg, 1) /\ After(hashAlg) # {}
  BY <1>1, <1>7, <1>9, TakeStep
<1>11. Step(Byte, After(extensions), hashAlg, 1) /\ After(extensions) # {}
  BY <1>1, <1>6, <1>10, TakeStep
<1>12. PrefixedStep(After(timestamp), extensions) /\ After(timestamp) # {}
  BY <1>5, <1>11, TakePrefixedStep
<1>13. Step(Byte, After(logId), timestamp, TimestampBytes) /\ After(logId) # {}
  BY <1>1, <1>4, <1>12, TakeStep
<1>14. Step(Byte, After(version), logId, LogIdBytes) /\ After(version) # {}
  BY <1>1, <1>3, <1>13, TakeStep
<1>15. Step(Byte, Cursor(bytes), version, 1)
  BY <1>1, <1>2, <1>14, TakeStep
<1>16. PICK v : /\ version = {v} /\ After(version) = Cursor(v.rest)
                /\ Splits(bytes, v, Byte) /\ Len(v.head) = 1
  BY <1>15, OneOf DEF Step
<1>17. PICK l : /\ logId = {l} /\ After(logId) = Cursor(l.rest)
                /\ Splits(v.rest, l, Byte) /\ Len(l.head) = LogIdBytes
  BY <1>14, <1>16, OneOf DEF Step
<1>18. PICK t : /\ timestamp = {t} /\ After(timestamp) = Cursor(t.rest)
                /\ Splits(l.rest, t, Byte) /\ Len(t.head) = TimestampBytes
  BY <1>13, <1>17, OneOf DEF Step
<1>19. PICK e : /\ extensions = {e} /\ After(extensions) = Cursor(e.rest)
                /\ e.head \in Seq(Byte) /\ e.rest \in Seq(Byte) /\ t.rest = Prefixed(e.head) \o e.rest
  BY <1>12, <1>18, OneOf DEF PrefixedStep
<1>20. PICK h : /\ hashAlg = {h} /\ After(hashAlg) = Cursor(h.rest)
                /\ Splits(e.rest, h, Byte) /\ Len(h.head) = 1
  BY <1>11, <1>19, OneOf DEF Step
<1>21. PICK a : /\ sigAlg = {a} /\ After(sigAlg) = Cursor(a.rest)
                /\ Splits(h.rest, a, Byte) /\ Len(a.head) = 1
  BY <1>10, <1>20, OneOf DEF Step
<1>22. PICK s : /\ signature = {s}
                /\ s.head \in Seq(Byte) /\ s.rest \in Seq(Byte) /\ a.rest = Prefixed(s.head) \o s.rest
  BY <1>9, <1>21, OneOf DEF PrefixedStep
<1>23. s = taken /\ s.rest = <<>>
  BY <1>22
<1>24. sct = [version |-> v.head, logId |-> l.head, timestampMs |-> t.head, extensions |-> e.head,
              hashAlgorithm |-> h.head, signatureAlgorithm |-> a.head, signature |-> s.head]
  BY <1>16, <1>17, <1>18, <1>19, <1>20, <1>21, <1>23, OneOf
<1>25. bytes = v.head \o (l.head \o (t.head \o (Prefixed(e.head)
                  \o (h.head \o (a.head \o (Prefixed(s.head) \o <<>>))))))
  <2>1. /\ bytes = v.head \o v.rest /\ v.rest = l.head \o l.rest /\ l.rest = t.head \o t.rest
        /\ t.rest = Prefixed(e.head) \o e.rest /\ e.rest = h.head \o h.rest /\ h.rest = a.head \o a.rest
        /\ a.rest = Prefixed(s.head) \o <<>>
    BY <1>16, <1>17, <1>18, <1>19, <1>20, <1>21, <1>22, <1>23 DEF Splits
  <2>2. QED
    BY <2>1, Zenon
<1> HIDE DEF sct
<1>26. /\ sct.version = v.head /\ sct.logId = l.head /\ sct.timestampMs = t.head /\ sct.extensions = e.head
       /\ sct.hashAlgorithm = h.head /\ sct.signatureAlgorithm = a.head /\ sct.signature = s.head
  BY <1>24
<1>27. sct \in ParsedScts
  BY <1>16, <1>17, <1>18, <1>19, <1>20, <1>21, <1>22, <1>24 DEF ParsedScts, Splits
<1>28. EncodedSct(sct) = bytes
  BY <1>25, <1>26, <1>27, EncodedSctIs
<1>29. QED
  BY <1>22, <1>23, <1>27, <1>28 DEF sct

LEMMA SctGives ==
    ASSUME NEW sct \in ParsedScts,
           NEW version, NEW logId, NEW timestamp, NEW extensions, NEW hashAlg, NEW sigAlg, NEW signature,
           version = Take(Cursor(EncodedSct(sct)), 1),
           logId = Take(After(version), LogIdBytes),
           timestamp = Take(After(logId), TimestampBytes),
           extensions = TakePrefixed(After(timestamp)),
           hashAlg = Take(After(extensions), 1),
           sigAlg = Take(After(hashAlg), 1),
           signature = TakePrefixed(After(sigAlg))
    PROVE  \E taken \in signature : taken.rest = <<>>
<1> DEFINE v == sct.version
           l == sct.logId
           t == sct.timestampMs
           e == sct.extensions
           h == sct.hashAlgorithm
           a == sct.signatureAlgorithm
           s == sct.signature
           q6 == Prefixed(s) \o <<>>
           q5 == a \o q6
           q4 == h \o q5
           q3 == Prefixed(e) \o q4
           q2 == t \o q3
           q1 == l \o q2
<1>1. /\ v \in Seq(Byte) /\ l \in Seq(Byte) /\ t \in Seq(Byte) /\ e \in Seq(Byte)
      /\ h \in Seq(Byte) /\ a \in Seq(Byte) /\ s \in Seq(Byte)
      /\ Len(v) = 1 /\ Len(l) = LogIdBytes /\ Len(t) = TimestampBytes /\ Len(h) = 1 /\ Len(a) = 1
  BY DEF ParsedScts
<1>2. /\ v \in Bytes /\ l \in Bytes /\ t \in Bytes /\ e \in Bytes
      /\ h \in Bytes /\ a \in Bytes /\ s \in Bytes /\ <<>> \in Bytes
  BY <1>1, BytesAreNumbers, EmptySeq DEF Bytes
<1>3. EncodedSct(sct) = v \o q1
  BY EncodedSctIs
<1> HIDE DEF v, l, t, e, h, a, s
<1>4. Prefixed(s) \in Bytes /\ Prefixed(e) \in Bytes
  BY <1>2, BytesAreNumbers
<1>5. q6 \in Bytes
  BY <1>2, <1>4, Joining
<1> HIDE DEF q6
<1>6. q5 \in Bytes
  BY <1>2, <1>5, Joining
<1> HIDE DEF q5
<1>7. q4 \in Bytes
  BY <1>2, <1>6, Joining
<1> HIDE DEF q4
<1>8. q3 \in Bytes
  BY <1>4, <1>7, Joining
<1> HIDE DEF q3
<1>9. q2 \in Bytes
  BY <1>2, <1>8, Joining
<1> HIDE DEF q2
<1>10. q1 \in Bytes
  BY <1>2, <1>9, Joining
<1> HIDE DEF q1
<1>11. \A head, rest : After({[head |-> head, rest |-> rest]}) = Cursor(rest)
  BY DEF After, Cursor
<1>12. version = {[head |-> v, rest |-> q1]}
  BY <1>1, <1>2, <1>3, <1>10, TakeGives
<1>13. After(version) = Cursor(q1)
  BY <1>11, <1>12
<1>14. logId = {[head |-> l, rest |-> q2]}
  BY <1>1, <1>2, <1>9, <1>13, TakeGives DEF q1
<1>15. After(logId) = Cursor(q2)
  BY <1>11, <1>14
<1>16. timestamp = {[head |-> t, rest |-> q3]}
  BY <1>1, <1>2, <1>8, <1>15, TakeGives DEF q2
<1>17. After(timestamp) = Cursor(q3)
  BY <1>11, <1>16
<1>18. extensions = {[head |-> e, rest |-> q4]}
  BY <1>2, <1>7, <1>17, TakePrefixedGives DEF q3
<1>19. After(extensions) = Cursor(q4)
  BY <1>11, <1>18
<1>20. hashAlg = {[head |-> h, rest |-> q5]}
  BY <1>1, <1>2, <1>6, <1>19, TakeGives DEF q4
<1>21. After(hashAlg) = Cursor(q5)
  BY <1>11, <1>20
<1>22. sigAlg = {[head |-> a, rest |-> q6]}
  BY <1>1, <1>2, <1>5, <1>21, TakeGives DEF q5
<1>23. After(sigAlg) = Cursor(q6)
  BY <1>11, <1>22
<1>24. signature = {[head |-> s, rest |-> <<>>]}
  BY <1>2, <1>23, TakePrefixedGives DEF q6
<1> DEFINE read == [head |-> s, rest |-> <<>>]
<1>25. read.rest = <<>> /\ read \in signature
  BY <1>24
<1>26. QED
  BY <1>25, Zenon

LEMMA ParseSctMeans ==
    ASSUME NEW bytes \in Seq(Byte)
    PROVE  /\ \A sct \in ParseSingleSct(bytes) : sct \in ParsedScts /\ EncodedSct(sct) = bytes
           /\ ParseSingleSct(bytes) = {} \/ \E sct : ParseSingleSct(bytes) = {sct}
           /\ \A sct \in ParsedScts : bytes = EncodedSct(sct) => ParseSingleSct(bytes) # {}
<1>1. PICK version, logId, timestamp, extensions, hashAlg, sigAlg, signature :
          /\ version = Take(Cursor(bytes), 1)
          /\ logId = Take(After(version), LogIdBytes)
          /\ timestamp = Take(After(logId), TimestampBytes)
          /\ extensions = TakePrefixed(After(timestamp))
          /\ hashAlg = Take(After(extensions), 1)
          /\ sigAlg = Take(After(hashAlg), 1)
          /\ signature = TakePrefixed(After(sigAlg))
  OBVIOUS
<1> DEFINE sctOf(taken) ==
               [version |-> The(version).head, logId |-> The(logId).head, timestampMs |-> The(timestamp).head,
                extensions |-> The(extensions).head, hashAlgorithm |-> The(hashAlg).head,
                signatureAlgorithm |-> The(sigAlg).head, signature |-> taken.head]
<1>2. ParseSingleSct(bytes) = {sctOf(taken) : taken \in {t \in signature : t.rest = <<>>}}
  BY <1>1 DEF ParseSingleSct
<1>3. ASSUME NEW taken \in signature, taken.rest = <<>>
      PROVE  sctOf(taken) \in ParsedScts /\ EncodedSct(sctOf(taken)) = bytes /\ signature = {taken}
  BY <1>1, <1>3, SctSplits
<1>4. ASSUME NEW sct \in ParsedScts, bytes = EncodedSct(sct)
      PROVE  \E taken \in signature : taken.rest = <<>>
  BY <1>1, <1>4, SctGives
<1> HIDE DEF sctOf
<1>5. QED
  BY <1>2, <1>3, <1>4

-----------------------------------------------------------------------------
(***************************************************************************)
(* The SCTs of a list, one after the other.  What is encoded up to an SCT  *)
(* depends on no SCT behind it.                                            *)
(***************************************************************************)
IsUpTo(upTo, scts0, n) ==
    upTo = [i \in 0..n |-> IF i = 0 THEN <<>> ELSE upTo[i - 1] \o Prefixed(EncodedSct(scts0[i]))]

Body(scts0) ==
    LET upTo[i \in 0..Len(scts0)] == IF i = 0 THEN <<>> ELSE upTo[i - 1] \o Prefixed(EncodedSct(scts0[i]))
    IN  upTo[Len(scts0)]

LEMMA UpToExists ==
    ASSUME NEW scts0, NEW n \in Nat
    PROVE  \E upTo : IsUpTo(upTo, scts0, n)
<1> DEFINE without == {k \in Nat : ~\E upTo : IsUpTo(upTo, scts0, k)}
<1>1. SUFFICES ASSUME without # {}
               PROVE  FALSE
  OBVIOUS
<1>2. PICK k \in without : \A j \in without : k <= j
  BY <1>1, LeastElement
<1>3. CASE k = 0
  <2> DEFINE f == [i \in 0..0 |-> <<>>]
  <2>1. f = [i \in 0..0 |-> IF i = 0 THEN <<>> ELSE f[i - 1] \o Prefixed(EncodedSct(scts0[i]))]
    OBVIOUS
  <2> HIDE DEF f
  <2>2. IsUpTo(f, scts0, 0)
    BY <2>1 DEF IsUpTo
  <2>3. QED
    BY <1>2, <1>3, <2>2
<1>4. CASE k # 0
  <2>1. k \in Nat /\ k - 1 \in Nat /\ k - 1 \notin without
    BY <1>2, <1>4
  <2>2. PICK f : IsUpTo(f, scts0, k - 1)
    BY <2>1
  <2> DEFINE P(i) == Prefixed(EncodedSct(scts0[i]))
             g == [i \in 0..k |-> IF i = k THEN f[k - 1] \o P(k) ELSE f[i]]
  <2>3. f = [i \in 0..(k - 1) |-> IF i = 0 THEN <<>> ELSE f[i - 1] \o P(i)]
    BY <2>2 DEF IsUpTo
  <2> HIDE DEF P
  <2>4. \A i \in 0..(k - 1) : g[i] = f[i]
    BY <2>1
  <2>5. \A i \in 0..k : g[i] = IF i = 0 THEN <<>> ELSE g[i - 1] \o P(i)
    <3> SUFFICES ASSUME NEW i \in 0..k
                 PROVE  g[i] = IF i = 0 THEN <<>> ELSE g[i - 1] \o P(i)
      OBVIOUS
    <3>1. CASE i = k
      <4>1. g[k] = f[k - 1] \o P(k) /\ g[k - 1] = f[k - 1]
        BY <2>1, <2>4
      <4>2. QED
        BY <1>4, <3>1, <4>1
    <3>2. CASE i # k
      <4>1. i \in 0..(k - 1)
        BY <2>1, <3>2
      <4>2. f[i] = IF i = 0 THEN <<>> ELSE f[i - 1] \o P(i)
        BY <2>3, <4>1
      <4>3. i # 0 => g[i - 1] = f[i - 1]
        BY <2>1, <2>4, <4>1
      <4>4. QED
        BY <2>4, <4>1, <4>2, <4>3
    <3>3. QED
      BY <3>1, <3>2
  <2>6. g = [i \in 0..k |-> g[i]]
    OBVIOUS
  <2> HIDE DEF g
  <2>7. g = [i \in 0..k |-> IF i = 0 THEN <<>> ELSE g[i - 1] \o P(i)]
    BY <2>5, <2>6
  <2>8. IsUpTo(g, scts0, k)
    BY <2>7 DEF IsUpTo, P
  <2>9. QED
    BY <1>2, <2>8
<1>5. QED
  BY <1>3, <1>4

LEMMA BodyIs ==
    ASSUME NEW scts0, Len(scts0) \in Nat
    PROVE  /\ \E upTo : IsUpTo(upTo, scts0, Len(scts0)) /\ Body(scts0) = upTo[Len(scts0)]
           /\ EncodedList(scts0) = Prefixed(Body(scts0))
<1>1. \E upTo : IsUpTo(upTo, scts0, Len(scts0))
  BY UpToExists
<1>2. \E upTo : IsUpTo(upTo, scts0, Len(scts0)) /\ Body(scts0) = upTo[Len(scts0)]
  BY <1>1 DEF Body, IsUpTo
<1>3. EncodedList(scts0) = Prefixed(Body(scts0))
  BY DEF EncodedList, Body
<1>4. QED
  BY <1>2, <1>3

LEMMA UpToAgree ==
    ASSUME NEW scts0, NEW scts1, NEW f, NEW g, NEW m \in Nat, NEW n \in Nat, NEW k \in 0..n, k <= m,
           IsUpTo(f, scts0, m), IsUpTo(g, scts1, n), \A i \in 1..k : scts0[i] = scts1[i]
    PROVE  f[k] = g[k]
<1> DEFINE apart == {j \in 0..k : f[j] # g[j]}
<1>1. SUFFICES ASSUME apart # {}
               PROVE  FALSE
  OBVIOUS
<1>2. PICK j \in apart : \A l \in apart : j <= l
  <2>1. apart \in SUBSET Nat
    OBVIOUS
  <2>2. QED
    BY <1>1, <2>1, LeastElement
<1>3. /\ f[j] = IF j = 0 THEN <<>> ELSE f[j - 1] \o Prefixed(EncodedSct(scts0[j]))
      /\ g[j] = IF j = 0 THEN <<>> ELSE g[j - 1] \o Prefixed(EncodedSct(scts1[j]))
  <2>1. j \in 0..m /\ j \in 0..n
    BY <1>2
  <2>2. QED
    BY <2>1 DEF IsUpTo
<1>4. CASE j = 0
  BY <1>2, <1>3, <1>4
<1>5. CASE j # 0
  <2>1. j - 1 \in 0..k /\ j \in 1..k /\ j - 1 \notin apart
    BY <1>2, <1>5
  <2>2. f[j - 1] = g[j - 1] /\ scts0[j] = scts1[j]
    BY <2>1
  <2>3. QED
    BY <1>2, <1>3, <1>5, <2>2
<1>6. QED
  BY <1>4, <1>5

LEMMA BodyGrows ==
    /\ Body(<<>>) = <<>>
    /\ \A scts0 \in Seq(ParsedScts), sct \in ParsedScts :
          Body(Append(scts0, sct)) = Body(scts0) \o Prefixed(EncodedSct(sct))
<1>1. Body(<<>>) = <<>>
  <2>1. Len(<<>>) = 0
    OBVIOUS
  <2>2. PICK f : IsUpTo(f, <<>>, 0) /\ Body(<<>>) = f[0]
    BY <2>1, BodyIs
  <2>3. QED
    BY <2>2 DEF IsUpTo
<1>2. ASSUME NEW scts0 \in Seq(ParsedScts), NEW sct \in ParsedScts
      PROVE  Body(Append(scts0, sct)) = Body(scts0) \o Prefixed(EncodedSct(sct))
  <2> DEFINE n == Len(scts0)
             longer == Append(scts0, sct)
  <2>1. /\ n \in Nat /\ Len(longer) = n + 1 /\ longer[n + 1] = sct
        /\ \A i \in 1..n : longer[i] = scts0[i]
    BY LenProperties, AppendProperties
  <2> HIDE DEF n, longer
  <2>2. PICK f : IsUpTo(f, scts0, n) /\ Body(scts0) = f[n]
    BY <2>1, BodyIs DEF n
  <2>3. PICK g : IsUpTo(g, longer, n + 1) /\ Body(longer) = g[n + 1]
    BY <2>1, BodyIs
  <2>4. f[n] = g[n]
    <3>1. n + 1 \in Nat /\ n \in 0..(n + 1) /\ n <= n /\ \A i \in 1..n : scts0[i] = longer[i]
      BY <2>1
    <3>2. QED
      BY <2>1, <2>2, <2>3, <3>1, UpToAgree
  <2>5. g[n + 1] = g[n] \o Prefixed(EncodedSct(sct))
    <3>1. n + 1 \in 0..(n + 1) /\ n + 1 # 0 /\ (n + 1) - 1 = n
      BY <2>1
    <3>2. g[n + 1] = g[(n + 1) - 1] \o Prefixed(EncodedSct(longer[n + 1]))
      BY <2>3, <3>1 DEF IsUpTo
    <3>3. QED
      BY <2>1, <3>1, <3>2
  <2>6. QED
    BY <2>2, <2>3, <2>4, <2>5 DEF longer
<1>3. QED
  BY <1>1, <1>2

\* The list up to its k-th SCT, and the next one.
LEMMA NextSct ==
    ASSUME NEW scts0 \in Seq(ParsedScts), NEW k \in 0..Len(scts0)
    PROVE  /\ SubSeq(scts0, 1, k) \in Seq(ParsedScts)
           /\ k = 0 => SubSeq(scts0, 1, k) = <<>>
           /\ k = Len(scts0) => SubSeq(scts0, 1, k) = scts0
           /\ k < Len(scts0) => /\ k + 1 \in 0..Len(scts0) /\ scts0[k + 1] \in ParsedScts
                                /\ SubSeq(scts0, 1, k + 1) = Append(SubSeq(scts0, 1, k), scts0[k + 1])
<1>1. Len(scts0) \in Nat /\ \A i \in 1..Len(scts0) : scts0[i] \in ParsedScts
  BY LenProperties, ElementOfSeq
<1>2. SubSeq(scts0, 1, k) \in Seq(ParsedScts)
  <2>1. \A i \in 1..k : scts0[i] \in ParsedScts
    BY <1>1
  <2>2. QED
    BY <1>1, <2>1, SubSeqProperties
<1>3. k = 0 => SubSeq(scts0, 1, k) = <<>>
  BY SubSeqEmpty
<1>4. k = Len(scts0) => SubSeq(scts0, 1, k) = scts0
  BY SubSeqFull
<1>5. ASSUME k < Len(scts0)
      PROVE  /\ k + 1 \in 0..Len(scts0) /\ scts0[k + 1] \in ParsedScts
             /\ SubSeq(scts0, 1, k + 1) = Append(SubSeq(scts0, 1, k), scts0[k + 1])
  <2>1. k + 1 \in 1..Len(scts0) /\ 1 \in 1..Len(scts0) /\ (k + 1) - 1 = k
    BY <1>1, <1>5
  <2>2. SubSeq(scts0, 1, k + 1) = SubSeq(scts0, 1, (k + 1) - 1) \o << scts0[k + 1] >>
    BY <2>1, SubSeqRecursiveSecond
  <2>3. Append(SubSeq(scts0, 1, k), scts0[k + 1]) = SubSeq(scts0, 1, k) \o << scts0[k + 1] >>
    BY <1>1, <1>2, <2>1, AppendIsConcat
  <2>4. QED
    BY <1>1, <2>1, <2>2, <2>3
<1>6. QED
  BY <1>2, <1>3, <1>4, <1>5

LEMMA BodyIsBytes ==
    ASSUME NEW scts0 \in Seq(ParsedScts)
    PROVE  Body(scts0) \in Bytes
<1> DEFINE n == Len(scts0)
           bad == {k \in 0..n : Body(SubSeq(scts0, 1, k)) \notin Bytes}
<1>1. n \in Nat
  BY LenProperties
<1> HIDE DEF n
<1>2. ASSUME bad # {}
      PROVE  FALSE
  <2>1. PICK k \in bad : \A j \in bad : k <= j
    <3>1. bad \in SUBSET Nat
      BY <1>1
    <3>2. QED
      BY <1>2, <3>1, LeastElement
  <2>2. k # 0
    <3>1. 0 \in 0..n
      BY <1>1
    <3>2. Body(SubSeq(scts0, 1, 0)) = <<>>
      BY <3>1, NextSct, BodyGrows DEF n
    <3>3. QED
      BY <2>1, <3>2, EmptySeq DEF Bytes
  <2>3. k - 1 \in 0..n /\ k - 1 < n /\ (k - 1) + 1 = k /\ k - 1 \notin bad
    BY <1>1, <2>1, <2>2
  <2> DEFINE shorter == SubSeq(scts0, 1, k - 1)
  <2>4. /\ shorter \in Seq(ParsedScts) /\ scts0[k] \in ParsedScts
        /\ SubSeq(scts0, 1, k) = Append(shorter, scts0[k])
    BY <2>3, NextSct DEF n
  <2>5. Body(shorter) \in Bytes
    BY <2>3
  <2> HIDE DEF shorter
  <2>6. Prefixed(EncodedSct(scts0[k])) \in Bytes
    BY <2>4, EncodedSctIs, BytesAreNumbers
  <2>7. Body(SubSeq(scts0, 1, k)) = Body(shorter) \o Prefixed(EncodedSct(scts0[k]))
    BY <2>4, BodyGrows
  <2>8. QED
    BY <2>1, <2>5, <2>6, <2>7, Joining
<1>3. n \in 0..n /\ SubSeq(scts0, 1, n) = scts0
  BY <1>1, NextSct DEF n
<1>4. QED
  BY <1>2, <1>3

\* What an encoding has behind the k-th SCT.
LEMMA BodyEndsWith ==
    ASSUME NEW scts0 \in Seq(ParsedScts), NEW k \in 0..Len(scts0)
    PROVE  \E rest \in Bytes : Body(scts0) = Body(SubSeq(scts0, 1, k)) \o rest
<1> DEFINE n == Len(scts0)
           Ends(j) == \E rest \in Bytes : Body(scts0) = Body(SubSeq(scts0, 1, j)) \o rest
           bad == {d \in 0..n : ~Ends(n - d)}
<1>1. n \in Nat
  BY LenProperties
<1>2. ASSUME bad # {}
      PROVE  FALSE
  <2>1. PICK d \in bad : \A c \in bad : d <= c
    <3>1. bad \in SUBSET Nat
      BY <1>1
    <3> HIDE DEF bad
    <3>2. QED
      BY <1>2, <3>1, LeastElement
  <2>2. d # 0
    <3>1. n \in 0..n /\ SubSeq(scts0, 1, n) = scts0 /\ n - 0 = n
      BY <1>1, NextSct
    <3>2. Body(scts0) \o <<>> = Body(scts0) /\ <<>> \in Bytes
      BY BodyIsBytes, Joining, EmptySeq DEF Bytes
    <3>3. Ends(n)
      BY <3>1, <3>2
    <3>4. QED
      BY <2>1, <3>1, <3>3
  <2> DEFINE j == n - d
  <2>3. d - 1 \in 0..n /\ j \in 0..n /\ j < n /\ n - (d - 1) = j + 1 /\ d - 1 \notin bad
    <3>1. d \in 0..n
      BY <2>1
    <3>2. d - 1 \in 0..n /\ j \in 0..n /\ j < n /\ n - (d - 1) = j + 1 /\ ~(d <= d - 1)
      BY <1>1, <2>2, <3>1
    <3> HIDE DEF bad
    <3>3. QED
      BY <2>1, <3>2
  <2>4. Ends(j + 1)
    BY <2>3
  <2>5. PICK rest \in Bytes : Body(scts0) = Body(SubSeq(scts0, 1, j + 1)) \o rest
    BY <2>4
  <2> DEFINE shorter == SubSeq(scts0, 1, j)
             piece == Prefixed(EncodedSct(scts0[j + 1]))
  <2>6. /\ shorter \in Seq(ParsedScts) /\ scts0[j + 1] \in ParsedScts
        /\ SubSeq(scts0, 1, j + 1) = Append(shorter, scts0[j + 1])
    BY <2>3, NextSct
  <2>7. Body(SubSeq(scts0, 1, j + 1)) = Body(shorter) \o piece
    BY <2>6, BodyGrows
  <2>8. Body(shorter) \in Bytes /\ piece \in Bytes
    BY <2>6, BodyIsBytes, EncodedSctIs, BytesAreNumbers
  <2>9. piece \o rest \in Bytes /\ (Body(shorter) \o piece) \o rest = Body(shorter) \o (piece \o rest)
    BY <2>8, Joining
  <2>10. Ends(j)
    BY <2>5, <2>7, <2>9
  <2>11. QED
    BY <2>1, <2>10
<1>3. n - k \in 0..n /\ n - (n - k) = k
  BY <1>1
<1>4. QED
  BY <1>2, <1>3

(***************************************************************************)
(* What has been read of a list and what is left are its encoding; and if  *)
(* the bytes are the encoding of some list, then what is left is the       *)
(* encoding of the rest of that list, so that no read fails.               *)
(***************************************************************************)
ReadOf(list, left) ==
    \E k \in 0..Len(list) : Body(SubSeq(list, 1, k)) \o left = Body(list)

SctInv ==
    input.api = "sctList" =>
        /\ pc \in {"size", "document"} => scts = <<>>
        /\ pc = "scts" =>
              /\ scts \in Seq(ParsedScts)
              /\ \E left \in Seq(Byte) :
                    /\ cursor = Cursor(left)
                    /\ Document.bytes = Prefixed(Body(scts) \o left)
                    /\ Document.bytes = EncodedList(Document.encodes) => ReadOf(Document.encodes, left)
        /\ SctListIsExact

LEMMA PrefixedOnce ==
    ASSUME NEW x \in Bytes, NEW y \in Bytes, Prefixed(x) = Prefixed(y)
    PROVE  x = y
<1> DEFINE read(z) == [head |-> U16(Len(z)), rest |-> z]
<1>1. \A z \in Bytes : U16(Len(z)) \in Bytes /\ Len(U16(Len(z))) = 2
  BY BigEndian, LenProperties DEF Bytes
<1>2. \A z \in Bytes : Take(Cursor(Prefixed(z)), 2) = {read(z)}
  BY <1>1, TakeGives DEF Prefixed
<1>3. {read(x)} = {read(y)}
  BY <1>2
<1>4. read(x) = read(y)
  BY <1>3
<1>5. read(x).rest = read(y).rest
  BY <1>4
<1>6. QED
  BY <1>5

LEMMA ListLength ==
    ASSUME NEW bytes \in Seq(Byte), NEW list \in Seq(ParsedScts)
    PROVE  /\ \A taken \in Take(Cursor(bytes), 2) : FromBeBytes(taken.head) = Len(taken.rest) =>
                 /\ taken.rest \in Seq(Byte) /\ bytes = Prefixed(taken.rest)
                 /\ After(Take(Cursor(bytes), 2)) = Cursor(taken.rest)
                 /\ bytes = EncodedList(list) => ReadOf(list, taken.rest)
           /\ bytes = EncodedList(list) =>
                 \E taken \in Take(Cursor(bytes), 2) : FromBeBytes(taken.head) = Len(taken.rest)
<1>1. Len(list) \in Nat /\ EncodedList(list) = Prefixed(Body(list)) /\ Body(list) \in Bytes
  BY LenProperties, BodyIs, BodyIsBytes
<1>2. ASSUME NEW taken \in Take(Cursor(bytes), 2), FromBeBytes(taken.head) = Len(taken.rest)
      PROVE  /\ taken.rest \in Seq(Byte) /\ bytes = Prefixed(taken.rest)
             /\ After(Take(Cursor(bytes), 2)) = Cursor(taken.rest)
             /\ bytes = EncodedList(list) => ReadOf(list, taken.rest)
  <2>1. /\ Splits(bytes, taken, Byte) /\ Len(taken.head) = 2
        /\ After(Take(Cursor(bytes), 2)) = Cursor(taken.rest)
    <3> DEFINE two == 2
    <3>1. two \in Nat /\ taken \in Take(Cursor(bytes), two)
      OBVIOUS
    <3> HIDE DEF two
    <3>2. /\ Splits(bytes, taken, Byte) /\ Len(taken.head) = two
          /\ After(Take(Cursor(bytes), two)) = Cursor(taken.rest)
      BY <3>1, TakeSplits
    <3>3. QED
      BY <3>2 DEF two
  <2>2. taken.head \in Seq(Byte) /\ taken.rest \in Seq(Byte) /\ bytes = taken.head \o taken.rest
    BY <2>1 DEF Splits
  <2>3. U16(Len(taken.rest)) = taken.head
    BY <1>2, <2>1, <2>2, BigEndian
  <2>4. bytes = Prefixed(taken.rest)
    BY <2>2, <2>3 DEF Prefixed
  <2>5. ASSUME bytes = EncodedList(list)
        PROVE  ReadOf(list, taken.rest)
    <3>1. taken.rest \in Bytes
      BY <2>2, BytesAreNumbers
    <3>2. taken.rest = Body(list)
      BY <1>1, <2>4, <2>5, <3>1, PrefixedOnce
    <3>3. 0 \in 0..Len(list) /\ SubSeq(list, 1, 0) = <<>>
      BY <1>1, NextSct
    <3>4. Body(SubSeq(list, 1, 0)) \o taken.rest = Body(list)
      BY <1>1, <3>2, <3>3, BodyGrows, Joining
    <3>5. QED
      BY <3>3, <3>4 DEF ReadOf
  <2>6. QED
    BY <2>1, <2>2, <2>4, <2>5
<1>3. ASSUME bytes = EncodedList(list)
      PROVE  \E taken \in Take(Cursor(bytes), 2) : FromBeBytes(taken.head) = Len(taken.rest)
  <2> DEFINE body == Body(list)
             head == U16(Len(body))
             taken == [head |-> head, rest |-> body]
  <2>1. head \in Bytes /\ Len(head) = 2 /\ FromBeBytes(head) = Len(body)
    BY <1>1, BigEndian, LenProperties DEF Bytes
  <2>2. bytes = head \o body
    BY <1>1, <1>3 DEF Prefixed
  <2>3. Take(Cursor(bytes), 2) = {taken}
    BY <1>1, <2>1, <2>2, TakeGives
  <2> HIDE DEF body, head
  <2>4. taken.head = head /\ taken.rest = body /\ taken \in Take(Cursor(bytes), 2)
    BY <2>3
  <2> HIDE DEF taken
  <2>5. QED
    BY <2>1, <2>4
<1>4. QED
  BY <1>2, <1>3

\* One SCT further in the list.
LEMMA OneSct ==
    ASSUME NEW left \in Seq(Byte), left # <<>>, NEW read \in Seq(ParsedScts), NEW list \in Seq(ParsedScts)
    PROVE  LET encoded == TakePrefixed(Cursor(left))
               sct == UNION {ParseSingleSct(taken.head) : taken \in encoded}
           IN  /\ sct # {} => \E s \in ParsedScts, rest \in Seq(Byte) :
                     /\ sct = {s} /\ After(encoded) = Cursor(rest)
                     /\ Body(read) \o left = Body(Append(read, s)) \o rest
                     /\ ReadOf(list, left) => ReadOf(list, rest)
               /\ ReadOf(list, left) => sct # {}
<1> DEFINE encoded == TakePrefixed(Cursor(left))
           sct == UNION {ParseSingleSct(taken.head) : taken \in encoded}
<1>1. left \in Bytes /\ Body(read) \in Bytes /\ Len(list) \in Nat /\ Body(list) \in Bytes
  BY BytesAreNumbers, BodyIsBytes, LenProperties
\* In the encoding of a list, the next SCT is what is left first.
<1>2. ASSUME ReadOf(list, left)
      PROVE  \E s \in ParsedScts, rest \in Bytes :
                 left = Prefixed(EncodedSct(s)) \o rest /\ ReadOf(list, rest)
  <2>1. PICK k \in 0..Len(list) : Body(SubSeq(list, 1, k)) \o left = Body(list)
    BY <1>2 DEF ReadOf
  <2> DEFINE shorter == SubSeq(list, 1, k)
  <2>2. /\ shorter \in Seq(ParsedScts) /\ (k = Len(list) => shorter = list)
        /\ k < Len(list) => /\ k + 1 \in 0..Len(list) /\ list[k + 1] \in ParsedScts
                            /\ SubSeq(list, 1, k + 1) = Append(shorter, list[k + 1])
    BY NextSct
  <2>3. Body(shorter) \o left = Body(list)
    BY <2>1
  <2> HIDE DEF shorter
  <2>4. Body(shorter) \in Bytes
    BY <2>2, BodyIsBytes
  <2>5. k < Len(list)
    <3>1. ASSUME k = Len(list)
          PROVE  FALSE
      <4>1. Body(list) \o left = Body(list)
        BY <2>2, <2>3, <3>1
      <4>2. left = <<>>
        BY <1>1, <4>1, ConcatEqualIffEmpty DEF Bytes
      <4>3. QED
        BY <4>2
    <3>2. QED
      BY <1>1, <3>1
  <2> DEFINE s == list[k + 1]
             piece == Prefixed(EncodedSct(s))
             longer == SubSeq(list, 1, k + 1)
  <2>6. PICK rest \in Bytes : Body(list) = Body(longer) \o rest
    BY <2>2, <2>5, BodyEndsWith
  <2>7. Body(longer) = Body(shorter) \o piece
    BY <2>2, <2>5, BodyGrows
  <2>8. piece \in Bytes /\ s \in ParsedScts
    BY <2>2, <2>5, EncodedSctIs, BytesAreNumbers
  <2> HIDE DEF s, piece, longer
  <2>9. Body(list) = Body(shorter) \o (piece \o rest) /\ piece \o rest \in Bytes
    <3>1. (Body(shorter) \o piece) \o rest = Body(shorter) \o (piece \o rest)
      BY <2>4, <2>8, Shift
    <3>2. piece \o rest \in Bytes
      BY <2>8, Shift
    <3>3. QED
      BY <2>6, <2>7, <3>1, <3>2
  <2>10. left = piece \o rest
    <3> DEFINE b == Body(shorter)
               r == piece \o rest
    <3>1. b \in Seq(Nat) /\ left \in Seq(Nat) /\ r \in Seq(Nat) /\ b \o left = b \o r
      BY <1>1, <2>3, <2>4, <2>9 DEF Bytes
    <3> HIDE DEF b, r
    <3>2. left = r
      BY <3>1, ConcatSimplifications
    <3>3. QED
      BY <3>2 DEF r
  <2>11. ReadOf(list, rest)
    BY <2>2, <2>5, <2>6 DEF ReadOf, longer
  <2>12. QED
    BY <2>8, <2>10, <2>11 DEF piece
<1>3. ASSUME sct # {}
      PROVE  \E s \in ParsedScts, rest \in Seq(Byte) :
                 /\ sct = {s} /\ After(encoded) = Cursor(rest)
                 /\ Body(read) \o left = Body(Append(read, s)) \o rest
                 /\ ReadOf(list, left) => ReadOf(list, rest)
  <2>1. PICK taken \in encoded : ParseSingleSct(taken.head) # {}
    BY <1>3
  <2>2. /\ taken.head \in Seq(Byte) /\ taken.rest \in Seq(Byte)
        /\ left = Prefixed(taken.head) \o taken.rest
        /\ encoded = {taken} /\ After(encoded) = Cursor(taken.rest)
    BY <2>1, TakePrefixedSplits
  <2>3. sct = ParseSingleSct(taken.head)
    BY <2>2
  <2> HIDE DEF encoded, sct
  <2>4. PICK s : sct = {s} /\ s \in ParsedScts /\ EncodedSct(s) = taken.head
    BY <2>1, <2>2, <2>3, ParseSctMeans
  <2> DEFINE piece == Prefixed(EncodedSct(s))
             rest == taken.rest
  <2>5. piece \in Bytes /\ rest \in Bytes /\ left = piece \o rest
    BY <2>2, <2>4, EncodedSctIs, BytesAreNumbers
  <2>6. Body(Append(read, s)) = Body(read) \o piece
    BY <2>4, BodyGrows
  <2>7. ASSUME ReadOf(list, left)
        PROVE  ReadOf(list, rest)
    <3>1. PICK t \in ParsedScts, end \in Bytes :
              left = Prefixed(EncodedSct(t)) \o end /\ ReadOf(list, end)
      BY <1>2, <2>7
    <3>2. taken.head \in Bytes /\ EncodedSct(t) \in Bytes
      BY <2>2, EncodedSctIs, BytesAreNumbers
    <3>3. {[head |-> taken.head, rest |-> rest]} = {[head |-> EncodedSct(t), rest |-> end]}
      <4>1. TakePrefixed(Cursor(left)) = {[head |-> taken.head, rest |-> rest]}
        BY <2>2, <2>5, <3>2, TakePrefixedGives
      <4>2. TakePrefixed(Cursor(left)) = {[head |-> EncodedSct(t), rest |-> end]}
        BY <3>1, <3>2, TakePrefixedGives
      <4>3. QED
        BY <4>1, <4>2
    <3> HIDE DEF rest
    <3>4. [head |-> taken.head, rest |-> rest].rest = [head |-> EncodedSct(t), rest |-> end].rest
      BY <3>3
    <3>5. rest = end
      BY <3>4
    <3>6. QED
      BY <3>1, <3>5
  <2> HIDE DEF piece
  <2>8. Body(read) \o left = Body(Append(read, s)) \o rest
    <3>1. Body(read) \in Bytes /\ piece \in Bytes /\ rest \in Bytes
      BY <1>1, <2>5
    <3> HIDE DEF rest
    <3>2. (Body(read) \o piece) \o rest = Body(read) \o (piece \o rest)
      BY <3>1, Shift
    <3>3. QED
      BY <2>5, <2>6, <3>2 DEF piece
  <2>9. QED
    BY <2>2, <2>4, <2>7, <2>8
<1>4. ASSUME ReadOf(list, left)
      PROVE  sct # {}
  <2>1. PICK s \in ParsedScts, rest \in Bytes : left = Prefixed(EncodedSct(s)) \o rest
    BY <1>2, <1>4
  <2>2. EncodedSct(s) \in Bytes
    BY EncodedSctIs
  <2> DEFINE taken == [head |-> EncodedSct(s), rest |-> rest]
  <2>3. encoded = {taken}
    BY <2>1, <2>2, TakePrefixedGives
  <2>4. taken.head = EncodedSct(s) /\ taken \in encoded
    BY <2>3
  <2> HIDE DEF taken, encoded
  <2>5. taken.head \in Seq(Byte)
    BY <2>4, TakePrefixedSplits DEF encoded
  <2>6. ParseSingleSct(taken.head) # {}
    BY <2>4, <2>5, ParseSctMeans
  <2>7. QED
    BY <2>4, <2>6
<1>5. QED
  BY <1>3, <1>4

LEMMA SctListSteps ==
    ASSUME PlaceInv, WireNext, input.api = "sctList"
    PROVE  /\ UNCHANGED input
           /\ (CheckInputSize /\ UNCHANGED wire) \/ TakeListLength \/ TakeSct \/ EndOfSctList
<1>1. CASE Elsewhere
  <2>1. UNCHANGED input
    BY <1>1, ElsewhereStep
  <2>2. (CheckInputSize /\ UNCHANGED wire) \/ TakeListLength \/ TakeSct \/ EndOfSctList
    BY <1>1 DEF Elsewhere, PlaceInv, Next, ParseBundle, ParseResponse, SkipBlankLine, TakeLine, EndOfLines,
                TakeAttestation, EndOfAttestations, ParseRekorCanonicalizedBody, ParseStatement, ParseTimestamp
  <2>3. QED
    BY <2>1, <2>2
<1>2. CASE EmbeddedRekorV1Log \/ ProofAnchor
  BY <1>2 DEF EmbeddedRekorV1Log, ProofAnchor
<1>3. CASE ParseNoteBody \/ CountSignatureLines \/ ParseLine \/ EndOfNote
  <2>1. pc \in {"note", "count", "lines"} \/ input.api = "checkpoint"
    BY <1>3 DEF ParseNoteBody, CountSignatureLines, ParseLine, EndOfNote
  <2>2. QED
    BY <2>1 DEF PlaceInv, Verifying, CheckpointApis
<1>4. CASE BindCheckpoint \/ TryLine \/ EndOfPass
  <2>1. pc \in {"bind", "matching", "others"}
    BY <1>4 DEF BindCheckpoint, TryLine, EndOfPass
  <2>2. QED
    BY <2>1 DEF PlaceInv, Verifying
<1>5. QED
  BY <1>1, <1>2, <1>3, <1>4 DEF WireNext, Elsewhere

LEMMA SctListInput ==
    ASSUME input \in Inputs, input.api = "sctList"
    PROVE  Document.bytes \in Seq(Byte) /\ Document.encodes \in Seq(ParsedScts)
  BY FuzzingAssumption DEF FuzzingAssumption, Document

\* What the steps of parse_sct_list have to show, when the input stays the same.
LEMMA SctInvFrom ==
    ASSUME UNCHANGED input,
           pc' \in {"size", "document"} => scts' = <<>>,
           pc' = "scts" =>
              /\ scts' \in Seq(ParsedScts)
              /\ \E left \in Seq(Byte) :
                    /\ cursor' = Cursor(left)
                    /\ Document.bytes = Prefixed(Body(scts') \o left)
                    /\ Document.bytes = EncodedList(Document.encodes) => ReadOf(Document.encodes, left),
           result' = Ok => EncodedList(scts') = Document.bytes,
           result' = "SctInvalid" => Document.bytes # EncodedList(Document.encodes)
    PROVE  SctInv'
<1>1. Document' = Document
  BY DEF Document
<1>2. QED
  BY <1>1 DEF SctInv, SctListIsExact

LEMMA TakeListLengthKeepsSctInv ==
    ASSUME PlaceInv, SctInv, input.api = "sctList", TakeListLength
    PROVE  SctInv'
<1> DEFINE length == Take(Cursor(Document.bytes), 2)
           fits == \E taken \in length : FromBeBytes(taken.head) = Len(taken.rest)
           outcome == Check(fits, "SctInvalid")
<1>1. /\ pc = "document" /\ Try(outcome, "scts") /\ cursor' = After(length)
      /\ UNCHANGED <<input, scts>>
  BY DEF TakeListLength
<1>2. scts = <<>> /\ result = "Pending"
  BY <1>1 DEF SctInv, PlaceInv
<1>3. Document.bytes \in Seq(Byte) /\ Document.encodes \in Seq(ParsedScts)
  BY SctListInput DEF PlaceInv
<1>4. /\ fits => outcome = Ok
      /\ ~fits => outcome = "SctInvalid"
  BY DEF Check
<1>5. /\ \A taken \in length : FromBeBytes(taken.head) = Len(taken.rest) =>
            /\ taken.rest \in Seq(Byte) /\ Document.bytes = Prefixed(taken.rest)
            /\ After(length) = Cursor(taken.rest)
            /\ Document.bytes = EncodedList(Document.encodes) => ReadOf(Document.encodes, taken.rest)
      /\ Document.bytes = EncodedList(Document.encodes) => fits
  BY <1>3, ListLength
<1> HIDE DEF outcome, length
<1>6. CASE fits
  <2>1. PICK taken \in length : FromBeBytes(taken.head) = Len(taken.rest)
    BY <1>6
  <2>2. pc' = "scts" /\ result' = "Pending"
    BY <1>1, <1>2, <1>4, <1>6, TryMeans
  <2>3. Body(scts') \o taken.rest = taken.rest /\ scts' \in Seq(ParsedScts)
    <3>1. taken.rest \in Bytes
      BY <1>5, <2>1, BytesAreNumbers
    <3>2. Body(scts') = <<>> /\ scts' = <<>>
      BY <1>1, <1>2, BodyGrows
    <3>3. QED
      BY <3>1, <3>2, Joining, EmptySeq
  <2>4. QED
    BY <1>1, <1>5, <2>1, <2>2, <2>3, SctInvFrom DEF Ok
<1>7. CASE ~fits
  <2>1. pc' = "done" /\ result' = "SctInvalid"
    BY <1>1, <1>2, <1>4, <1>7, TryMeans DEF Ok
  <2> HIDE DEF fits
  <2>2. Document.bytes # EncodedList(Document.encodes)
    BY <1>5, <1>7
  <2>3. QED
    BY <1>1, <2>1, <2>2, SctInvFrom DEF Ok
<1>8. QED
  BY <1>6, <1>7

LEMMA TakeSctKeepsSctInv ==
    ASSUME PlaceInv, SctInv, input.api = "sctList", TakeSct
    PROVE  SctInv'
<1> DEFINE encoded == TakePrefixed(cursor)
           sct == UNION {ParseSingleSct(taken.head) : taken \in encoded}
           outcome == Check(sct # {}, "SctInvalid")
<1>1. /\ pc = "scts" /\ cursor # Cursor(<<>>) /\ Try(outcome, "scts")
      /\ cursor' = After(encoded) /\ scts' = scts \o SetToSeq(sct) /\ UNCHANGED input
  BY DEF TakeSct
<1>2. result = "Pending" /\ scts \in Seq(ParsedScts)
  BY <1>1 DEF SctInv, PlaceInv
<1>3. PICK left \in Seq(Byte) :
          /\ cursor = Cursor(left)
          /\ Document.bytes = Prefixed(Body(scts) \o left)
          /\ Document.bytes = EncodedList(Document.encodes) => ReadOf(Document.encodes, left)
  BY <1>1 DEF SctInv
<1>4. Document.encodes \in Seq(ParsedScts) /\ left # <<>>
  BY <1>1, <1>3, SctListInput DEF PlaceInv
<1>5. /\ sct # {} => \E s \in ParsedScts, rest \in Seq(Byte) :
            /\ sct = {s} /\ After(encoded) = Cursor(rest)
            /\ Body(scts) \o left = Body(Append(scts, s)) \o rest
            /\ ReadOf(Document.encodes, left) => ReadOf(Document.encodes, rest)
      /\ ReadOf(Document.encodes, left) => sct # {}
  BY <1>2, <1>3, <1>4, OneSct
<1>6. /\ sct # {} => outcome = Ok
      /\ sct = {} => outcome = "SctInvalid"
  BY DEF Check
<1> HIDE DEF outcome, sct, encoded
<1>7. CASE sct # {}
  <2>1. pc' = "scts" /\ result' = "Pending"
    BY <1>1, <1>2, <1>6, <1>7, TryMeans
  <2>2. PICK s \in ParsedScts, rest \in Seq(Byte) :
            /\ sct = {s} /\ After(encoded) = Cursor(rest)
            /\ Body(scts) \o left = Body(Append(scts, s)) \o rest
            /\ ReadOf(Document.encodes, left) => ReadOf(Document.encodes, rest)
    BY <1>5, <1>7
  <2>3. scts' = Append(scts, s) /\ scts' \in Seq(ParsedScts)
    <3>1. SetToSeq({s}) = << s >>
      BY SetToSeqOfOption
    <3>2. Append(scts, s) = scts \o << s >> /\ Append(scts, s) \in Seq(ParsedScts)
      BY <1>2, AppendIsConcat, AppendProperties
    <3>3. QED
      BY <1>1, <2>2, <3>1, <3>2
  <2>4. QED
    BY <1>1, <1>3, <2>1, <2>2, <2>3, SctInvFrom DEF Ok
<1>8. CASE sct = {}
  <2>1. pc' = "done" /\ result' = "SctInvalid"
    BY <1>1, <1>2, <1>6, <1>8, TryMeans DEF Ok
  <2>2. Document.bytes # EncodedList(Document.encodes)
    BY <1>3, <1>5, <1>8
  <2>3. QED
    BY <1>1, <2>1, <2>2, SctInvFrom DEF Ok
<1>9. QED
  BY <1>7, <1>8

LEMMA EndOfSctListKeepsSctInv ==
    ASSUME PlaceInv, SctInv, input.api = "sctList", EndOfSctList
    PROVE  SctInv'
<1>1. pc = "scts" /\ cursor = Cursor(<<>>) /\ pc' = "done" /\ result' = Ok /\ UNCHANGED <<input, scts>>
  BY DEF EndOfSctList, Return, wire
<1>2. scts \in Seq(ParsedScts) /\ Document.bytes = Prefixed(Body(scts) \o <<>>)
  BY <1>1, OneOf DEF SctInv
<1>3. Body(scts) \o <<>> = Body(scts) /\ EncodedList(scts) = Prefixed(Body(scts))
  BY <1>2, BodyIsBytes, Joining, BodyIs, LenProperties
<1>4. EncodedList(scts') = Document.bytes
  BY <1>1, <1>2, <1>3
<1>5. QED
  BY <1>1, <1>4, SctInvFrom DEF Ok

(***************************************************************************)
(* parse_sct_list accepts the bytes of every list of SCTs and no others,   *)
(* whatever the lengths within: nothing is left unread between two SCTs or *)
(* within one, and no read of one goes past its end.                       *)
(***************************************************************************)
THEOREM SctListIsExactHolds == WireSpec => []SctListIsExact
<1>1. WireInit => SctInv
  BY DEF WireInit, Init, SctInv, SctListIsExact, Ok
<1>2. CheckpointInv /\ SctInv /\ [WireNext]_allVars => SctInv'
  <2> SUFFICES ASSUME CheckpointInv, SctInv, [WireNext]_allVars
               PROVE  SctInv'
    OBVIOUS
  <2>1. PlaceInv
    BY DEF CheckpointInv
  <2>2. CASE UNCHANGED allVars
    BY <2>2 DEF SctInv, SctListIsExact, Document, allVars, vars, wire
  <2>3. CASE WireNext /\ input.api # "sctList"
    <3>1. UNCHANGED input
      BY <2>1, <2>3, ApiSteps
    <3>2. QED
      BY <2>3, <3>1 DEF SctInv
  <2>4. CASE WireNext /\ input.api = "sctList"
    <3>1. /\ UNCHANGED input
          /\ (CheckInputSize /\ UNCHANGED wire) \/ TakeListLength \/ TakeSct \/ EndOfSctList
      BY <2>1, <2>4, SctListSteps
    <3>2. CASE CheckInputSize /\ UNCHANGED wire
      <4> DEFINE outcome == Check(input.size <= MaxInputBytes, "InputTooLarge")
                 place == IF input.api = "jsonLines" THEN "items" ELSE "document"
      <4>1. Try(outcome, place) /\ result = "Pending" /\ scts' = scts /\ pc = "size"
        BY <2>1, <3>2 DEF CheckInputSize, PlaceInv, wire
      <4>2. outcome \in {Ok, "InputTooLarge"} /\ place = "document"
        BY <2>4 DEF Check
      <4> HIDE DEF outcome, place
      <4>3. pc' \in {"document", "done"} /\ result' \in {"Pending", "InputTooLarge"}
        BY <4>1, <4>2, TryMeans
      <4>4. scts' = <<>>
        BY <2>4, <4>1 DEF SctInv
      <4>5. QED
        BY <3>1, <4>3, <4>4, SctInvFrom DEF Ok
    <3>3. QED
      BY <2>1, <2>4, <3>1, <3>2, TakeListLengthKeepsSctInv, TakeSctKeepsSctInv, EndOfSctListKeepsSctInv
  <2>5. QED
    BY <2>2, <2>3, <2>4
<1>3. SctInv => SctListIsExact
  BY DEF SctInv, SctListIsExact
<1>4. QED
  BY <1>1, <1>2, <1>3, CheckpointInvHolds, PTL DEF WireSpec

-----------------------------------------------------------------------------
(***************************************************************************)
(* The integer texts of a bundle.  What from_str has accumulated up to a   *)
(* digit depends on no digit behind it.                                    *)
(***************************************************************************)
IsAccumulated(value, digits, n) ==
    value = [i \in 0..n |-> IF i = 0 THEN 0
                            ELSE IF value[i - 1] > U64Max THEN value[i - 1]
                            ELSE 10 * value[i - 1] + DigitValue(digits[i])]

LEMMA AccumulatedExists ==
    ASSUME NEW digits, NEW n \in Nat
    PROVE  \E value : IsAccumulated(value, digits, n)
<1> DEFINE without == {k \in Nat : ~\E value : IsAccumulated(value, digits, k)}
<1>1. SUFFICES ASSUME without # {}
               PROVE  FALSE
  OBVIOUS
<1>2. PICK k \in without : \A j \in without : k <= j
  BY <1>1, LeastElement
<1> DEFINE Next1(v, i) == IF v > U64Max THEN v ELSE 10 * v + DigitValue(digits[i])
<1>3. CASE k = 0
  <2> DEFINE f == [i \in 0..0 |-> 0]
  <2>1. f = [i \in 0..0 |-> IF i = 0 THEN 0 ELSE Next1(f[i - 1], i)]
    OBVIOUS
  <2> HIDE DEF f
  <2>2. IsAccumulated(f, digits, 0)
    BY <2>1 DEF IsAccumulated
  <2>3. QED
    BY <1>2, <1>3, <2>2
<1>4. CASE k # 0
  <2>1. k \in Nat /\ k - 1 \in Nat /\ k - 1 \notin without
    BY <1>2, <1>4
  <2>2. PICK f : IsAccumulated(f, digits, k - 1)
    BY <2>1
  <2>3. f = [i \in 0..(k - 1) |-> IF i = 0 THEN 0 ELSE Next1(f[i - 1], i)]
    BY <2>2 DEF IsAccumulated
  <2> HIDE DEF Next1
  <2> DEFINE g == [i \in 0..k |-> IF i = k THEN Next1(f[k - 1], k) ELSE f[i]]
  <2>4. \A i \in 0..(k - 1) : g[i] = f[i]
    BY <2>1
  <2>5. \A i \in 0..k : g[i] = IF i = 0 THEN 0 ELSE Next1(g[i - 1], i)
    <3> SUFFICES ASSUME NEW i \in 0..k
                 PROVE  g[i] = IF i = 0 THEN 0 ELSE Next1(g[i - 1], i)
      OBVIOUS
    <3>1. CASE i = k
      <4>1. g[k] = Next1(f[k - 1], k) /\ g[k - 1] = f[k - 1]
        BY <2>1, <2>4
      <4>2. QED
        BY <1>4, <3>1, <4>1
    <3>2. CASE i # k
      <4>1. i \in 0..(k - 1)
        BY <2>1, <3>2
      <4>2. f[i] = IF i = 0 THEN 0 ELSE Next1(f[i - 1], i)
        BY <2>3, <4>1
      <4>3. i # 0 => g[i - 1] = f[i - 1]
        BY <2>1, <2>4, <4>1
      <4>4. QED
        BY <2>4, <4>1, <4>2, <4>3
    <3>3. QED
      BY <3>1, <3>2
  <2>6. g = [i \in 0..k |-> g[i]]
    OBVIOUS
  <2> HIDE DEF g
  <2>7. g = [i \in 0..k |-> IF i = 0 THEN 0 ELSE Next1(g[i - 1], i)]
    BY <2>5, <2>6
  <2>8. IsAccumulated(g, digits, k)
    BY <2>7 DEF IsAccumulated, Next1
  <2>9. QED
    BY <1>2, <2>8
<1>5. QED
  BY <1>3, <1>4

LEMMA AccumulateIs ==
    ASSUME NEW digits, Len(digits) \in Nat
    PROVE  \E value : IsAccumulated(value, digits, Len(digits)) /\ Accumulate(digits) = value[Len(digits)]
<1>1. \E value : IsAccumulated(value, digits, Len(digits))
  BY AccumulatedExists
<1>2. QED
  BY <1>1 DEF Accumulate, IsAccumulated

LEMMA AccumulatedAgree ==
    ASSUME NEW digits, NEW others, NEW f, NEW g, NEW m \in Nat, NEW n \in Nat, m \in 0..n,
           IsAccumulated(f, digits, m), IsAccumulated(g, others, n), \A i \in 1..m : digits[i] = others[i]
    PROVE  f[m] = g[m]
<1> DEFINE apart == {j \in 0..m : f[j] # g[j]}
           Next1(v, d) == IF v > U64Max THEN v ELSE 10 * v + DigitValue(d)
<1>1. SUFFICES ASSUME apart # {}
               PROVE  FALSE
  OBVIOUS
<1>2. PICK j \in apart : \A l \in apart : j <= l
  <2>1. apart \in SUBSET Nat
    OBVIOUS
  <2>2. QED
    BY <1>1, <2>1, LeastElement
<1>3. /\ f[j] = IF j = 0 THEN 0 ELSE Next1(f[j - 1], digits[j])
      /\ g[j] = IF j = 0 THEN 0 ELSE Next1(g[j - 1], others[j])
  <2>1. j \in 0..m /\ j \in 0..n
    BY <1>2
  <2>2. QED
    BY <2>1 DEF IsAccumulated
<1> HIDE DEF Next1
<1>4. CASE j = 0
  BY <1>2, <1>3, <1>4
<1>5. CASE j # 0
  <2>1. j - 1 \in 0..m /\ j \in 1..m /\ j - 1 \notin apart
    BY <1>2, <1>5
  <2>2. f[j - 1] = g[j - 1] /\ digits[j] = others[j]
    BY <2>1
  <2>3. QED
    BY <1>2, <1>3, <1>5, <2>2
<1>6. QED
  BY <1>4, <1>5

\* One more digit.
LEMMA AccumulateGrows ==
    ASSUME NEW C, NEW digits \in Seq(C), NEW d \in C
    PROVE  /\ Accumulate(<<>>) = 0
           /\ Accumulate(Append(digits, d)) =
                  IF Accumulate(digits) > U64Max THEN Accumulate(digits) ELSE 10 * Accumulate(digits) + DigitValue(d)
<1> DEFINE n == Len(digits)
           longer == Append(digits, d)
<1>1. Accumulate(<<>>) = 0
  <2>1. Len(<<>>) = 0
    OBVIOUS
  <2>2. PICK f : IsAccumulated(f, <<>>, 0) /\ Accumulate(<<>>) = f[0]
    BY <2>1, AccumulateIs
  <2>3. QED
    BY <2>2 DEF IsAccumulated
<1>2. /\ n \in Nat /\ Len(longer) = n + 1 /\ longer[n + 1] = d
      /\ \A i \in 1..n : longer[i] = digits[i]
  BY LenProperties, AppendProperties
<1> HIDE DEF n, longer
<1>3. PICK f : IsAccumulated(f, digits, n) /\ Accumulate(digits) = f[n]
  BY <1>2, AccumulateIs DEF n
<1>4. PICK g : IsAccumulated(g, longer, n + 1) /\ Accumulate(longer) = g[n + 1]
  BY <1>2, AccumulateIs
<1>5. f[n] = g[n]
  <2>1. n + 1 \in Nat /\ n \in 0..(n + 1) /\ \A i \in 1..n : digits[i] = longer[i]
    BY <1>2
  <2>2. QED
    <3>1. IsAccumulated(f, digits, n) /\ IsAccumulated(g, longer, n + 1)
      BY <1>3, <1>4
    <3>2. n \in Nat /\ n + 1 \in Nat /\ n \in 0..(n + 1) /\ \A i \in 1..n : digits[i] = longer[i]
      BY <1>2, <2>1
    <3>3. \A a, b, u, v : \A k \in Nat, l \in Nat :
              k \in 0..l /\ IsAccumulated(u, a, k) /\ IsAccumulated(v, b, l) /\ (\A i \in 1..k : a[i] = b[i]) => u[k] = v[k]
      BY AccumulatedAgree
    <3>4. \A k \in Nat, l \in Nat :
              k \in 0..l /\ IsAccumulated(f, digits, k) /\ IsAccumulated(g, longer, l) /\ (\A i \in 1..k : digits[i] = longer[i]) => f[k] = g[k]
      BY ONLY <3>3
    <3>5. QED
      BY ONLY <3>1, <3>2, <3>4
<1>6. g[n + 1] = IF g[n] > U64Max THEN g[n] ELSE 10 * g[n] + DigitValue(d)
  <2>1. n + 1 \in 0..(n + 1) /\ n + 1 # 0 /\ (n + 1) - 1 = n
    BY <1>2
  <2>2. g[n + 1] = IF g[(n + 1) - 1] > U64Max THEN g[(n + 1) - 1]
                   ELSE 10 * g[(n + 1) - 1] + DigitValue(longer[n + 1])
    BY <1>4, <2>1 DEF IsAccumulated
  <2>3. QED
    BY <1>2, <2>1, <2>2
<1>7. QED
  BY <1>1, <1>3, <1>4, <1>5, <1>6 DEF longer

LEMMA DigitsAre ==
    /\ \A d \in 1..10 : IsDigit(Digits[d]) /\ DigitValue(Digits[d]) = d - 1 /\ Digits[d] # "+"
    /\ \A c : IsDigit(c) => DigitValue(c) \in 0..9 /\ Digits[DigitValue(c) + 1] = c
    /\ DigitValue("0") = 0 /\ \A c : IsDigit(c) /\ c # "0" => DigitValue(c) > 0
    /\ ~IsDigit("+")
<1>1. DOMAIN Digits = 1..10
  BY DEF Digits
<1>2. \A d \in 1..10, e \in 1..10 : Digits[d] = Digits[e] => d = e
  BY DEF Digits
<1>3. \A d \in 1..10 : Digits[d] # "+"
  BY DEF Digits
<1>4. Digits[1] = "0"
  BY DEF Digits
<1> HIDE DEF Digits
<1>5. \A d \in 1..10 : IsDigit(Digits[d]) /\ DigitValue(Digits[d]) = d - 1
  <2> SUFFICES ASSUME NEW d \in 1..10
               PROVE  IsDigit(Digits[d]) /\ DigitValue(Digits[d]) = d - 1
    OBVIOUS
  <2>1. (CHOOSE e \in DOMAIN Digits : Digits[e] = Digits[d]) = d
    BY <1>1, <1>2
  <2>2. QED
    BY <1>1, <2>1 DEF IsDigit, DigitValue
<1>6. ASSUME NEW c, IsDigit(c)
      PROVE  \E d \in 1..10 : c = Digits[d]
  BY <1>1, <1>6 DEF IsDigit
<1>7. \A c : IsDigit(c) => DigitValue(c) \in 0..9 /\ Digits[DigitValue(c) + 1] = c
  <2> SUFFICES ASSUME NEW c, IsDigit(c)
               PROVE  DigitValue(c) \in 0..9 /\ Digits[DigitValue(c) + 1] = c
    OBVIOUS
  <2>1. PICK d \in 1..10 : c = Digits[d]
    BY <1>6
  <2>2. DigitValue(c) = d - 1 /\ (d - 1) + 1 = d /\ d - 1 \in 0..9
    BY <1>5, <2>1
  <2>3. QED
    BY <2>1, <2>2
<1>8. DigitValue("0") = 0
  BY <1>4, <1>5
<1>9. \A c : IsDigit(c) /\ c # "0" => DigitValue(c) > 0
  <2> SUFFICES ASSUME NEW c, IsDigit(c), DigitValue(c) = 0
               PROVE  c = "0"
    BY <1>7
  <2>1. QED
    BY <1>4, <1>7
<1>10. QED
  BY <1>3, <1>5, <1>6, <1>7, <1>8, <1>9

\* The decimal texts.
IsDecimalUpTo(f, n) ==
    f = [m \in 0..n |-> IF m < 10 THEN << Digits[m + 1] >> ELSE Append(f[m \div 10], Digits[(m % 10) + 1])]

LEMMA Tenth ==
    ASSUME NEW m \in Nat
    PROVE  /\ m \div 10 \in Nat /\ m % 10 \in 0..9 /\ m = 10 * (m \div 10) + (m % 10)
           /\ m >= 10 => m \div 10 < m /\ m \div 10 > 0
<1> DEFINE q == m \div 10
           r == m % 10
<1>1. q \in Int /\ r \in 0..9
  OBVIOUS
<1>2. m = 10 * q + r
  OBVIOUS
<1> HIDE DEF q, r
<1>3. q \in Nat /\ (m >= 10 => q < m /\ q > 0)
  BY <1>1, <1>2
<1>4. QED
  BY <1>1, <1>2, <1>3 DEF q, r

LEMMA DecimalUpToExists ==
    ASSUME NEW n \in Nat
    PROVE  \E f : IsDecimalUpTo(f, n)
<1> DEFINE without == {k \in Nat : ~\E f : IsDecimalUpTo(f, k)}
           Text(m, upper) == IF m < 10 THEN << Digits[m + 1] >> ELSE Append(upper, Digits[(m % 10) + 1])
<1>1. SUFFICES ASSUME without # {}
               PROVE  FALSE
  OBVIOUS
<1>2. PICK k \in without : \A j \in without : k <= j
  BY <1>1, LeastElement
<1>3. CASE k = 0
  <2> DEFINE f == [m \in 0..0 |-> << Digits[1] >>]
  <2>1. f = [m \in 0..0 |-> IF m < 10 THEN << Digits[m + 1] >> ELSE Append(f[m \div 10], Digits[(m % 10) + 1])]
    OBVIOUS
  <2> HIDE DEF f
  <2>2. IsDecimalUpTo(f, 0)
    BY <2>1 DEF IsDecimalUpTo
  <2>3. QED
    BY <1>2, <1>3, <2>2
<1>4. CASE k # 0
  <2>1. k \in Nat /\ k - 1 \in Nat /\ k - 1 \notin without
    BY <1>2, <1>4
  <2>2. PICK f : IsDecimalUpTo(f, k - 1)
    BY <2>1
  <2>3. f = [m \in 0..(k - 1) |-> Text(m, f[m \div 10])]
    BY <2>2 DEF IsDecimalUpTo
  <2>4. \A m \in 0..k : \A u, v : m < 10 \/ u = v => Text(m, u) = Text(m, v)
    OBVIOUS
  <2> HIDE DEF Text
  <2> DEFINE g == [m \in 0..k |-> IF m = k THEN Text(k, f[k \div 10]) ELSE f[m]]
  <2>5. \A m \in 0..(k - 1) : g[m] = f[m] /\ g[m] = Text(m, f[m \div 10])
    BY <2>1, <2>3
  <2>6. g[k] = Text(k, f[k \div 10])
    BY <2>1
  <2> HIDE DEF g
  <2>7. \A m \in 0..k : g[m] = Text(m, g[m \div 10])
    <3> SUFFICES ASSUME NEW m \in 0..k
                 PROVE  g[m] = Text(m, g[m \div 10])
      OBVIOUS
    <3>1. g[m] = Text(m, f[m \div 10])
      BY <2>1, <2>5, <2>6
    <3>2. m >= 10 => m \div 10 \in 0..(k - 1)
      BY <2>1, Tenth
    <3>3. m < 10 \/ g[m \div 10] = f[m \div 10]
      BY <2>1, <2>5, <3>2
    <3>4. QED
      BY <2>4, <3>1, <3>3
  <2>8. g = [m \in 0..k |-> Text(m, g[m \div 10])]
    <3>1. g = [m \in 0..k |-> g[m]]
      BY DEF g
    <3>2. QED
      BY <2>7, <3>1
  <2>9. IsDecimalUpTo(g, k)
    BY <2>8 DEF IsDecimalUpTo, Text
  <2>10. QED
    BY <1>2, <2>9
<1>5. QED
  BY <1>3, <1>4

LEMMA DecimalsAgree ==
    ASSUME NEW m \in Nat, NEW n \in Nat, NEW f, NEW g, IsDecimalUpTo(f, m), IsDecimalUpTo(g, n),
           NEW k \in Nat, k <= m, k <= n
    PROVE  f[k] = g[k]
<1> DEFINE apart == {j \in 0..k : f[j] # g[j]}
<1>1. SUFFICES ASSUME apart # {}
               PROVE  FALSE
  OBVIOUS
<1>2. PICK j \in apart : \A l \in apart : j <= l
  <2>1. apart \in SUBSET Nat
    OBVIOUS
  <2>2. QED
    BY <1>1, <2>1, LeastElement
<1>3. /\ f[j] = IF j < 10 THEN << Digits[j + 1] >> ELSE Append(f[j \div 10], Digits[(j % 10) + 1])
      /\ g[j] = IF j < 10 THEN << Digits[j + 1] >> ELSE Append(g[j \div 10], Digits[(j % 10) + 1])
  <2>1. j \in 0..m /\ j \in 0..n
    BY <1>2
  <2>2. QED
    BY <2>1 DEF IsDecimalUpTo
<1>4. j >= 10 => f[j \div 10] = g[j \div 10]
  <2>1. j \in 0..k /\ k \in Nat
    BY <1>2
  <2>2. j >= 10 => j \div 10 \in 0..k /\ j \div 10 < j
    BY <2>1, Tenth
  <2>3. j >= 10 => j \div 10 \notin apart
    BY <1>2, <2>1, <2>2
  <2>4. QED
    BY <2>2, <2>3
<1>5. QED
  BY <1>2, <1>3, <1>4

LEMMA CanonicalIs ==
    \A m \in Nat : Canonical[m] = IF m < 10 THEN << Digits[m + 1] >>
                                  ELSE Append(Canonical[m \div 10], Digits[(m % 10) + 1])
<1> DEFINE upTo(n) == CHOOSE f : IsDecimalUpTo(f, n)
           x == [m \in Nat |-> upTo(m)[m]]
           Text(m, upper) == IF m < 10 THEN << Digits[m + 1] >> ELSE Append(upper, Digits[(m % 10) + 1])
<1>1. \A n \in Nat : IsDecimalUpTo(upTo(n), n)
  BY DecimalUpToExists
<1> HIDE DEF upTo
<1>2. \A m \in Nat : \A u, v : m < 10 \/ u = v => Text(m, u) = Text(m, v)
  OBVIOUS
<1>3. \A m \in Nat : x[m] = Text(m, x[m \div 10])
  <2> SUFFICES ASSUME NEW m \in Nat
               PROVE  x[m] = Text(m, x[m \div 10])
    OBVIOUS
  <2>1. m \div 10 \in Nat /\ m \in 0..m
    BY Tenth
  <2>2. x[m] = upTo(m)[m] /\ x[m \div 10] = upTo(m \div 10)[m \div 10]
    BY <2>1
  <2>3. upTo(m) = [j \in 0..m |-> Text(j, upTo(m)[j \div 10])]
    BY <1>1 DEF IsDecimalUpTo
  <2> HIDE DEF Text, x
  <2>4. upTo(m)[m] = Text(m, upTo(m)[m \div 10])
    BY <2>1, <2>3
  <2>5. m >= 10 => upTo(m)[m \div 10] = upTo(m \div 10)[m \div 10]
    <3> SUFFICES ASSUME m >= 10
                 PROVE  upTo(m)[m \div 10] = upTo(m \div 10)[m \div 10]
      OBVIOUS
    <3>1. m \div 10 <= m /\ m \div 10 <= m \div 10
      BY <2>1, Tenth
    <3>2. IsDecimalUpTo(upTo(m), m) /\ IsDecimalUpTo(upTo(m \div 10), m \div 10)
      BY <1>1, <2>1
    <3>3. QED
      BY <2>1, <3>1, <3>2, DecimalsAgree
  <2>6. m < 10 \/ m >= 10
    OBVIOUS
  <2>7. QED
    BY <1>2, <2>2, <2>4, <2>5, <2>6
<1>4. x = [m \in Nat |-> Text(m, x[m \div 10])]
  <2>1. x = [m \in Nat |-> x[m]]
    OBVIOUS
  <2> HIDE DEF x, Text
  <2>2. QED
    BY <1>3, <2>1
<1> HIDE DEF x
<1>5. Canonical = [m \in Nat |-> Text(m, Canonical[m \div 10])]
  BY <1>4 DEF Canonical
<1>6. \A m \in Nat : Canonical[m] = Text(m, Canonical[m \div 10])
  <2> HIDE DEF Text
  <2>1. QED
    BY <1>5
<1>7. QED
  BY <1>6

DigitTexts == Seq({Digits[d] : d \in 1..10})

\* A canonical text is of digits only, and is read as its number if that fits.
LEMMA CanonicalText ==
    ASSUME NEW n \in Nat
    PROVE  /\ Canonical[n] \in DigitTexts /\ Canonical[n] # <<>>
           /\ n <= U64Max => Accumulate(Canonical[n]) = n
<1> DEFINE C == {Digits[d] : d \in 1..10}
           Fine(m) == /\ Canonical[m] \in Seq(C) /\ Canonical[m] # <<>>
                      /\ m <= U64Max => Accumulate(Canonical[m]) = m
           wrong == {m \in Nat : ~Fine(m)}
<1>1. SUFFICES ASSUME wrong # {}
               PROVE  FALSE
  BY DEF DigitTexts
<1>2. PICK m \in wrong : \A j \in wrong : m <= j
  BY <1>1, LeastElement
<1>3. m \in Nat /\ ~Fine(m)
  BY <1>2
<1>4. U64Max \in Nat
  BY ParseUtilAssumption DEF ParseUtilAssumption
<1>5. \A d \in 1..10 : Digits[d] \in C /\ DigitValue(Digits[d]) = d - 1
  BY DigitsAre
<1>6. CASE m < 10
  <2> DEFINE d == m + 1
  <2>1. d \in 1..10 /\ d - 1 = m
    BY <1>3, <1>6
  <2>2. Canonical[m] = << Digits[d] >>
    BY <1>3, <1>6, CanonicalIs
  <2> HIDE DEF d, C
  <2>3. Digits[d] \in C /\ DigitValue(Digits[d]) = m
    BY <1>5, <2>1
  <2>4. << Digits[d] >> = Append(<<>>, Digits[d]) /\ <<>> \in Seq(C) /\ << Digits[d] >> \in Seq(C) /\ << Digits[d] >> # <<>>
    BY <2>3
  <2>5. Accumulate(<<>>) = 0
    BY <2>3, <2>4, AccumulateGrows
  <2>6. Accumulate(Append(<<>>, Digits[d])) = IF 0 > U64Max THEN 0 ELSE 10 * 0 + m
    BY <2>3, <2>4, <2>5, AccumulateGrows
  <2>7. Accumulate(Canonical[m]) = m
    BY <1>3, <1>4, <2>2, <2>4, <2>6
  <2>8. QED
    BY <1>3, <2>2, <2>4, <2>7
<1>7. CASE m >= 10
  <2> DEFINE q == m \div 10
             d == (m % 10) + 1
  <2>1. q \in Nat /\ q < m /\ d \in 1..10 /\ m = 10 * q + (d - 1)
    BY <1>3, <1>7, Tenth
  <2>2. Canonical[m] = Append(Canonical[q], Digits[d])
    <3>1. ~(m < 10)
      BY <1>3, <1>7
    <3>2. Canonical[m] = IF m < 10 THEN << Digits[m + 1] >> ELSE Append(Canonical[q], Digits[d])
      BY <1>3, CanonicalIs
    <3>3. QED
      BY <3>1, <3>2
  <2> HIDE DEF d, q
  <2>3. Fine(q)
    BY <1>2, <1>3, <2>1
  <2>4. Digits[d] \in C /\ DigitValue(Digits[d]) = d - 1
    BY <1>5, <2>1
  <2> HIDE DEF C
  <2>5. Canonical[m] \in Seq(C) /\ Canonical[m] # <<>>
    <3>1. Append(Canonical[q], Digits[d]) \in Seq(C) /\ Len(Append(Canonical[q], Digits[d])) = Len(Canonical[q]) + 1
      BY <2>3, <2>4, AppendProperties
    <3>2. Canonical[m] \in Seq(C) /\ Len(Canonical[m]) = Len(Canonical[q]) + 1
      BY ONLY <2>2, <3>1
    <3>3. Len(Canonical[q]) + 1 # 0
      <4>1. Len(Canonical[q]) \in Nat
        BY <2>3, LenProperties
      <4>2. QED
        BY ONLY <4>1
    <3>4. Len(Canonical[m]) # 0
      BY ONLY <3>2, <3>3
    <3>5. QED
      BY <3>2, <3>4, EmptySeq
  <2>6. ASSUME m <= U64Max
        PROVE  Accumulate(Canonical[m]) = m
    <3>1. Accumulate(Canonical[q]) = q /\ ~(q > U64Max)
      BY <1>3, <1>4, <2>1, <2>3, <2>6
    <3>2. Accumulate(Append(Canonical[q], Digits[d])) = 10 * q + (d - 1)
      BY <2>3, <2>4, <3>1, AccumulateGrows
    <3>3. QED
      BY <2>1, <2>2, <3>2
  <2>7. QED
    BY <1>3, <2>5, <2>6
<1>8. QED
  BY <1>3, <1>6, <1>7

\* No number that fits is refused.
LEMMA CanonicalIsRead ==
    ASSUME NEW n \in 0..U64Max
    PROVE  FromStr(Canonical[n]) # {}
<1> DEFINE text == Canonical[n]
<1>1. n \in Nat /\ n <= U64Max
  BY ParseUtilAssumption DEF ParseUtilAssumption
<1>2. text \in DigitTexts /\ text # <<>> /\ Accumulate(text) = n
  BY <1>1, CanonicalText
<1> HIDE DEF text
<1>3. \A i \in DOMAIN text : IsDigit(text[i]) /\ text[i] # "+"
  <2>1. \A i \in DOMAIN text : text[i] \in {Digits[d] : d \in 1..10}
    BY <1>2 DEF DigitTexts
  <2>2. QED
    BY <2>1, DigitsAre
<1>4. 1 \in DOMAIN text
  BY <1>2 DEF DigitTexts
<1>5. text[1] # "+"
  BY <1>3, <1>4
<1>6. FromStr(text) = {m \in {n} : m <= U64Max}
  BY <1>2, <1>3, <1>5 DEF FromStr
<1>7. QED
  BY <1>1, <1>6 DEF text

LEMMA TenTimes ==
    ASSUME NEW q \in Nat, NEW d \in 0..9, NEW n, n = 10 * q + d, q > 0
    PROVE  n \in Nat /\ n >= 10 /\ n \div 10 = q /\ n % 10 = d
<1>1. n \in Nat /\ n >= 10
  OBVIOUS
<1> DEFINE e == n \div 10
           r == n % 10
<1>2. e \in Nat /\ r \in 0..9 /\ n = 10 * e + r
  BY <1>1, Tenth
<1> HIDE DEF e, r
<1>3. e = q /\ r = d
  BY <1>2
<1>4. QED
  BY <1>1, <1>3 DEF e, r

LEMMA OnlyOne ==
    ASSUME NEW C, NEW s \in Seq(C), NEW n \in 1..Len(s)
    PROVE  SubSeq(s, n, n) = << s[n] >>
<1>1. n \in Nat /\ Len(s) \in Nat /\ s[n] \in C
  BY LenProperties, ElementOfSeq
<1> DEFINE f == SubSeq(s, n, n)
<1>2. f \in Seq(C) /\ Len(f) = 1 /\ f[1] = s[n]
  BY <1>1, SubSeqProperties
<1>3. << s[n] >> \in Seq(C) /\ Len(<< s[n] >>) = 1 /\ << s[n] >>[1] = s[n]
  BY <1>1
<1> HIDE DEF f
<1>4. f = << s[n] >>
  BY <1>2, <1>3, SeqEqual
<1>5. QED
  BY <1>4 DEF f

LEMMA OneMore ==
    ASSUME NEW C, NEW s \in Seq(C), NEW m \in 1..Len(s), NEW n \in (m + 1)..Len(s)
    PROVE  SubSeq(s, m, n) = Append(SubSeq(s, m, n - 1), s[n])
<1>1. m \in Nat /\ n \in Nat /\ Len(s) \in Nat
  BY LenProperties
<1> DEFINE f == SubSeq(s, m, n)
           g == Append(SubSeq(s, m, n - 1), s[n])
<1>2. /\ f \in Seq(C) /\ Len(f) = n - m + 1 /\ \A i \in 1..(n - m + 1) : f[i] = s[m + i - 1]
      /\ SubSeq(s, m, n - 1) \in Seq(C) /\ Len(SubSeq(s, m, n - 1)) = n - m
      /\ \A i \in 1..(n - m) : SubSeq(s, m, n - 1)[i] = s[m + i - 1]
  BY <1>1, SubSeqProperties
<1>3. s[n] \in C
  BY <1>1, ElementOfSeq
<1>4. /\ g \in Seq(C) /\ Len(g) = n - m + 1 /\ g[n - m + 1] = s[n]
      /\ \A i \in 1..(n - m) : g[i] = SubSeq(s, m, n - 1)[i]
  BY <1>1, <1>2, <1>3, AppendProperties
<1> HIDE DEF f, g
<1>5. \A i \in 1..(n - m + 1) : f[i] = g[i]
  <2> SUFFICES ASSUME NEW i \in 1..(n - m + 1)
               PROVE  f[i] = g[i]
    OBVIOUS
  <2>1. CASE i = n - m + 1
    BY <1>1, <1>2, <1>4, <2>1
  <2>2. CASE i # n - m + 1
    BY <1>1, <1>2, <1>4, <2>2
  <2>3. QED
    BY <2>1, <2>2
<1>6. f = g
  BY <1>1, <1>2, <1>4, <1>5, SeqEqual
<1>7. QED
  BY <1>6 DEF f, g

LEMMA SamePiece ==
    ASSUME NEW C, NEW s \in Seq(C), NEW t \in Seq(C), NEW k \in Nat, Len(s) = k + Len(t),
           \A i \in 1..Len(t) : t[i] = s[k + i], NEW m \in 1..Len(t)
    PROVE  SubSeq(s, k + m, Len(s)) = SubSeq(t, m, Len(t))
<1>1. Len(s) \in Nat /\ Len(t) \in Nat /\ m \in Nat
  BY LenProperties
<1> DEFINE f == SubSeq(s, k + m, Len(s))
           g == SubSeq(t, m, Len(t))
           n == Len(t) - m + 1
<1>2. /\ f \in Seq(C) /\ Len(f) = n /\ \A i \in 1..n : f[i] = s[k + m + i - 1]
      /\ g \in Seq(C) /\ Len(g) = n /\ \A i \in 1..n : g[i] = t[m + i - 1]
  BY <1>1, SubSeqProperties
<1>3. \A i \in 1..n : s[k + m + i - 1] = t[m + i - 1]
  <2> SUFFICES ASSUME NEW i \in 1..n
               PROVE  s[k + m + i - 1] = t[m + i - 1]
    OBVIOUS
  <2>1. m + i - 1 \in 1..Len(t) /\ k + (m + i - 1) = k + m + i - 1
    BY <1>1
  <2>2. QED
    BY <2>1
<1> HIDE DEF f, g, n
<1>4. Len(f) = Len(g) /\ \A i \in 1..Len(f) : f[i] = g[i]
  BY <1>2, <1>3
<1>5. f = g
  BY <1>2, <1>4, SeqEqual
<1>6. QED
  BY <1>5 DEF f, g

\* What is read is the number written, once what may stand in front of it is gone.
LEMMA ReadIsCanonical ==
    ASSUME NEW C, NEW text \in Seq(C), NEW n \in FromStr(text)
    PROVE  n \in Nat /\ n <= U64Max /\ Stripped(text) = Canonical[n]
<1> DEFINE signed == Len(text) > 1 /\ text[1] = "+"
           digits == IF signed THEN Tail(text) ELSE text
           before == IF signed THEN 1 ELSE 0
           size == Len(digits)
<1>1. /\ digits # <<>> /\ \A i \in DOMAIN digits : IsDigit(digits[i])
      /\ n = Accumulate(digits) /\ n <= U64Max
  BY DEF FromStr
<1>2. /\ digits \in Seq(C) /\ size \in Nat /\ size > 0 /\ DOMAIN digits = 1..size
      /\ Len(text) = before + size
      /\ \A i \in 1..size : digits[i] = text[before + i]
  <2>1. CASE signed
    <3>1. Tail(text) \in Seq(C) /\ Len(Tail(text)) = Len(text) - 1 /\ \A i \in 1..(Len(text) - 1) : Tail(text)[i] = text[i + 1]
      BY <2>1
    <3>2. QED
      BY <1>1, <2>1, <3>1, LenProperties
  <2>2. CASE ~signed
    BY <1>1, <2>2, LenProperties
  <2>3. QED
    BY <2>1, <2>2
<1>3. (IF text[1] = "+" THEN 2 ELSE 1) = before + 1
  <2>1. CASE signed
    BY <2>1
  <2>2. CASE ~signed
    <3>1. digits = text /\ 1 \in DOMAIN digits
      BY <1>2, <2>2
    <3>2. text[1] # "+"
      BY <1>1, <3>1, DigitsAre
    <3>3. QED
      BY <2>2, <3>2
  <2>3. QED
    BY <2>1, <2>2
<1>4. before \in {0, 1}
  OBVIOUS
<1> HIDE DEF digits, before, size, signed
<1>5. PICK value : IsAccumulated(value, digits, size) /\ Accumulate(digits) = value[size]
  BY <1>2, AccumulateIs DEF size
<1>6. /\ value[0] = 0
      /\ \A i \in 1..size : value[i] = IF value[i - 1] > U64Max THEN value[i - 1] ELSE 10 * value[i - 1] + DigitValue(digits[i])
  BY <1>2, <1>5 DEF IsAccumulated
<1>7. \A i \in 1..size : DigitValue(digits[i]) \in 0..9 /\ Digits[DigitValue(digits[i]) + 1] = digits[i]
                         /\ (digits[i] = "0" => DigitValue(digits[i]) = 0) /\ (digits[i] # "0" => DigitValue(digits[i]) > 0)
  BY <1>1, <1>2, DigitsAre
<1>8. U64Max \in Nat
  BY ParseUtilAssumption DEF ParseUtilAssumption
<1>9. \A i \in 0..size : value[i] \in Nat
  <2> DEFINE wrong == {i \in 0..size : value[i] \notin Nat}
  <2>1. SUFFICES ASSUME wrong # {}
                 PROVE  FALSE
    OBVIOUS
  <2>2. PICK i \in wrong : \A j \in wrong : i <= j
    <3>1. wrong \in SUBSET Nat
      BY <1>2
    <3>2. QED
      BY <2>1, <3>1, LeastElement
  <2>3. i \in 1..size /\ i - 1 \in 0..size /\ i - 1 \notin wrong
    BY <1>2, <1>6, <2>2
  <2>4. value[i - 1] \in Nat /\ value[i] \notin Nat
    BY <2>2, <2>3
  <2> HIDE DEF wrong
  <2>5. value[i] = (IF value[i - 1] > U64Max THEN value[i - 1] ELSE 10 * value[i - 1] + DigitValue(digits[i]))
        /\ DigitValue(digits[i]) \in Nat
    BY <1>6, <1>7, <2>3
  <2>6. QED
    BY <2>4, <2>5
<1>10. \A i \in 0..size : value[i] <= U64Max
  <2> SUFFICES ASSUME NEW k \in 0..size, value[k] > U64Max
               PROVE  FALSE
    BY <1>8, <1>9
  <2> DEFINE wrong == {i \in k..size : ~(value[i] > U64Max)}
  <2>1. wrong \in SUBSET Nat /\ size \in wrong
    BY <1>1, <1>2, <1>5, <1>8, <1>9
  <2>2. PICK i \in wrong : \A j \in wrong : i <= j
    BY <2>1, LeastElement
  <2>3. i # k /\ i \in 1..size /\ i - 1 \in k..size /\ i - 1 \notin wrong
    BY <1>2, <2>2
  <2>4. value[i - 1] > U64Max
    BY <2>3
  <2>5. value[i] = value[i - 1]
    BY <1>6, <2>3, <2>4
  <2>6. QED
    BY <2>2, <2>4, <2>5
<1>11. \A i \in 1..size : i - 1 \in 0..size /\ value[i] = 10 * value[i - 1] + DigitValue(digits[i])
  <2> SUFFICES ASSUME NEW i \in 1..size
               PROVE  i - 1 \in 0..size /\ value[i] = 10 * value[i - 1] + DigitValue(digits[i])
    OBVIOUS
  <2>1. i - 1 \in 0..size
    BY <1>2
  <2>2. ~(value[i - 1] > U64Max)
    BY <1>8, <1>9, <1>10, <2>1
  <2>3. QED
    BY <1>6, <2>1, <2>2
<1> DEFINE start == IF text[1] = "+" THEN 2 ELSE 1
           IsSkip(k) == (\A i \in start..(k - 1) : text[i] = "0") /\ (text[k] # "0" \/ k = Len(text))
           skip == CHOOSE k \in start..Len(text) : IsSkip(k)
<1>12. start = before + 1
  BY <1>3
<1>13. Stripped(text) = SubSeq(text, skip, Len(text))
  BY DEF Stripped
<1> HIDE DEF start
<1>14. skip \in start..Len(text) /\ IsSkip(skip)
  <2> DEFINE ends == {k \in start..Len(text) : text[k] # "0" \/ k = Len(text)}
  <2>1. ends \in SUBSET Nat /\ Len(text) \in ends
    BY <1>2, <1>4, <1>12
  <2>2. PICK k \in ends : \A j \in ends : k <= j
    BY <2>1, LeastElement
  <2>5. start \in Nat /\ Len(text) \in Nat /\ k \in start..Len(text)
    BY <1>2, <1>4, <1>12, <2>2
  <2>3. \A i \in start..(k - 1) : i \notin ends /\ i \in start..Len(text)
    <3> SUFFICES ASSUME NEW i \in start..(k - 1)
                 PROVE  i \notin ends /\ i \in start..Len(text)
      OBVIOUS
    <3> HIDE DEF ends
    <3>1. i \in start..Len(text) /\ ~(k <= i)
      BY <2>5
    <3>2. QED
      BY <2>2, <3>1
  <2>4. k \in start..Len(text) /\ IsSkip(k)
    BY <2>2, <2>3
  <2> HIDE DEF ends, IsSkip
  <2>6. QED
    BY <2>4
<1> HIDE DEF skip
<1> DEFINE first == skip - before
<1>15. /\ first \in 1..size /\ skip = before + first
       /\ \A i \in 1..(first - 1) : digits[i] = "0"
       /\ digits[first] # "0" \/ first = size
  <2>1. first \in 1..size /\ skip = before + first
    BY <1>2, <1>4, <1>12, <1>14
  <2>2. \A i \in 1..(first - 1) : i \in 1..size /\ before + i \in start..(skip - 1)
    BY <1>2, <1>4, <1>12, <2>1
  <2>3. \A i \in 1..(first - 1) : digits[i] = "0"
    BY <1>2, <1>14, <2>2
  <2>4. digits[first] # "0" \/ first = size
    BY <1>2, <1>4, <1>14, <2>1
  <2>5. QED
    BY <2>1, <2>3, <2>4
<1> HIDE DEF first, IsSkip
<1>16. value[first - 1] = 0
  <2> DEFINE wrong == {i \in 0..(first - 1) : value[i] # 0}
  <2>1. SUFFICES ASSUME wrong # {}
                 PROVE  FALSE
    BY <1>2, <1>15
  <2>2. PICK i \in wrong : \A j \in wrong : i <= j
    <3>1. wrong \in SUBSET Nat
      BY <1>2, <1>15
    <3>2. QED
      BY <2>1, <3>1, LeastElement
  <2>3. i \in 1..(first - 1) /\ i \in 1..size /\ i - 1 \in 0..(first - 1) /\ i - 1 \notin wrong
    BY <1>2, <1>6, <1>15, <2>2
  <2>4. value[i - 1] = 0 /\ DigitValue(digits[i]) = 0
    BY <1>7, <1>15, <2>3
  <2>5. value[i] = 0
    BY <1>11, <2>3, <2>4
  <2>6. QED
    BY <2>2, <2>5
<1>17. ASSUME NEW i \in first..size
       PROVE  SubSeq(digits, first, i) = Canonical[value[i]] /\ (i < size => value[i] > 0)
  <2> DEFINE Fine(j) == SubSeq(digits, first, j) = Canonical[value[j]] /\ (j < size => value[j] > 0)
             wrong == {j \in first..size : ~Fine(j)}
  <2>1. SUFFICES ASSUME wrong # {}
                 PROVE  FALSE
    BY <1>17
  <2>2. PICK j \in wrong : \A l \in wrong : j <= l
    <3>1. wrong \in SUBSET Nat
      BY <1>2, <1>15
    <3>2. QED
      BY <2>1, <3>1, LeastElement
  <2>3. /\ j \in first..size /\ j \in 1..size /\ first \in Nat /\ j \in Nat /\ size \in Nat /\ first >= 1
        /\ ~(SubSeq(digits, first, j) = Canonical[value[j]] /\ (j < size => value[j] > 0))
    BY <1>2, <1>15, <2>2
  <2>9. j # first => /\ j - 1 \in first..size /\ j - 1 < size
                     /\ SubSeq(digits, first, j - 1) = Canonical[value[j - 1]] /\ value[j - 1] > 0
    <3> SUFFICES ASSUME j # first
                 PROVE  /\ j - 1 \in first..size /\ j - 1 < size
                        /\ SubSeq(digits, first, j - 1) = Canonical[value[j - 1]] /\ value[j - 1] > 0
      OBVIOUS
    <3>1. j - 1 \in first..size /\ j - 1 < size /\ j - 1 \notin wrong
      BY <2>2, <2>3
    <3>2. QED
      BY <3>1
  <2> HIDE DEF Fine, wrong
  <2> DEFINE d == DigitValue(digits[j])
  <2>4. d \in 0..9 /\ Digits[d + 1] = digits[j] /\ (digits[j] # "0" => d > 0)
    BY <1>7, <2>3
  <2>5. value[j - 1] \in Nat /\ value[j] = 10 * value[j - 1] + d
    BY <1>9, <1>11, <2>3
  <2> HIDE DEF d
  <2>6. CASE j = first
    <3>1. value[j] = d /\ d < 10 /\ d \in Nat
      <4>1. value[j - 1] = 0
        BY <1>16, <2>6
      <4>2. QED
        BY <2>4, <2>5, <4>1
    <3>2. Canonical[d] = << digits[j] >>
      BY <2>4, <3>1, CanonicalIs
    <3>3. SubSeq(digits, j, j) = << digits[j] >>
      BY <1>2, <2>3, OnlyOne DEF size
    <3>4. j < size => d > 0
      BY <1>15, <2>3, <2>4, <2>6
    <3>5. QED
      BY <2>3, <2>6, <3>1, <3>2, <3>3, <3>4
  <2>7. CASE j # first
    <3>1. /\ j - 1 \in first..size /\ j - 1 < size
          /\ SubSeq(digits, first, j - 1) = Canonical[value[j - 1]] /\ value[j - 1] > 0
      BY <2>7, <2>9
    <3>3. value[j] \in Nat /\ value[j] >= 10 /\ value[j] \div 10 = value[j - 1] /\ value[j] % 10 = d
      BY <2>4, <2>5, <3>1, TenTimes
    <3>4. Canonical[value[j]] = Append(Canonical[value[j - 1]], digits[j])
      <4>1. Canonical[value[j]] = IF value[j] < 10 THEN << Digits[value[j] + 1] >>
                                  ELSE Append(Canonical[value[j] \div 10], Digits[(value[j] % 10) + 1])
        BY <3>3, CanonicalIs
      <4>2. QED
        BY <2>4, <3>3, <4>1
    <3>5. SubSeq(digits, first, j) = Append(SubSeq(digits, first, j - 1), digits[j])
      BY <1>2, <2>3, <3>1, OneMore DEF size
    <3>6. SubSeq(digits, first, j) = Canonical[value[j]]
      BY <3>1, <3>4, <3>5
    <3>7. value[j] > 0
      BY <3>3
    <3>8. QED
      BY <2>3, <3>6, <3>7
  <2>8. QED
    BY <2>6, <2>7
<1>18. SubSeq(digits, first, size) = Canonical[n]
  BY <1>1, <1>2, <1>5, <1>15, <1>17
<1>19. SubSeq(text, skip, Len(text)) = SubSeq(digits, first, size)
  <2>1. /\ before \in Nat /\ first \in 1..Len(digits) /\ Len(text) = before + Len(digits)
        /\ \A i \in 1..Len(digits) : digits[i] = text[before + i]
    <3>1. size = Len(digits)
      BY DEF size
    <3>2. before \in Nat
      BY <1>4
    <3>3. first \in 1..size /\ Len(text) = before + size /\ \A i \in 1..size : digits[i] = text[before + i]
      BY <1>2, <1>15
    <3>4. QED
      BY <3>1, <3>2, <3>3
  <2>2. SubSeq(text, before + first, Len(text)) = SubSeq(digits, first, Len(digits))
    BY <1>2, <2>1, SamePiece
  <2>3. QED
    BY <1>15, <2>2 DEF size
<1>20. n \in Nat
  BY <1>1, <1>2, <1>5, <1>9
<1>21. QED
  BY <1>1, <1>13, <1>18, <1>19, <1>20

-----------------------------------------------------------------------------
(***************************************************************************)
(* Where the integers of a bundle are read.  A bundle fails for an integer *)
(* only over a text that is not the decimal text of a u64, so a container  *)
(* that is refused for one holds such a bundle.                            *)
(***************************************************************************)

\* The checks of a raw entry that can fail for an integer.
LEMMA SequenceRange ==
    ASSUME NEW list, list \in Seq(Range(list))
    PROVE  DOMAIN list \subseteq Nat
<1>1. Len(list) \in Nat /\ DOMAIN list = 1..Len(list)
  BY LenProperties
<1>2. QED
  BY <1>1

LEMMA NoneForAnInteger ==
    ASSUME NEW outcomes, DOMAIN outcomes \subseteq Nat, \A i \in DOMAIN outcomes : outcomes[i] # "NotAnInteger"
    PROVE  FirstError(outcomes) # "NotAnInteger"
<1>1. FirstError(outcomes) = Ok \/ \E i \in DOMAIN outcomes : FirstError(outcomes) = outcomes[i]
  BY FirstErrorIff
<1>2. QED
  BY <1>1 DEF Ok

LEMMA Base64IsNoInteger == \A text : StrictBase64(text) # "NotAnInteger"
  BY DEF StrictBase64, Check, Ok

LEMMA IntegerMeans ==
    ASSUME NEW text
    PROVE  /\ StrictStringifiedU64(text) = Ok <=> FromStr(text) # {}
           /\ StrictStringifiedU64(text) = "NotAnInteger" <=> FromStr(text) = {}
  BY DEF StrictStringifiedU64, Check, Ok

LEMMA FirstError6 ==
    ASSUME NEW a, NEW b, NEW c, NEW d, NEW e, NEW f
    PROVE  /\ FirstError(<<a, b, c, d, e, f>>) = Ok => a = Ok /\ b = Ok /\ c = Ok /\ d = Ok /\ e = Ok /\ f = Ok
           /\ FirstError(<<a, b, c, d, e, f>>) \in {Ok, a, b, c, d, e, f}
<1> DEFINE s == <<a, b, c, d, e, f>>
<1>1. DOMAIN s = 1..6 /\ s[1] = a /\ s[2] = b /\ s[3] = c /\ s[4] = d /\ s[5] = e /\ s[6] = f
  OBVIOUS
<1> HIDE DEF s
<1>2. DOMAIN s \subseteq Nat
  BY <1>1
<1>3. /\ FirstError(s) = Ok => \A i \in DOMAIN s : s[i] = Ok
      /\ FirstError(s) = Ok \/ \E i \in DOMAIN s : FirstError(s) = s[i]
  BY <1>2, FirstErrorIff
<1>4. FirstError(s) = Ok => a = Ok /\ b = Ok /\ c = Ok /\ d = Ok /\ e = Ok /\ f = Ok
  BY <1>1, <1>3
<1>5. FirstError(s) \in {Ok, a, b, c, d, e, f}
  BY <1>1, <1>3
<1>6. QED
  BY <1>4, <1>5 DEF s

LEMMA ProofIntegers ==
    ASSUME NEW p, p.hashes \in Seq(Range(p.hashes))
    PROVE  /\ InclusionProofFromRaw(p) = Ok => FromStr(p.logIndex) # {} /\ FromStr(p.treeSize) # {}
           /\ InclusionProofFromRaw(p) = "NotAnInteger" => FromStr(p.logIndex) = {} \/ FromStr(p.treeSize) = {}
<1> DEFINE a == StrictStringifiedU64(p.logIndex)
           b == StrictBase64(p.rootHash)
           c == StrictStringifiedU64(p.treeSize)
           hashes == [i \in DOMAIN p.hashes |-> StrictBase64(p.hashes[i])]
           d == FirstError(hashes)
<1>1. InclusionProofFromRaw(p) = FirstError(<<a, b, c, d>>)
  BY DEF InclusionProofFromRaw
<1>2. d # "NotAnInteger"
  <2>1. DOMAIN hashes \subseteq Nat
    BY SequenceRange
  <2>2. \A i \in DOMAIN hashes : hashes[i] # "NotAnInteger"
    BY Base64IsNoInteger
  <2> HIDE DEF hashes
  <2>3. QED
    BY <2>1, <2>2, NoneForAnInteger
<1>3. b # "NotAnInteger"
  BY Base64IsNoInteger
<1>4. /\ a = Ok <=> FromStr(p.logIndex) # {}
      /\ a = "NotAnInteger" <=> FromStr(p.logIndex) = {}
      /\ c = Ok <=> FromStr(p.treeSize) # {}
      /\ c = "NotAnInteger" <=> FromStr(p.treeSize) = {}
  BY IntegerMeans
<1> HIDE DEF a, b, c, d
<1>5. /\ FirstError(<<a, b, c, d>>) = Ok <=> a = Ok /\ b = Ok /\ c = Ok /\ d = Ok
      /\ FirstError(<<a, b, c, d>>) \in {Ok, a, b, c, d}
  BY FirstError4
<1>6. QED
  BY <1>1, <1>2, <1>3, <1>4, <1>5 DEF Ok

EntryIntegersOf(e) == {e.logIndex, e.integratedTime} \union UNION {{p.logIndex, p.treeSize} : p \in e.inclusionProof}

LEMMA EntryIntegers ==
    ASSUME NEW e, \A p \in e.inclusionProof : p.hashes \in Seq(Range(p.hashes)),
           e.inclusionProof = {} \/ \E p : e.inclusionProof = {p},
           e.inclusionPromise = {} \/ \E p : e.inclusionPromise = {p}
    PROVE  /\ TlogEntryFromRaw(e) = Ok => \A text \in EntryIntegersOf(e) : FromStr(text) # {}
           /\ TlogEntryFromRaw(e) = "NotAnInteger" => \E text \in EntryIntegersOf(e) : FromStr(text) = {}
<1> DEFINE a == StrictStringifiedU64(e.logIndex)
           b == StrictBase64(e.logId.keyId)
           c == StrictStringifiedU64(e.integratedTime)
           promise == FirstError(Outcomes(InclusionPromiseFromRaw, e.inclusionPromise))
           proof == FirstError(Outcomes(InclusionProofFromRaw, e.inclusionProof))
           f == StrictBase64(e.canonicalizedBody)
<1>1. TlogEntryFromRaw(e) = FirstError(<<a, b, c, promise, proof, f>>)
  BY DEF TlogEntryFromRaw
<1>2. FirstError(<<>>) = Ok /\ \A x : FirstError(<< x >>) = x
  <2>1. FirstError(<<>>) = Ok
    BY DEF FirstError
  <2>2. ASSUME NEW x
        PROVE  FirstError(<< x >>) = x
    <3> DEFINE s == << x >>
    <3>1. DOMAIN s \subseteq Nat /\ (\A i \in DOMAIN s : s[i] = x) /\ 1 \in DOMAIN s
      OBVIOUS
    <3> HIDE DEF s
    <3>2. (FirstError(s) = Ok <=> x = Ok) /\ (FirstError(s) # Ok => \E i \in DOMAIN s : FirstError(s) = s[i])
      BY <3>1, FirstErrorIff
    <3>3. QED
      BY <3>1, <3>2 DEF s
  <2>3. QED
    BY <2>1, <2>2
<1>3. promise # "NotAnInteger"
  <2>1. CASE e.inclusionPromise = {}
    BY <1>2, <2>1, SetToSeqOfOption DEF Outcomes, Ok
  <2>2. CASE \E p : e.inclusionPromise = {p}
    <3>1. PICK p : e.inclusionPromise = {p}
      BY <2>2
    <3>2. {InclusionPromiseFromRaw(raw_) : raw_ \in e.inclusionPromise} = {InclusionPromiseFromRaw(p)}
      BY <3>1
    <3>3. promise = InclusionPromiseFromRaw(p)
      BY <1>2, <3>2, SetToSeqOfOption DEF Outcomes
    <3>4. QED
      BY <3>3, Base64IsNoInteger DEF InclusionPromiseFromRaw
  <2>3. QED
    BY <2>1, <2>2
<1>4. \/ e.inclusionProof = {} /\ proof = Ok
      \/ \E p \in e.inclusionProof : e.inclusionProof = {p} /\ proof = InclusionProofFromRaw(p)
  <2>1. CASE e.inclusionProof = {}
    BY <1>2, <2>1, SetToSeqOfOption DEF Outcomes
  <2>2. CASE \E p : e.inclusionProof = {p}
    <3>1. PICK p : e.inclusionProof = {p}
      BY <2>2
    <3>2. {InclusionProofFromRaw(raw_) : raw_ \in e.inclusionProof} = {InclusionProofFromRaw(p)}
      BY <3>1
    <3>3. proof = InclusionProofFromRaw(p)
      BY <1>2, <3>2, SetToSeqOfOption DEF Outcomes
    <3>4. QED
      BY <3>1, <3>3
  <2>3. QED
    BY <2>1, <2>2
<1>5. /\ b # "NotAnInteger" /\ f # "NotAnInteger"
      /\ a = Ok <=> FromStr(e.logIndex) # {}
      /\ a = "NotAnInteger" <=> FromStr(e.logIndex) = {}
      /\ c = Ok <=> FromStr(e.integratedTime) # {}
      /\ c = "NotAnInteger" <=> FromStr(e.integratedTime) = {}
  BY Base64IsNoInteger, IntegerMeans
<1> HIDE DEF a, b, c, promise, proof, f
<1>6. /\ FirstError(<<a, b, c, promise, proof, f>>) = Ok => a = Ok /\ b = Ok /\ c = Ok /\ promise = Ok /\ proof = Ok /\ f = Ok
      /\ FirstError(<<a, b, c, promise, proof, f>>) \in {Ok, a, b, c, promise, proof, f}
  BY FirstError6
<1>7. ASSUME TlogEntryFromRaw(e) = Ok, NEW text \in EntryIntegersOf(e)
      PROVE  FromStr(text) # {}
  <2>1. FromStr(e.logIndex) # {} /\ FromStr(e.integratedTime) # {} /\ proof = Ok
    BY <1>1, <1>5, <1>6, <1>7
  <2>2. \A p \in e.inclusionProof : FromStr(p.logIndex) # {} /\ FromStr(p.treeSize) # {}
    BY <1>4, <2>1, ProofIntegers
  <2>3. QED
    BY <1>7, <2>1, <2>2 DEF EntryIntegersOf
<1>8. ASSUME TlogEntryFromRaw(e) = "NotAnInteger"
      PROVE  \E text \in EntryIntegersOf(e) : FromStr(text) = {}
  <2>1. FromStr(e.logIndex) = {} \/ FromStr(e.integratedTime) = {} \/ proof = "NotAnInteger"
    BY <1>1, <1>3, <1>5, <1>6, <1>8 DEF Ok
  <2>2. CASE FromStr(e.logIndex) = {} \/ FromStr(e.integratedTime) = {}
    BY <2>2 DEF EntryIntegersOf
  <2>3. CASE proof = "NotAnInteger"
    <3>1. PICK p \in e.inclusionProof : proof = InclusionProofFromRaw(p)
      BY <1>4, <2>3 DEF Ok
    <3>2. FromStr(p.logIndex) = {} \/ FromStr(p.treeSize) = {}
      BY <2>3, <3>1, ProofIntegers
    <3>3. p.logIndex \in EntryIntegersOf(e) /\ p.treeSize \in EntryIntegersOf(e)
      BY <3>1 DEF EntryIntegersOf
    <3>4. QED
      BY <3>2, <3>3
  <2>4. QED
    BY <2>1, <2>2, <2>3
<1>9. QED
  BY <1>7, <1>8

\* Every entry of a raw bundle was read from a value.
LEMMA RawEntries ==
    ASSUME NEW value, NEW bundle \in RawBundle(value), NEW e \in Range(bundle.verificationMaterial.tlogEntries)
    PROVE  /\ e.inclusionProof = {} \/ \E p : e.inclusionProof = {p}
           /\ e.inclusionPromise = {} \/ \E p : e.inclusionPromise = {p}
<1>1. bundle \in [mediaType : Field(value, 1, "mediaType", String),
                  verificationMaterial : Field(value, 2, "verificationMaterial", RawVerificationMaterial),
                  dsseEnvelope : Field(value, 3, "dsseEnvelope", RawDsseEnvelope)]
  BY DEF RawBundle, Struct
<1>2. bundle.verificationMaterial \in Field(value, 2, "verificationMaterial", RawVerificationMaterial)
  BY <1>1
<1> DEFINE material == bundle.verificationMaterial
<1>3. PICK v : material \in RawVerificationMaterial(v)
  BY <1>2 DEF Field
<1> DEFINE A == Field(v, 1, "certificate", RawCertificate)
           B == VecField(v, 2, "tlogEntries", RawTlogEntry)
           C == Defaulted(v, 3, "timestampVerificationData", RawTimestampVerificationData, [rfc3161Timestamps |-> <<>>])
<1>4. material \in [certificate : A, tlogEntries : B, timestampVerificationData : C]
  BY <1>3 DEF RawVerificationMaterial, Struct
<1> HIDE DEF A, C, material
<1>5. material.tlogEntries \in VecField(v, 2, "tlogEntries", RawTlogEntry)
  BY <1>4
<1>6. e \in Range(material.tlogEntries)
  BY DEF material
<1>7. material.tlogEntries # <<>>
  BY <1>6 DEF Range
<1>8. PICK w : material.tlogEntries \in Vec(w, RawTlogEntry)
  BY <1>5, <1>7 DEF VecField
<1>9. /\ material.tlogEntries = [i \in DOMAIN w.arr |-> The(RawTlogEntry(w.arr[i]))]
      /\ \A i \in DOMAIN w.arr : RawTlogEntry(w.arr[i]) # {}
  BY <1>8 DEF Vec
<1>10. PICK u : RawTlogEntry(u) # {} /\ e = The(RawTlogEntry(u))
  BY <1>6, <1>9 DEF Range
<1>11. e \in RawTlogEntry(u)
  BY <1>10, TheOne
<1> DEFINE Promise == OptionField(u, 5, "inclusionPromise", RawInclusionPromise)
           Proof == OptionField(u, 6, "inclusionProof", RawInclusionProof)
<1>12. e \in [logIndex : Field(u, 1, "logIndex", String), logId : Field(u, 2, "logId", RawLogId),
              kindVersion : Field(u, 3, "kindVersion", RawKindVersion),
              integratedTime : Field(u, 4, "integratedTime", String),
              inclusionPromise : Promise, inclusionProof : Proof,
              canonicalizedBody : Field(u, 7, "canonicalizedBody", String)]
  BY <1>11 DEF RawTlogEntry, Struct
<1>13. e.inclusionPromise \in Promise /\ e.inclusionProof \in Proof
  <2> HIDE DEF Promise, Proof
  <2>1. QED
    BY <1>12
<1>14. QED
  BY <1>13 DEF OptionField

\* A bundle converts only if all its integers do, and fails for one only if it holds it.
LEMMA BundleIntegers ==
    ASSUME NEW value, NEW bundle \in RawBundle(value), AreSequences(bundle)
    PROVE  /\ BundleFromRaw(bundle) = Ok => \A text \in Integers(bundle) : FromStr(text) # {}
           /\ BundleFromRaw(bundle) = "NotAnInteger" => \E text \in Integers(bundle) : FromStr(text) = {}
<1> DEFINE material == bundle.verificationMaterial
           envelope == bundle.dsseEnvelope
           list == material.tlogEntries
           read == [i \in DOMAIN list |-> TlogEntryFromRaw(list[i])]
           stamps == material.timestampVerificationData.rfc3161Timestamps
<1>1. /\ list \in Seq(Range(list)) /\ stamps \in Seq(Range(stamps))
      /\ envelope.signatures \in Seq(Range(envelope.signatures))
      /\ \A e \in Range(list) : \A p \in e.inclusionProof : p.hashes \in Seq(Range(p.hashes))
  BY DEF AreSequences
<1>2. Integers(bundle) = UNION {EntryIntegersOf(e) : e \in Range(list)}
  BY DEF Integers, EntryIntegersOf
<1>3. \A i \in DOMAIN list : list[i] \in Range(list)
  BY DEF Range
<1>4. \A e \in Range(list) : \E i \in DOMAIN list : e = list[i]
  BY DEF Range
<1>5. DOMAIN list \subseteq Nat /\ DOMAIN stamps \subseteq Nat /\ DOMAIN envelope.signatures \subseteq Nat
  BY <1>1, SequenceRange
<1>6. \A e \in Range(list) :
         /\ TlogEntryFromRaw(e) = Ok => \A text \in EntryIntegersOf(e) : FromStr(text) # {}
         /\ TlogEntryFromRaw(e) = "NotAnInteger" => \E text \in EntryIntegersOf(e) : FromStr(text) = {}
  BY <1>1, RawEntries, EntryIntegers
<1>7. /\ FirstError(read) = Ok => \A text \in Integers(bundle) : FromStr(text) # {}
      /\ FirstError(read) = "NotAnInteger" => \E text \in Integers(bundle) : FromStr(text) = {}
  <2>1. DOMAIN read = DOMAIN list /\ \A i \in DOMAIN list : read[i] = TlogEntryFromRaw(list[i])
    OBVIOUS
  <2> HIDE DEF read, list
  <2>2. /\ FirstError(read) = Ok <=> \A i \in DOMAIN read : read[i] = Ok
        /\ FirstError(read) # Ok => \E i \in DOMAIN read : FirstError(read) = read[i]
    BY <1>5, <2>1, FirstErrorIff
  <2>3. ASSUME FirstError(read) = Ok, NEW text \in Integers(bundle)
        PROVE  FromStr(text) # {}
    <3>1. PICK e \in Range(list) : text \in EntryIntegersOf(e)
      BY <1>2, <2>3
    <3>2. TlogEntryFromRaw(e) = Ok
      BY <1>4, <2>1, <2>2, <2>3
    <3>3. QED
      BY <1>6, <3>1, <3>2
  <2>4. ASSUME FirstError(read) = "NotAnInteger"
        PROVE  \E text \in Integers(bundle) : FromStr(text) = {}
    <3>1. PICK i \in DOMAIN list : TlogEntryFromRaw(list[i]) = "NotAnInteger"
      BY <2>1, <2>2, <2>4 DEF Ok
    <3>2. PICK text \in EntryIntegersOf(list[i]) : FromStr(text) = {}
      BY <1>3, <1>6, <3>1
    <3>3. text \in Integers(bundle)
      BY <1>2, <1>3, <3>2
    <3>4. QED
      BY <3>2, <3>3
  <2>5. QED
    BY <2>3, <2>4
<1> DEFINE m1 == Check(Len(list) <= MaxTlogEntries, "TooManyTlogEntries")
           m2 == CertificateFromRaw(material.certificate)
           m3 == FirstError(read)
           m4 == TimestampVerificationDataFromRaw(material.timestampVerificationData)
           b1 == Check(bundle.mediaType = BundleMediaType, "MediaType")
           b2 == FirstError(<<m1, m2, m3, m4>>)
           b3 == DsseEnvelopeFromRaw(envelope)
<1>8. BundleFromRaw(bundle) = FirstError(<<b1, b2, b3>>)
  BY DEF BundleFromRaw, VerificationMaterialFromRaw
<1>9. /\ b1 # "NotAnInteger" /\ m1 # "NotAnInteger" /\ m2 # "NotAnInteger"
  BY Base64IsNoInteger DEF Check, CertificateFromRaw, Ok
<1>10. m4 # "NotAnInteger"
  <2> DEFINE s == [i \in DOMAIN stamps |-> StrictBase64(stamps[i].signedTimestamp)]
  <2>1. DOMAIN s \subseteq Nat /\ \A i \in DOMAIN s : s[i] # "NotAnInteger"
    BY <1>5, Base64IsNoInteger
  <2>2. m4 = FirstError(s)
    BY DEF TimestampVerificationDataFromRaw
  <2> HIDE DEF s
  <2>3. QED
    BY <2>1, <2>2, NoneForAnInteger
<1>11. b3 # "NotAnInteger"
  <2> DEFINE s == [i \in DOMAIN envelope.signatures |-> DsseSignatureFromRaw(envelope.signatures[i])]
             x == Check(Len(envelope.signatures) = 1, "DsseSignatureCount")
             y == StrictBase64(envelope.payload)
  <2>1. DOMAIN s \subseteq Nat /\ \A i \in DOMAIN s : s[i] # "NotAnInteger"
    BY <1>5, Base64IsNoInteger DEF DsseSignatureFromRaw
  <2>2. b3 = FirstError(<<x, y, FirstError(s)>>)
    BY DEF DsseEnvelopeFromRaw
  <2>3. x # "NotAnInteger" /\ y # "NotAnInteger"
    BY Base64IsNoInteger DEF Check, Ok
  <2> HIDE DEF s, x, y
  <2>4. FirstError(s) # "NotAnInteger"
    BY <2>1, NoneForAnInteger
  <2>5. FirstError(<<x, y, FirstError(s)>>) \in {Ok, x, y, FirstError(s)}
    BY FirstError3
  <2>6. QED
    BY <2>2, <2>3, <2>4, <2>5 DEF Ok
<1> HIDE DEF m1, m2, m3, m4, b1, b3
<1>12. /\ b2 = Ok <=> m1 = Ok /\ m2 = Ok /\ m3 = Ok /\ m4 = Ok
       /\ b2 \in {Ok, m1, m2, m3, m4}
  BY FirstError4
<1> HIDE DEF b2
<1>13. /\ FirstError(<<b1, b2, b3>>) = Ok <=> b1 = Ok /\ b2 = Ok /\ b3 = Ok
       /\ FirstError(<<b1, b2, b3>>) \in {Ok, b1, b2, b3}
  BY FirstError3
<1>14. BundleFromRaw(bundle) = Ok => m3 = Ok
  BY <1>8, <1>12, <1>13
<1>15. BundleFromRaw(bundle) = "NotAnInteger" => m3 = "NotAnInteger"
  BY <1>8, <1>9, <1>10, <1>11, <1>12, <1>13 DEF Ok
<1>16. QED
  BY <1>7, <1>14, <1>15 DEF m3

\* What a holder holds is among the values to be converted.
LEMMA HolderValues ==
    ASSUME input \in Inputs, input.api \in ContainerApis, Responded, NEW i \in Holders,
           ~IsResponse => input.texts[i].json = Ok
    PROVE  \A bundle \in RawBundle(ValueAt[i]) : AreSequences(bundle)
<1>1. Items \in Nat /\ i \in Nat /\ i \in 1..Items
      /\ (IsResponse => DOMAIN Attestations = 1..Items) /\ (~IsResponse => DOMAIN input.texts = 1..Items)
  BY HoldersArePositions
<1>2. CASE ~IsResponse
  <2>1. i \in DOMAIN input.texts /\ ValueAt[i] = input.texts[i].value
    BY <1>1, <1>2 DEF ValueAt
  <2>2. input.api = "jsonLines" => ~input.texts[i].blank
    BY <1>2 DEF Holders
  <2>3. ToConvert(input.api, input.texts[i].value) = {input.texts[i].value}
    BY <1>2 DEF ToConvert, IsResponse
  <2>4. \A value \in ToConvert(input.api, input.texts[i].value) : \A bundle \in RawBundle(value) : AreSequences(bundle)
    BY <1>2, <2>1, <2>2, IntegersAssumption DEF IntegersAssumption
  <2>5. QED
    BY <2>1, <2>3, <2>4
<1>3. CASE IsResponse
  <2> DEFINE response == The(RawGithubResponse(Document.value))
  <2>1. /\ RawGithubResponse(Document.value) # {} /\ response \in RawGithubResponse(Document.value)
        /\ DOMAIN response.attestations = 1..Items
        /\ response.attestations[i] \in RawAttestationEntry(Attestations[i])
    <3>1. RawGithubResponse(Document.value) # {}
      BY <1>3, ShapeMeans DEF Responded
    <3>2. DOMAIN response.attestations = DOMAIN Attestations
          /\ \A k \in DOMAIN Attestations : response.attestations[k] \in RawAttestationEntry(Attestations[k])
      BY <3>1, ResponseMeans DEF Attestations
    <3>3. QED
      BY <1>1, <1>3, <3>1, <3>2, TheOne
  <2> HIDE DEF response
  <2>2. response.attestations[i].bundle = InlineIn(Attestations[i]) /\ InlineIn(Attestations[i]) # {}
    BY <1>3, <2>1, AttestationMeans DEF Holders
  <2>3. ValueAt[i] \in response.attestations[i].bundle
    BY <1>1, <1>3, <2>2, TheOne DEF ValueAt
  <2>4. response.attestations[i] \in Range(response.attestations)
    BY <1>1, <2>1 DEF Range
  <2>5. ValueAt[i] \in ToConvert(input.api, Document.value)
    <3>1. ValueAt[i] \in UNION {a.bundle : a \in Range(response.attestations)}
      BY <2>3, <2>4
    <3>2. QED
      BY <1>3, <2>1, <3>1 DEF ToConvert, IsResponse
  <2>6. 1 \in DOMAIN input.texts /\ Document = input.texts[1] /\ Document.json = Ok
    <3>1. input.texts \in Seq(Range(input.texts)) /\ Len(input.texts) = 1
      BY <1>3, BundleSetAssumption DEF BundleSetAssumption, IsResponse
    <3>2. QED
      BY <1>3, <3>1, LenProperties DEF Document, Responded
  <2>7. \A value \in ToConvert(input.api, Document.value) : \A bundle \in RawBundle(value) : AreSequences(bundle)
    BY <1>3, <2>6, IntegersAssumption DEF IntegersAssumption, IsResponse
  <2>8. QED
    BY <2>5, <2>7
<1>4. QED
  BY <1>2, <1>3

(***************************************************************************)
(* The inductive invariant of the integers: a container that is refused    *)
(* for one holds a bundle that is.                                         *)
(***************************************************************************)
FailedForInteger(i) ==
    (~IsResponse => input.texts[i].json = Ok) /\ BundleFromValue(ValueAt[i]) = "NotAnInteger"

IntegerInv ==
    input.api \in ContainerApis /\ result = "NotAnInteger" => Responded /\ \E i \in Holders : FailedForInteger(i)

LEMMA FailedUnmoved ==
    UNCHANGED input => UNCHANGED Holders /\ (Responded' <=> Responded) /\ \A i : FailedForInteger(i) => FailedForInteger(i)'
<1> SUFFICES ASSUME UNCHANGED input
             PROVE  UNCHANGED Holders /\ (Responded' <=> Responded) /\ \A i : FailedForInteger(i) => FailedForInteger(i)'
  OBVIOUS
<1>1. UNCHANGED <<Holders, ValueAt>> /\ (Responded' <=> Responded) /\ (IsResponse' <=> IsResponse)
  BY ContainerUnmoved
<1>2. \A i : FailedForInteger(i) => FailedForInteger(i)'
  BY <1>1 DEF FailedForInteger
<1>3. QED
  BY <1>1, <1>2

\* A text that fails for an integer is a bundle that does.
LEMMA TextFails ==
    ASSUME input \in Inputs, input.api \in ContainerApis, ~IsResponse, NEW i \in DOMAIN input.texts,
           input.api = "jsonLines" => ~input.texts[i].blank,
           BundleFromText(input.texts[i]) = "NotAnInteger"
    PROVE  input.texts[i].json = Ok /\ BundleFromValue(input.texts[i].value) = "NotAnInteger"
<1>1. input.texts[i].json # "NotAnInteger"
  BY IntegersAssumption DEF IntegersAssumption
<1>2. QED
  BY <1>1 DEF BundleFromText

LEMMA IntegerInvStep ==
    ASSUME PlaceInv, ContainerInv, IntegerInv, [WireNext]_allVars
    PROVE  IntegerInv'
<1>1. CASE UNCHANGED allVars
  <2>1. UNCHANGED <<input, result>>
    BY <1>1 DEF allVars, vars
  <2>2. QED
    BY <2>1, FailedUnmoved DEF IntegerInv
<1>2. CASE WireNext
  <2>1. UNCHANGED input /\ (input.api \in ContainerApis => Next)
    BY <1>2, ApiSteps
  <2> SUFFICES ASSUME input.api \in ContainerApis, result' = "NotAnInteger"
               PROVE  Responded /\ \E i \in Holders : FailedForInteger(i)
    BY <2>1, FailedUnmoved DEF IntegerInv
  <2>2. input \in Inputs /\ (pc # "done" => result = "Pending")
    BY DEF PlaceInv
  <2>3. ASSUME NEW outcome, NEW place, Try(outcome, place), pc # "done"
        PROVE  outcome = "NotAnInteger"
    BY <2>2, <2>3 DEF Try, Return
  <2>4. CASE CheckInputSize
    <3>1. PICK place : Try(Check(input.size <= MaxInputBytes, "InputTooLarge"), place) /\ pc # "done"
      BY <2>4 DEF CheckInputSize
    <3>2. QED
      BY <2>3, <3>1 DEF Check, Ok
  <2>5. CASE ParseBundle
    <3>1. input.api = "bundle" /\ ~IsResponse /\ ~IsLines /\ BundleFromText(Document) = "NotAnInteger"
      BY <2>5 DEF ParseBundle, Return, IsResponse, IsLines
    <3>2. 1 \in DOMAIN input.texts
      <4>1. input.texts \in Seq(Range(input.texts)) /\ Len(input.texts) = 1
        BY <2>2, <3>1, BundleSetAssumption DEF BundleSetAssumption
      <4>2. QED
        BY <4>1, LenProperties
    <3>3. Document.json = Ok /\ BundleFromValue(Document.value) = "NotAnInteger"
      BY <2>2, <3>1, <3>2, TextFails DEF Document
    <3>4. Responded /\ 1 \in Holders /\ FailedForInteger(1)
      BY <3>1, <3>2, <3>3 DEF Responded, Holders, FailedForInteger, ValueAt, Document
    <3>5. QED
      BY <3>4
  <2>6. CASE ParseResponse
    <3> DEFINE response == IF Document.json = Ok THEN RawGithubResponse(Document.value) ELSE {}
               attestations == IF response = {} THEN <<>> ELSE The(response).attestations
               a == Document.json
               b == Check(response # {}, "Json")
               c == Check(attestations # <<>>, "EmptyContainer")
               d == Check(Len(attestations) <= MaxBundlesPerSet, "TooManyBundles")
    <3>1. Try(FirstError(<<a, b, c, d>>), "items") /\ pc # "done" /\ IsResponse
      BY <2>6 DEF ParseResponse, IsResponse
    <3>2. a # "NotAnInteger"
      <4>1. input.texts \in Seq(Range(input.texts)) /\ Len(input.texts) = 1
        BY <2>2, <3>1, BundleSetAssumption DEF BundleSetAssumption, IsResponse
      <4>2. 1 \in DOMAIN input.texts /\ input.api # "jsonLines"
        BY <3>1, <4>1, LenProperties DEF IsResponse
      <4>3. QED
        BY <2>2, <4>2, IntegersAssumption DEF IntegersAssumption, Document
    <3>3. b # "NotAnInteger" /\ c # "NotAnInteger" /\ d # "NotAnInteger"
      BY DEF Check, Ok
    <3> HIDE DEF a, b, c, d
    <3>4. FirstError(<<a, b, c, d>>) \in {Ok, a, b, c, d}
      BY FirstError4
    <3>5. QED
      BY <2>3, <3>1, <3>2, <3>3, <3>4 DEF Ok
  <2>7. CASE SkipBlankLine
    BY <2>2, <2>7 DEF SkipBlankLine
  <2>8. CASE TakeLine
    <3>1. /\ pc = "items" /\ IsLines /\ ~IsResponse /\ next <= Len(input.texts) /\ ~input.texts[next].blank
          /\ Try(BundleFromText(input.texts[next]), "items")
      BY <2>8 DEF TakeLine, IsLines, IsResponse
    <3>2. ItemsInv
      BY <3>1 DEF ContainerInv
    <3>3. Responded /\ next \in DOMAIN input.texts /\ next \in Nat
      BY <2>2, <3>1, <3>2, HoldersArePositions DEF ItemsInv, Items
    <3>4. BundleFromText(input.texts[next]) = "NotAnInteger"
      BY <2>3, <3>1
    <3>5. input.texts[next].json = Ok /\ BundleFromValue(input.texts[next].value) = "NotAnInteger"
      BY <2>2, <3>1, <3>3, <3>4, TextFails
    <3>6. next \in Holders /\ FailedForInteger(next)
      BY <3>1, <3>3, <3>5 DEF Holders, FailedForInteger, ValueAt
    <3>7. QED
      BY <3>3, <3>6
  <2>9. CASE EndOfLines
    <3> DEFINE a == Check(bundles # <<>>, "EmptyContainer")
               b == Check(Len(bundles) <= MaxBundlesPerSet, "TooManyBundles")
    <3>1. FirstError(<<a, b>>) = "NotAnInteger"
      BY <2>9 DEF EndOfLines, Return
    <3>2. a # "NotAnInteger" /\ b # "NotAnInteger"
      BY DEF Check, Ok
    <3> HIDE DEF a, b
    <3>3. FirstError(<<a, b>>) \in {Ok, a, b}
      BY FirstError2
    <3>4. QED
      BY <3>1, <3>2, <3>3 DEF Ok
  <2>10. CASE TakeAttestation
    <3> DEFINE outcome == FirstError(Outcomes(BundleFromValue, raw[next].bundle))
    <3>1. pc = "items" /\ IsResponse /\ next <= Len(raw) /\ Try(outcome, "items")
      BY <2>10 DEF TakeAttestation, IsResponse
    <3>2. ItemsInv
      BY <3>1 DEF ContainerInv
    <3>3. Responded /\ next \in 1..Items
      BY <2>2, <3>1, <3>2, HoldersArePositions DEF ItemsInv
    <3>4. /\ next \notin Holders => outcome = Ok
          /\ next \in Holders => outcome = BundleFromValue(ValueAt[next])
      BY <2>2, <3>1, <3>2, <3>3, AttestationTaken
    <3> HIDE DEF outcome
    <3>5. outcome = "NotAnInteger"
      BY <2>3, <3>1
    <3>6. next \in Holders /\ FailedForInteger(next)
      BY <3>1, <3>4, <3>5 DEF FailedForInteger, Ok
    <3>7. QED
      BY <3>3, <3>6
  <2>11. CASE EndOfAttestations
    BY <2>11 DEF EndOfAttestations, Return, Check, Ok
  <2>12. QED
    BY <2>1, <2>4, <2>5, <2>6, <2>7, <2>8, <2>9, <2>10, <2>11 DEF Next
<1>3. QED
  BY <1>1, <1>2

(***************************************************************************)
(* strict_stringified_u64 reads the number that is written, up to the end  *)
(* of u64, for texts of every length: an accepted container holds no other *)
(* integer text, and one refused for an integer holds a text that is not   *)
(* the decimal text of a u64.                                              *)
(***************************************************************************)
THEOREM IntegersAreAsWrittenHolds == WireSpec => []IntegersAreAsWritten
<1>1. WireInit => IntegerInv
  BY DEF WireInit, Init, IntegerInv
<1>2. PlaceInv /\ ContainerInv /\ IntegerInv /\ [WireNext]_allVars => IntegerInv'
  BY IntegerInvStep
<1>3. WireSpec => []PlaceInv
  BY CheckpointInvHolds, PTL DEF CheckpointInv
<1>4. WireSpec => []IntegerInv
  BY <1>1, <1>2, <1>3, ContainerInvHolds, PTL DEF WireSpec
<1>5. PlaceInv /\ ContainerInv /\ IntegerInv => IntegersAreAsWritten
  <2> SUFFICES ASSUME PlaceInv, ContainerInv, IntegerInv, input.api \in ContainerApis
               PROVE  IntegersAreAsWritten
    BY DEF IntegersAreAsWritten
  <2>1. input \in Inputs /\ AllOrNothing
    BY DEF PlaceInv, ContainerInv
  <2>2. ASSUME Responded
        PROVE  /\ \A k \in DOMAIN Written : \E i \in Holders : Written[k] = ValueAt[i]
               /\ \A i \in Holders : ValueAt[i] \in Range(Written)
    <3>1. Holders \in SUBSET Nat /\ IsFiniteSet(Holders)
      BY <2>1, <2>2, HoldersArePositions
    <3>2. /\ Cardinality(Holders) \in Nat /\ Ascending(Holders) \in [1..Cardinality(Holders) -> Holders]
          /\ \A i \in Holders : PositionOf(Holders, i) \in 1..Cardinality(Holders) /\ Ascending(Holders)[PositionOf(Holders, i)] = i
      BY <3>1, AscendingProperties
    <3>3. Written = [k \in 1..Cardinality(Holders) |-> ValueAt[Ascending(Holders)[k]]]
      BY <2>1, <2>2, WrittenMeans DEF Picked
    <3>4. DOMAIN Written = 1..Cardinality(Holders)
          /\ \A k \in 1..Cardinality(Holders) : Written[k] = ValueAt[Ascending(Holders)[k]]
      BY <3>3
    <3>5. \A k \in DOMAIN Written : \E i \in Holders : Written[k] = ValueAt[i]
      BY <3>2, <3>4
    <3>6. \A i \in Holders : PositionOf(Holders, i) \in DOMAIN Written /\ Written[PositionOf(Holders, i)] = ValueAt[i]
      BY <3>2, <3>4
    <3>7. \A i \in Holders : ValueAt[i] \in Range(Written)
      BY <3>6 DEF Range
    <3>8. QED
      BY <3>5, <3>7
  <2>3. ASSUME result = Ok, NEW bundle \in Range(bundles), NEW text \in Integers(bundle)
        PROVE  \E n \in FromStr(text) : n <= U64Max /\ Stripped(text) = Canonical[n]
    <3>1. Acceptable /\ bundles = [k \in DOMAIN Written |-> The(RawBundle(Written[k]))]
      BY <2>1, <2>3 DEF AllOrNothing
    <3>2. Responded
      <4> SUFFICES ASSUME IsResponse
                   PROVE  Document.json = Ok /\ ResponseShape
        BY DEF Responded
      <4>1. input.texts \in Seq(Range(input.texts)) /\ Len(input.texts) = 1
        BY <2>1, BundleSetAssumption DEF BundleSetAssumption, IsResponse
      <4>2. 1 \in DOMAIN input.texts
        BY <4>1, LenProperties
      <4>3. QED
        BY <3>1, <4>2 DEF Acceptable, IsResponse, Document
    <3>3. PICK k \in DOMAIN Written : bundle = The(RawBundle(Written[k]))
      BY <2>3, <3>1 DEF Range
    <3>4. PICK i \in Holders : Written[k] = ValueAt[i]
      BY <2>2, <3>2
    <3>5. BundleFromValue(ValueAt[i]) = Ok
      BY <3>1, <3>4 DEF Acceptable
    <3>6. bundle \in RawBundle(ValueAt[i]) /\ BundleFromRaw(bundle) = Ok
      BY <3>3, <3>4, <3>5, TheOne DEF BundleFromValue, Ok
    <3>7. ~IsResponse => input.texts[i].json = Ok
      <4>1. ~IsResponse => i \in DOMAIN input.texts /\ (input.api # "jsonLines" \/ ~input.texts[i].blank)
        BY DEF Holders
      <4>2. QED
        BY <3>1, <4>1 DEF Acceptable
    <3>8. AreSequences(bundle)
      BY <2>1, <3>2, <3>6, <3>7, HolderValues
    <3>9. FromStr(text) # {}
      BY <2>3, <3>6, <3>8, BundleIntegers
    <3>10. text \in Seq(Range(text))
      BY <2>3, <3>8 DEF AreSequences
    <3>11. PICK n \in FromStr(text) : TRUE
      BY <3>9
    <3>12. n <= U64Max /\ Stripped(text) = Canonical[n]
      BY <3>10, <3>11, ReadIsCanonical
    <3>13. QED
      BY <3>11, <3>12
  <2>4. ASSUME result = "NotAnInteger"
        PROVE  \E value \in {v \in Range(Written) : RawBundle(v) # {}} : \E text \in Integers(The(RawBundle(value))) :
                  \A n \in 0..U64Max : text # Canonical[n]
    <3>1. Responded
      BY <2>4 DEF IntegerInv
    <3>2. PICK i \in Holders : FailedForInteger(i)
      BY <2>4 DEF IntegerInv
    <3> DEFINE value == ValueAt[i]
               bundle == The(RawBundle(value))
    <3>3. value \in Range(Written)
      BY <2>2, <3>1
    <3>4. RawBundle(value) # {} /\ BundleFromRaw(bundle) = "NotAnInteger"
      BY <3>2 DEF FailedForInteger, BundleFromValue
    <3>5. bundle \in RawBundle(value)
      BY <3>4, TheOne
    <3>6. AreSequences(bundle)
      BY <2>1, <3>1, <3>2, <3>5, HolderValues DEF FailedForInteger
    <3> HIDE DEF value, bundle
    <3>7. PICK text \in Integers(bundle) : FromStr(text) = {}
      BY <3>4, <3>5, <3>6, BundleIntegers
    <3>8. \A n \in 0..U64Max : text # Canonical[n]
      BY <3>7, CanonicalIsRead
    <3>9. QED
      BY <3>3, <3>4, <3>8 DEF bundle
  <2>5. QED
    BY <2>3, <2>4 DEF IntegersAreAsWritten
<1>6. QED
  BY <1>3, <1>4, <1>5, ContainerInvHolds, PTL
=============================================================================
