------------------------------- MODULE Fuzzing ------------------------------
(***************************************************************************)
(* Every parser that the fuzz crate drives, trusted roots apart (module    *)
(* TrustStore): the containers of module BundleSet, and through the        *)
(* adapters of fuzzing.rs the checkpoint, the SCT list, the Rekor body,    *)
(* the statement and the timestamp.  Verification reaches the same         *)
(* checkpoint code with the anchor of an inclusion proof.                  *)
(*                                                                         *)
(* The one text of an input is, by its api:                                *)
(*   "checkpoint", "checkpointVerify"    [envelope, seed]                  *)
(*   "proofCheckpoint"                   [envelope, treeSize, rootHash]    *)
(*   "sctList"                           [bytes, encodes]: encodes is the  *)
(*                                       list they are taken to encode     *)
(*   "rekorBody", "statement"            a JSON text                       *)
(*   "rfc3339"                           a text as in module Rfc3339       *)
(***************************************************************************)
EXTENDS BundleSet, Payload, Checkpoint, SctList, Rfc3339

CONSTANTS
    EmbeddedRoots,    \* the logs a trusted root may hold: [key, checkpointKeyId, baseUrl] each
    CorpusKey         \* the key whose SHA-256 is CHECKPOINT_CORPUS_LOG_ID

\* A text is a sequence of characters, an array in a document one of values, and a
\* trusted root lists its logs.  parse_strict fails for another reason than a subject.
ASSUME FuzzingAssumption ==
    /\ \A logs \in EmbeddedRoots :
           logs \in Seq(Range(logs)) /\ \A log \in Range(logs) : DOMAIN log = {"key", "checkpointKeyId", "baseUrl"}
    /\ \A given \in Inputs :
           LET document == given.texts[1] IN
           /\ given.api \in {"checkpoint", "checkpointVerify", "proofCheckpoint"} =>
                 document.envelope \in Seq(Range(document.envelope))
           /\ given.api = "sctList" => document.bytes \in Seq(Byte) /\ document.encodes \in Seq(ParsedScts)
           /\ given.api = "statement" => document.json # "MalformedSubject"
           /\ given.api = "statement" /\ document.json = Ok /\ IsStruct(document.value, 4) =>
                 \A list \in Given(document.value, 2, "subject") : Is(list, "arr") => list.arr \in Seq(Range(list.arr))

\* A seed of the corpus is a note with a signature of the corpus log, under its key hint.
ASSUME CorpusAssumption ==
    \A given \in Inputs : given.api = "checkpointVerify" /\ given.texts[1].seed =>
        LET note == given.texts[1].envelope
            lines == NonEmptyLines(SignatureText(note))
        IN
        /\ ParseBody(note) = Ok
        /\ Len(lines) <= MaxSignatureLines
        /\ \A i \in DOMAIN lines : ParseSignatureLine(lines[i]) = Ok
        /\ \E i \in DOMAIN lines :
              LET line == CheckpointSignature(lines[i]) IN
              /\ SignsNote(CorpusKey, SignedBody(note), line.signature)
              /\ line.keyHint \in KeyHint([key |-> CorpusKey, checkpointKeyId |-> {}])
        /\ FromSpkiDer(CorpusKey) = Ok

VARIABLES
    root,          \* the logs of the embedded root, in order
    lock,          \* the OnceLock: {} until it is initialised, then {the log as an Option}
    anchor,        \* the tree size and root hash to be met, as an Option
    signatures,    \* the signature lines parsed
    tried,         \* the positions of those whose signature was verified, in order
    cursor,        \* what is left of an SCT list, as an Option
    scts           \* the SCTs parsed

wire == <<root, lock, anchor, signatures, tried, cursor, scts>>
allVars == <<vars, wire>>

\* Mutated form of EmbeddedLog: the first log with a supported key.
EmbeddedEcdsaLog(logs) ==
    LET i == FirstIndex(logs, LAMBDA log : FromSpkiDer(log.key) = Ok)
    IN  {logs[j] : j \in {i} \ {0}}

\* rekor.rs select_log_key with the corpus log ID; only a key of a supported algorithm is selected.
EmbeddedLog(logs) ==
    LET i == FirstIndex(logs, LAMBDA log : log.key = CorpusKey)
    IN  {logs[j] : j \in {j \in {i} \ {0} : FromSpkiDer(logs[j].key) = Ok}}

\* An earlier iteration of the process may have initialised the lock.
\* Only two of the parsers read the root.
WireInit ==
    /\ Init
    /\ root \in IF input.api \in {"checkpointVerify", "proofCheckpoint"} THEN EmbeddedRoots ELSE {<<>>}
    /\ lock \in {{}} \union {{EmbeddedLog(root)} : api \in {"checkpointVerify"} \intersect {input.api}}
    /\ anchor = {} /\ signatures = <<>> /\ tried = <<>> /\ cursor = Cursor(<<>>) /\ scts = <<>>

-----------------------------------------------------------------------------
\* Checkpoints.

Envelope == Document.envelope

EmbeddedRekorV1Log ==
    /\ pc = "document" /\ input.api = "checkpointVerify"
    /\ lock' = IF lock = {} THEN {EmbeddedLog(root)} ELSE lock
    /\ Try(Check(lock' # {{}}, "UnknownLogKey"), "note")
    /\ UNCHANGED <<input, next, raw, bundles, entries, root, anchor, signatures, tried, cursor, scts>>

\* verify_tlog_entry has selected the log before, here the first of the root.
ProofAnchor ==
    /\ pc = "document" /\ input.api = "proofCheckpoint"
    /\ root # <<>> /\ FromSpkiDer(root[1].key) = Ok
    /\ anchor' = {[treeSize |-> Document.treeSize, rootHash |-> Document.rootHash]}
    /\ pc' = "note"
    /\ UNCHANGED <<input, next, raw, bundles, entries, result, root, lock, signatures, tried, cursor, scts>>

ParseNoteBody ==
    /\ pc = "note" \/ (pc = "document" /\ input.api = "checkpoint")
    /\ Try(ParseBody(Envelope), "count")
    /\ UNCHANGED <<input, next, raw, bundles, entries, root, lock, anchor, signatures, tried, cursor, scts>>

SignatureLines == NonEmptyLines(SignatureText(Envelope))

CountSignatureLines ==
    /\ pc = "count"
    /\ Try(Check(Len(SignatureLines) <= MaxSignatureLines, "TooManyCheckpointSignatures"), "lines")
    /\ UNCHANGED <<input, next, raw, bundles, entries, root, lock, anchor, signatures, tried, cursor, scts>>

ParseLine ==
    /\ pc = "lines" /\ next <= Len(SignatureLines)
    /\ Try(ParseSignatureLine(SignatureLines[next]), "lines")
    /\ signatures' = IF ParseSignatureLine(SignatureLines[next]) = Ok
                     THEN Append(signatures, CheckpointSignature(SignatureLines[next])) ELSE signatures
    /\ next' = next + 1
    /\ UNCHANGED <<input, raw, bundles, entries, root, lock, anchor, tried, cursor, scts>>

\* The adapter anchors the envelope to itself, and verify_checkpoint parses it once more.
EndOfNote ==
    /\ pc = "lines" /\ next > Len(SignatureLines)
    /\ \/ signatures = <<>> /\ Return("Checkpoint") /\ UNCHANGED <<anchor, signatures>>
       \/ signatures # <<>> /\ input.api = "checkpoint" /\ Return(Ok) /\ UNCHANGED <<anchor, signatures>>
       \/ /\ signatures # <<>> /\ input.api = "checkpointVerify" /\ anchor = {}
          /\ anchor' = {[treeSize |-> n, rootHash |-> RootHashOf(SignedBody(Envelope))] :
                           n \in TreeSizeOf(SignedBody(Envelope))}
          /\ signatures' = <<>> /\ pc' = "note" /\ UNCHANGED result
       \/ signatures # <<>> /\ anchor # {} /\ pc' = "bind" /\ UNCHANGED <<result, anchor, signatures>>
    /\ next' = 1
    /\ UNCHANGED <<input, raw, bundles, entries, root, lock, tried, cursor, scts>>

\* The log whose key is to have signed: the one selected for the entry, or the cached one.
Log == IF input.api = "proofCheckpoint" THEN root[1] ELSE CHOOSE log \in UNION lock : TRUE

BindCheckpoint ==
    LET body == SignedBody(Envelope) IN
    /\ pc = "bind"
    /\ Try(FirstError(<<
            Check(\A a \in anchor : TreeSizeOf(body) = {a.treeSize}, "CheckpointTreeSizeMismatch"),
            Check(\A a \in anchor : RootHashOf(body) = a.rootHash, "CheckpointRootHashMismatch"),
            Check(KeyHint(Log) # {}, "CheckpointSignatureInvalid") >>), "matching")
    /\ UNCHANGED <<input, next, raw, bundles, entries, root, lock, anchor, signatures, tried, cursor, scts>>

\* Mutated form of IsCandidate: the second pass tries them all.
IsCandidateAgain(signature, pass) ==
    /\ signature.keyHint \in KeyHint(Log)
    /\ pass = "matching" => CheckpointKeyNameMatches(Log, signature.name)

\* The first pass tries the lines with the log's name, the second the others.
IsCandidate(signature, pass) ==
    /\ signature.keyHint \in KeyHint(Log)
    /\ (pass = "matching") = CheckpointKeyNameMatches(Log, signature.name)

TryLine ==
    LET signature == signatures[next]
        candidate == IsCandidate(signature, pc)
    IN
    /\ pc \in {"matching", "others"} /\ next <= Len(signatures)
    /\ tried' = IF candidate THEN Append(tried, next) ELSE tried
    /\ IF candidate /\ SignsNote(Log.key, SignedBody(Envelope), signature.signature)
       THEN Return(Ok) ELSE UNCHANGED <<pc, result>>
    /\ next' = next + 1
    /\ UNCHANGED <<input, raw, bundles, entries, root, lock, anchor, signatures, cursor, scts>>

\* Mutated form of EndOfPass: there is no second pass.
EndOfOnlyPass ==
    /\ pc = "matching" /\ next > Len(signatures)
    /\ Return("CheckpointSignatureInvalid")
    /\ UNCHANGED <<input, next, raw, bundles, entries, root, lock, anchor, signatures, tried, cursor, scts>>

EndOfPass ==
    /\ pc \in {"matching", "others"} /\ next > Len(signatures)
    /\ \/ pc = "matching" /\ pc' = "others" /\ UNCHANGED result
       \/ pc = "others" /\ Return("CheckpointSignatureInvalid")
    /\ next' = 1
    /\ UNCHANGED <<input, raw, bundles, entries, root, lock, anchor, signatures, tried, cursor, scts>>

-----------------------------------------------------------------------------
\* SCT lists.

TakeListLength ==
    LET length == Take(Cursor(Document.bytes), 2) IN
    /\ pc = "document" /\ input.api = "sctList"
    /\ Try(Check(\E taken \in length : FromBeBytes(taken.head) = Len(taken.rest), "SctInvalid"), "scts")
    /\ cursor' = After(length)
    /\ UNCHANGED <<input, next, raw, bundles, entries, root, lock, anchor, signatures, tried, scts>>

TakeSct ==
    LET encoded == TakePrefixed(cursor)
        sct == UNION {ParseSingleSct(taken.head) : taken \in encoded}
    IN
    /\ pc = "scts" /\ cursor # Cursor(<<>>)
    /\ Try(Check(sct # {}, "SctInvalid"), "scts")
    /\ cursor' = After(encoded)
    /\ scts' = scts \o SetToSeq(sct)
    /\ UNCHANGED <<input, next, raw, bundles, entries, root, lock, anchor, signatures, tried>>

EndOfSctList ==
    /\ pc = "scts" /\ cursor = Cursor(<<>>)
    /\ Return(Ok)
    /\ UNCHANGED <<input, next, raw, bundles, entries, wire>>

-----------------------------------------------------------------------------
ParseRekorCanonicalizedBody ==
    /\ pc = "document" /\ input.api = "rekorBody"
    /\ Return(TlogEntryBodyFromText(Document))
    /\ UNCHANGED <<input, next, raw, bundles, entries, wire>>

ParseStatement ==
    /\ pc = "document" /\ input.api = "statement"
    /\ Return(StatementFromText(Document))
    /\ UNCHANGED <<input, next, raw, bundles, entries, wire>>

ParseTimestamp ==
    /\ pc = "document" /\ input.api = "rfc3339"
    /\ Return(Check(ParseRfc3339(Document) # {}, "Timestamp"))
    /\ UNCHANGED <<input, next, raw, bundles, entries, wire>>

WireNext ==
    \/ Next /\ UNCHANGED wire
    \/ EmbeddedRekorV1Log \/ ProofAnchor \/ ParseNoteBody \/ CountSignatureLines \/ ParseLine \/ EndOfNote
    \/ BindCheckpoint \/ TryLine \/ EndOfPass
    \/ TakeListLength \/ TakeSct \/ EndOfSctList
    \/ ParseRekorCanonicalizedBody \/ ParseStatement \/ ParseTimestamp

WireSpec == WireInit /\ [][WireNext]_allVars

-----------------------------------------------------------------------------
Verifying == input.api \in {"checkpointVerify", "proofCheckpoint"}

(***************************************************************************)
(* The origin that verify_tlog_entry gives to the caller's policy is, byte *)
(* for byte, the first line of a note that the log signed, and the tree    *)
(* size and root hash that were compared are on the lines under it: no     *)
(* carriage return or early blank line makes the parser read another note  *)
(* than the one whose signature was verified.                              *)
(***************************************************************************)
OriginIsAsSigned ==
    Verifying /\ result = Ok =>
        \E signed \in {Notes[s] : s \in DOMAIN Notes} :
            /\ signed.by = Log.key
            /\ IsPrefix(OriginOf(SignedBody(Envelope)) \o << Newline >>, signed.over)
            /\ IsPrefix(signed.over, Envelope)
            /\ \A a \in anchor : FromStr(Lines(signed.over)[2]) = {a.treeSize}
                                   /\ Base64[Lines(signed.over)[3]] = a.rootHash

(***************************************************************************)
(* The names of the signature lines and their order decide nothing: the    *)
(* two passes of verify_checkpoint accept exactly if some line with the    *)
(* log's hint has a signature of the log over the note.                    *)
(***************************************************************************)
NamesDecideNothing ==
    Verifying /\ result \in {Ok, "CheckpointSignatureInvalid"} =>
        (result = Ok) = \E i \in DOMAIN signatures :
                            /\ signatures[i].keyHint \in KeyHint(Log)
                            /\ SignsNote(Log.key, SignedBody(Envelope), signatures[i].signature)

(***************************************************************************)
(* However its signature lines are labelled, an envelope costs at most     *)
(* MAX_CHECKPOINT_SIGNATURES signature verifications: no line is tried     *)
(* twice, and those with the log's own name come first.                    *)
(***************************************************************************)
EachLineIsTriedOnce ==
    /\ Len(signatures) <= MaxSignatureLines
    /\ \A i, j \in DOMAIN tried : i < j =>
          /\ tried[i] # tried[j]
          /\ CheckpointKeyNameMatches(Log, signatures[tried[j]].name)
                => CheckpointKeyNameMatches(Log, signatures[tried[i]].name)

(***************************************************************************)
(* "adding or reordering other ECDSA log keys cannot silently stop the     *)
(* seeds from reaching signature verification" (fuzzing.rs:68): a seed of  *)
(* the corpus verifies whichever other logs the embedded root holds, in    *)
(* the first iteration and in the ones that find the log cached, as long   *)
(* as the entry of its own log declares no other checkpoint key id.        *)
(***************************************************************************)
SeedsAreVerified ==
    input.api = "checkpointVerify" /\ Document.seed /\ pc = "done" /\ input.size <= MaxInputBytes =>
        LET held == {log \in Range(root) : log.key = CorpusKey}
            undeclared(log) == [log EXCEPT !.checkpointKeyId = {}]
        IN  /\ held = {} => result = "UnknownLogKey"
            /\ held # {} /\ (\A log \in held : KeyHint(log) = KeyHint(undeclared(log))) => result = Ok

(***************************************************************************)
(* parse_sct_list reads a list exactly if the bytes encode one: the four   *)
(* nested lengths leave no byte unread, read none twice, and any list      *)
(* whose lengths fit is accepted.                                          *)
(***************************************************************************)
SctListIsExact ==
    input.api = "sctList" =>
        /\ result = Ok => EncodedList(scts) = Document.bytes
        /\ result = "SctInvalid" => Document.bytes # EncodedList(Document.encodes)

\* The subjects written in a statement, and the texts written for a subject's sha256.
WrittenSubjects == LET lists == Given(Document.value, 2, "subject") IN IF lists = {} THEN <<>> ELSE The(lists).arr

Sha256In(subject) ==
    UNION {{digest.obj[k].str : k \in {"sha256"} \intersect DOMAIN digest.obj} : digest \in Given(subject, 2, "digest")}
Sha256Words(subject) == {text.word : text \in Sha256In(subject)}

WellDigested(subject) ==
    /\ \E digest \in Given(subject, 2, "digest") : DOMAIN digest.obj # {}
    /\ NotHex \notin Sha256In(subject)

\* The position where a digest is written first.
FirstNaming(word) == FirstIndex(WrittenSubjects, LAMBDA s : word \in Sha256Words(s))

(***************************************************************************)
(* An accepted statement has the subjects that are written, one for one in *)
(* their order, each with the digest written under "sha256" however its    *)
(* hex is spelled, and with none exactly if none is written there; so      *)
(* find_subject stops at the position where a digest is written first.     *)
(* One subject without a digest or with a malformed sha256 among any       *)
(* number fails the whole statement, and nothing else is refused as a      *)
(* malformed subject.                                                      *)
(***************************************************************************)
SubjectsAreAsWritten ==
    input.api = "statement" =>
        /\ result = Ok =>
              LET read == StatementSubjects(Document) IN
              /\ DOMAIN read = DOMAIN WrittenSubjects
              /\ \A i \in DOMAIN read :
                    WellDigested(WrittenSubjects[i]) /\ read[i].sha256 = Sha256Words(WrittenSubjects[i])
              /\ \A word \in {NotHex.word} \union UNION {Sha256Words(s) : s \in Range(WrittenSubjects)} :
                    FindSubject([subjects |-> read], word) = FirstNaming(word)
        /\ result = "MalformedSubject" =>
              \E i \in DOMAIN WrittenSubjects : ~WellDigested(WrittenSubjects[i])

(***************************************************************************)
(* An entry body of another kind or version than dsse/0.0.1 is "rejected   *)
(* by the kind/version check below with a typed `UnsupportedError`"        *)
(* (rekor.rs:65); v0.1.0 "*detects* v2 entries with a typed `Unsupported`  *)
(* error" (DESIGN.md:138).                                                 *)
(***************************************************************************)
UnsupportedEntriesAreTyped ==
    input.api = "rekorBody" /\ pc = "done" /\ Document.json = Ok =>
        LET body == Document.value IN
        (/\ Is(body, "obj") /\ {"kind", "apiVersion"} \subseteq DOMAIN body.obj
         /\ Is(body.obj["kind"], "str") /\ Is(body.obj["apiVersion"], "str")
         /\ <<body.obj["kind"].str, body.obj["apiVersion"].str>> # << "dsse", "0.0.1" >>)
        => result = "TlogEntryKindVersion"
=============================================================================
