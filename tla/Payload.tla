------------------------------- MODULE Payload ------------------------------
(***************************************************************************)
(* The two payloads inside a bundle as JSON: rekor.rs                      *)
(* parse_tlog_entry_body and statement.rs Statement::from_payload.         *)
(*                                                                         *)
(* A text is [blank, json, value] as in module Bundle.  A hex text is      *)
(* [word, spelling], or NotHex; a PEM text is the record of what           *)
(* strict_base64, UTF-8 and strict_pem find in it.                         *)
(***************************************************************************)
EXTENDS Bundle, Statement

NotHex == [word |-> "!", spelling |-> "lower"]

StrictHex(text) == Check(text # NotHex, "Hex")

\* Base64 of UTF-8 text, from the begin marker to the end marker, base64 between them.
StrictPem(pem) ==
    FirstError(<< Check(pem.base64, "Base64"), Check(pem.utf8, "Base64"),
               Check(pem.begins, "Base64"), Check(pem.ends, "Base64"), StrictBase64(pem.body) >>)

-----------------------------------------------------------------------------
RawHash(v) == Struct(v, 2, [algorithm : Field(v, 1, "algorithm", String), value : Field(v, 2, "value", String)])
RawDsseSpecSignature(v) ==
    Struct(v, 2, [signature : Field(v, 1, "signature", String), verifier : Field(v, 2, "verifier", String)])

RawDsseSpec(v) ==
    Struct(v, 3, [envelopeHash : Field(v, 1, "envelopeHash", RawHash), payloadHash : Field(v, 2, "payloadHash", RawHash),
                  signatures : VecField(v, 3, "signatures", RawDsseSpecSignature)])

RawTlogEntryBody(v) ==
    Struct(v, 3, [apiVersion : Field(v, 1, "apiVersion", String), kind : Field(v, 2, "kind", String),
                  spec : Field(v, 3, "spec", RawDsseSpec)])

TlogEntryBodyFromRaw(raw) ==
    FirstError(<<
        Check(raw.kind = "dsse" /\ raw.apiVersion = "0.0.1", "TlogEntryKindVersion"),
        Check(Len(raw.spec.signatures) = 1, "DsseSignatureCount"),
        StrictHex(raw.spec.envelopeHash.value), StrictHex(raw.spec.payloadHash.value),
        FirstError([i \in DOMAIN raw.spec.signatures |->
            FirstError(<< StrictBase64(raw.spec.signatures[i].signature),
                       StrictPem(raw.spec.signatures[i].verifier) >>)]) >>)

\* The shape is checked for before the kind and version are.
TlogEntryBodyFromText(text) ==
    IF text.json # Ok THEN text.json
    ELSE IF RawTlogEntryBody(text.value) = {} THEN "Json"
    ELSE TlogEntryBodyFromRaw(The(RawTlogEntryBody(text.value)))

-----------------------------------------------------------------------------
RawDigest(v) == Map(v, String)
RawStatementSubject(v) ==
    Struct(v, 2, [name : OptionField(v, 1, "name", String),
                  digest : Defaulted(v, 2, "digest", RawDigest, [algorithm \in {} |-> ""])])

RawStatement(v) ==
    Struct(v, 4, [_type : Field(v, 1, "_type", String), subject : VecField(v, 2, "subject", RawStatementSubject),
                  predicateType : Field(v, 3, "predicateType", String),
                  predicate : Defaulted(v, 4, "predicate", AnyValue, Null)])

\* Mutated form of CheckSubject: a malformed sha256 is taken as none.
CheckSubjectLeniently(raw) == Check(DOMAIN raw.digest # {}, "MalformedSubject")

CheckSubject(raw) ==
    Check(DOMAIN raw.digest # {} /\ ("sha256" \in DOMAIN raw.digest => StrictHex(raw.digest["sha256"]) = Ok),
          "MalformedSubject")

StatementSubject(raw) ==
    [name |-> raw.name, sha256 |-> {raw.digest[k].word : k \in {"sha256"} \intersect DOMAIN raw.digest}]

StatementFromText(text) ==
    LET raw == The(RawStatement(text.value))
    IN  IF text.json # Ok THEN text.json
        ELSE IF RawStatement(text.value) = {} THEN "Json"
        ELSE FirstError(<< Check(raw._type = StatementType, "StatementType"),
                        Check(Len(raw.subject) <= MaxStatementSubjects, "TooManySubjects"),
                        FirstError([i \in DOMAIN raw.subject |-> CheckSubject(raw.subject[i])]) >>)

StatementSubjects(text) ==
    LET raw == The(RawStatement(text.value))
    IN  [i \in DOMAIN raw.subject |-> StatementSubject(raw.subject[i])]
=============================================================================
