------------------------------- MODULE Bundle -------------------------------
(***************************************************************************)
(* bundle.rs: the raw shapes a bundle is deserialized into and their       *)
(* conversion to the parsed types, up to Bundle::from_json.                *)
(*                                                                         *)
(* A text to be parsed is [blank, json, value]: json is the outcome of     *)
(* parse_strict, value the JSON value it returned.  A base64 text is an    *)
(* atom, or NotBase64; an integer text is the sequence of its characters.  *)
(***************************************************************************)
EXTENDS ParseUtil, Serde

CONSTANT MaxTlogEntries    \* limits.rs MAX_TLOG_ENTRIES

ASSUME BundleAssumption == MaxTlogEntries \in Nat

RawLogId(v) == Struct(v, 1, [keyId : Field(v, 1, "keyId", String)])
RawKindVersion(v) == Struct(v, 2, [kind : Field(v, 1, "kind", String), version : Field(v, 2, "version", String)])
RawInclusionPromise(v) == Struct(v, 1, [signedEntryTimestamp : Field(v, 1, "signedEntryTimestamp", String)])
RawCheckpoint(v) == Struct(v, 1, [envelope : Field(v, 1, "envelope", String)])

RawInclusionProof(v) ==
    Struct(v, 5, [logIndex : Field(v, 1, "logIndex", String), rootHash : Field(v, 2, "rootHash", String),
                  treeSize : Field(v, 3, "treeSize", String), hashes : VecField(v, 4, "hashes", String),
                  checkpoint : Field(v, 5, "checkpoint", RawCheckpoint)])

RawTlogEntry(v) ==
    Struct(v, 7, [logIndex : Field(v, 1, "logIndex", String), logId : Field(v, 2, "logId", RawLogId),
                  kindVersion : Field(v, 3, "kindVersion", RawKindVersion),
                  integratedTime : Field(v, 4, "integratedTime", String),
                  inclusionPromise : OptionField(v, 5, "inclusionPromise", RawInclusionPromise),
                  inclusionProof : OptionField(v, 6, "inclusionProof", RawInclusionProof),
                  canonicalizedBody : Field(v, 7, "canonicalizedBody", String)])

RawRfc3161Timestamp(v) == Struct(v, 1, [signedTimestamp : Field(v, 1, "signedTimestamp", String)])
RawTimestampVerificationData(v) ==
    Struct(v, 1, [rfc3161Timestamps : VecField(v, 1, "rfc3161Timestamps", RawRfc3161Timestamp)])
RawCertificate(v) == Struct(v, 1, [rawBytes : Field(v, 1, "rawBytes", String)])

RawVerificationMaterial(v) ==
    Struct(v, 3, [certificate : Field(v, 1, "certificate", RawCertificate),
                  tlogEntries : VecField(v, 2, "tlogEntries", RawTlogEntry),
                  timestampVerificationData :
                      Defaulted(v, 3, "timestampVerificationData", RawTimestampVerificationData,
                                [rfc3161Timestamps |-> <<>>])])

RawDsseSignature(v) ==
    Struct(v, 2, [sig : Field(v, 1, "sig", String), keyid : OptionField(v, 2, "keyid", String)])

RawDsseEnvelope(v) ==
    Struct(v, 3, [payload : Field(v, 1, "payload", String), payloadType : Field(v, 2, "payloadType", String),
                  signatures : VecField(v, 3, "signatures", RawDsseSignature)])

RawBundle(v) ==
    Struct(v, 3, [mediaType : Field(v, 1, "mediaType", String),
                  verificationMaterial : Field(v, 2, "verificationMaterial", RawVerificationMaterial),
                  dsseEnvelope : Field(v, 3, "dsseEnvelope", RawDsseEnvelope)])

\* `rename_all = "camelCase"` holds for these keys too.
RawAttestationEntry(v) ==
    Struct(v, 4, [initiator : Field(v, 1, "initiator", String),
                  repositoryId : OptionField(v, 2, "repositoryId", U64),
                  bundleUrl : OptionField(v, 3, "bundleUrl", String),
                  bundle : OptionField(v, 4, "bundle", AnyValue)])

RawAttestations(v) == Vec(v, RawAttestationEntry)
RawGithubResponse(v) == Struct(v, 1, [attestations : Field(v, 1, "attestations", RawAttestations)])

-----------------------------------------------------------------------------
BundleMediaType == "bundle.v0.3+json"
NotBase64 == "!"

StrictBase64(text) == Check(text # NotBase64, "Base64")

InclusionPromiseFromRaw(raw) == StrictBase64(raw.signedEntryTimestamp)

InclusionProofFromRaw(raw) ==
    FirstError(<< StrictStringifiedU64(raw.logIndex), StrictBase64(raw.rootHash), StrictStringifiedU64(raw.treeSize),
               FirstError([i \in DOMAIN raw.hashes |-> StrictBase64(raw.hashes[i])]) >>)

\* `.map(from_raw).transpose()?`: the outcomes of the value an Option holds, if any.
Outcomes(FromRaw(_), option) == SetToSeq({FromRaw(raw) : raw \in option})

TlogEntryFromRaw(raw) ==
    FirstError(<< StrictStringifiedU64(raw.logIndex), StrictBase64(raw.logId.keyId),
               StrictStringifiedU64(raw.integratedTime),
               FirstError(Outcomes(InclusionPromiseFromRaw, raw.inclusionPromise)),
               FirstError(Outcomes(InclusionProofFromRaw, raw.inclusionProof)),
               StrictBase64(raw.canonicalizedBody) >>)

CertificateFromRaw(raw) == StrictBase64(raw.rawBytes)

TimestampVerificationDataFromRaw(raw) ==
    FirstError([i \in DOMAIN raw.rfc3161Timestamps |-> StrictBase64(raw.rfc3161Timestamps[i].signedTimestamp)])

VerificationMaterialFromRaw(raw) ==
    FirstError(<< Check(Len(raw.tlogEntries) <= MaxTlogEntries, "TooManyTlogEntries"),
               CertificateFromRaw(raw.certificate),
               FirstError([i \in DOMAIN raw.tlogEntries |-> TlogEntryFromRaw(raw.tlogEntries[i])]),
               TimestampVerificationDataFromRaw(raw.timestampVerificationData) >>)

DsseSignatureFromRaw(raw) == StrictBase64(raw.sig)

DsseEnvelopeFromRaw(raw) ==
    FirstError(<< Check(Len(raw.signatures) = 1, "DsseSignatureCount"),
               StrictBase64(raw.payload),
               FirstError([i \in DOMAIN raw.signatures |-> DsseSignatureFromRaw(raw.signatures[i])]) >>)

BundleFromRaw(raw) ==
    FirstError(<< Check(raw.mediaType = BundleMediaType, "MediaType"),
               VerificationMaterialFromRaw(raw.verificationMaterial),
               DsseEnvelopeFromRaw(raw.dsseEnvelope) >>)

\* serde_json::from_value and then Bundle::from_raw.
BundleFromValue(value) ==
    IF RawBundle(value) # {} THEN BundleFromRaw(The(RawBundle(value))) ELSE "Json"

\* Bundle::from_json after the size check; also a line of from_json_lines.
BundleFromText(text) == IF text.json # Ok THEN text.json ELSE BundleFromValue(text.value)
=============================================================================
