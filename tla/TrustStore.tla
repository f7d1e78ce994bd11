----------------------------- MODULE TrustStore -----------------------------
(***************************************************************************)
(* trust.rs: TrustStore::from_json and embedded_public_good, one action    *)
(* per step of from_json and from_raw.  A document is [embedded, size,     *)
(* json, value]: json is the outcome of parse_strict, value the JSON value *)
(* it returned.  A base64 text is an atom, or NotBase64; an RFC 3339 text  *)
(* is the record of its fields.                                            *)
(***************************************************************************)
EXTENDS Sct, Rfc3339, Serde

CONSTANTS
    Documents,
    Evidence,         \* whole unix seconds that keys and certificates are tested with
    SctTimestamps,    \* and milliseconds that SCTs carry
    MaxInputBytes, MaxCertificatesPerChain    \* limits.rs

SectionNames == << "mediaType", "tlogs", "ctlogs", "certificateAuthorities", "timestampAuthorities" >>

ASSUME TrustStoreAssumption ==
    /\ MaxInputBytes \in Nat /\ MaxCertificatesPerChain \in Nat
    /\ Evidence \subseteq Nat /\ SctTimestamps \subseteq Nat
    /\ \A d \in Documents :
          d.json = Ok /\ IsStruct(d.value, 5) =>
              \A i \in 2..5 : \A list \in Given(d.value, i, SectionNames[i]) :
                  Is(list, "arr") => list.arr \in Seq(Range(list.arr))

-----------------------------------------------------------------------------
RawValidFor(v) == Struct(v, 2, [start : Field(v, 1, "start", String), end : OptionField(v, 2, "end", String)])
RawLogId(v) == Struct(v, 1, [keyId : Field(v, 1, "keyId", String)])

RawPublicKey(v) ==
    Struct(v, 3, [rawBytes : Field(v, 1, "rawBytes", String), keyDetails : Field(v, 2, "keyDetails", String),
                  validFor : Field(v, 3, "validFor", RawValidFor)])

RawTlog(v) ==
    Struct(v, 5, [baseUrl : Field(v, 1, "baseUrl", String), hashAlgorithm : Field(v, 2, "hashAlgorithm", String),
                  publicKey : Field(v, 3, "publicKey", RawPublicKey), logId : Field(v, 4, "logId", RawLogId),
                  checkpointKeyId : OptionField(v, 5, "checkpointKeyId", String)])

RawCertEntry(v) == Struct(v, 1, [rawBytes : Field(v, 1, "rawBytes", String)])
RawCertEntries(v) == Vec(v, RawCertEntry)
RawCertChain(v) == Struct(v, 1, [certificates : Field(v, 1, "certificates", RawCertEntries)])
RawCaSubject(v) ==
    Struct(v, 2, [organization : Field(v, 1, "organization", String), commonName : Field(v, 2, "commonName", String)])

RawCertificateAuthority(v) ==
    Struct(v, 4, [subject : Field(v, 1, "subject", RawCaSubject), uri : Field(v, 2, "uri", String),
                  certChain : Field(v, 3, "certChain", RawCertChain), validFor : Field(v, 4, "validFor", RawValidFor)])

RawTrustedRoot(v) ==
    Struct(v, 5, [mediaType : Field(v, 1, "mediaType", String),
                  tlogs : VecField(v, 2, "tlogs", RawTlog), ctlogs : VecField(v, 3, "ctlogs", RawTlog),
                  certificateAuthorities : VecField(v, 4, "certificateAuthorities", RawCertificateAuthority),
                  timestampAuthorities : VecField(v, 5, "timestampAuthorities", RawCertificateAuthority)])

-----------------------------------------------------------------------------
TrustedRootMediaType == "trustedroot+json"
NotBase64 == "!"

StrictBase64(text) == Check(text # NotBase64, "Base64")

Rfc3339Of(text) == Check(ParseRfc3339(text) # {}, "Rfc3339")

\* ValidityPeriod::from_raw: an absent end is an open window.
ValidityPeriodFromRaw(raw) ==
    FirstError(<< Rfc3339Of(raw.start), Check(\A e \in raw.end : Rfc3339Of(e) = Ok, "Rfc3339") >>)

ValidityPeriod(raw) ==
    [start |-> The(ParseRfc3339(raw.start)),
     end |-> UNION {ParseRfc3339(e) : e \in raw.end}]

PublicKeyFromRaw(raw) == FirstError(<< StrictBase64(raw.rawBytes), ValidityPeriodFromRaw(raw.validFor) >>)

PublicKey(raw) ==
    [rawBytes |-> raw.rawBytes, keyDetails |-> raw.keyDetails, validFor |-> ValidityPeriod(raw.validFor)]

\* TransparencyLog::from_raw and CtLog::from_raw, which ignores a checkpointKeyId.
TransparencyLogFromRaw(raw) ==
    FirstError(<< PublicKeyFromRaw(raw.publicKey), StrictBase64(raw.logId.keyId),
                  Check(\A id \in raw.checkpointKeyId : StrictBase64(id) = Ok, "Base64") >>)

CtLogFromRaw(raw) == FirstError(<< PublicKeyFromRaw(raw.publicKey), StrictBase64(raw.logId.keyId) >>)

CtLog(raw) ==
    [baseUrl |-> raw.baseUrl, hashAlgorithm |-> raw.hashAlgorithm, publicKey |-> PublicKey(raw.publicKey),
     logIdKeyId |-> raw.logId.keyId]

TransparencyLog(raw) ==
    [baseUrl |-> raw.baseUrl, hashAlgorithm |-> raw.hashAlgorithm, publicKey |-> PublicKey(raw.publicKey),
     logIdKeyId |-> raw.logId.keyId, checkpointKeyId |-> raw.checkpointKeyId]

CertificateAuthorityFromRaw(raw) ==
    LET chain == raw.certChain.certificates
    IN  FirstError(<< Check(Len(chain) <= MaxCertificatesPerChain, "TooManyCertificates"),
                      FirstError([i \in DOMAIN chain |-> StrictBase64(chain[i].rawBytes)]),
                      ValidityPeriodFromRaw(raw.validFor) >>)

CertificateAuthority(raw) ==
    [subject |-> raw.subject, uri |-> raw.uri, certificates |-> raw.certChain.certificates,
     validFor |-> ValidityPeriod(raw.validFor)]

-----------------------------------------------------------------------------
VARIABLES
    document,                       \* the bytes given, as what they hold
    pc,                             \* the step to be made next
    raw,                            \* the RawTrustedRoot, as an Option
    tlogs, ctlogs, cas, tsas,       \* the sections converted so far
    fingerprint, source,            \* the provenance the store will carry
    result                          \* "Pending", Ok or the error

sections == <<tlogs, ctlogs, cas, tsas>>
provenance == <<fingerprint, source>>
vars == <<document, pc, raw, sections, provenance, result>>

Init ==
    /\ document \in Documents
    /\ pc = "size" /\ raw = {} /\ fingerprint = {} /\ source = "external"
    /\ tlogs = <<>> /\ ctlogs = <<>> /\ cas = <<>> /\ tsas = <<>>
    /\ result = "Pending"

Return(outcome) == pc' = "done" /\ result' = outcome

Try(outcome, place) ==
    \/ outcome = Ok /\ pc' = place /\ UNCHANGED result
    \/ outcome # Ok /\ Return(outcome)

Raw == The(raw)

\* `into_iter().map(from_raw).collect()?`
Collected(raws, FromRaw(_)) == FirstError([i \in DOMAIN raws |-> FromRaw(raws[i])])

Converted(raws, FromRaw(_), To(_)) ==
    IF Collected(raws, FromRaw) = Ok THEN [i \in DOMAIN raws |-> To(raws[i])] ELSE <<>>

CheckInputSize ==
    /\ pc = "size"
    /\ Try(Check(document.size <= MaxInputBytes, "InputTooLarge"), "json")
    /\ UNCHANGED <<document, raw, sections, provenance>>

ParseJson ==
    LET read == IF document.json = Ok THEN RawTrustedRoot(document.value) ELSE {}
    IN
    /\ pc = "json"
    /\ Try(FirstError(<< document.json, Check(read # {}, "Json") >>), "mediaType")
    /\ raw' = read
    /\ fingerprint' = {Sha256(document.value) : r \in read}
    /\ UNCHANGED <<document, sections, source>>

CheckMediaType ==
    /\ pc = "mediaType"
    /\ Try(Check(Raw.mediaType = TrustedRootMediaType, "MediaType"), "tlogs")
    /\ UNCHANGED <<document, raw, sections, provenance>>

ConvertTlogs ==
    /\ pc = "tlogs"
    /\ Try(Collected(Raw.tlogs, TransparencyLogFromRaw), "ctlogs")
    /\ tlogs' = Converted(Raw.tlogs, TransparencyLogFromRaw, TransparencyLog)
    /\ UNCHANGED <<document, raw, ctlogs, cas, tsas, provenance>>

ConvertCtlogs ==
    /\ pc = "ctlogs"
    /\ Try(Collected(Raw.ctlogs, CtLogFromRaw), "cas")
    /\ ctlogs' = Converted(Raw.ctlogs, CtLogFromRaw, CtLog)
    /\ UNCHANGED <<document, raw, tlogs, cas, tsas, provenance>>

ConvertCas ==
    /\ pc = "cas"
    /\ Try(Collected(Raw.certificateAuthorities, CertificateAuthorityFromRaw), "tsas")
    /\ cas' = Converted(Raw.certificateAuthorities, CertificateAuthorityFromRaw, CertificateAuthority)
    /\ UNCHANGED <<document, raw, tlogs, ctlogs, tsas, provenance>>

\* embedded_public_good goes on to rename the source; from_json returns.
ConvertTsas ==
    LET outcome == Collected(Raw.timestampAuthorities, CertificateAuthorityFromRaw)
    IN
    /\ pc = "tsas"
    /\ \/ document.embedded /\ Try(outcome, "embedded")
       \/ ~document.embedded /\ Return(outcome)
    /\ tsas' = Converted(Raw.timestampAuthorities, CertificateAuthorityFromRaw, CertificateAuthority)
    /\ UNCHANGED <<document, raw, tlogs, ctlogs, cas, provenance>>

EmbeddedPublicGood ==
    /\ pc = "embedded"
    /\ source' = "embedded-public-good"
    /\ Return(Ok)
    /\ UNCHANGED <<document, raw, sections, fingerprint>>

Next ==
    \/ CheckInputSize \/ ParseJson \/ CheckMediaType
    \/ ConvertTlogs \/ ConvertCtlogs \/ ConvertCas \/ ConvertTsas
    \/ EmbeddedPublicGood

Spec == Init /\ [][Next]_vars

-----------------------------------------------------------------------------
\* The first whole millisecond that is not before the instant a text denotes.
Milliseconds(text) ==
    LET digit(i) == IF i \in DOMAIN text.fraction THEN text.fraction[i] ELSE 0
        more == \E i \in DOMAIN text.fraction : i > 3 /\ text.fraction[i] # 0
    IN  1000 * UnixTime(text) + 100 * digit(1) + 10 * digit(2) + digit(3) + (IF more THEN 1 ELSE 0)

\* What the document declares: the members of its i-th field, a section, and the
\* bounds of a validFor, where an end that is null is none.
Member(value, i, key) == The(Given(value, i, key))

Declared(i) ==
    IF Given(document.value, i, SectionNames[i]) = {} THEN <<>> ELSE Member(document.value, i, SectionNames[i]).arr

DeclaredKey(log) == Member(log, 3, "publicKey")

Start(validFor) == Milliseconds(Member(validFor, 1, "start").str)
Ends(validFor) == {Milliseconds(e.str) : e \in Given(validFor, 2, "end") \ {Null}}

DeclaredAt(validFor, ms) == Start(validFor) <= ms /\ \A e \in Ends(validFor) : ms < e

(***************************************************************************)
(* "Exact for trust-window boundary comparisons: for integer-second        *)
(* evidence" (time.rs:19): a store that was parsed holds the document's    *)
(* keys and authorities, all and in order and each in the section it is    *)
(* declared in, and every whole second is in a window of the store exactly *)
(* when it is in the declared one, whatever fractions and offsets the      *)
(* bounds are written with.                                                *)
(***************************************************************************)
SameWindow(window, validFor) ==
    \A t \in Evidence : WithinValidFor(t, window) <=> DeclaredAt(validFor, 1000 * t)

SameKeys(parsed, logs) ==
    /\ DOMAIN parsed = DOMAIN logs
    /\ \A i \in DOMAIN logs :
          LET declared == DeclaredKey(logs[i])
          IN  /\ parsed[i].publicKey.rawBytes = Member(declared, 1, "rawBytes").str
              /\ SameWindow(parsed[i].publicKey.validFor, Member(declared, 3, "validFor"))

SameAuthorities(parsed, authorities) ==
    /\ DOMAIN parsed = DOMAIN authorities
    /\ \A i \in DOMAIN authorities :
          LET chain == Member(Member(authorities[i], 3, "certChain"), 1, "certificates").arr
          IN  /\ DOMAIN parsed[i].certificates = DOMAIN chain
              /\ \A j \in DOMAIN chain : parsed[i].certificates[j].rawBytes = Member(chain[j], 1, "rawBytes").str
              /\ SameWindow(parsed[i].validFor, Member(authorities[i], 4, "validFor"))

TrustsExactlyWhatIsDeclared ==
    result = Ok =>
        /\ SameKeys(tlogs, Declared(2)) /\ SameKeys(ctlogs, Declared(3))
        /\ SameAuthorities(cas, Declared(4)) /\ SameAuthorities(tsas, Declared(5))

\* A window whose bounds are written without a fraction of a second.
InWholeSeconds(validFor) ==
    Start(validFor) % 1000 = 0 /\ \A e \in Ends(validFor) : e % 1000 = 0

DeclaredForScts(i) == Member(DeclaredKey(Declared(3)[i]), 3, "validFor")

(***************************************************************************)
(* An SCT carries milliseconds and the store whole seconds (sct.rs:353).   *)
(* For a window declared in whole seconds that costs nothing: an SCT       *)
(* passes the check exactly when it is inside, to the millisecond.  For    *)
(* any other it is less than a second at either bound: an SCT that passes  *)
(* is never before the declared start, and less than a second past the     *)
(* declared end; one inside that fails is less than a second past the      *)
(* start.                                                                  *)
(***************************************************************************)
SctWithinASecond(ms, window, validFor) ==
    LET passes == SctWithinValidFor(ms, window)
        inside == DeclaredAt(validFor, ms)
    IN  /\ InWholeSeconds(validFor) => (passes <=> inside)
        /\ passes => Start(validFor) <= ms /\ \A e \in Ends(validFor) : ms < e + 1000
        /\ inside /\ ~passes => ms < Start(validFor) + 1000

SctWithinASecondOfDeclared ==
    result = Ok =>
        \A i \in DOMAIN ctlogs, ms \in SctTimestamps :
            SctWithinASecond(ms, ctlogs[i].publicKey.validFor, DeclaredForScts(i))

(***************************************************************************)
(* verify_one_sct "Returns [...] SctOutsideKeyValidity if the timestamp is *)
(* outside that log key's `validFor` window" (sct.rs:335-337; error.rs:315 *)
(* says the same of the error): no SCT outside the window that the trusted *)
(* root gives the key passes the check.                                    *)
(***************************************************************************)
SctsOutsideValidForAreRefused ==
    result = Ok =>
        \A i \in DOMAIN ctlogs, ms \in SctTimestamps :
            SctWithinValidFor(ms, ctlogs[i].publicKey.validFor) => DeclaredAt(DeclaredForScts(i), ms)
=============================================================================
