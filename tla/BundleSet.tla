------------------------------ MODULE BundleSet -----------------------------
(***************************************************************************)
(* bundle.rs: Bundle::from_json, BundleSet::from_json_lines and            *)
(* from_github_response, one action per step of their loops.  An input     *)
(* holds the lines of a JSONL container, or the one text of a document.    *)
(***************************************************************************)
EXTENDS Bundle

CONSTANTS
    Inputs,               \* [api, size, texts]
    MaxInputBytes, MaxBundlesPerSet    \* limits.rs

ContainerApis == {"bundle", "jsonLines", "githubResponse"}

\* The values of a document that are converted to bundles, and the integer
\* texts of a raw bundle.
ToConvert(api, value) ==
    IF api = "githubResponse"
    THEN UNION {UNION {a.bundle : a \in Range(response.attestations)} : response \in RawGithubResponse(value)}
    ELSE {value}

Integers(bundle) ==
    UNION {{e.logIndex, e.integratedTime} \union UNION {{p.logIndex, p.treeSize} : p \in e.inclusionProof} :
              e \in Range(bundle.verificationMaterial.tlogEntries)}

AreSequences(bundle) ==
    LET material == bundle.verificationMaterial
        timestamps == material.timestampVerificationData.rfc3161Timestamps
    IN  /\ material.tlogEntries \in Seq(Range(material.tlogEntries)) /\ timestamps \in Seq(Range(timestamps))
        /\ bundle.dsseEnvelope.signatures \in Seq(Range(bundle.dsseEnvelope.signatures))
        /\ \A e \in Range(material.tlogEntries) : \A p \in e.inclusionProof : p.hashes \in Seq(Range(p.hashes))
        /\ \A text \in Integers(bundle) : text \in Seq(Range(text))

ASSUME BundleSetAssumption ==
    /\ MaxInputBytes \in Nat /\ MaxBundlesPerSet \in Nat \ {0}
    /\ \A input \in Inputs :
          /\ input.texts \in Seq(Range(input.texts))
          /\ input.api # "jsonLines" => Len(input.texts) = 1
          /\ input.api = "githubResponse" /\ input.texts[1].json = Ok /\ IsStruct(input.texts[1].value, 1) =>
                \A list \in Given(input.texts[1].value, 1, "attestations") :
                    Is(list, "arr") => list.arr \in Seq(Range(list.arr))

\* The lists and the integer texts of a bundle are sequences, and parse_strict
\* fails for another reason than an integer.
ASSUME IntegersAssumption ==
    \A input \in Inputs : \A i \in DOMAIN input.texts :
        LET text == input.texts[i]
        IN  input.api \in ContainerApis /\ (input.api = "jsonLines" => ~text.blank) =>
                /\ text.json # "NotAnInteger"
                /\ text.json = Ok => \A value \in ToConvert(input.api, text.value) :
                                        \A bundle \in RawBundle(value) : AreSequences(bundle)

VARIABLES
    input,      \* the bytes given, as what they hold
    pc,         \* "size", "document", "items" or "done"
    next,       \* the position of the next line or attestation
    raw,        \* the raw attestations of an API response
    bundles,    \* the bundles collected, each as the raw one it came from
    entries,    \* the entries collected (API response only)
    result      \* "Pending", Ok or the error

vars == <<input, pc, next, raw, bundles, entries, result>>

Init ==
    /\ input \in Inputs
    /\ pc = "size" /\ next = 1 /\ raw = <<>> /\ bundles = <<>> /\ entries = <<>> /\ result = "Pending"

Document == input.texts[1]

Return(outcome) == pc' = "done" /\ result' = outcome

Try(outcome, place) ==
    \/ outcome = Ok /\ pc' = place /\ UNCHANGED result
    \/ outcome # Ok /\ Return(outcome)

CheckInputSize ==
    /\ pc = "size"
    /\ Try(Check(input.size <= MaxInputBytes, "InputTooLarge"),
           IF input.api = "jsonLines" THEN "items" ELSE "document")
    /\ UNCHANGED <<input, next, raw, bundles, entries>>

ParseBundle ==
    LET outcome == BundleFromText(Document)
    IN
    /\ pc = "document" /\ input.api = "bundle"
    /\ Return(outcome)
    /\ bundles' = IF outcome = Ok THEN << The(RawBundle(Document.value)) >> ELSE bundles
    /\ UNCHANGED <<input, next, raw, entries>>

\* An API response is parsed and counted as a whole; its bundles are still JSON values.
ParseResponse ==
    LET response == IF Document.json = Ok THEN RawGithubResponse(Document.value) ELSE {}
        attestations == IF response = {} THEN <<>> ELSE The(response).attestations
    IN
    /\ pc = "document" /\ input.api = "githubResponse"
    /\ Try(FirstError(<< Document.json,
                      Check(response # {}, "Json"),
                      Check(attestations # <<>>, "EmptyContainer"),
                      Check(Len(attestations) <= MaxBundlesPerSet, "TooManyBundles") >>),
           "items")
    /\ raw' = attestations
    /\ UNCHANGED <<input, next, bundles, entries>>

SkipBlankLine ==
    /\ pc = "items" /\ input.api = "jsonLines"
    /\ next <= Len(input.texts) /\ input.texts[next].blank
    /\ next' = next + 1
    /\ UNCHANGED <<input, pc, raw, bundles, entries, result>>

\* Mutated form of TakeLine: a line that fails is passed over.
TakeLineLeniently ==
    /\ pc = "items" /\ input.api = "jsonLines"
    /\ next <= Len(input.texts) /\ ~input.texts[next].blank
    /\ bundles' = IF BundleFromText(input.texts[next]) = Ok
                  THEN Append(bundles, The(RawBundle(input.texts[next].value))) ELSE bundles
    /\ next' = next + 1
    /\ UNCHANGED <<input, pc, raw, entries, result>>

TakeLine ==
    LET outcome == BundleFromText(input.texts[next])
    IN
    /\ pc = "items" /\ input.api = "jsonLines"
    /\ next <= Len(input.texts) /\ ~input.texts[next].blank
    /\ Try(outcome, "items")
    /\ bundles' = IF outcome = Ok THEN Append(bundles, The(RawBundle(input.texts[next].value))) ELSE bundles
    /\ next' = next + 1
    /\ UNCHANGED <<input, raw, entries>>

EndOfLines ==
    /\ pc = "items" /\ input.api = "jsonLines"
    /\ next > Len(input.texts)
    /\ Return(FirstError(<< Check(bundles # <<>>, "EmptyContainer"),
                         Check(Len(bundles) <= MaxBundlesPerSet, "TooManyBundles") >>))
    /\ UNCHANGED <<input, next, raw, bundles, entries>>

\* The bundle an attestation holds inline, and the entry made of it.
Inline(attestation) == {The(RawBundle(value)) : value \in attestation.bundle}

AttestationEntry(attestation) ==
    [initiator |-> attestation.initiator, repositoryId |-> attestation.repositoryId,
     bundleUrl |-> attestation.bundleUrl, bundle |-> Inline(attestation)]

\* Mutated form of TakeAttestation: only the attestations with a bundle are entries.
TakeInlineAttestation ==
    LET outcome == FirstError(Outcomes(BundleFromValue, raw[next].bundle))
    IN
    /\ pc = "items" /\ input.api = "githubResponse"
    /\ next <= Len(raw)
    /\ Try(outcome, "items")
    /\ bundles' = IF outcome = Ok THEN bundles \o SetToSeq(Inline(raw[next])) ELSE bundles
    /\ entries' = IF outcome = Ok /\ raw[next].bundle # {} THEN Append(entries, AttestationEntry(raw[next])) ELSE entries
    /\ next' = next + 1
    /\ UNCHANGED <<input, raw>>

\* A bundle that is given inline must convert; none need be given.
TakeAttestation ==
    LET outcome == FirstError(Outcomes(BundleFromValue, raw[next].bundle))
    IN
    /\ pc = "items" /\ input.api = "githubResponse"
    /\ next <= Len(raw)
    /\ Try(outcome, "items")
    /\ bundles' = IF outcome = Ok THEN bundles \o SetToSeq(Inline(raw[next])) ELSE bundles
    /\ entries' = IF outcome = Ok THEN Append(entries, AttestationEntry(raw[next])) ELSE entries
    /\ next' = next + 1
    /\ UNCHANGED <<input, raw>>

EndOfAttestations ==
    /\ pc = "items" /\ input.api = "githubResponse"
    /\ next > Len(raw)
    /\ Return(Check(bundles # <<>>, "BundlesNotInline"))
    /\ UNCHANGED <<input, next, raw, bundles, entries>>

Next ==
    \/ CheckInputSize \/ ParseBundle \/ ParseResponse
    \/ SkipBlankLine \/ TakeLine \/ EndOfLines
    \/ TakeAttestation \/ EndOfAttestations

Spec == Init /\ [][Next]_vars

-----------------------------------------------------------------------------
\* The JSON values that are written where a bundle is expected, in order.
\* The bundle of an attestation is null, or none, if it is not given inline.
Attestations == The(Given(Document.value, 1, "attestations")).arr

InlineIn(attestation) == Given(attestation, 4, "bundle") \ {Null}

Written ==
    IF input.api = "githubResponse"
    THEN LET holders == Filter(Attestations, LAMBDA a : InlineIn(a) # {})
         IN  [i \in DOMAIN holders |-> The(InlineIn(holders[i]))]
    ELSE LET held == Filter(input.texts, LAMBDA t : input.api # "jsonLines" \/ ~t.blank)
         IN  [i \in DOMAIN held |-> held[i].value]

\* The document holds a list of attestations, each with what the API's documentation says.
ResponseShape ==
    /\ IsStruct(Document.value, 1)
    /\ \E list \in Given(Document.value, 1, "attestations") : Is(list, "arr")
    /\ \A i \in DOMAIN Attestations :
          LET a == Attestations[i]
          IN  /\ IsStruct(a, 4)
              /\ \E v \in Given(a, 1, "initiator") : Is(v, "str")
              /\ \A v \in Given(a, 2, "repositoryId") : v = Null \/ (Is(v, "num") /\ v.num \in Nat)
              /\ \A v \in Given(a, 3, "bundleUrl") : v = Null \/ Is(v, "str")

(***************************************************************************)
(* A set is returned for all of the container or not at all: no bundle is  *)
(* dropped, repeated or moved because of a blank line, a null or another   *)
(* item that fails, the set stays within MAX_BUNDLES_PER_SET, and a        *)
(* container is refused only if something is wrong with it.                *)
(***************************************************************************)
Acceptable ==
    /\ input.size <= MaxInputBytes
    /\ \A i \in DOMAIN input.texts : (input.api = "jsonLines" /\ input.texts[i].blank) \/ input.texts[i].json = Ok
    /\ input.api = "githubResponse" => ResponseShape /\ Len(Attestations) <= MaxBundlesPerSet
    /\ Written # <<>> /\ Len(Written) <= MaxBundlesPerSet
    /\ \A i \in DOMAIN Written : BundleFromValue(Written[i]) = Ok

AllOrNothing ==
    input.api \in ContainerApis =>
    /\ result = Ok => Acceptable /\ bundles = [i \in DOMAIN Written |-> The(RawBundle(Written[i]))]
    /\ result \notin {Ok, "Pending"} => ~Acceptable

(***************************************************************************)
(* The two lists an API response gives stay in step: at every moment the   *)
(* bundles are the inline ones among the entries, in order, and every      *)
(* attestation read so far is an entry, with the initiator it names.       *)
(***************************************************************************)
EntriesInStep ==
    input.api = "githubResponse" =>
        LET inline == Filter(entries, LAMBDA e : e.bundle # {})
        IN  /\ \A i \in DOMAIN inline : inline[i].bundle = {bundles[i]}
            /\ Len(bundles) = Len(inline)
            /\ pc = "items" =>
                  /\ Len(entries) = next - 1
                  /\ \A i \in DOMAIN entries : {v.str : v \in Given(Attestations[i], 1, "initiator")} = {entries[i].initiator}

(***************************************************************************)
(* The indices, sizes and times of a bundle are the numbers written in it, *)
(* up to the very end of u64 and whatever zeros or plus sign precede them  *)
(* (that a sign is tolerated at all is IntegersHaveNoSign's subject), and  *)
(* no number that fits is refused: a bundle of canonical numbers only is   *)
(* never refused for an integer.                                           *)
(***************************************************************************)
IntegersAreAsWritten ==
    input.api \in ContainerApis =>
    /\ result = Ok =>
          \A bundle \in Range(bundles) : \A text \in Integers(bundle) :
              \E n \in FromStr(text) : n <= U64Max /\ Stripped(text) = Canonical[n]
    /\ result = "NotAnInteger" =>
          \E value \in {v \in Range(Written) : RawBundle(v) # {}} : \E text \in Integers(The(RawBundle(value))) :
              \A n \in 0..U64Max : text # Canonical[n]

(***************************************************************************)
(* strict_stringified_u64 parses a "strict base-10 `u64`, rejecting        *)
(* non-numeric strings (including signs, ...)", and "`str::parse::<u64>`   *)
(* already rejects signs" (parse_util.rs:35 and 41): an integer of a       *)
(* bundle that is accepted is written without a sign.                      *)
(***************************************************************************)
IntegersHaveNoSign ==
    input.api \in ContainerApis /\ result = Ok =>
        \A bundle \in Range(bundles) : \A text \in Integers(bundle) : text[1] \notin {"+", "-"}

(***************************************************************************)
(* from_github_response "collects any inline bundles and every entry's     *)
(* acquisition metadata" (bundle.rs:471), "`initiator`, `repository_id`,   *)
(* and a short-lived signed `bundle_url`" (tests/fixtures/README.md:17).   *)
(***************************************************************************)
MetadataIsKept ==
    input.api = "githubResponse" =>
        \A i \in DOMAIN entries :
            LET a == Attestations[i].obj
            IN  /\ "repository_id" \in DOMAIN a => entries[i].repositoryId = {a["repository_id"].num}
                /\ "bundle_url" \in DOMAIN a => entries[i].bundleUrl = {a["bundle_url"].str}
=============================================================================
