------------------------------ MODULE Verifier ------------------------------
(***************************************************************************)
(* verifier.rs Verifier::verify_digest, with rekor.rs verify_tlog_entry,   *)
(* x509.rs validate_chain and sct.rs verify_embedded_scts inlined: one     *)
(* action per check, in source order, and one per iteration of the loops   *)
(* over certificate authorities and SCTs.  A built verifier answers any    *)
(* number of calls, one after the other; it keeps no state between them.   *)
(***************************************************************************)
EXTENDS Authenticity

CONSTANTS
    TrustStores,      \* [tlogs, ctlogs, cas, fingerprint, source]
    GithubPolicies,   \* [source, signer]
    OriginPolicies,   \* sets of [keyId, origins]
    Artifacts,        \* byte strings a caller has
    Bundles           \* [envelope, certificate, tlogEntries]

IsSequence(s) == s \in Seq({s[i] : i \in DOMAIN s})
IsOption(s) == \A x, y \in s : x = y

(***************************************************************************)
(* The shapes of the values that the parsers of trust.rs and bundle.rs and *)
(* the builders of policy.rs make.  A root hash is the root of some        *)
(* leaves: bytes that nobody computed stand for leaves that nobody has.    *)
(***************************************************************************)
StoreShape(store) ==
    /\ IsSequence(store.tlogs)
    /\ IsSequence(store.cas)
    /\ \A i \in DOMAIN store.cas : IsSequence(store.cas[i].certificates)

PolicyShape(policy) == policy.signer.revision.type \in {"any", "ref", "sha"}

PayloadShape(payload) ==
    /\ payload.parses \in {"yes"} \union PayloadErrors
    /\ IsSequence(payload.subjects)

CertificateShape(certificate) ==
    LET lists == Occurrences(certificate.tbs, "sctList") IN
    /\ certificate.tbs.notBefore \in Int /\ certificate.tbs.notAfter \in Int
    /\ IsSequence(lists)
    /\ \A i \in DOMAIN lists : IsSequence(lists[i].value.scts)

ProofShape(proof) ==
    /\ proof.logIndex \in Nat /\ proof.treeSize \in Nat
    /\ IsSequence(proof.hashes)
    /\ IsSequence(proof.rootHash.root) /\ proof.rootHash = MerkleRoot(proof.rootHash.root)

BodyShape(body) ==
    /\ body = [parses |-> body.parses, kind |-> body.kind, envelopeHash |-> body.envelopeHash,
               payloadHash |-> body.payloadHash, signature |-> body.signature, verifier |-> body.verifier]
    /\ body.parses \in {"yes"} \union BodyErrors

EntryShape(entry) ==
    /\ entry.integratedTime \in Nat
    /\ IsOption(entry.promise)
    /\ IsOption(entry.inclusionProof)
    /\ \A proof \in entry.inclusionProof : ProofShape(proof)
    /\ BodyShape(entry.body)

ASSUME VerifierAssumption ==
    /\ \A store \in TrustStores : StoreShape(store)
    /\ \A policy \in GithubPolicies : PolicyShape(policy)
    /\ \A bundle \in Bundles :
         /\ PayloadShape(bundle.envelope.payload)
         /\ CertificateShape(bundle.certificate)
         /\ IsSequence(bundle.tlogEntries)
         /\ \A i \in DOMAIN bundle.tlogEntries : EntryShape(bundle.tlogEntries[i])

Subjects == {Sha256(a) : a \in Artifacts}

VARIABLES
    verifier,   \* the built Verifier: [trustStore, githubPolicy, originPolicy]
    call,       \* the arguments of the current call: [subject, bundle]
    pc,         \* the check to be made next
    log,        \* position of the selected transparency log; 0 before
    time,       \* authenticated_time, as an Option
    ca,         \* position of the next certificate authority to try
    caError,    \* name_matched_error, as an Option
    sct,        \* position of the next SCT to try
    sctError,   \* first_error, as an Option
    result      \* "Pending", Ok or the error returned

locals == <<log, time, ca, caError, sct, sctError>>
vars == <<verifier, call, pc, locals, result>>

SupportedPayloadType == "application/vnd.in-toto+json"

(***************************************************************************)
(* VerifierBuilder::build: the signer's repository carries no id pin, and  *)
(* every origin binding is for a log key of the trust store.               *)
(***************************************************************************)
Build(trustStore, githubPolicy, originPolicy) ==
    /\ githubPolicy.signer.repository.ownerId = {}
    /\ githubPolicy.signer.repository.repositoryId = {}
    /\ \A binding \in originPolicy :
         \E i \in DOMAIN trustStore.tlogs : Sha256(trustStore.tlogs[i].key) = binding.keyId

Verifiers ==
    {v \in [trustStore : TrustStores, githubPolicy : GithubPolicies, originPolicy : OriginPolicies] :
        Build(v.trustStore, v.githubPolicy, v.originPolicy)}

Calls == [subject : Subjects, bundle : Bundles]

-----------------------------------------------------------------------------
\* The parts of the current call that the checks read.
Envelope == call.bundle.envelope
Leaf == call.bundle.certificate
Entry == call.bundle.tlogEntries[1]
Tlog == verifier.trustStore.tlogs[log]
Cas == verifier.trustStore.cas
AuthenticatedTime == CHOOSE t \in time : TRUE

\* Minimum of an i64 and the u64 converted to it: the conversion saturates.
SaturatingI64(t) == IF t > I64Max THEN I64Max ELSE t

Return(outcome) == pc' = "done" /\ result' = outcome

\* `outcome?`: go on to the next check, or return the error.
Try(outcome, next) ==
    \/ outcome = Ok /\ pc' = next /\ UNCHANGED result
    \/ outcome # Ok /\ Return(outcome)

(***************************************************************************)
(* A check that only reads: it moves from one place to the next.           *)
(***************************************************************************)
Stage(here, outcome, next) ==
    /\ pc = here
    /\ Try(outcome, next)
    /\ UNCHANGED <<verifier, call, locals>>

CheckPayloadType ==
    Stage("payloadType",
          IF Envelope.payloadType = SupportedPayloadType THEN Ok ELSE "DssePayloadType",
          "statement")

ParseStatement == Stage("statement", FromPayload(Envelope.payload), "predicateType")

CheckPredicateType ==
    Stage("predicateType",
          IF Envelope.payload.predicateType = SupportedPredicateType THEN Ok ELSE "PredicateType",
          "subject")

BindSubject ==
    Stage("subject",
          IF FindSubject(Envelope.payload, call.subject) # 0 THEN Ok ELSE "SubjectNotFound",
          "tlogEntries")

RequireOneTlogEntry ==
    Stage("tlogEntries",
          FirstError(<< Check(Len(call.bundle.tlogEntries) # 0, "NoTlogEntries"),
                        Check(Len(call.bundle.tlogEntries) = 1, "MultipleTlogEntries") >>),
          "body")

ParseBody == Stage("body", ParseTlogEntryBody(Entry.body), "binding")

BindEntry == Stage("binding", CheckEntryBinding(Entry, Envelope, Leaf), "logKey")

SelectLog ==
    LET outcome == SelectLogKey(verifier.trustStore.tlogs, Entry.logId) IN
    /\ pc = "logKey"
    /\ Try(outcome, "set")
    /\ log' = IF outcome = Ok THEN SelectedLog(verifier.trustStore.tlogs, Entry.logId) ELSE log
    /\ UNCHANGED <<verifier, call, time, ca, caError, sct, sctError>>

CheckSet == Stage("set", VerifySet(Entry, Tlog.key), "inclusionProof")

\* Mutated form of RequireInclusionProof: an entry without a proof needs none.
SkipInclusionProof ==
    Stage("inclusionProof", Ok, IF Entry.inclusionProof = {} THEN "leafInfo" ELSE "inclusion")

RequireInclusionProof ==
    Stage("inclusionProof",
          IF Entry.inclusionProof = {} THEN "InclusionProofMissing" ELSE Ok,
          "inclusion")

Proof == CHOOSE p \in Entry.inclusionProof : TRUE

CheckInclusion == Stage("inclusion", VerifyInclusionProof(Entry.body, Proof), "checkpoint")

CheckCheckpoint == Stage("checkpoint", VerifyCheckpoint(Proof, Tlog), "origin")

CheckCheckpointOrigin ==
    Stage("origin",
          CheckOrigin(verifier.originPolicy, Sha256(Tlog.key), Proof.checkpoint.origin),
          "leafInfo")

ReadLeafInfo == Stage("leafInfo", LeafCertificateInfo(Leaf), "timeWindow")

\* Ends verify_tlog_entry: from here on the integrated time is authenticated.
AuthenticateTime ==
    LET outcome == CheckTimeWindow(Entry.integratedTime, Tlog.validFor,
                                   Leaf.tbs.notBefore, Leaf.tbs.notAfter) IN
    /\ pc = "timeWindow"
    /\ Try(outcome, "chain")
    /\ time' = IF outcome = Ok THEN {SaturatingI64(Entry.integratedTime)} ELSE time
    /\ UNCHANGED <<verifier, call, log, ca, caError, sct, sctError>>

-----------------------------------------------------------------------------
\* Mutated form of KeepFirst: a later error takes the place of an earlier one.
KeepLast(error, outcome) == {outcome}

\* validate_chain: the first authority that validates wins, else the first error.
KeepFirst(error, outcome) == IF error = {} THEN {outcome} ELSE error

TryCa ==
    LET outcome == TryValidateAgainstCa(Leaf, Cas[ca], AuthenticatedTime) IN
    /\ pc = "chain"
    /\ ca <= Len(Cas)
    /\ \/ outcome = Ok /\ pc' = "leafKey" /\ UNCHANGED <<ca, caError>>
       \/ outcome = "None" /\ ca' = ca + 1 /\ UNCHANGED <<pc, caError>>
       \/ outcome \notin {Ok, "None"} /\ ca' = ca + 1
          /\ caError' = KeepFirst(caError, outcome) /\ UNCHANGED pc
    /\ UNCHANGED <<verifier, call, log, time, sct, sctError, result>>

\* Mutated form of NoCaLeft: the error of the chain is not propagated.
NoCaLeftGoesOn ==
    /\ pc = "chain"
    /\ ca > Len(Cas)
    /\ pc' = "leafKey"
    /\ result' = IF caError = {} THEN "UntrustedCertificate" ELSE CHOOSE e \in caError : TRUE
    /\ UNCHANGED <<verifier, call, locals>>

NoCaLeft ==
    /\ pc = "chain"
    /\ ca > Len(Cas)
    /\ Return(IF caError = {} THEN "UntrustedCertificate" ELSE CHOOSE e \in caError : TRUE)
    /\ UNCHANGED <<verifier, call, locals>>

ReadLeafKey == Stage("leafKey", FromSpkiDer(Leaf.tbs.key), "envelope")

\* dsse.rs pae: payload type and payload are both signed.
Pae(envelope) == [type |-> "pae", payloadType |-> envelope.payloadType, payload |-> envelope.payload]

CheckEnvelope ==
    Stage("envelope",
          IF VerifyDer(Leaf.tbs.key, Pae(Envelope), Envelope.sig) THEN Ok ELSE "DsseSignatureInvalid",
          "sctList")

-----------------------------------------------------------------------------
\* verify_embedded_scts: the first SCT that verifies wins, else the first error.
ParseSctList == Stage("sctList", ExtractSctList(Leaf.tbs), "scts")

TrySct ==
    LET issuerKey == Cas[ca].certificates[1].tbs.key
        outcome == VerifyOneSct(SctList(Leaf.tbs)[sct], Leaf.tbs, issuerKey, verifier.trustStore.ctlogs)
    IN
    /\ pc = "scts"
    /\ sct <= Len(SctList(Leaf.tbs))
    /\ \/ outcome = Ok /\ pc' = "claims" /\ UNCHANGED <<sct, sctError>>
       \/ outcome # Ok /\ sct' = sct + 1 /\ sctError' = KeepFirst(sctError, outcome) /\ UNCHANGED pc
    /\ UNCHANGED <<verifier, call, log, time, ca, caError, result>>

NoSctLeft ==
    /\ pc = "scts"
    /\ sct > Len(SctList(Leaf.tbs))
    /\ Return(IF sctError = {} THEN "SctInvalid" ELSE CHOOSE e \in sctError : TRUE)
    /\ UNCHANGED <<verifier, call, locals>>

ReadClaims == Stage("claims", ExtractClaims(Leaf.tbs), "policy")

\* The last check, and the return of the report when it succeeds.
CheckPolicy ==
    /\ pc = "policy"
    /\ Return(MatchPolicy(Leaf.tbs, verifier.githubPolicy))
    /\ UNCHANGED <<verifier, call, locals>>

\* The report of an accepted call: every part with where it was taken from.
Report ==
    [digest         |-> call.subject,
     name           |-> Envelope.payload.subjects[FindSubject(Envelope.payload, call.subject)].name,
     signer         |-> MatchedIdentity(Leaf.tbs),
     logIndex       |-> Entry.logIndex,
     integratedTime |-> Entry.integratedTime,
     predicateType  |-> Envelope.payload.predicateType,
     trust          |-> [fingerprint |-> verifier.trustStore.fingerprint,
                         source      |-> verifier.trustStore.source]]

-----------------------------------------------------------------------------
\* A call starts with its locals unset.
Begin(subject, bundle) ==
    /\ call' = [subject |-> subject, bundle |-> bundle]
    /\ pc' = "payloadType"
    /\ log' = 0 /\ time' = {} /\ ca' = 1 /\ caError' = {} /\ sct' = 1 /\ sctError' = {}
    /\ result' = "Pending"
    /\ UNCHANGED verifier

VerifyDigest(subject, bundle) == pc = "done" /\ Begin(subject, bundle)

VerifyBytes(bytes, bundle) == VerifyDigest(Sha256(bytes), bundle)

Step ==
    \/ CheckPayloadType \/ ParseStatement \/ CheckPredicateType \/ BindSubject
    \/ RequireOneTlogEntry \/ ParseBody \/ BindEntry \/ SelectLog \/ CheckSet
    \/ RequireInclusionProof \/ CheckInclusion \/ CheckCheckpoint \/ CheckCheckpointOrigin
    \/ ReadLeafInfo \/ AuthenticateTime
    \/ TryCa \/ NoCaLeft \/ ReadLeafKey \/ CheckEnvelope
    \/ ParseSctList \/ TrySct \/ NoSctLeft \/ ReadClaims \/ CheckPolicy

AtStart ==
    /\ pc = "payloadType"
    /\ log = 0 /\ time = {} /\ ca = 1 /\ caError = {} /\ sct = 1 /\ sctError = {}
    /\ result = "Pending"

Init ==
    /\ verifier \in Verifiers
    /\ call \in Calls
    /\ AtStart

Next ==
    \/ Step
    \/ \E s \in Subjects, b \in Bundles : VerifyDigest(s, b)
    \/ \E a \in Artifacts, b \in Bundles : VerifyBytes(a, b)

Spec == Init /\ [][Next]_vars

-----------------------------------------------------------------------------
(***************************************************************************)
(* Properties.                                                             *)
(***************************************************************************)
AfterTimeWindow == {"chain", "leafKey", "envelope", "sctList", "scts", "claims", "policy"}
AfterSet == {"inclusionProof", "inclusion", "checkpoint", "origin", "leafInfo", "timeWindow"}
                \union AfterTimeWindow
AfterLogKey == {"set"} \union AfterSet
AfterCount == {"body", "binding", "logKey"} \union AfterLogKey
Places == {"payloadType", "statement", "predicateType", "subject", "tlogEntries", "done"}
              \union AfterCount

(***************************************************************************)
(* Type correctness of the state of verify_digest.                         *)
(***************************************************************************)
TypeOK ==
    /\ verifier \in Verifiers
    /\ call \in Calls
    /\ pc \in Places
    /\ log \in 0..Len(verifier.trustStore.tlogs)
    /\ time \in SUBSET (0..I64Max)
    /\ ca \in 1..(Len(Cas) + 1)
    /\ sct \in Nat \ {0}
    /\ pc # "done" => result = "Pending"

(***************************************************************************)
(* The time the certificate checks use (verifier.rs:165) is the integrated *)
(* time, unsaturated, of the very entry this envelope and leaf make; the   *)
(* selected log promised it with its own key, within its window and the    *)
(* leaf's, and put the entry in its tree, under an origin the policy lets  *)
(* it speak for.  It is unset before all of that has been checked.         *)
(***************************************************************************)
TimeIsAuthenticated ==
    time # {} =>
        /\ time = {Entry.integratedTime}
        /\ log # 0
        /\ Entry.body = CanonicalBody(Envelope, Leaf)
        /\ Signature(Tlog.key, SetSignedBytes(Entry.body, Entry.integratedTime, Entry.logId,
                                              Entry.logIndex)) \in Entry.promise
        /\ Included(Entry, Tlog, verifier.originPolicy)
        /\ WithinValidFor(Entry.integratedTime, Tlog.validFor)
        /\ Leaf.tbs.notBefore <= Entry.integratedTime
        /\ Entry.integratedTime <= Leaf.tbs.notAfter

(***************************************************************************)
(* An error that speaks about a value is only returned once that value is  *)
(* authenticated: an origin mismatch for a note the selected key signed    *)
(* (the comment at rekor.rs:820), a time outside a window for a time the   *)
(* key promised, a policy mismatch for claims a trusted authority signed   *)
(* for the key that signed this very envelope.                             *)
(***************************************************************************)
PolicyErrors ==
    {"IssuerMismatch", "SourceRepositoryMismatch", "SourceOwnerIdMismatch",
     "SourceRepositoryIdMismatch", "SourceRefMismatch", "SourceCommitMismatch",
     "SignerRepositoryMismatch", "SignerWorkflowPathMismatch", "SignerRevisionMismatch",
     "MissingIdentityClaim", "MalformedIdentityClaim"}

OriginBlamed ==
    result = "CheckpointOriginMismatch" =>
        \E i \in DOMAIN Proof.checkpoint.signatures :
            Proof.checkpoint.signatures[i].signature
                = Signature(Tlog.key, NoteBody(Proof.checkpoint))

TimeBlamed ==
    result \in {"IntegratedTimeOutsideLogKeyValidity", "IntegratedTimeOutsideCertificateValidity",
                "OutsideCaValidity", "OutsideCertificateValidity"} =>
        /\ log # 0
        /\ Signature(Tlog.key, SetSignedBytes(Entry.body, Entry.integratedTime, Entry.logId,
                                              Entry.logIndex)) \in Entry.promise

IdentityBlamed ==
    result \in PolicyErrors =>
        /\ \E i \in DOMAIN Cas : \E j \in DOMAIN Cas[i].certificates :
              Leaf.sig = Signature(Cas[i].certificates[j].tbs.key, Leaf.tbs)
        /\ Envelope.sig = Signature(Leaf.tbs.key, Pae(Envelope))

OnlyAuthenticatedValuesAreBlamed == OriginBlamed /\ TimeBlamed /\ IdentityBlamed

(***************************************************************************)
(* The two places that test the leaf's own validity agree at the bounds:   *)
(* once rekor.rs check_time_window has passed, x509.rs verify_time_window  *)
(* cannot refuse the leaf, nor dsse.rs its key, so an error of theirs is   *)
(* always about an authority of the trust store.                           *)
(***************************************************************************)
LeafChecksAgree ==
    time # {} =>
        /\ VerifyTimeWindow(Leaf.tbs, AuthenticatedTime) = Ok
        /\ FromSpkiDer(Leaf.tbs.key) = Ok

(***************************************************************************)
(* "If every name-matching candidate fails, the error from the *first* of  *)
(* them (in trust-store order) is returned" and UntrustedCertificate "is   *)
(* reserved for the case where no candidate's name matched at all"         *)
(* (x509.rs:124-130).                                                      *)
(***************************************************************************)
NameMatched ==
    {i \in DOMAIN Cas :
        LET chain == Cas[i].certificates
        IN  chain # <<>> /\ chain[1].decodes /\ chain[1].tbs.subject = Leaf.tbs.issuer}

ChainErrorIsOfFirstNameMatched ==
    pc = "done" /\ ca > Len(Cas) =>
        IF NameMatched = {} THEN result = "UntrustedCertificate"
        ELSE LET first == CHOOSE i \in NameMatched : \A j \in NameMatched : i <= j
             IN  result = TryValidateAgainstCa(Leaf, Cas[first], AuthenticatedTime)

(***************************************************************************)
(* Of several authorities, or several SCTs, that all fail, it is the first *)
(* failure in their order that is returned (x509.rs:149, sct.rs:84-88),    *)
(* not a later one's: a caller is told why the first candidate was refused *)
(* although every other one was tried as well.  Authorities that are not   *)
(* candidates say nothing, and any authority that validates the leaf leads *)
(* to the same failure of the SCTs.                                        *)
(***************************************************************************)
ChainOutcome(i) == TryValidateAgainstCa(Leaf, Cas[i], AuthenticatedTime)

SctOutcome(i, j) ==
    VerifyOneSct(SctList(Leaf.tbs)[j], Leaf.tbs, Cas[i].certificates[1].tbs.key, verifier.trustStore.ctlogs)

FirstAuthorityIsReported ==
    \/ /\ result = "UntrustedCertificate"
       /\ \A i \in DOMAIN Cas : ChainOutcome(i) = "None"
    \/ \E i \in DOMAIN Cas :
          /\ result = ChainOutcome(i) /\ ChainOutcome(i) # "None"
          /\ \A h \in 1..(i-1) : ChainOutcome(h) = "None"

FirstFailureIsReported ==
    pc = "done" /\ time # {} =>
        /\ (\A i \in DOMAIN Cas : ChainOutcome(i) # Ok) => FirstAuthorityIsReported
        /\ \A i \in DOMAIN Cas :
              /\ ChainOutcome(i) = Ok
              /\ Envelope.sig = Signature(Leaf.tbs.key, Pae(Envelope))
              /\ ExtractSctList(Leaf.tbs) = Ok
              /\ \A j \in DOMAIN SctList(Leaf.tbs) : SctOutcome(i, j) # Ok
              => result = SctOutcome(i, 1)

(***************************************************************************)
(* The verifier keeps its promise, also from one call to the next: module  *)
(* VerifierContract, with the report taken when the call is accepted.      *)
(***************************************************************************)
Contract == INSTANCE VerifierContract WITH report <- IF result = Ok THEN {Report} ELSE {}

ImplementsContract == Contract!Spec
=============================================================================
