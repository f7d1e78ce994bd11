------------------------------- MODULE Rekor --------------------------------
(***************************************************************************)
(* rekor.rs: the checks verify_tlog_entry composes, each as an operator    *)
(* returning its outcome.  Module Verifier sequences them.                 *)
(***************************************************************************)
EXTENDS Symbolic

CONSTANTS
    I64Max,                    \* i64::MAX; times are u64 in a log entry
    MaxCheckpointSignatures    \* limits.rs MAX_CHECKPOINT_SIGNATURES

ASSUME RekorAssumption == I64Max \in Nat /\ MaxCheckpointSignatures \in Nat

SupportedKind == "dsse/0.0.1"

(***************************************************************************)
(* A canonicalized body is the record of its parsed fields, plus `parses`: *)
(* "yes", or the parse error its bytes give.  kind stands for the pair     *)
(* kind/apiVersion.                                                        *)
(***************************************************************************)
BodyErrors == {"Json", "TooManyJsonNodes", "DsseSignatureCount", "Hex", "Base64"}

\* The kind is compared once the JSON is read, and the fields decoded after that.
ParseTlogEntryBody(body) ==
    FirstError(<<
        Check(body.parses \notin {"Json", "TooManyJsonNodes"}, body.parses),
        Check(body.kind = SupportedKind, "TlogEntryKindVersion"),
        Check(body.parses = "yes", body.parses) >>)

\* An absent and an empty keyid serialize alike: the field is left out.
ComputeEnvelopeHash(envelope) ==
    Sha256([payload     |-> envelope.payload,
            payloadType |-> envelope.payloadType,
            keyid       |-> envelope.keyid \ {""},
            sig         |-> envelope.sig])

\* Mutated form of CheckEntryBinding: the entry's certificate is not compared.
CheckEntryBindingAnyCertificate(entry, envelope, certificate) ==
    LET body == entry.body IN
    FirstError(<<
        Check(entry.kind = body.kind, "TlogEntryKindVersionMismatch"),
        Check(body.signature = envelope.sig, "TlogEntrySignatureMismatch"),
        Check(body.payloadHash = Sha256(envelope.payload), "TlogEntryPayloadHashMismatch"),
        Check(body.envelopeHash = ComputeEnvelopeHash(envelope), "TlogEntryEnvelopeHashMismatch") >>)

CheckEntryBinding(entry, envelope, certificate) ==
    LET body == entry.body IN
    FirstError(<<
        Check(entry.kind = body.kind, "TlogEntryKindVersionMismatch"),
        Check(body.signature = envelope.sig, "TlogEntrySignatureMismatch"),
        Check(body.verifier = certificate, "TlogEntryCertificateMismatch"),
        Check(body.payloadHash = Sha256(envelope.payload), "TlogEntryPayloadHashMismatch"),
        Check(body.envelopeHash = ComputeEnvelopeHash(envelope), "TlogEntryEnvelopeHashMismatch") >>)

\* The position in the trust store of the log an entry's logId names; 0 if none.
SelectedLog(tlogs, logId) ==
    FirstIndex(tlogs, LAMBDA log : Sha256(log.key) = logId)

SelectLogKey(tlogs, logId) ==
    LET i == SelectedLog(tlogs, logId) IN
    IF i = 0 THEN "UnknownLogKey" ELSE FromSpkiDer(tlogs[i].key)

SetSignedBytes(body, integratedTime, logId, index) ==
    [type |-> "set", body |-> body, integratedTime |-> integratedTime, logID |-> logId, logIndex |-> index]

VerifySet(entry, key) ==
    LET message == SetSignedBytes(entry.body, entry.integratedTime, Sha256(key), entry.logIndex)
    IN  IF entry.promise = {} THEN "SetMissing"
        ELSE IF \E set \in entry.promise : VerifyDer(key, message, set) THEN Ok
        ELSE "SetInvalid"

(***************************************************************************)
(* A Merkle root commits to the sequence of leaves under it, and an audit  *)
(* path to the other leaves in their order.  Module InclusionProof models  *)
(* the hashing itself and shows this is what recompute_root computes.      *)
(***************************************************************************)
MerkleRoot(leaves) == [root |-> leaves]

RecomputeRoot(body, leafIndex, treeSize, others) ==
    IF leafIndex >= treeSize \/ Len(others) # treeSize - 1 THEN {}
    ELSE {MerkleRoot(SubSeq(others, 1, leafIndex)
                     \o <<body>>
                     \o SubSeq(others, leafIndex + 1, treeSize - 1))}

VerifyInclusionProof(body, proof) ==
    IF proof.rootHash \in RecomputeRoot(body, proof.logIndex, proof.treeSize, proof.hashes)
    THEN Ok ELSE "InclusionProofInvalid"

NoteBody(checkpoint) ==
    [type |-> "note", origin |-> checkpoint.origin,
     treeSize |-> checkpoint.treeSize, rootHash |-> checkpoint.rootHash]

\* The signature lines are counted before one is decoded.
ParseCheckpoint(checkpoint) ==
    FirstError(<<
        Check(checkpoint.parses, "Checkpoint"),
        Check(Len(checkpoint.signatures) <= MaxCheckpointSignatures, "TooManyCheckpointSignatures"),
        Check(checkpoint.linesParse /\ checkpoint.signatures # <<>>, "Checkpoint") >>)

(***************************************************************************)
(* The 4-byte hint of the selected log: from its declared checkpointKeyId, *)
(* which may be too short to have one, or else from the key itself.        *)
(***************************************************************************)
CheckpointKeyHint(log) ==
    IF log.checkpointKeyId = {} THEN {Sha256(log.key)}
    ELSE {id \in log.checkpointKeyId : id # "short"}

\* The lines tried: those with the log's hint, whatever name they carry.
Candidates(checkpoint, log) ==
    {i \in DOMAIN checkpoint.signatures :
        checkpoint.signatures[i].hint \in CheckpointKeyHint(log)}

\* Mutated form of VerifyCheckpoint: a line with the log's hint is not verified.
VerifyCheckpointHintOnly(proof, log) ==
    FirstError(<<
        ParseCheckpoint(proof.checkpoint),
        Check(proof.checkpoint.treeSize = proof.treeSize, "CheckpointTreeSizeMismatch"),
        Check(proof.checkpoint.rootHash = proof.rootHash, "CheckpointRootHashMismatch"),
        Check(Candidates(proof.checkpoint, log) # {}, "CheckpointSignatureInvalid") >>)

VerifyCheckpoint(proof, log) ==
    LET checkpoint == proof.checkpoint
        parsed == ParseCheckpoint(checkpoint)
    IN  IF parsed # Ok THEN parsed
        ELSE FirstError(<<
            Check(checkpoint.treeSize = proof.treeSize, "CheckpointTreeSizeMismatch"),
            Check(checkpoint.rootHash = proof.rootHash, "CheckpointRootHashMismatch"),
            Check(\E i \in Candidates(checkpoint, log) :
                     VerifyDer(log.key, NoteBody(checkpoint), checkpoint.signatures[i].signature),
                  "CheckpointSignatureInvalid") >>)

\* policy.rs CheckpointOriginPolicy: a set of bindings of origins to one key.
Allows(originPolicy, keyId, origin) ==
    \E binding \in originPolicy : binding.keyId = keyId /\ origin \in binding.origins

CheckOrigin(originPolicy, keyId, origin) ==
    IF Allows(originPolicy, keyId, origin) THEN Ok ELSE "CheckpointOriginMismatch"

CheckTimeWindow(time, logWindow, notBefore, notAfter) ==
    FirstError(<<
        Check(time <= I64Max /\ WithinValidFor(time, logWindow),
              "IntegratedTimeOutsideLogKeyValidity"),
        Check(notBefore <= time /\ time <= notAfter,
              "IntegratedTimeOutsideCertificateValidity") >>)
=============================================================================
