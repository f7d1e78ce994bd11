---------------------------- MODULE Authenticity ----------------------------
(***************************************************************************)
(* What makes a bundle authentic for a subject, under a trust store and    *)
(* policies, without the order in which anything is checked, and the facts *)
(* that an authentic bundle establishes.                                   *)
(***************************************************************************)
EXTENDS Rekor, Sct, PolicyMatch, Statement

\* The one body a log makes of an envelope and the certificate that signed it.
CanonicalBody(envelope, certificate) ==
    [parses       |-> "yes",
     kind         |-> SupportedKind,
     envelopeHash |-> ComputeEnvelopeHash(envelope),
     payloadHash  |-> Sha256(envelope.payload),
     signature    |-> envelope.sig,
     verifier     |-> certificate]

\* The payload is a provenance statement that names the subject.
Attests(payload, subject) ==
    /\ payload.parses = "yes"
    /\ payload.type = StatementType
    /\ Len(payload.subjects) <= MaxStatementSubjects
    /\ payload.predicateType = SupportedPredicateType
    /\ \E i \in DOMAIN payload.subjects : payload.subjects[i].sha256 = {subject}

\* The log of this key promised the entry, at its time and index.
Promised(entry, key) ==
    entry.promise =
        {Signature(key, SetSignedBytes(entry.body, entry.integratedTime, Sha256(key), entry.logIndex))}

\* The root of the proof has the body among its leaves, and the proof all the others.
InTree(proof, body) ==
    LET leaves == proof.rootHash.root IN
    /\ proof.treeSize = Len(leaves)
    /\ proof.logIndex + 1 \in DOMAIN leaves
    /\ leaves[proof.logIndex + 1] = body
    /\ Len(proof.hashes) = Len(leaves) - 1
    /\ \A i \in DOMAIN proof.hashes :
          proof.hashes[i] = leaves[IF i <= proof.logIndex THEN i ELSE i + 1]

\* The log's key signed a note of this very tree head.
HeadSigned(proof, tlog) ==
    LET note == proof.checkpoint IN
    /\ note.parses /\ note.linesParse
    /\ Len(note.signatures) <= MaxCheckpointSignatures
    /\ note.treeSize = proof.treeSize /\ note.rootHash = proof.rootHash
    /\ \E i \in DOMAIN note.signatures :
          /\ note.signatures[i].hint \in CheckpointKeyHint(tlog)
          /\ note.signatures[i].signature = Signature(tlog.key, NoteBody(note))

\* The policy lets the log's key speak under the note's origin.
OriginAllowed(note, tlog, originPolicy) ==
    \E binding \in originPolicy :
        binding.keyId = Sha256(tlog.key) /\ note.origin \in binding.origins

\* The proof puts the entry's body under a tree head that the same key signed.
Included(entry, tlog, originPolicy) ==
    \E proof \in entry.inclusionProof :
        /\ InTree(proof, entry.body)
        /\ HeadSigned(proof, tlog)
        /\ OriginAllowed(proof.checkpoint, tlog, originPolicy)

\* The trusted log an entry names: the first listed with that key.
TrustedLog(tlogs, entry, tlog) ==
    \E i \in DOMAIN tlogs :
        /\ tlog = tlogs[i]
        /\ Sha256(tlog.key) = entry.logId
        /\ \A j \in 1..(i-1) : Sha256(tlogs[j].key) # entry.logId

\* Some trusted authority issued the leaf, and some trusted CT log saw it so.
Issued(leaf, store, t) ==
    \E i \in DOMAIN store.cas :
        /\ TryValidateAgainstCa(leaf, store.cas[i], t) = Ok
        /\ ExtractSctList(leaf.tbs) = Ok
        /\ \E j \in DOMAIN SctList(leaf.tbs) :
              VerifyOneSct(SctList(leaf.tbs)[j], leaf.tbs,
                           store.cas[i].certificates[1].tbs.key, store.ctlogs) = Ok

Authentic(v, c) ==
    LET envelope == c.bundle.envelope
        leaf == c.bundle.certificate
        entry == c.bundle.tlogEntries[1]
        t == entry.integratedTime
    IN  /\ envelope.payloadType = "application/vnd.in-toto+json"
        /\ Attests(envelope.payload, c.subject)
        /\ Len(c.bundle.tlogEntries) = 1
        /\ entry.kind = SupportedKind
        /\ entry.body = CanonicalBody(envelope, leaf)
        /\ \E i \in DOMAIN v.trustStore.tlogs :
              LET tlog == v.trustStore.tlogs[i] IN
              /\ TrustedLog(v.trustStore.tlogs, entry, tlog)
              /\ tlog.key.alg \in {"P256", "P384"}
              /\ Promised(entry, tlog.key)
              /\ Included(entry, tlog, v.originPolicy)
              /\ t <= I64Max /\ WithinValidFor(t, tlog.validFor)
        /\ leaf.decodes /\ leaf.tbs.key.alg \in {"P256", "P384"}
        /\ leaf.tbs.notBefore <= t /\ t <= leaf.tbs.notAfter
        /\ Issued(leaf, v.trustStore, t)
        /\ envelope.sig = Signature(leaf.tbs.key,
                                    [type |-> "pae", payloadType |-> envelope.payloadType,
                                     payload |-> envelope.payload])
        /\ ExtractClaims(leaf.tbs) = Ok
        /\ MatchPolicy(leaf.tbs, v.githubPolicy) = Ok

\* Each part of the report comes from where the acceptance authenticated it.
Facts(v, c) ==
    LET payload == c.bundle.envelope.payload
        entry == c.bundle.tlogEntries[1]
    IN  [digest         |-> c.subject,
         name           |-> payload.subjects[FindSubject(payload, c.subject)].name,
         signer         |-> MatchedIdentity(c.bundle.certificate.tbs),
         logIndex       |-> entry.logIndex,
         integratedTime |-> entry.integratedTime,
         predicateType  |-> SupportedPredicateType,
         trust          |-> [fingerprint |-> v.trustStore.fingerprint,
                             source      |-> v.trustStore.source]]
=============================================================================
