----------------------------- MODULE MCVerifier -----------------------------
(***************************************************************************)
(* A small trust store, and bundles for TLC: one in which everything is in *)
(* order, the ones that were signed and logged properly but differ from it *)
(* in one respect, and those in which one or two parts were changed        *)
(* afterwards or come from elsewhere.  Calls over many bundles, each       *)
(* followed by any sequence of calls over a few.                           *)
(***************************************************************************)
EXTENDS Verifier, TLC

Key(id) == [id |-> id, alg |-> "P256"]
Ed25519(id) == [id |-> id, alg |-> "Ed25519"]
Text(word) == [word |-> word, spelling |-> "lower"]
Shout(word) == [word |-> word, spelling |-> "upper"]

One(value) == <<[critical |-> FALSE, decodes |-> TRUE, value |-> value]>>
Critical(value) == <<[critical |-> TRUE, decodes |-> TRUE, value |-> value]>>
Twice(value) == One(value) \o One(value)
Garbled(value) == <<[critical |-> FALSE, decodes |-> FALSE, value |-> value]>>

With(ext, oid, occurrences) == [o \in DOMAIN ext \union {oid} |-> IF o = oid THEN occurrences ELSE ext[o]]
Without(ext, oid) == [o \in DOMAIN ext \ {oid} |-> ext[o]]

SignedBy(tbs, key) ==
    [decodes |-> TRUE, tbs |-> tbs, sig |-> Signature(key, tbs),
     sigAlg |-> IF key.alg = "P384" THEN "ecdsaWithSha384" ELSE "ecdsaWithSha256"]

-----------------------------------------------------------------------------
CaExt(pathLen) ==
    [basicConstraints |-> Critical([ca |-> TRUE, pathLen |-> pathLen]),
     keyUsage         |-> Critical({"keyCertSign"})]

CaTbs(subject, issuer, key, ext) ==
    [subject |-> subject, issuer |-> issuer, key |-> key, notBefore |-> 0, notAfter |-> 9, ext |-> ext]

Root == SignedBy(CaTbs("root", "root", Key("rootKey"), CaExt({})), Key("rootKey"))
IntermediateTbs == CaTbs("fulcio", "root", Key("fulcioKey"), CaExt({0}))
Intermediate == SignedBy(IntermediateTbs, Key("rootKey"))
StrangerCa == SignedBy(CaTbs("other", "other", Key("otherKey"), CaExt({})), Key("otherKey"))

Ca(certificates) == [certificates |-> certificates, validFor |-> [start |-> 0, end |-> {5}]]
Fulcio == Ca(<<Intermediate, Root>>)

IntermediateWith(tbs) == Ca(<<SignedBy(tbs, Key("rootKey")), Root>>)

-----------------------------------------------------------------------------
CodeRepo == [parses |-> TRUE, owner |-> Text("acme"), name |-> Text("app")]
SourceRef == <<"r", "a", "b">>

San(ref) ==
    << [type |-> "email", uri |-> {}],
       [type |-> "uri", uri |-> [parses |-> TRUE, owner |-> Text("acme"), name |-> Text("ci"),
                                  path |-> "release.yml", gitRef |-> ref]] >>

LeafExt ==
    [keyUsage |-> Critical({"digitalSignature"}),
     extKeyUsage |-> One({"codeSigning"}),
     subjectAltName |-> Critical(San("v1")),
     issuer |-> One(ExpectedIssuer),
     buildSignerDigest |-> One(Text("abc")),
     runnerEnvironment |-> One("github-hosted"),
     sourceRepositoryUri |-> One(CodeRepo),
     sourceRepositoryDigest |-> One(Shout("def")),
     sourceRepositoryRef |-> One(SourceRef),
     sourceRepositoryId |-> One(DecimalText(7)),
     sourceRepositoryOwnerId |-> One(DecimalText(3))]

LeafTbs(ext, key) ==
    [subject |-> "", issuer |-> "fulcio", key |-> key, notBefore |-> 1, notAfter |-> 3, ext |-> ext]

SctOf(precertTbs, ctKey, ms) ==
    [supported |-> TRUE, logId |-> Sha256(ctKey), timestampMs |-> ms, extensions |-> "",
     signature |-> Signature(ctKey, DigitallySignedBytes(ms, Sha256(Key("fulcioKey")), precertTbs, ""))]

\* A leaf as Fulcio issues it, with these SCTs over the rest of it.
LeafWith(tbs, scts) ==
    SignedBy([tbs EXCEPT !.ext = With(tbs.ext, "sctList", One([parses |-> TRUE, scts |-> scts]))],
             Key("fulcioKey"))

Logged(tbs) == LeafWith(tbs, <<SctOf(tbs, Key("ctKey"), 1500)>>)

GoodTbs == LeafTbs(LeafExt, Key("leafKey"))
GoodLeaf == Logged(GoodTbs)

WithExt(oid, occurrences) == Logged([GoodTbs EXCEPT !.ext = With(LeafExt, oid, occurrences)])

OtherLeaves ==
    { SignedBy(GoodTbs, Key("fulcioKey")),
      SignedBy([GoodTbs EXCEPT !.ext = With(LeafExt, "sctList", Garbled([parses |-> TRUE, scts |-> <<>>]))],
               Key("fulcioKey")),
      SignedBy([GoodTbs EXCEPT !.ext = With(LeafExt, "sctList", One([parses |-> FALSE, scts |-> <<>>]))],
               Key("fulcioKey")),
      LeafWith(GoodTbs, <<>>),
      LeafWith(GoodTbs, <<SctOf(GoodTbs, Key("noSuchLog"), 1500), SctOf(GoodTbs, Key("ctKey"), 1500)>>),
      LeafWith(GoodTbs, <<SctOf(GoodTbs, Key("noSuchLog"), 1500)>>),
      LeafWith(GoodTbs, <<SctOf(GoodTbs, Key("noSuchLog"), 1500), SctOf(GoodTbs, Key("ctKey"), 4000)>>),
      LeafWith(GoodTbs, <<SctOf(GoodTbs, Key("ctKey"), 4000)>>),
      LeafWith(GoodTbs, <<[SctOf(GoodTbs, Key("ctKey"), 1500) EXCEPT !.timestampMs = 1501]>>),
      LeafWith(GoodTbs, <<SctOf([GoodTbs EXCEPT !.key = Key("forgedKey")], Key("ctKey"), 1500)>>),
      Logged([GoodTbs EXCEPT !.key = Ed25519("leafKey")]),
      Logged([GoodTbs EXCEPT !.issuer = "other"]),
      Logged([GoodTbs EXCEPT !.issuer = "nobody"]),
      [GoodLeaf EXCEPT !.decodes = FALSE],
      [GoodLeaf EXCEPT !.sigAlg = "ecdsaWithSha384"],
      [GoodLeaf EXCEPT !.sig = Signature(Key("otherKey"), GoodLeaf.tbs)],
      WithExt("nameConstraints", Critical({})),
      WithExt("basicConstraints", One([ca |-> TRUE, pathLen |-> {}])),
      WithExt("keyUsage", Twice({"digitalSignature"})),
      WithExt("keyUsage", One({})),
      WithExt("extKeyUsage", Garbled({"codeSigning"})),
      WithExt("extKeyUsage", One({"serverAuth"})),
      WithExt("issuer", One("accounts.example.com")),
      WithExt("runnerEnvironment", Twice("self-hosted")),
      WithExt("sourceRepositoryUri", One([CodeRepo EXCEPT !.name = Text("fork")])),
      WithExt("sourceRepositoryUri", One([CodeRepo EXCEPT !.owner = Shout("acme")])),
      WithExt("sourceRepositoryUri", One([CodeRepo EXCEPT !.parses = FALSE])),
      WithExt("sourceRepositoryId", One([value |-> 7, canonical |-> FALSE])),
      WithExt("sourceRepositoryRef", One(<<"r", "b">>)),
      WithExt("sourceRepositoryDigest", One(Text("fed"))),
      WithExt("subjectAltName", One(<<[type |-> "email", uri |-> {}]>>)),
      WithExt("subjectAltName", One(San("v2"))),
      Logged([GoodTbs EXCEPT !.ext = Without(LeafExt, "issuer")]),
      Logged([GoodTbs EXCEPT !.ext = Without(LeafExt, "sourceRepositoryId")]),
      Logged([GoodTbs EXCEPT !.ext = Without(LeafExt, "buildSignerDigest")]) }

-----------------------------------------------------------------------------
Artifact == "artifact"
OtherArtifact == "other"

Named(name, artifact) == [name |-> name, sha256 |-> {Sha256(artifact)}]

GoodPayload ==
    [parses |-> "yes", type |-> StatementType, predicateType |-> SupportedPredicateType,
     subjects |-> << [name |-> "readme", sha256 |-> {}], Named("app", Artifact), Named("copy", Artifact) >>]

OtherPayloads ==
    { [GoodPayload EXCEPT !.parses = "Json"],
      [GoodPayload EXCEPT !.parses = "MalformedSubject"],
      [GoodPayload EXCEPT !.type = "other"],
      [GoodPayload EXCEPT !.predicateType = "other"],
      [GoodPayload EXCEPT !.subjects = <<Named("other", OtherArtifact)>>],
      [GoodPayload EXCEPT !.subjects = @ \o <<Named("more", OtherArtifact), Named("most", OtherArtifact)>>] }

EnvelopeOf(payloadType, payload, key) ==
    [payloadType |-> payloadType, payload |-> payload, keyid |-> {},
     sig |-> Signature(key, [type |-> "pae", payloadType |-> payloadType, payload |-> payload])]

BodyOf(envelope, certificate) ==
    [parses |-> "yes", kind |-> SupportedKind, envelopeHash |-> ComputeEnvelopeHash(envelope),
     payloadHash |-> Sha256(envelope.payload), signature |-> envelope.sig, verifier |-> certificate]

NoteOf(origin, leaves, key) ==
    LET note == [parses |-> TRUE, linesParse |-> TRUE, origin |-> origin, treeSize |-> Len(leaves),
                 rootHash |-> MerkleRoot(leaves), signatures |-> <<>>]
        line(k) == [hint |-> Sha256(k), name |-> "rekor", signature |-> Signature(k, NoteBody(note))]
    IN  [note EXCEPT !.signatures = <<line(Key("witnessKey")), line(key)>>]

OtherEnvelope ==
    EnvelopeOf("application/vnd.in-toto+json", CHOOSE p \in OtherPayloads : TRUE, Key("leafKey"))
EarlierBody == BodyOf(OtherEnvelope, GoodLeaf)

\* The entry a log makes: the body is the second of the two in its tree.
EntryOf(body, logKey, origin, t) ==
    LET leaves == <<EarlierBody, body>> IN
    [kind |-> SupportedKind, body |-> body, logId |-> Sha256(logKey), logIndex |-> 41,
     integratedTime |-> t,
     promise |-> {Signature(logKey, SetSignedBytes(body, t, Sha256(logKey), 41))},
     inclusionProof |-> {[logIndex |-> 1, treeSize |-> 2, hashes |-> <<EarlierBody>>,
                          rootHash |-> MerkleRoot(leaves), checkpoint |-> NoteOf(origin, leaves, logKey)]}]

BundleOf(payload, leaf, logKey, origin, t) ==
    LET envelope == EnvelopeOf("application/vnd.in-toto+json", payload, leaf.tbs.key) IN
    [envelope |-> envelope, certificate |-> leaf,
     tlogEntries |-> <<EntryOf(BodyOf(envelope, leaf), logKey, origin, t)>>]

GoodBundle == BundleOf(GoodPayload, GoodLeaf, Key("rekorKey"), "rekor.example", 2)

\* An entry the log accepted although it is not the one this envelope makes.
LoggedAs(b, body) ==
    [b EXCEPT !.tlogEntries = <<EntryOf(body, Key("rekorKey"), "rekor.example", 2)>>]

GoodBody == BodyOf(GoodBundle.envelope, GoodLeaf)

MisloggedBundles ==
    {LoggedAs(GoodBundle, body) : body \in
        { [GoodBody EXCEPT !.signature = OtherEnvelope.sig],
          [GoodBody EXCEPT !.verifier = Logged([GoodTbs EXCEPT !.notAfter = 2])],
          [GoodBody EXCEPT !.payloadHash = Sha256(OtherEnvelope.payload)],
          [GoodBody EXCEPT !.envelopeHash = ComputeEnvelopeHash(OtherEnvelope)],
          [GoodBody EXCEPT !.kind = "hashedrekord/0.0.1"],
          [GoodBody EXCEPT !.parses = "Json"] }}

\* An envelope that another key signed, logged with the good leaf.
MissignedBundle ==
    LET envelope == EnvelopeOf("application/vnd.in-toto+json", GoodPayload, Key("otherKey"))
    IN  LoggedAs([GoodBundle EXCEPT !.envelope = envelope], BodyOf(envelope, GoodLeaf))

SourceBundles ==
    {BundleOf(p, GoodLeaf, Key("rekorKey"), "rekor.example", 2) : p \in OtherPayloads \union {GoodPayload}}
    \union {BundleOf(GoodPayload, l, Key("rekorKey"), "rekor.example", 2) : l \in OtherLeaves}
    \union {BundleOf(GoodPayload, GoodLeaf, Key("rekorKey"), "rekor.example", t) : t \in 0..(I64Max + 1)}
    \union {BundleOf(GoodPayload, GoodLeaf, Key("rekorKey"), "elsewhere", 2),
            BundleOf(GoodPayload, GoodLeaf, Key("rekorKey2"), "rekor.example", 2),
            BundleOf(GoodPayload, GoodLeaf, Key("noSuchKey"), "rekor.example", 2),
            BundleOf(GoodPayload, GoodLeaf, Ed25519("rekorEd"), "rekor.example", 2),
            MissignedBundle}
    \union MisloggedBundles

-----------------------------------------------------------------------------
\* One part of a bundle changed.
Entries(b, es) == [b EXCEPT !.tlogEntries = es]

EditEntry(b, Edit(_)) == [b EXCEPT !.tlogEntries = [i \in DOMAIN @ |-> Edit(@[i])]]
EditProof(b, Edit(_)) ==
    EditEntry(b, LAMBDA e : [e EXCEPT !.inclusionProof = {Edit(p) : p \in @}])
EditNote(b, Edit(_)) == EditProof(b, LAMBDA p : [p EXCEPT !.checkpoint = Edit(@)])

EditedEnvelopes(b) ==
    { [b EXCEPT !.envelope.payloadType = "text/plain"],
      [b EXCEPT !.envelope.payload = [GoodPayload EXCEPT !.subjects = @ \o <<Named("late", OtherArtifact)>>]],
      [b EXCEPT !.envelope.sig = OtherEnvelope.sig],
      [b EXCEPT !.envelope.keyid = {""}],
      [b EXCEPT !.envelope.keyid = {"k"}],
      [b EXCEPT !.certificate = Logged([GoodTbs EXCEPT !.ext = With(LeafExt, "runnerEnvironment", One("x"))])] }

EditedEntries(b) ==
    { Entries(b, <<>>),
      Entries(b, b.tlogEntries \o b.tlogEntries),
      EditEntry(b, LAMBDA e : [e EXCEPT !.kind = "hashedrekord/0.0.1"]),
      EditEntry(b, LAMBDA e : [e EXCEPT !.body.parses = "Json"]),
      EditEntry(b, LAMBDA e : [e EXCEPT !.body.parses = "DsseSignatureCount"]),
      EditEntry(b, LAMBDA e : [e EXCEPT !.body.kind = "hashedrekord/0.0.1"]),
      EditEntry(b, LAMBDA e : [e EXCEPT !.body.envelopeHash = ComputeEnvelopeHash(OtherEnvelope)]),
      EditEntry(b, LAMBDA e : [e EXCEPT !.body = BodyOf(OtherEnvelope, b.certificate)]),
      EditEntry(b, LAMBDA e : [e EXCEPT !.logId = Sha256(Key("rekorKey2"))]),
      EditEntry(b, LAMBDA e : [e EXCEPT !.logIndex = 1]),
      EditEntry(b, LAMBDA e : [e EXCEPT !.integratedTime = 3]),
      EditEntry(b, LAMBDA e : [e EXCEPT !.promise = {}]),
      EditEntry(b, LAMBDA e : [e EXCEPT !.promise = {Signature(Key("rekorKey2"), s.over) : s \in @}]),
      EditEntry(b, LAMBDA e : [e EXCEPT !.inclusionProof = {}]) }

EditedProofs(b) ==
    { EditProof(b, LAMBDA p : [p EXCEPT !.logIndex = 0]),
      EditProof(b, LAMBDA p : [p EXCEPT !.logIndex = 2]),
      EditProof(b, LAMBDA p : [p EXCEPT !.hashes = <<>>]),
      EditProof(b, LAMBDA p : [p EXCEPT !.hashes = <<[EarlierBody EXCEPT !.parses = "Json"]>>]),
      EditProof(b, LAMBDA p : [p EXCEPT !.rootHash = MerkleRoot(<<EarlierBody>>)]),
      EditNote(b, LAMBDA n : [n EXCEPT !.parses = FALSE]),
      EditNote(b, LAMBDA n : [n EXCEPT !.linesParse = FALSE]),
      EditNote(b, LAMBDA n : [n EXCEPT !.origin = "elsewhere"]),
      EditNote(b, LAMBDA n : [n EXCEPT !.treeSize = 3]),
      EditNote(b, LAMBDA n : [n EXCEPT !.rootHash = MerkleRoot(<<EarlierBody>>)]),
      EditNote(b, LAMBDA n : [n EXCEPT !.signatures = <<>>]),
      EditNote(b, LAMBDA n : [n EXCEPT !.signatures = @ \o @]),
      EditNote(b, LAMBDA n : [n EXCEPT !.signatures = <<[@[2] EXCEPT !.name = "renamed"]>>]),
      EditNote(b, LAMBDA n : [n EXCEPT !.signatures = <<[@[2] EXCEPT !.hint = Sha256(Key("rekorKey2"))]>>]),
      EditNote(b, LAMBDA n : [n EXCEPT !.signatures = <<[@[1] EXCEPT !.hint = Sha256(Key("rekorKey"))], @[2]>>]) }

Edited(b) == EditedEnvelopes(b) \union EditedEntries(b) \union EditedProofs(b)

\* Two changes, of different parts.
EditedTwice(b) ==
    UNION {EditedEntries(e) \union EditedProofs(e) : e \in EditedEnvelopes(b)}
    \union UNION {EditedProofs(e) : e \in EditedEntries(b)}

-----------------------------------------------------------------------------
Log(key, checkpointKeyId, validFor) ==
    [key |-> key, checkpointKeyId |-> checkpointKeyId, validFor |-> validFor]

Open == [start |-> 0, end |-> {}]
RekorLog == Log(Key("rekorKey"), {}, [start |-> 1, end |-> {4}])
RekorLog2 == Log(Key("rekorKey2"), {}, Open)
CtLog == [key |-> Key("ctKey"), validFor |-> [start |-> 0, end |-> {4}]]

Store(tlogs, ctlogs, cas) ==
    [tlogs |-> tlogs, ctlogs |-> ctlogs, cas |-> cas, fingerprint |-> "f", source |-> "embedded"]

GoodStore == Store(<<RekorLog2, RekorLog>>, <<CtLog>>, <<Ca(<<StrangerCa>>), Fulcio>>)
RekorEd == Log(Ed25519("rekorEd"), {}, Open)

OtherStores ==
    { Store(<<Log(Key("rekorKey"), {"short"}, Open), RekorEd>>, <<CtLog>>, <<Fulcio>>),
      Store(<<Log(Key("rekorKey"), {}, [start |-> 3, end |-> {}])>>, <<CtLog>>, <<Fulcio>>),
      Store(<<RekorLog>>, <<>>, <<Fulcio>>),
      Store(<<RekorLog>>, <<[CtLog EXCEPT !.key = Ed25519("ctKey")]>>, <<Fulcio>>),
      Store(<<RekorLog>>, <<CtLog>>, <<>>),
      Store(<<Log(Key("rekorKey"), {}, Open)>>, <<CtLog>>,
            <<Ca(<<>>), [Fulcio EXCEPT !.validFor = [start |-> 0, end |-> {2}]]>>),
      Store(<<RekorLog>>, <<CtLog>>, <<[Fulcio EXCEPT !.validFor = [start |-> 0, end |-> {2}]], Fulcio>>),
      Store(<<RekorLog>>, <<CtLog>>, <<Ca(<<[StrangerCa EXCEPT !.decodes = FALSE]>>), Fulcio>>),
      Store(<<RekorLog>>, <<CtLog>>, <<Ca(<<[StrangerCa EXCEPT !.decodes = FALSE]>>),
            [Fulcio EXCEPT !.validFor = [start |-> 4, end |-> {}]]>>) }
    \union {Store(<<RekorLog>>, <<CtLog>>, <<authority>>) : authority \in
        { IntermediateWith([IntermediateTbs EXCEPT !.issuer = "nobody"]),
          IntermediateWith([IntermediateTbs EXCEPT !.notAfter = 1]),
          IntermediateWith([IntermediateTbs EXCEPT !.ext = CaExt({}) @@ [extKeyUsage |-> Critical({})]]),
          IntermediateWith([IntermediateTbs EXCEPT !.ext = Without(CaExt({}), "basicConstraints")]),
          IntermediateWith([IntermediateTbs EXCEPT !.ext = Without(CaExt({}), "keyUsage")]),
          Ca(<<Intermediate, SignedBy(CaTbs("root", "root", Key("rootKey"), CaExt({0})), Key("rootKey"))>>),
          Ca(<<SignedBy([IntermediateTbs EXCEPT !.key = Ed25519("fulcioKey")], Key("rootKey")), Root>>),
          Ca(<<SignedBy(IntermediateTbs, Key("otherKey")), Root>>) }}

-----------------------------------------------------------------------------
Repository(owner, name) ==
    [owner |-> Text(owner), name |-> Text(name), ownerId |-> {}, repositoryId |-> {}]

GoodPolicy ==
    [source |-> [repository |-> Repository("acme", "app"),
                 gitRef |-> [type |-> "exact", ref |-> SourceRef], commit |-> {}],
     signer |-> [repository |-> Repository("acme", "ci"), path |-> "release.yml",
                 revision |-> [type |-> "any"]]]

OtherPolicies ==
    { [GoodPolicy EXCEPT !.source.repository.ownerId = {3}, !.source.repository.repositoryId = {7}],
      [GoodPolicy EXCEPT !.source.repository.ownerId = {4}],
      [GoodPolicy EXCEPT !.source.gitRef = [type |-> "glob", ref |-> <<"r", "*", "b">>],
                         !.source.commit = {Text("def")}],
      [GoodPolicy EXCEPT !.signer.repository = Repository("acme", "other")],
      [GoodPolicy EXCEPT !.signer.path = "test.yml"],
      [GoodPolicy EXCEPT !.signer.repository.ownerId = {3}],
      [GoodPolicy EXCEPT !.signer.revision = [type |-> "ref", ref |-> "v1"]],
      [GoodPolicy EXCEPT !.signer.revision = [type |-> "sha", sha |-> Shout("abc")]],
      [GoodPolicy EXCEPT !.signer.revision = [type |-> "sha", sha |-> Text("cba")]] }

Binding(key, origins) == [keyId |-> Sha256(key), origins |-> origins]

GoodOrigins == {Binding(Key("rekorKey"), {"rekor.example"})}

-----------------------------------------------------------------------------
AllBundles == SourceBundles \union Edited(GoodBundle) \union EditedTwice(GoodBundle)
AllStores == {GoodStore} \union OtherStores
AllPolicies == {GoodPolicy} \union OtherPolicies
AllOrigins == {GoodOrigins, {Binding(Key("noSuchKey"), {"rekor.example"})}}

\* One of store, policy and edits departs from the good ones at a time.
Focus ==
    \/ /\ verifier \in [trustStore : {GoodStore}, githubPolicy : {GoodPolicy}, originPolicy : AllOrigins]
       /\ call \in [subject : Subjects, bundle : AllBundles]
    \/ /\ verifier \in [trustStore : {GoodStore}, githubPolicy : OtherPolicies, originPolicy : {GoodOrigins}]
       /\ call \in [subject : Subjects, bundle : SourceBundles]
    \/ /\ verifier \in [trustStore : OtherStores, githubPolicy : {GoodPolicy}, originPolicy : {GoodOrigins}]
       /\ call \in [subject : Subjects, bundle : SourceBundles]

Few == {GoodBundle, BundleOf(GoodPayload, Logged([GoodTbs EXCEPT !.issuer = "nobody"]),
                             Key("rekorKey"), "rekor.example", 2)}
       \union EditedEnvelopes(GoodBundle)
FewWorkflows == {p \in AllPolicies : p.signer.repository = GoodPolicy.signer.repository
                                     /\ p.source = GoodPolicy.source
                                     /\ p.signer.revision = GoodPolicy.signer.revision}

\* The good bundle is verified after any call, and the few after one another.
CallsInit == Focus /\ verifier \in Verifiers /\ AtStart

CallsNext ==
    \/ Step
    \/ \E a \in Artifacts : VerifyBytes(a, GoodBundle)
    \/ pc = "done" /\ call.bundle \in Few /\ \E s \in Subjects, b \in Few : VerifyDigest(s, b)

CallsSpec == CallsInit /\ [][CallsNext]_vars

\* An authority of another name, whose root does not decode, comes before Fulcio.
UnreadableRootStore ==
    Store(<<RekorLog>>, <<CtLog>>,
          <<Ca(<<StrangerCa, [Root EXCEPT !.decodes = FALSE]>>),
            [Fulcio EXCEPT !.validFor = [start |-> 4, end |-> {}]]>>)

-----------------------------------------------------------------------------
\* The values of the constants.
MCBundles == AllBundles
MCTrustStores == AllStores
MCGithubPolicies == AllPolicies
MCOriginPolicies == AllOrigins
FewBundles == Few
FewPolicies == FewWorkflows
FewOrigins == {GoodOrigins}
ChainStores == {UnreadableRootStore}
MCArtifacts == {Artifact, OtherArtifact}
=============================================================================
