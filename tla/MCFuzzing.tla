------------------------------ MODULE MCFuzzing -----------------------------
(***************************************************************************)
(* The containers of MCBundleSet; checkpoints over several notes, signed   *)
(* and not, under signature lines with matching and other names, right,    *)
(* wrong and colliding hints, signatures of two logs and none; SCT lists   *)
(* and every truncation and one-byte change of them; Rekor bodies,         *)
(* statements and timestamps.                                              *)
(***************************************************************************)
EXTENDS Fuzzing, MCBundleSet

CONSTANT MaxLines

NL == << Newline >>
Key == [k1 |-> [alg |-> "P256", id |-> "k1"], k2 |-> [alg |-> "P384", id |-> "k2"],
        k3 |-> [alg |-> "Ed25519", id |-> "k3"]]
\* The digests of the first two keys begin alike.
Digest == Key["k1"] :> <<"a", "b", "c">> @@ Key["k2"] :> <<"a", "b", "d">> @@ Key["k3"] :> <<"e", "e", "e">>

\* A base64 text begins with "b64"; the empty text is base64 as well.
Encoded(bytes) == << "b64" >> \o bytes
RootA == Encoded(<<"A">>)
RootB == Encoded(<<"B">>)

Note == [n1 |-> <<"o">> \o NL \o <<"5">> \o NL \o RootA \o NL,
         n2 |-> <<"o", CarriageReturn>> \o NL \o <<"+", "5", CarriageReturn>> \o NL \o RootA \o NL,
         n3 |-> <<"o">> \o NL \o <<"7">> \o NL \o RootB \o NL \o <<"x">> \o NL,
         n4 |-> <<"o">> \o NL \o <<"5">> \o NL \o RootA \o NL \o NL \o <<"x">> \o NL]

SignedBytes == {<<n, k>> : n \in DOMAIN Note, k \in {"k1", "k2"}}
NoteSignatures == [s \in SignedBytes |-> Signature(Key[s[2]], Note[s[1]])]

Hints == {<<"a", "b">>, <<"e", "e">>}
Blobs == {hint \o s : hint \in Hints, s \in SignedBytes \union {<<"junk">>}} \union {<<>>, <<"a", "b">>}
Base64Texts == (<<>> :> <<>>) @@ [t \in {Encoded(b) : b \in Blobs \union {<<"A">>, <<"B">>}} |-> Tail(t)]

Line(name, bytes) == SignaturePrefix \o name \o <<" ">> \o Encoded(bytes) \o NL

\* Lines under the note n: signed by either log, by none, and with another log's hint.
NoteLines(n) ==
    {Line(name, <<"a", "b">> \o s) : name \in {<<"rekor">>, <<"other">>}, s \in {<<n, "k1">>, <<n, "k2">>, <<"junk">>}}
    \union {Line(<<"https://", "rekor">>, <<"e", "e">> \o <<n, "k1">>)}
OddLines ==
    { NL, <<CarriageReturn>> \o NL, <<"x">> \o NL, SignaturePrefix \o <<"name">> \o NL,
      SignaturePrefix \o <<"name", " ", "?">> \o NL, SignaturePrefix \o <<"name", " ">> \o NL,
      Line(<<"rekor">>, <<>>), Line(<<"rekor">>, <<"a", "b">>), Line(<<"rekor", " ">>, <<"a", "b", "junk">>) }

Seed == Note["n1"] \o NL \o Line(<<"rekor">>, <<"a", "b", "n1", "k1">>)

AllEnvelopes ==
    {Note["n1"] \o NL \o FlattenSeq(ls) : ls \in BoundedSeq(NoteLines("n1"), MaxLines)}
    \union {Note["n1"] \o NL \o FlattenSeq([i \in 1..n |-> l]) : l \in NoteLines("n1"), n \in {MaxSignatureLines + 1}}
    \union {Note[n] \o NL \o l : n \in DOMAIN Note, l \in NoteLines("n1") \union NoteLines("n2") \union NoteLines("n3")}
    \union {Seed \o l : l \in OddLines}
    \union {Note["n1"] \o NL \o l \o Line(<<"rekor">>, <<"a", "b", "n1", "k1">>) : l \in OddLines}
    \union {SubSeq(Seed, 1, n) : n \in 0..Len(Seed)}
    \union {body \o NL \o Line(<<"rekor">>, <<"a", "b", "n1", "k1">>) :
                body \in {NL \o Tail(Note["n1"]), <<"o">> \o NL \o NL, <<"o">> \o NL \o <<"x">> \o NL,
                          <<"o">> \o NL \o <<"9", "9", "9">> \o NL \o RootA \o NL,
                          <<"o">> \o NL \o <<"5">> \o NL \o <<"?">> \o NL}}

EcdsaLog(k) == [key |-> Key[k], checkpointKeyId |-> {}, baseUrl |-> <<"https://", "rekor">>]
Declaring(log, id) == [log EXCEPT !.checkpointKeyId = {id}]
Roots == { << EcdsaLog("k1") >>, << EcdsaLog("k2"), EcdsaLog("k1") >>, << EcdsaLog("k3"), EcdsaLog("k1") >>,
           << EcdsaLog("k2") >>, << Declaring(EcdsaLog("k1"), <<"a">>) >>,
           << Declaring(EcdsaLog("k1"), <<"e", "e", "e">>), EcdsaLog("k2") >> }

-----------------------------------------------------------------------------
SctOf(log, extensions, signature) ==
    [version |-> <<0>>, logId |-> <<log>>, timestampMs |-> <<1>>, extensions |-> extensions,
     hashAlgorithm |-> <<4>>, signatureAlgorithm |-> <<3>>, signature |-> signature]
SctLists == BoundedSeq({SctOf(0, <<>>, <<2>>), SctOf(1, <<1>>, <<>>)}, 2)

Changes(bytes) ==
    {bytes, bytes \o <<0>>} \union {SubSeq(bytes, 1, n) : n \in 0..Len(bytes)}
    \union {[bytes EXCEPT ![i] = b] : i \in DOMAIN bytes, b \in 0..(ByteBase - 1)}
AllSctLists == UNION {[bytes : Changes(EncodedList(list)), encodes : {list}] : list \in SctLists}

-----------------------------------------------------------------------------
Pem == [base64 |-> TRUE, utf8 |-> TRUE, begins |-> TRUE, ends |-> TRUE, body |-> "cert"]
BadPems == {[Pem EXCEPT ![k] = FALSE] : k \in {"base64", "utf8", "begins", "ends"}} \union {[Pem EXCEPT !.body = NotBase64]}
Hex(word) == [word |-> word, spelling |-> "lower"]
Hash(text) == Obj([algorithm |-> Str("sha256"), value |-> Str(text)])
SpecSignature(signature, pem) == Obj([signature |-> Str(signature), verifier |-> Str(pem)])
Spec1(signatures_) ==
    Obj([envelopeHash |-> Hash(Hex("e")), payloadHash |-> Hash(Hex("p")), signatures |-> Arr(signatures_)])
SpecV2 == Obj([dsseV002 |-> Obj([payloadHash |-> Hash(Hex("p"))])])
GoodSpec == Spec1(<<SpecSignature("sig", Pem)>>)
Specs == {GoodSpec, SpecV2, Spec1(<<>>), Spec1(<<SpecSignature("sig", Pem), SpecSignature("sig", Pem)>>),
          With(GoodSpec, "payloadHash", Hash(NotHex)), With(GoodSpec, "envelopeHash", Hash(NotHex)),
          Spec1(<<SpecSignature(NotBase64, Pem)>>), Without(GoodSpec, "signatures")}
         \union {Spec1(<<SpecSignature("sig", p)>>) : p \in BadPems}
EntryBodies ==
    {Obj([apiVersion |-> Str(v), kind |-> Str(k), spec |-> s]) :
        v \in {"0.0.1", "0.0.2"}, k \in {"dsse", "hashedrekord"}, s \in Specs}
    \union {Str("body"), Obj([kind |-> Str("dsse"), spec |-> GoodSpec])}

-----------------------------------------------------------------------------
Upper(word) == [word |-> word, spelling |-> "upper"]
SubjectOf(digest) == Obj([name |-> Str("name"), digest |-> Obj(digest)])
PlainSubjects == {SubjectOf("sha256" :> Str(Hex("d0"))), SubjectOf("sha256" :> Str(Upper("d1"))),
                  SubjectOf("sha512" :> Str(Hex("d0")))}
OddSubjects == {SubjectOf("sha256" :> Str(NotHex)), SubjectOf("sha256" :> Str(Upper("d0"))),
                Arr(<<Null, Obj("sha256" :> Str(Hex("d1")))>>), SubjectOf([k \in {} |-> Null]),
                Obj([name |-> Null]), SubjectOf("sha256" :> Num(1)), Str("subject")}
StatementOf(subjects) ==
    Obj([_type |-> Str(StatementType), predicateType |-> Str("slsa"), subject |-> Arr(subjects)])
Statements ==
    {StatementOf(ss) : ss \in BoundedSeq(PlainSubjects, MaxStatementSubjects + 1)
                              \union BoundedSeq(PlainSubjects \union OddSubjects, 2)}
    \union {Without(StatementOf(<<>>), k) : k \in {"_type", "subject", "predicateType"}}
    \union {With(StatementOf(<<>>), "_type", Str("other")), With(StatementOf(<<>>), "predicate", Null), Str("statement")}

Noon == [wellFormed |-> TRUE, year |-> 2024, month |-> 2, day |-> 29, hour |-> 12, minute |-> 0, second |-> 0,
         fraction |-> <<0, 5>>, zone |-> [sign |-> 0, hour |-> 0, minute |-> 0]]
Timestamps == {Noon, [Noon EXCEPT !.wellFormed = FALSE], [Noon EXCEPT !.year = 2023], [Noon EXCEPT !.month = 13],
               [Noon EXCEPT !.second = 60], [Noon EXCEPT !.zone.hour = 24]}

-----------------------------------------------------------------------------
Given1(apis, documents) == [api : apis, size : {MaxInputBytes}, texts : {<<d>> : d \in documents}]

AllWireInputs ==
    AllInputs
    \union Given1({"checkpoint", "checkpointVerify"}, {[envelope |-> e, seed |-> e = Seed] : e \in AllEnvelopes})
    \union Given1({"proofCheckpoint"},
                  [envelope : AllEnvelopes, treeSize : {5}, rootHash : {<<"A">>}]
                  \union [envelope : {Seed}, treeSize : {5, 6}, rootHash : {<<"A">>, <<"B">>}])
    \union Given1({"sctList"}, AllSctLists)
    \union Given1({"rekorBody"}, {Failing("Json")} \union {Text(b) : b \in EntryBodies})
    \union Given1({"statement"}, {Failing("TooManyJsonNodes")} \union {Text(s) : s \in Statements})
    \union Given1({"rfc3339"}, Timestamps)
    \union {[api |-> "checkpointVerify", size |-> MaxInputBytes + 1, texts |-> <<[envelope |-> Seed, seed |-> TRUE]>>]}

MCWireInputs == AllWireInputs
MCBase64 == Base64Texts
MCKeyDigest == Digest
MCNotes == NoteSignatures
MCRoots == Roots
MCCorpusKey == Key["k1"]
=============================================================================
