---------------------------- MODULE MCBundleSet -----------------------------
(***************************************************************************)
(* Documents and containers of up to MaxItems items: good bundles, blank   *)
(* lines, texts that are not JSON, bundles with each of the faults that    *)
(* conversion finds, and bundles of another JSON shape, some of which      *)
(* serde accepts; and lines with every text of up to MaxLen digits, signs  *)
(* and spaces for an integer, for a type whose maximum has fewer digits.   *)
(***************************************************************************)
EXTENDS BundleSet, MCBundleData

CONSTANTS MaxItems, MaxLen

BundleWith(entry) == BundleOf(GoodMaterial(<<GoodEntry, entry>>), GoodEnvelope("p"))
Good(id) == BundleOf(GoodMaterial(<<GoodEntry>>), GoodEnvelope(id))

FaultyEntries ==
    { With(GoodEntry, "integratedTime", Str(<<"-", "5">>)),
      With(GoodEntry, "inclusionPromise", Obj([signedEntryTimestamp |-> Str(NotBase64)])),
      With(GoodEntry, "inclusionProof", With(GoodProof, "hashes", Arr(<<Str("hash"), Str(NotBase64)>>))),
      With(GoodEntry, "inclusionProof", With(GoodProof, "treeSize", Str(<<>>))),
      With(GoodEntry, "canonicalizedBody", Str(NotBase64)) }

\* Entries of another shape: a number for a string, a member missing, too many elements ...
MisshapenEntries ==
    { With(GoodEntry, "logIndex", Num(1)), Without(GoodEntry, "canonicalizedBody"),
      With(GoodEntry, "kindVersion", Arr(<<Str("dsse"), Str("0.0.1"), Null>>)),
      With(GoodEntry, "inclusionProof", Without(GoodProof, "checkpoint")) }
\* ... and the shapes that differ and are accepted.
TolerableEntries ==
    { With(GoodEntry, "inclusionPromise", Null), Without(GoodEntry, "inclusionProof"),
      With(GoodEntry, "kindVersion", Arr(<<Str("dsse"), Str("0.0.1")>>)),
      With(GoodEntry, "inclusionProof", Without(GoodProof, "hashes")), With(GoodEntry, "unknown", Null) }

OddBundles ==
    { With(Good("p"), "mediaType", Str("other")), With(Good("p"), "extra", Arr(<<>>)),
      Without(Good("p"), "dsseEnvelope"), Str("bundle"), Arr(<<>>) }
    \union {BundleOf(GoodMaterial(<<GoodEntry>>), With(GoodEnvelope("p"), "signatures", s)) :
                s \in {Null, Arr(<<>>), Strings("sig", <<"sig", "sig">>), Strings("sig", <<NotBase64>>)}}
    \union {BundleOf(With(GoodMaterial(<<>>), "timestampVerificationData", t), GoodEnvelope("p")) :
                t \in {Null, Obj([rfc3161Timestamps |-> Strings("signedTimestamp", <<"t", NotBase64>>)]),
                       Obj([rfc3161Timestamps |-> Strings("signedTimestamp", <<"t">>)])}}
    \union {BundleOf(GoodMaterial([i \in 1..n |-> GoodEntry]), GoodEnvelope("p")) :
                n \in {0, MaxTlogEntries, MaxTlogEntries + 1}}
    \union {BundleWith(e) : e \in FaultyEntries \union MisshapenEntries \union TolerableEntries}

Plain == {Text(Good("p")), Text(Good("q")), Blank, Failing("Json")}
ContainerLines == Plain \union {Text(b) : b \in OddBundles}

\* Attestations as the API writes them, and some it would not.
Attestation(bundle) ==
    Obj([initiator |-> Str("user"), repository_id |-> Num(7), bundle_url |-> Str("url"), bundle |-> bundle])
PlainAttestations ==
    {Attestation(Good("p")), With(Attestation(Good("q")), "initiator", Str("github")), Attestation(Null)}
AllAttestations ==
    PlainAttestations \union {Attestation(b) : b \in OddBundles}
    \union {Without(Attestation(Good("p")), k) : k \in {"initiator", "bundle"}}
    \union {With(Attestation(Good("p")), "repositoryId", n) : n \in {Num(7), Num(-1), Null}}

Response(attestations_) == Text(Obj([attestations |-> Arr(attestations_)]))
OddResponses == {Failing("Json"), Failing("TooManyJsonNodes"), Text(Obj([total |-> Num(1)])),
                 Text(Obj([attestations |-> Null])), Text(Str("attestations"))}

AllTexts == BoundedSeq({"0", "1", "2", "5", "9", "+", "-", " "}, MaxLen)

AllInputs ==
    [api : {"bundle"}, size : {MaxInputBytes, MaxInputBytes + 1}, texts : {<<t>> : t \in ContainerLines \ {Blank}}]
    \union
    [api : {"jsonLines"}, size : {MaxInputBytes},
     texts : {<<Text(BundleWith(With(GoodEntry, "logIndex", Str(text))))>> : text \in AllTexts}]
    \union
    [api : {"jsonLines"}, size : {MaxInputBytes, MaxInputBytes + 1},
     texts : BoundedSeq(ContainerLines, MaxItems - 2) \union BoundedSeq(Plain, MaxItems)]
    \union
    [api : {"githubResponse"}, size : {MaxInputBytes},
     texts : {<<t>> : t \in OddResponses
                            \union {Response(s) : s \in BoundedSeq(AllAttestations, MaxItems - 2)
                                                        \union BoundedSeq(PlainAttestations, MaxItems)}}]

MCInputs == AllInputs
=============================================================================
