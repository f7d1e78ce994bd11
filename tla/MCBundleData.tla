---------------------------- MODULE MCBundleData ----------------------------
(***************************************************************************)
(* The JSON of a well-formed bundle, and ways to change it.                *)
(***************************************************************************)
EXTENDS Bundle

With(value, key, member) == Obj((key :> member) @@ value.obj)
Without(value, key) == Obj([k \in DOMAIN value.obj \ {key} |-> value.obj[k]])

Strings(key, texts) == Arr([i \in DOMAIN texts |-> Obj(key :> Str(texts[i]))])

GoodProof ==
    Obj([logIndex |-> Str(<<"1">>), rootHash |-> Str("root"), treeSize |-> Str(<<"2">>),
         hashes |-> Arr(<<Str("hash")>>), checkpoint |-> Obj([envelope |-> Str("note")])])
GoodEntry ==
    Obj([logIndex |-> Str(<<"1">>), logId |-> Obj([keyId |-> Str("log")]),
         kindVersion |-> Obj([kind |-> Str("dsse"), version |-> Str("0.0.1")]), integratedTime |-> Str(<<"5">>),
         inclusionPromise |-> Obj([signedEntryTimestamp |-> Str("set")]), inclusionProof |-> GoodProof,
         canonicalizedBody |-> Str("body")])
GoodMaterial(entries_) ==
    Obj([certificate |-> Obj([rawBytes |-> Str("leaf")]), tlogEntries |-> Arr(entries_)])
GoodEnvelope(id) ==
    Obj([payload |-> Str(id), payloadType |-> Str("in-toto"), signatures |-> Strings("sig", <<"sig">>)])

BundleOf(material, envelope) ==
    Obj([mediaType |-> Str(BundleMediaType), verificationMaterial |-> material, dsseEnvelope |-> envelope])
Text(value) == [blank |-> FALSE, json |-> Ok, value |-> value]
Failing(error) == [blank |-> FALSE, json |-> error, value |-> Null]
Blank == [blank |-> TRUE, json |-> "Json", value |-> Null]
=============================================================================
