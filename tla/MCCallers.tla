------------------------------ MODULE MCCallers -----------------------------
(***************************************************************************)
(* For TLC: one workflow run in order and those that differ from it in one *)
(* respect, each signed over in a bundle file of its own; more files, in   *)
(* which a bundle is wrapped, doubled or unsupported; and command lines    *)
(* that name them rightly, wrongly or not at all.                          *)
(***************************************************************************)
EXTENDS Callers, MCBundleData

MCLowercase == "O" :> "o" @@ "N" :> "n" @@ "D0" :> "d0"
MCDigests == {<< "d0" >>, << "d1" >>}

LogKey == [id |-> "log", alg |-> "P256"]
OldKey == [id |-> "old", alg |-> "P256"]
EdKey == [id |-> "ed", alg |-> "Ed25519"]
Log(key) == [key |-> key]

Source0 == [owner |-> << "o" >>, name |-> << "n" >>, gitRef |-> << "main" >>, id |-> 7, ownerId |-> 3]
Workflow0 == [owner |-> << "o" >>, name |-> << "n" >>, path |-> WorkflowPathPrefix \o << "f" >>, gitRef |-> << "r" >>]
Signed0 ==
    [authentic |-> TRUE, subjects |-> {<< "d0" >>}, log |-> LogKey, origin |-> PublicGoodOrigin,
     issuer |-> ExpectedIssuer, source |-> Source0, workflow |-> Workflow0]

\* The workflows f at ref r and f@x at ref r, or f at ref x@r, can be told apart by no URI.
AtPath == [Workflow0 EXCEPT !.path = @ \o << "@", "x" >>]
AtRef == [Workflow0 EXCEPT !.gitRef = << "x", "@", "r" >>]

Signed1 ==
    [good |-> Signed0,
     upper |-> [Signed0 EXCEPT !.workflow.owner = << "O" >>, !.source.name = << "N" >>],
     atPath |-> [Signed0 EXCEPT !.workflow = AtPath],
     atRef |-> [Signed0 EXCEPT !.workflow = AtRef],
     otherPath |-> [Signed0 EXCEPT !.workflow.path = WorkflowPathPrefix \o << "g" >>],
     otherRef |-> [Signed0 EXCEPT !.workflow.gitRef = << "x" >>],
     otherOwner |-> [Signed0 EXCEPT !.workflow.owner = << "p" >>],
     outside |-> [Signed0 EXCEPT !.workflow.path = << "f" >>],
     issuer |-> [Signed0 EXCEPT !.issuer = "accounts.example.com"],
     fork |-> [Signed0 EXCEPT !.source.owner = << "p" >>],
     renamed |-> [Signed0 EXCEPT !.source.id = 8],
     sold |-> [Signed0 EXCEPT !.source.ownerId = 4],
     branch |-> [Signed0 EXCEPT !.source.gitRef = << "dev" >>],
     forged |-> [Signed0 EXCEPT !.authentic = FALSE],
     otherLog |-> [Signed0 EXCEPT !.log = OldKey],
     origin |-> [Signed0 EXCEPT !.origin = << "elsewhere" >>],
     other |-> [Signed0 EXCEPT !.subjects = {<< "d1" >>}]]
MCSigned == Signed1

-----------------------------------------------------------------------------
GoodBundle(payload) == BundleOf(GoodMaterial(<<GoodEntry>>), GoodEnvelope(payload))
EntryOf(kind, version) == With(GoodEntry, "kindVersion", Obj([kind |-> Str(kind), version |-> Str(version)]))
WithEntry(entry) == BundleOf(GoodMaterial(<<entry>>), GoodEnvelope("good"))
WithKey(key) == BundleOf(With(GoodMaterial(<<GoodEntry>>), "publicKey", key), GoodEnvelope("good"))

File(lines_, whole, loose) == [lines |-> lines_, whole |-> whole, loose |-> loose, logs |-> {}, digest |-> << "d1" >>]
OneLine(value) == File(<<Text(value)>>, Text(value), {value})
Wrapped(value) == File(<<Failing("Json"), Failing("Json")>>, Text(value), {value})
JsonLines(values) == File([i \in DOMAIN values |-> Text(values[i])], Failing("Json"), {})

BundleFiles ==
    [p \in {<< id >> : id \in DOMAIN Signed1} |-> OneLine(GoodBundle(p[1]))]
    @@ << "wrapped" >> :> Wrapped(GoodBundle("good"))
    @@ << "padded" >> :> File(<<Blank, Text(GoodBundle("good")), Blank>>, Text(GoodBundle("good")), {GoodBundle("good")})
    @@ << "two" >> :> JsonLines(<<GoodBundle("good"), GoodBundle("other")>>)
    @@ << "three" >> :> JsonLines(<<GoodBundle("good"), GoodBundle("good"), GoodBundle("good")>>)
    @@ << "half" >> :> File(<<Text(GoodBundle("good")), Failing("Json")>>, Failing("Json"), {})
    @@ << "empty" >> :> File(<<>>, Failing("Json"), {})
    @@ << "twice" >> :> File(<<Failing("DuplicateKey")>>, Failing("DuplicateKey"), {GoodBundle("good")})
    @@ << "nullKey" >> :> OneLine(WithKey(Null))
    @@ << "key" >> :> OneLine(WithKey(Obj([hint |-> Str("k")])))
    @@ << "hashed" >> :> OneLine(WithEntry(EntryOf("hashedrekord", "0.0.1")))
    @@ << "v2" >> :> OneLine(WithEntry(EntryOf("dsse", "0.0.2")))
    @@ << "v2untimed" >> :> OneLine(WithEntry(Without(EntryOf("dsse", "0.0.2"), "integratedTime")))
    @@ << "media" >> :> OneLine(With(GoodBundle("good"), "mediaType", Str("bundle.v0.2+json")))
    @@ << "unlogged" >> :> OneLine(BundleOf(GoodMaterial(<<>>), GoodEnvelope("good")))

RootFile(logs) == [File(<<>>, Failing("Json"), {}) EXCEPT !.logs = {logs}]

AllFiles ==
    BundleFiles
    @@ << "app" >> :> [File(<<>>, Failing("Json"), {}) EXCEPT !.digest = << "d0" >>]
    @@ << "sha256:", "app" >> :> [File(<<>>, Failing("Json"), {}) EXCEPT !.digest = << "d0" >>]
    @@ << "root" >> :> RootFile(<<Log(EdKey), Log(LogKey)>>)
    @@ << "oldRoot" >> :> RootFile(<<Log(OldKey), Log(LogKey)>>)
    @@ << "edRoot" >> :> RootFile(<<Log(EdKey)>>)
MCFiles == AllFiles

-----------------------------------------------------------------------------
Conformance(args, embedded) ==
    [program |-> "conformance", args |-> args, embedded |-> embedded]
Example(args, embedded) == [program |-> "example", args |-> args, embedded |-> embedded]

VerifyBundle == << << "verify-bundle" >> >>
Flag(name, value) == << << name >>, value >>

Logs == <<Log(LogKey)>>
Identity(workflow) == SanText(workflow)

Client(file, identity, subject) ==
    VerifyBundle \o Flag("--bundle", file) \o Flag("--certificate-identity", identity)
        \o Flag("--certificate-oidc-issuer", Issuer) \o <<subject>>

Identities ==
    {Identity(Signed1[id].workflow) : id \in DOMAIN Signed1}
    \union {Identity([Workflow0 EXCEPT !.gitRef = <<>>]), Identity([Workflow0 EXCEPT !.path = WorkflowPathPrefix]),
            GithubUriPrefix \o << "o", "/", "n" >>, << "o" >>}

App == << "app" >>
Good == Client(<< "good" >>, Identity(Workflow0), App)

ConformanceRuns ==
    {Conformance(Client(<< id >>, identity, App), Logs) : id \in DOMAIN Signed1, identity \in Identities}
    \union {Conformance(Client(file, Identity(Workflow0), App), Logs) : file \in DOMAIN BundleFiles}
    \union {Conformance(Client(<< "good" >>, Identity(Workflow0), subject), Logs) :
              subject \in {<< "sha256:", "d0" >>, << "sha256:", "D0" >>, << "sha256:", "d1" >>, << "sha256:", "app" >>,
                           << "sha256:", "gone" >>, << "good" >>, << "gone" >>}}
    \union {Conformance(Good \o more, Logs) :
              more \in {<< App >>, << << "--staging" >> >>, << << "--unknown" >> >>, << << "--bundle" >> >>,
                        Flag("--key", << "k" >>), Flag("--bundle", << "other" >>), Flag("--bundle", << "--staging" >>),
                        Flag("--certificate-oidc-issuer", << "accounts.example.com" >>),
                        Flag("--trusted-root", << "root" >>), Flag("--trusted-root", << "oldRoot" >>),
                        Flag("--trusted-root", << "edRoot" >>), Flag("--trusted-root", << "gone" >>)}}
    \union {Conformance(SubSeq(Good, 1, n), Logs) : n \in 0..Len(Good)}
    \union {Conformance(SubSeq(Good, 1, i) \o SubSeq(Good, i + 3, Len(Good)), Logs) : i \in {1, 3, 5}}
    \union {Conformance(<< << "sign-bundle" >> >>, Logs), Conformance(Good, <<>>)}

Program(file, repo, workflow, origin, subject) ==
    Flag("--bundle", file) \o Flag("--repo", repo) \o Flag("--signer-workflow", workflow)
        \o Flag("--checkpoint-origin", origin) \o subject

OfApp == Flag("--artifact", App)
Simple == Program(<< "good" >>, << "o", "/", "n" >>, Workflow0.path, PublicGoodOrigin, OfApp)

ExampleRuns ==
    {Example(Program(<< id >>, repo, path, PublicGoodOrigin, OfApp), Logs) :
        id \in DOMAIN Signed1, path \in {Workflow0.path, AtPath.path, << "f" >>, <<>>},
        repo \in {<< "o", "/", "n" >>, << "O", "/", "N" >>, << "p", "/", "n" >>, << "o" >>, << "o", "/", "n", "/", "x" >>,
                  << "/", "n" >>}}
    \union {Example(Program(file, << "o", "/", "n" >>, Workflow0.path, PublicGoodOrigin, OfApp), Logs) :
              file \in DOMAIN BundleFiles \union {<< "gone" >>}}
    \union {Example(Program(<< id >>, << "o", "/", "n" >>, Workflow0.path, origin, OfApp), Logs) :
              id \in {"good", "origin"}, origin \in {PublicGoodOrigin, << "elsewhere" >>, <<>>, << "else", "\n", "where" >>}}
    \union {Example(Program(<< id >>, << "o", "/", "n" >>, Workflow0.path, PublicGoodOrigin, OfApp \o pins), Logs) :
              id \in {"good", "renamed", "sold", "branch", "upper"},
              pins \in {Flag("--owner-id", << "3" >>), Flag("--repo-id", << "0", "7" >>), Flag("--repo-id", << "+", "7" >>),
                        Flag("--owner-id", << "2", "5", "9" >>), Flag("--owner-id", << "x" >>),
                        Flag("--repo-id", << "8" >>) \o Flag("--owner-id", << "3" >>),
                        Flag("--source-ref", << "main" >>), Flag("--source-ref", << "dev" >>)}}
    \union {Example(Program(<< "good" >>, << "o", "/", "n" >>, Workflow0.path, PublicGoodOrigin, subject), Logs) :
              subject \in {<<>>, Flag("--digest", << "d0" >>), Flag("--digest", << "D0" >>), Flag("--digest", << "d1" >>),
                           Flag("--digest", << "sha256:", "d0" >>), OfApp \o Flag("--digest", << "d0" >>),
                           Flag("--artifact", << "gone" >>)}}
    \union {Example(SubSeq(Simple, 1, n), Logs) : n \in 0..Len(Simple)}
    \union {Example(OfApp \o SubSeq(Simple, 1, i) \o SubSeq(Simple, i + 3, Len(Simple)), Logs) : i \in {0, 2, 4, 6}}
    \union {Example(Simple \o << App >>, Logs), Example(Simple, <<>>), Example(Simple, <<Log(OldKey), Log(LogKey)>>)}

-----------------------------------------------------------------------------
LibraryRuns == {[program |-> "library", args |-> <<>>, embedded |-> Logs]}

Repository(owner, name) == The(RepositoryIdentityNew(owner, name))

LibraryUse ==
    [sources |-> {SourcePolicy(WithRepositoryId(Repository(<< "o" >>, << "N" >>), 7), RefPolicyExact(<< "main" >>)),
                  SourcePolicy(Repository(<< "o", "/", "n" >>, << "n" >>), RefPolicyGlob(Wildcard))},
     signers |-> {SignerPolicy(Repository(<< "o" >>, << "n" >>), Workflow0.path, RevisionRef(<< "r" >>)),
                  SignerPolicy(Repository(<< "p" >>, << "n" >>), Workflow0.path, RevisionAny),
                  SignerPolicy(WithOwnerId(Repository(<< "o" >>, << "n" >>), 4), Workflow0.path, RevisionAny)},
     origins |-> {OriginPolicyFor(Log(LogKey), PublicGoodOrigin), OriginPolicyFor(Log(OldKey), PublicGoodOrigin)},
     files |-> {<< "good" >>, << "upper" >>, << "otherOwner" >>}]
MCLibrary == LibraryUse

AllRuns == ConformanceRuns \union ExampleRuns \union LibraryRuns
MCInvocations == AllRuns
=============================================================================
