------------------------------ MODULE Callers -------------------------------
(***************************************************************************)
(* The programs around the library: the conformance client                 *)
(* (tools/conformance/src/main.rs), the example program                    *)
(* (examples/verify.rs), and any other caller of the two builders, who may *)
(* make their calls in any order and write a GithubPolicy as a struct.     *)
(*                                                                         *)
(* An argument is a text as in module Identity; a flag is one token.  A    *)
(* file is [lines, whole, loose, logs, digest]: its lines and the whole of *)
(* it as texts for parse_strict, what serde_json itself reads from it, the *)
(* logs of the trusted root it may be, and its SHA-256.  What a payload's  *)
(* signature proves is Signed[payload]; module Verifier models the checks. *)
(***************************************************************************)
EXTENDS Rekor, Identity, Bundle

CONSTANTS
    Invocations,       \* [program, args, embedded], embedded being the embedded root's logs
    Files,             \* path -> file
    Signed,            \* payload -> [authentic, subjects, log, origin, issuer, source, workflow]
    Digests,           \* the canonical texts of SHA-256 digests
    Library,           \* what a library caller may use: [sources, signers, origins, files]
    MaxBundlesPerSet

\* The lines of a file that from_json_lines looks at.
Written(file) == Filter(file.lines, LAMBDA line : ~line.blank)

ASSUME InvocationsAssumption ==
    /\ \A i \in Invocations : i.program \in {"conformance", "example", "library"} /\ i.args \in Seq(Seq(STRING))
    /\ \A file \in Library.files : file \in DOMAIN Files /\ BundleFromText(Files[file].whole) = Ok
    /\ MaxBundlesPerSet \in Nat

\* What parse_strict accepts serde_json reads too, and as the same value.  A text of
\* JSON texts on several lines is no JSON text: when the whole and every line of it
\* is one, they are the same.
ASSUME FilesAssumption ==
    \A path \in DOMAIN Files :
        LET file == Files[path] IN
        /\ file.lines \in Seq({file.lines[i] : i \in DOMAIN file.lines})
        /\ file.whole.json = Ok => file.loose = {file.whole.value}
        /\ file.whole.json = Ok /\ (\A i \in DOMAIN Written(file) : Written(file)[i].json = Ok) =>
              \A i \in DOMAIN Written(file) : Written(file)[i].value = file.whole.value
        /\ \A text \in {file.whole} \union Range(Written(file)) :
              BundleFromText(text) = Ok => The(RawBundle(text.value)).dsseEnvelope.payload \in DOMAIN Signed

\* An owner or a repository of GitHub has no '/' in its name.
ASSUME SignedAssumption ==
    \A payload \in DOMAIN Signed :
        LET source == Signed[payload].source
            workflow == Signed[payload].workflow
        IN
        /\ {source.owner, source.name, workflow.owner, workflow.name, workflow.path, workflow.gitRef}
              \subseteq Seq(STRING)
        /\ \A name \in {source.owner, source.name, workflow.owner, workflow.name} : ~Contains(name, "/")

PublicGoodOrigin == << "rekor.sigstore.dev - 1193050959916656506" >>
Wildcard == << "*" >>
Issuer == << ExpectedIssuer >>

ValueFlags ==
    [conformance |-> {"--bundle", "--certificate-identity", "--certificate-oidc-issuer", "--key", "--trusted-root"},
     example |-> {"--artifact", "--digest", "--bundle", "--repo", "--owner-id", "--repo-id", "--source-ref",
                  "--signer-workflow", "--checkpoint-origin"},
     library |-> {}]
OptionNames == ValueFlags.conformance \union ValueFlags.example \union {"--staging", "--unknown", "operand"}

VARIABLES
    run,         \* the invocation
    pc,          \* the step to be made next
    rest,        \* the arguments not yet taken
    opts,        \* the value each option has, as an Option
    policy,      \* the GithubPolicyBuilder
    builder,     \* the VerifierBuilder: three Options
    held,        \* a GithubPolicy a library caller holds, as an Option
    bundle,      \* the bundle loaded, as an Option
    verifier,    \* the Verifier built, as an Option
    result       \* "Pending", or the outcome: Ok is "verified"

vars == <<run, pc, rest, opts, policy, builder, held, bundle, verifier, result>>

VerifierBuilder == [trustStore |-> {}, githubPolicy |-> {}, originPolicy |-> {}]

Init ==
    /\ run \in Invocations
    /\ pc = IF run.program = "conformance" THEN "subcommand" ELSE IF run.program = "example" THEN "args" ELSE "calls"
    /\ rest = run.args /\ opts = [o \in OptionNames |-> {}]
    /\ policy = GithubPolicyBuilder /\ builder = VerifierBuilder
    /\ held = {} /\ bundle = {} /\ verifier = {} /\ result = "Pending"

Opt(name) == The(opts[name])

Return(outcome) == pc' = "done" /\ result' = outcome

Try(outcome, place) ==
    \/ outcome = Ok /\ pc' = place /\ UNCHANGED result
    \/ outcome # Ok /\ Return(outcome)

-----------------------------------------------------------------------------
\* Arguments, one loop iteration per step.

Subcommand ==
    /\ pc = "subcommand"
    /\ Try(Check(rest # <<>> /\ rest[1] = << "verify-bundle" >>, "Unsupported"), "args")
    /\ rest' = IF rest = <<>> THEN rest ELSE Tail(rest)
    /\ UNCHANGED <<run, opts, policy, builder, held, bundle, verifier>>

IsFlag(argument) == \E flag \in ValueFlags[run.program] : argument = << flag >>

\* next_value takes whatever comes next for the value, another flag too.
TakeValue ==
    LET flag == rest[1][1]
        isId == flag \in {"--owner-id", "--repo-id"}
    IN
    /\ pc = "args" /\ rest # <<>> /\ IsFlag(rest[1])
    /\ Try(IF Len(rest) = 1 THEN "Usage" ELSE Check(isId => FromStr(rest[2]) # {}, "Usage"), "args")
    /\ opts' = IF Len(rest) = 1 THEN opts
               ELSE [opts EXCEPT ![flag] = IF isId THEN FromStr(rest[2]) ELSE {rest[2]}]
    /\ rest' = SubSeq(rest, 3, Len(rest))
    /\ UNCHANGED <<run, policy, builder, held, bundle, verifier>>

TakeStaging ==
    /\ pc = "args" /\ rest # <<>> /\ run.program = "conformance" /\ rest[1] = << "--staging" >>
    /\ opts' = [opts EXCEPT !["--staging"] = {TRUE}]
    /\ rest' = Tail(rest)
    /\ UNCHANGED <<run, pc, policy, builder, held, bundle, verifier, result>>

\* Any other argument: the example knows none, the client one operand that is no option.
TakeOperand ==
    LET isOption == rest[1] # <<>> /\ rest[1][1] \in OptionNames \ {"operand"}
        taken == run.program = "conformance" /\ ~isOption /\ opts["operand"] = {}
    IN
    /\ pc = "args" /\ rest # <<>> /\ ~IsFlag(rest[1])
    /\ ~(run.program = "conformance" /\ rest[1] = << "--staging" >>)
    /\ Try(Check(taken, "Usage"), "args")
    /\ opts' = IF taken THEN [opts EXCEPT !["operand"] = {rest[1]}] ELSE opts
    /\ rest' = Tail(rest)
    /\ UNCHANGED <<run, policy, builder, held, bundle, verifier>>

-----------------------------------------------------------------------------
\* The conformance client.

CheckOptions ==
    /\ pc = "args" /\ rest = <<>> /\ run.program = "conformance"
    /\ Try(FirstError(<<
            Check(opts["--staging"] = {}, "Unsupported"),
            Check(opts["--key"] = {}, "Unsupported"),
            Check(opts["--certificate-identity"] # {} /\ opts["--certificate-oidc-issuer"] # {}, "Usage"),
            Check(opts["--bundle"] # {}, "Usage"),
            Check(opts["operand"] # {}, "Usage"),
            Check(opts["--certificate-oidc-issuer"] = {Issuer}, "Unsupported") >>), "policy")
    /\ UNCHANGED <<run, rest, opts, policy, builder, held, bundle, verifier>>

\* Unlike the library's parser, this one takes a second '@' for a part of the ref.
ParseGithubIdentity(identity) ==
    {[repository |-> Join(p.owner, "/", p.name), path |-> p.path, gitRef |-> p.gitRef] :
        p \in {p \in UNION {{[owner |-> q.owner, name |-> q.name, path |-> q.path, gitRef |-> s.after] :
                                q \in OwnerNamePath(s.before)} :
                            s \in UNION {SplitOnce(r, "@") : r \in StripPrefix(identity, GithubUriPrefix)}} :
                  /\ p.gitRef # <<>>
                  /\ IsPrefix(WorkflowPathPrefix, p.path) /\ Len(p.path) > Len(WorkflowPathPrefix)}}

MakeConformancePolicy ==
    LET identity == ParseGithubIdentity(Opt("--certificate-identity"))
        repository == UNION {RepositoryIdentityParse(i.repository) : i \in identity}
        path == UNION {WorkflowPathNew(i.path) : i \in identity}
        made == [source |-> {SourcePolicy(r, RefPolicyGlob(Wildcard)) : r \in repository},
                 signer |-> {SignerPolicy(r, The(path), RevisionRef(i.gitRef)) : r \in repository, i \in identity}]
    IN
    /\ pc = "policy" /\ run.program = "conformance"
    /\ Try(FirstError(<< Check(identity # {}, "Usage"), Check(repository # {} /\ path # {}, "InvalidConfiguration"),
                      GithubPolicyBuild(made) >>), "trustStore")
    /\ policy' = made
    /\ builder' = IF GithubPolicyBuild(made) = Ok THEN [builder EXCEPT !.githubPolicy = {GithubPolicy(made)}]
                  ELSE builder
    /\ UNCHANGED <<run, rest, opts, held, bundle, verifier>>

\* The logs of the root named on the command line, or else of the embedded one.
RootLogs ==
    IF opts["--trusted-root"] = {} THEN {run.embedded}
    ELSE UNION {Files[f].logs : f \in opts["--trusted-root"] \intersect DOMAIN Files}

ValidOrigin(origin) == origin # <<>> /\ ~Contains(origin, "\r") /\ ~Contains(origin, "\n")

OriginPolicyFor(log, origin) == {[keyId |-> Sha256(log.key), origins |-> {origin}]}

\* public_good_origin_policy: the first log that is not an Ed25519 one.
LoadConformanceTrust ==
    LET logs == The(RootLogs)
        i == FirstIndex(logs, LAMBDA log : log.key.alg # "Ed25519")
    IN
    /\ pc = "trustStore" /\ run.program = "conformance"
    /\ Try(IF RootLogs = {} THEN "Io" ELSE Check(i # 0, "NoRekorLog"), "bundle")
    /\ builder' = IF RootLogs = {} THEN builder
                  ELSE IF i = 0 THEN builder
                  ELSE [builder EXCEPT !.trustStore = {logs},
                                       !.originPolicy = {OriginPolicyFor(logs[i], PublicGoodOrigin)}]
    /\ UNCHANGED <<run, rest, opts, policy, held, bundle, verifier>>

\* serde_json::Value::pointer and get, as Options
Member(values, key) ==
    {v.obj[key] : v \in {v \in values : Is(v, "obj") /\ key \in DOMAIN v.obj}}
First(values) == {v.arr[1] : v \in {v \in values : Is(v, "arr") /\ 1 \in DOMAIN v.arr}}
AsStr(values) == {v.str : v \in {v \in values : Is(v, "str")}}

\* Mutated form of RejectUnsupportedBundleShape: a null key counts as a key.
RejectAnyKeyMember(loose) ==
    LET material == Member(loose, "verificationMaterial")
        entry == First(Member(material, "tlogEntries"))
    IN  FirstError(<<
            Check(Member(material, "publicKey") = {}, "ManagedKey"),
            Check(~(AsStr(Member(Member(entry, "kindVersion"), "version")) = {"0.0.2"}
                      /\ Member(entry, "integratedTime") = {}), "RekorV2"),
            Check(AsStr(Member(Member(entry, "kindVersion"), "kind")) # {"hashedrekord"}, "HashedRekord"),
            Check(AsStr(Member(loose, "mediaType")) \subseteq {BundleMediaType}, "BundleMediaType") >>)

RejectUnsupportedBundleShape(loose) ==
    LET material == Member(loose, "verificationMaterial")
        entry == First(Member(material, "tlogEntries"))
    IN  FirstError(<<
            Check(Member(material, "publicKey") \subseteq {Null}, "ManagedKey"),
            Check(~(AsStr(Member(Member(entry, "kindVersion"), "version")) = {"0.0.2"}
                      /\ Member(entry, "integratedTime") = {}), "RekorV2"),
            Check(AsStr(Member(Member(entry, "kindVersion"), "kind")) # {"hashedrekord"}, "HashedRekord"),
            Check(AsStr(Member(loose, "mediaType")) \subseteq {BundleMediaType}, "BundleMediaType") >>)

\* What each of the two programs makes of a file: an outcome, and the bundle as an Option.
ClientBundle ==
    [path \in DOMAIN Files |->
        LET file == Files[path]
            outcome == FirstError(<< RejectUnsupportedBundleShape(file.loose), BundleFromText(file.whole) >>)
        IN  [outcome |-> outcome,
             bundle |-> IF outcome = Ok THEN {The(RawBundle(file.whole.value))} ELSE {}]]

Load(program, place) ==
    LET loaded == {program[path] : path \in opts["--bundle"] \intersect DOMAIN Files} IN
    /\ \/ loaded = {} /\ Return("Io") /\ UNCHANGED bundle
       \/ \E l \in loaded : Try(l.outcome, place) /\ bundle' = l.bundle
    /\ UNCHANGED <<run, rest, opts, policy, builder, held, verifier>>

LoadConformanceBundle == pc = "bundle" /\ run.program = "conformance" /\ Load(ClientBundle, "build")

-----------------------------------------------------------------------------
\* The example program.

DigestOf(text) == {d \in Digests : Fold(text) = d}

\* The subject of `--artifact` or `--digest`, of which there must be one; then the required options.
CheckExampleOptions ==
    LET artifact == opts["--artifact"]
        digest == opts["--digest"]
    IN
    /\ pc = "args" /\ rest = <<>> /\ run.program = "example"
    /\ Try(FirstError(<<
            Check((artifact = {}) # (digest = {}), "Usage"),
            Check(artifact \subseteq DOMAIN Files, "Io"),
            Check(\A d \in digest : DigestOf(d) # {}, "MalformedDigest"),
            Check(\A name \in {"--bundle", "--repo", "--signer-workflow", "--checkpoint-origin"} : opts[name] # {},
                  "Usage") >>), "bundle")
    /\ UNCHANGED <<run, rest, opts, policy, builder, held, bundle, verifier>>

\* BundleSet::from_json_lines on the lines of a file; module BundleSet models its loop.
FromJsonLines(file) ==
    LET written == Written(file)
    IN  FirstError(<< FirstError([i \in DOMAIN written |-> BundleFromText(written[i])]),
                      Check(written # <<>>, "EmptyContainer"),
                      Check(Len(written) <= MaxBundlesPerSet, "TooManyBundles") >>)

\* Mutated form of LoadBundle: of several bundles the first is taken.
LoadFirstBundle(file) ==
    LET written == Written(file)
    IN  IF BundleFromText(file.whole) = Ok THEN [outcome |-> Ok, text |-> {file.whole}]
        ELSE IF FromJsonLines(file) # Ok THEN [outcome |-> FromJsonLines(file), text |-> {}]
        ELSE [outcome |-> Ok, text |-> {written[1]}]

\* A bare bundle, or else JSONL with exactly one.
LoadBundle(file) ==
    LET written == Written(file)
    IN  IF BundleFromText(file.whole) = Ok THEN [outcome |-> Ok, text |-> {file.whole}]
        ELSE IF FromJsonLines(file) # Ok THEN [outcome |-> FromJsonLines(file), text |-> {}]
        ELSE [outcome |-> Check(Len(written) = 1, "SeveralBundles"),
              text |-> {written[i] : i \in {1} \intersect {Len(written)}}]

ExampleBundle ==
    [path \in DOMAIN Files |->
        LET loaded == LoadBundle(Files[path])
        IN  [outcome |-> loaded.outcome, bundle |-> {The(RawBundle(text.value)) : text \in loaded.text}]]

LoadExampleBundle == pc = "bundle" /\ run.program = "example" /\ Load(ExampleBundle, "policy")

\* The source repository, with the ids that were given.
Pinned(repository, ownerId, repositoryId) ==
    [repository EXCEPT !.ownerId = ownerId, !.repositoryId = repositoryId]

MakeExamplePolicy ==
    LET repository == RepositoryIdentityParse(Opt("--repo"))
        path == WorkflowPathNew(Opt("--signer-workflow"))
        ref == IF opts["--source-ref"] = {} THEN RefPolicyGlob(Wildcard) ELSE RefPolicyExact(Opt("--source-ref"))
        made == [source |-> {SourcePolicy(Pinned(r, opts["--owner-id"], opts["--repo-id"]), ref) : r \in repository},
                 signer |-> {SignerPolicy(r, p, RevisionAny) : r \in repository, p \in path}]
    IN
    /\ pc = "policy" /\ run.program = "example"
    /\ Try(FirstError(<< Check(repository # {} /\ path # {}, "InvalidConfiguration"), GithubPolicyBuild(made) >>),
           "trustStore")
    /\ policy' = made
    /\ builder' = IF GithubPolicyBuild(made) = Ok THEN [builder EXCEPT !.githubPolicy = {GithubPolicy(made)}]
                  ELSE builder
    /\ UNCHANGED <<run, rest, opts, held, bundle, verifier>>

LoadExampleTrust ==
    LET origin == Opt("--checkpoint-origin")
        outcome == FirstError(<< Check(run.embedded # <<>>, "NoRekorLog"),
                                 Check(ValidOrigin(origin), "InvalidConfiguration") >>)
    IN
    /\ pc = "trustStore" /\ run.program = "example"
    /\ Try(outcome, "build")
    /\ builder' = IF outcome # Ok THEN builder
                  ELSE [builder EXCEPT !.trustStore = {run.embedded},
                                       !.originPolicy = {OriginPolicyFor(run.embedded[1], origin)}]
    /\ UNCHANGED <<run, rest, opts, policy, held, bundle, verifier>>

-----------------------------------------------------------------------------
\* Any caller: the builders' calls in any order, each replacing what an earlier one set.

library == pc = "calls" /\ run.program = "library"

SetSource ==
    /\ library
    /\ \E source \in Library.sources : policy' = [policy EXCEPT !.source = {source}]
    /\ UNCHANGED <<run, pc, rest, opts, builder, held, bundle, verifier, result>>

SetSigner ==
    /\ library
    /\ \E signer \in Library.signers : policy' = [policy EXCEPT !.signer = {signer}]
    /\ UNCHANGED <<run, pc, rest, opts, builder, held, bundle, verifier, result>>

\* build takes the builder; its failure leaves the caller without one, and with no new policy.
BuildPolicy ==
    /\ library
    /\ held' = IF GithubPolicyBuild(policy) = Ok THEN {GithubPolicy(policy)} ELSE held
    /\ policy' = GithubPolicyBuilder
    /\ UNCHANGED <<run, pc, rest, opts, builder, bundle, verifier, result>>

\* The fields of GithubPolicy are public.
WritePolicy ==
    /\ library
    /\ \E source \in Library.sources, signer \in Library.signers :
          held' = {[source |-> source, signer |-> signer]}
    /\ UNCHANGED <<run, pc, rest, opts, policy, builder, bundle, verifier, result>>

SetTrustStore ==
    /\ library
    /\ builder' = [builder EXCEPT !.trustStore = {run.embedded}]
    /\ UNCHANGED <<run, pc, rest, opts, policy, held, bundle, verifier, result>>

SetGithubPolicy ==
    /\ library /\ held # {}
    /\ builder' = [builder EXCEPT !.githubPolicy = held]
    /\ UNCHANGED <<run, pc, rest, opts, policy, held, bundle, verifier, result>>

SetOriginPolicy ==
    /\ library
    /\ \E origins \in Library.origins : builder' = [builder EXCEPT !.originPolicy = {origins}]
    /\ UNCHANGED <<run, pc, rest, opts, policy, held, bundle, verifier, result>>

\* The caller has parsed a bundle, and is done with the policy it may still hold.
ReadyToBuild ==
    /\ library
    /\ pc' = "build"
    /\ policy' = GithubPolicyBuilder /\ held' = {}
    /\ \E file \in Library.files : bundle' = {The(RawBundle(Files[file].whole.value))}
    /\ UNCHANGED <<run, rest, opts, builder, verifier, result>>

-----------------------------------------------------------------------------
\* Mutated form of VerifierBuild: the policy is trusted to come from its builder.
VerifierBuildTrusting(vb) ==
    FirstError(<<
        Check(vb.trustStore # {} /\ vb.githubPolicy # {} /\ vb.originPolicy # {}, "InvalidConfiguration"),
        Check(\A origins \in vb.originPolicy : \A binding \in origins :
                 \E logs \in vb.trustStore : \E i \in DOMAIN logs : Sha256(logs[i].key) = binding.keyId,
              "InvalidConfiguration") >>)

VerifierBuild(vb) ==
    FirstError(<<
        Check(vb.trustStore # {} /\ vb.githubPolicy # {} /\ vb.originPolicy # {}, "InvalidConfiguration"),
        Check(\A p \in vb.githubPolicy : RejectSignerIdPins(p.signer) = Ok, "InvalidConfiguration"),
        Check(\A origins \in vb.originPolicy : \A binding \in origins :
                 \E logs \in vb.trustStore : \E i \in DOMAIN logs : Sha256(logs[i].key) = binding.keyId,
              "InvalidConfiguration") >>)

BuildVerifier ==
    /\ pc = "build"
    /\ Try(VerifierBuild(builder), "verify")
    /\ verifier' = IF VerifierBuild(builder) # Ok THEN {}
                   ELSE {[logs |-> The(builder.trustStore), githubPolicy |-> The(builder.githubPolicy),
                          originPolicy |-> The(builder.originPolicy)]}
    /\ UNCHANGED <<run, rest, opts, policy, builder, held, bundle>>

\* The certificate that Fulcio issued for a workflow run, as its claims.
Claimed(value) == <<[critical |-> FALSE, decodes |-> TRUE, value |-> value]>>

SourceUri(source) == GithubUriPrefix \o Join(source.owner, "/", source.name)

SanText(workflow) ==
    GithubUriPrefix \o Join(Join(workflow.owner, "/", Join(workflow.name, "/", workflow.path)), "@", workflow.gitRef)

Tbs(signed) ==
    [ext |-> [issuer |-> Claimed(signed.issuer),
              sourceRepositoryUri |-> Claimed(SourceUriClaim(SourceUri(signed.source))),
              sourceRepositoryRef |-> Claimed(signed.source.gitRef),
              sourceRepositoryId |-> Claimed(DecimalText(signed.source.id)),
              sourceRepositoryOwnerId |-> Claimed(DecimalText(signed.source.ownerId)),
              subjectAltName |-> Claimed(<<[type |-> "uri", uri |-> SignerUriClaim(SanText(signed.workflow))]>>)]]

Certificate == [payload \in DOMAIN Signed |-> Tbs(Signed[payload])]

\* Verifier::verify_digest, as module VerifierContract states it.
VerifyDigest(v, b, subject) ==
    LET signed == Signed[b.dsseEnvelope.payload]
        entries == b.verificationMaterial.tlogEntries
    IN  FirstError(<<
            Check(subject \in signed.subjects, "SubjectNotFound"),
            Check(Len(entries) = 1, "TlogEntryCount"),
            Check(\A i \in DOMAIN entries :
                     entries[i].kindVersion = [kind |-> "dsse", version |-> "0.0.1"], "TlogEntryKindVersion"),
            Check(\E i \in DOMAIN v.logs : v.logs[i].key = signed.log, "UnknownLogKey"),
            Check(signed.authentic, "NotAuthentic"),
            Check(Allows(v.originPolicy, Sha256(signed.log), signed.origin), "CheckpointOriginMismatch"),
            MatchPolicy(Certificate[b.dsseEnvelope.payload], v.githubPolicy) >>)

\* The subject an operand or option denotes, as an Option: none if a file cannot be read.
OfFiles(paths) == {Files[f].digest : f \in paths \intersect DOMAIN Files}

Subject ==
    CASE run.program = "conformance" ->
            LET digest == UNION {DigestOf(d) : d \in StripPrefix(Opt("operand"), << "sha256:" >>)}
            IN  IF digest # {} THEN digest ELSE OfFiles(opts["operand"])
      [] run.program = "example" -> UNION {DigestOf(d) : d \in opts["--digest"]} \union OfFiles(opts["--artifact"])
      [] run.program = "library" -> Digests

Verify ==
    /\ pc = "verify"
    /\ \/ /\ Subject = {}
          /\ Return("Io")
       \/ \E subject \in Subject, v \in verifier, b \in bundle : Return(VerifyDigest(v, b, subject))
    /\ UNCHANGED <<run, rest, opts, policy, builder, held, bundle, verifier>>

Next ==
    \/ Subcommand \/ TakeValue \/ TakeStaging \/ TakeOperand
    \/ CheckOptions \/ MakeConformancePolicy \/ LoadConformanceTrust \/ LoadConformanceBundle
    \/ CheckExampleOptions \/ LoadExampleBundle \/ MakeExamplePolicy \/ LoadExampleTrust
    \/ SetSource \/ SetSigner \/ BuildPolicy \/ WritePolicy
    \/ SetTrustStore \/ SetGithubPolicy \/ SetOriginPolicy \/ ReadyToBuild
    \/ BuildVerifier \/ Verify

Spec == Init /\ [][Next]_vars
-----------------------------------------------------------------------------
\* A workflow URI with the case of its owner and name folded, and of nothing else:
\* what comes before the third '/'.
FoldRepository(uri) ==
    LET slashes == {j \in DOMAIN uri : uri[j] = "/"}
    IN  [i \in DOMAIN uri |->
            IF \E j, k, l \in slashes : j < k /\ k < l /\ l < i THEN uri[i] ELSE Fold(uri)[i]]

IsRepository(asked, actual) == Fold(asked) = Fold(Join(actual.owner, "/", actual.name))

\* What each caller asked of the run and the workflow that made the signature.
Asked(signed) ==
    CASE run.program = "conformance" ->
            /\ FoldRepository(Opt("--certificate-identity")) = FoldRepository(SanText(signed.workflow))
            /\ opts["--certificate-oidc-issuer"] = {<< signed.issuer >>}
            /\ opts["--staging"] = {} /\ opts["--key"] = {}
      [] run.program = "example" ->
            /\ IsRepository(Opt("--repo"), signed.source) /\ IsRepository(Opt("--repo"), signed.workflow)
            /\ opts["--owner-id"] \subseteq {signed.source.ownerId}
            /\ opts["--repo-id"] \subseteq {signed.source.id}
            /\ opts["--source-ref"] \subseteq {signed.source.gitRef}
            /\ Opt("--signer-workflow") = signed.workflow.path
            /\ Opt("--checkpoint-origin") = signed.origin
      [] run.program = "library" ->
            LET signer == The(verifier).githubPolicy.signer
            IN  /\ signer.repository.owner.word = Fold(signed.workflow.owner)
                /\ signer.repository.name.word = Fold(signed.workflow.name)
                /\ signer.path = signed.workflow.path
                /\ signer.revision.type = "ref" => signer.revision.ref = signed.workflow.gitRef

(***************************************************************************)
(* "verified" means what was asked for: the signature is authentic, is for *)
(* the artifact or digest named, and was made by the very workflow that    *)
(* was asked for, and not by one whose path, name or ref can be read as    *)
(* the one asked for.  The request goes through the caller's parser, the   *)
(* certificate's URI through the library's, and they differ.               *)
(***************************************************************************)
VerifiedMeansAsked ==
    result = Ok =>
        LET signed == Signed[The(bundle).dsseEnvelope.payload]
        IN  /\ signed.authentic /\ Asked(signed)
            /\ Subject # {}
            /\ run.program # "library" => Subject \subseteq signed.subjects

\* The texts of a file that are bundles of it in one of the two formats: the whole,
\* and each of the lines if every one of them is a bundle.
BundlesOf(file) ==
    {text \in {file.whole} : BundleFromText(text) = Ok}
        \union {text \in Range(Written(file)) :
                   \A i \in DOMAIN Written(file) : BundleFromText(Written(file)[i]) = Ok}

(***************************************************************************)
(* examples/verify.rs load_bundle tries two formats in turn: the bundle it *)
(* returns is the only one the file holds in either of them.               *)
(***************************************************************************)
OnlyBundleOfTheFile ==
    run.program = "example" /\ bundle # {} =>
        \A file \in {Files[path] : path \in opts["--bundle"]} :
            bundle = {The(RawBundle(text.value)) : text \in BundlesOf(file)}

(***************************************************************************)
(* A pin that "cannot be enforced" (policy.rs:326) is in no Verifier, by   *)
(* whichever calls, in whichever order, or struct it was configured.       *)
(***************************************************************************)
NoUnenforceablePins ==
    \A v \in verifier : v.githubPolicy.signer.repository.ownerId = {}
                          /\ v.githubPolicy.signer.repository.repositoryId = {}

\* A managed key is out of scope; the rest the library does not parse or does not verify.
RightlyRefused(file) ==
    \/ BundleFromText(file.whole) # Ok
    \/ \E key \in Member(Member({file.whole.value}, "verificationMaterial"), "publicKey") : key # Null
    \/ \E entries \in {The(RawBundle(file.whole.value)).verificationMaterial.tlogEntries} :
          \/ Len(entries) # 1
          \/ \E i \in DOMAIN entries : entries[i].kindVersion # [kind |-> "dsse", version |-> "0.0.1"]

(***************************************************************************)
(* The client's look at a bundle before it is parsed (main.rs:178) only    *)
(* gives better messages: what it refuses has a managed key, or the        *)
(* library would not parse it, or not verify it whatever was asked.        *)
(***************************************************************************)
ShapeCheckLosesNothing ==
    result \in {"ManagedKey", "RekorV2", "HashedRekord", "BundleMediaType"} =>
        \A file \in {Files[path] : path \in opts["--bundle"]} : RightlyRefused(file)
=============================================================================
