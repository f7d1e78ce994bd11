---------------------------- MODULE PolicyMatch -----------------------------
(***************************************************************************)
(* fulcio.rs extract_claims and policy_match.rs match_policy: the identity *)
(* claims a validated leaf carries, and the caller's policy on them.       *)
(*                                                                         *)
(* A case-insensitive text is [word, spelling]; an id claim is the decimal *)
(* text [value, canonical]; a URI is the record of the parts its parser    *)
(* returns, plus `parses`.                                                 *)
(***************************************************************************)
EXTENDS X509, Glob

ExpectedIssuer == "token.actions.githubusercontent.com"

\* Every claim is looked up, in this order, also the ones no policy reads.
ClaimOids == << "subjectAltName", "issuer", "buildSignerUri", "buildSignerDigest",
                "runnerEnvironment", "sourceRepositoryUri", "sourceRepositoryDigest",
                "sourceRepositoryRef", "sourceRepositoryId", "sourceRepositoryOwnerUri",
                "sourceRepositoryOwnerId", "buildConfigUri", "buildConfigDigest",
                "buildTrigger", "runInvocationUri" >>

ExtractClaims(tbs) == FirstError([i \in DOMAIN ClaimOids |-> FindExtensionDecoded(tbs, ClaimOids[i])])

Claim(tbs, oid) == ExtensionValue(tbs, oid)

\* The first URI among the general names, as an Option.
SanUri(tbs) ==
    UNION {LET i == FirstIndex(names, LAMBDA n : n.type = "uri")
           IN  IF i = 0 THEN {} ELSE {names[i].uri} : names \in Claim(tbs, "subjectAltName")}

EqIgnoreAsciiCase(a, b) == a.word = b.word

DecimalText(n) == [value |-> n, canonical |-> TRUE]

CheckRepositoryMatch(uri, repository) ==
    /\ EqIgnoreAsciiCase(uri.owner, repository.owner)
    /\ EqIgnoreAsciiCase(uri.name, repository.name)

RequireClaim(claim) == Check(claim # {}, "MissingIdentityClaim")

\* An unpinned id asks nothing; a pinned one needs the claim, digit for digit.
CheckPinnedId(pinned, claim, mismatch) ==
    FirstError(<<
        Check(pinned # {} => claim # {}, "MissingIdentityClaim"),
        Check(\A id \in pinned : \A found \in claim : found = DecimalText(id), mismatch) >>)

CheckRefPolicy(ref, policy) ==
    CASE policy.type = "exact" -> ref = policy.ref
      [] policy.type = "glob"  -> GlobMatches(policy.ref, ref)

CheckSignerRevision(tbs, san, policy) ==
    LET digest == Claim(tbs, "buildSignerDigest") IN
    CASE policy.type = "any" -> Ok
      [] policy.type = "ref" -> IF san.gitRef = policy.ref THEN Ok ELSE "SignerRevisionMismatch"
      [] OTHER ->    \* "sha"
            FirstError(<<
                RequireClaim(digest),
                Check(\A found \in digest : EqIgnoreAsciiCase(found, policy.sha),
                      "SignerRevisionMismatch") >>)

MatchSource(tbs, source) ==
    LET uri == Claim(tbs, "sourceRepositoryUri")
        ref == Claim(tbs, "sourceRepositoryRef")
        digest == Claim(tbs, "sourceRepositoryDigest")
        owner == CheckPinnedId(source.repository.ownerId, Claim(tbs, "sourceRepositoryOwnerId"),
                               "SourceOwnerIdMismatch")
        id == CheckPinnedId(source.repository.repositoryId, Claim(tbs, "sourceRepositoryId"),
                            "SourceRepositoryIdMismatch")
    IN  FirstError(<<
            RequireClaim(uri),
            Check(\A u \in uri : u.parses, "MalformedIdentityClaim"),
            Check(\A u \in uri : CheckRepositoryMatch(u, source.repository),
                  "SourceRepositoryMismatch"),
            owner,
            id,
            RequireClaim(ref),
            Check(\A r \in ref : CheckRefPolicy(r, source.gitRef), "SourceRefMismatch"),
            Check(source.commit # {} => digest # {}, "MissingIdentityClaim"),
            Check(\A c \in source.commit : \A d \in digest : EqIgnoreAsciiCase(c, d),
                  "SourceCommitMismatch") >>)

MatchSigner(tbs, signer) ==
    LET san == SanUri(tbs) IN
    FirstError(<<
        RequireClaim(san),
        Check(\A s \in san : s.parses, "MalformedIdentityClaim"),
        Check(\A s \in san : CheckRepositoryMatch(s, signer.repository), "SignerRepositoryMismatch"),
        Check(\A s \in san : s.path = signer.path, "SignerWorkflowPathMismatch") >>)

SignerRevision(tbs, signer) ==
    LET san == CHOOSE s \in SanUri(tbs) : TRUE
    IN  CheckSignerRevision(tbs, san, signer.revision)

MatchPolicy(tbs, policy) ==
    LET issuer == Claim(tbs, "issuer")
        source == MatchSource(tbs, policy.source)
        signer == MatchSigner(tbs, policy.signer)
    IN  IF issuer = {} THEN "MissingIdentityClaim"
        ELSE IF issuer # {ExpectedIssuer} THEN "IssuerMismatch"
        ELSE IF source # Ok THEN source
        ELSE IF signer # Ok THEN signer
        ELSE SignerRevision(tbs, policy.signer)

\* The identity a match reports, in the certificate's own spelling.
MatchedIdentity(tbs) ==
    [issuer |-> ExpectedIssuer,
     source |-> [uri |-> Claim(tbs, "sourceRepositoryUri"), ref |-> Claim(tbs, "sourceRepositoryRef")],
     signer |-> {[owner |-> s.owner, name |-> s.name, path |-> s.path] : s \in SanUri(tbs)}]
=============================================================================
