------------------------------ MODULE Identity ------------------------------
(***************************************************************************)
(* The identity types of policy.rs and the parsers of policy_match.rs that *)
(* read identities from URIs.                                              *)
(*                                                                         *)
(* A text is a sequence of tokens: "/" and "@" are those characters, any   *)
(* other token is a run of other characters.  A repository's owner and     *)
(* name are kept as [word, spelling], the word folded to lower case, which *)
(* is how module PolicyMatch compares them.  A constructor that may fail   *)
(* returns an Option.                                                      *)
(***************************************************************************)
EXTENDS PolicyMatch, SequencesExt

CONSTANT Lowercase    \* maps the tokens that ASCII lower case changes

GithubUriPrefix == << "https://github.com", "/" >>
WorkflowPathPrefix == << ".github", "/", "workflows", "/" >>

Fold(text) == [i \in DOMAIN text |-> IF text[i] \in DOMAIN Lowercase THEN Lowercase[text[i]] ELSE text[i]]

CaseText(text) == [word |-> Fold(text), spelling |-> text]

Join(before, separator, after) == before \o << separator >> \o after

\* str::strip_prefix and split_once
StripPrefix(text, prefix) == {SubSeq(t, Len(prefix) + 1, Len(t)) : t \in {t \in {text} : IsPrefix(prefix, t)}}

SplitOnce(text, separator) ==
    {[before |-> SubSeq(text, 1, i - 1), after |-> SubSeq(text, i + 1, Len(text))] :
        i \in {i \in DOMAIN text : text[i] = separator /\ \A j \in 1..(i-1) : text[j] # separator}}

\* `splitn(3, '/')`, when there are three parts and the first two are not empty
OwnerNamePath(text) ==
    {parts \in UNION {{[owner |-> owner.before, name |-> name.before, path |-> name.after] :
                          name \in SplitOnce(owner.after, "/")} : owner \in SplitOnce(text, "/")} :
        parts.owner # <<>> /\ parts.name # <<>>}

-----------------------------------------------------------------------------
ParseGithubRepoUri(uri) ==
    {parts \in UNION {SplitOnce(rest, "/") : rest \in StripPrefix(uri, GithubUriPrefix)} :
        parts.before # <<>> /\ parts.after # <<>> /\ ~Contains(parts.after, "/")}

\* Mutated form of ParseSignerSanUri: the first '@' is taken for the separator.
ParseSignerSanUriFirstAt(uri) ==
    {parts \in UNION {{[owner |-> p.owner, name |-> p.name, path |-> p.path, gitRef |-> s.after] :
                          p \in OwnerNamePath(s.before)} :
                      s \in UNION {SplitOnce(rest, "@") : rest \in StripPrefix(uri, GithubUriPrefix)}} :
        parts.gitRef # <<>> /\ IsPrefix(WorkflowPathPrefix, parts.path)}

ParseSignerSanUri(uri) ==
    {parts \in UNION {{[owner |-> p.owner, name |-> p.name, path |-> p.path, gitRef |-> s.after] :
                          p \in OwnerNamePath(s.before)} :
                      s \in UNION {SplitOnce(rest, "@") : rest \in StripPrefix(uri, GithubUriPrefix)}} :
        /\ ~Contains(parts.gitRef, "@") /\ parts.gitRef # <<>>
        /\ IsPrefix(WorkflowPathPrefix, parts.path)}

\* The two claims as PolicyMatch reads them.
SourceUriClaim(uri) ==
    IF ParseGithubRepoUri(uri) = {} THEN [parses |-> FALSE, owner |-> CaseText(<<>>), name |-> CaseText(<<>>)]
    ELSE LET parts == CHOOSE p \in ParseGithubRepoUri(uri) : TRUE
         IN  [parses |-> TRUE, owner |-> CaseText(parts.before), name |-> CaseText(parts.after)]

SignerUriClaim(uri) ==
    IF ParseSignerSanUri(uri) = {}
    THEN [parses |-> FALSE, owner |-> CaseText(<<>>), name |-> CaseText(<<>>), path |-> <<>>, gitRef |-> <<>>]
    ELSE LET parts == CHOOSE p \in ParseSignerSanUri(uri) : TRUE
         IN  [parses |-> TRUE, owner |-> CaseText(parts.owner), name |-> CaseText(parts.name),
              path |-> parts.path, gitRef |-> parts.gitRef]

-----------------------------------------------------------------------------
\* Only emptiness is refused: a name with a '/' in it can be held, and matches nothing.
RepositoryIdentityNew(owner, name) ==
    IF owner = <<>> \/ name = <<>> THEN {}
    ELSE {[owner |-> CaseText(owner), name |-> CaseText(name), ownerId |-> {}, repositoryId |-> {}]}

RepositoryIdentityParse(ownerSlashName) ==
    UNION {RepositoryIdentityNew(parts.before, parts.after) :
              parts \in {p \in SplitOnce(ownerSlashName, "/") : ~Contains(p.after, "/")}}

WithOwnerId(repository, ownerId) == [repository EXCEPT !.ownerId = {ownerId}]

WithRepositoryId(repository, repositoryId) == [repository EXCEPT !.repositoryId = {repositoryId}]

WorkflowPathNew(path) == {p \in {path} : p # <<>>}

RefPolicyExact(ref) == [type |-> "exact", ref |-> ref]
RefPolicyGlob(pattern) == [type |-> "glob", ref |-> pattern]
RevisionAny == [type |-> "any"]
RevisionRef(ref) == [type |-> "ref", ref |-> ref]

SourcePolicy(repository, gitRef) == [repository |-> repository, gitRef |-> gitRef, commit |-> {}]

SignerPolicy(repository, path, revision) == [repository |-> repository, path |-> path, revision |-> revision]

-----------------------------------------------------------------------------
RejectSignerIdPins(signer) ==
    Check(signer.repository.ownerId = {} /\ signer.repository.repositoryId = {}, "InvalidConfiguration")

\* GithubPolicyBuilder: two Options, set by its calls and read by build.
GithubPolicyBuilder == [source |-> {}, signer |-> {}]

GithubPolicyBuild(builder) ==
    IF builder.source = {} \/ builder.signer = {} THEN "InvalidConfiguration"
    ELSE RejectSignerIdPins(CHOOSE s \in builder.signer : TRUE)

GithubPolicy(builder) ==
    [source |-> CHOOSE s \in builder.source : TRUE, signer |-> CHOOSE s \in builder.signer : TRUE]
=============================================================================
