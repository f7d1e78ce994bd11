# A TLA+ model of attestation-verify

attestation-verify decides whether an artifact was built by a given GitHub
Actions workflow. Its input is a digest, a Sigstore bundle (a signed in-toto
statement, the short-lived certificate of its signer and the transparency-log
entry that recorded both), a store of trusted keys, and a policy. Its output is
an error or a report of authenticated facts. It does no I/O, keeps no state
between calls and starts no thread; it is a few thousand lines of sequential
Rust whose difficulty is in the order and the completeness of its checks and in
the boundaries of its parsers. Two programs in the repository call it (a client
for the Sigstore conformance suite and an example), and a set of fuzz entry
points reaches its parsers one by one.

The models keep all of that control: which check comes after which, what every
check compares with what, what each loop keeps from an iteration to the next and
which error wins. They abstract cryptography (a signature is a record of a key
and a message, a hash a record of what was hashed) and the decoding of leaves
(DER, base64, hex, PEM: a value, or a mark that decoding fails). Where the layout
of an input is itself where things go wrong it is kept: JSON documents field by
field, signed notes and identity URIs symbol by symbol, SCT lists byte by byte,
integers character by character.

## Inventory

| Component | Source | State | Operations | What makes it correct |
|---|---|---|---|---|
| Verifier | `verifier.rs` | the built verifier (immutable); the locals of a call | `verify_digest`, `verify_bytes`, `VerifierBuilder::build` | accepts exactly the authentic bundles; uses no unauthenticated value; reports what it authenticated |
| Rekor | `rekor.rs` | none; a cursor over checkpoint signatures | `verify_tlog_entry`: body, binding, key selection, SET, inclusion, checkpoint, origin, time window | the entry is this envelope's and this certificate's, one trusted key promised and included it |
| Merkle inclusion | `rekor.rs` | `node_index`, `last_node`, the running hash, an iterator | `recompute_root` | accepts audit paths only, and ends |
| X.509 chain | `x509.rs` | the first error of a loop over authorities | `validate_chain` | one failing authority hides no good one; the error is attributable |
| DSSE | `dsse.rs` | none | `pae`, key parsing, signature check | payload type and payload are both signed |
| SCT | `sct.rs` | the first error of a loop over SCTs | `verify_embedded_scts` | a trusted CT log saw this precertificate, within its window |
| Fulcio claims, policy match | `fulcio.rs`, `policy_match.rs` | none | `extract_claims`, `match_policy`, two URI parsers | every constraint of the policy is compared, source before signer; no URI can be read as that of another workflow |
| Ref glob | `policy_match.rs` | two positions and the last star | `glob_match` | means what a glob means, in bounded time |
| Statement | `statement.rs` | none | `from_payload`, `find_subject` | the digest asked for is one the statement names |
| Strict JSON | `strict_json.rs` | a shared node counter, the keys of every open object | `parse_strict` | exactly duplicate-free JSON within its budget |
| Parse utilities | `parse_util.rs` | none | strict integers, base64, hex, PEM, size and count limits | what is returned is what was written |
| Bundle parsing | `bundle.rs` | the lists filled so far | `from_json`, `from_json_lines`, `from_github_response` | all of a container or nothing |
| Policies and builders | `policy.rs`, `verifier.rs` | bindings by log key, pending fields | the three builders, `allows`, the identity types | a failed or repeated call does not widen a policy |
| Trust store | `trust.rs` | none | `from_json`, conversions | keys, windows and chains are the file's |
| Time | `time.rs` | none | RFC 3339 to seconds | fractional bounds narrow a window |
| Errors, limits | `error.rs`, `limits.rs`, `lib.rs` | none | declarations | |
| Fuzz entry points | `fuzzing.rs` | the log of the corpus, selected once per process | one wrapper per parser | the seeds keep reaching the signature check |
| Conformance client | `tools/conformance` | the options read | `run_verify`, `parse_github_identity`, `reject_unsupported_bundle_shape` | "verified" means the identity and artifact asked for |
| Example program | `examples/verify.rs` | the options read | `run`, `load_bundle` | the same, for its own options |

Interaction is by calls only. `BundleSet` and `TrustStore` parse (through strict
JSON and the parse utilities) into values that nothing else can construct; the
builder combines a store and two policies into a `Verifier`; `verify_digest`
calls Statement, Rekor, X.509, DSSE, SCT and policy match in this order, and
hands two results on: the integrated time that Rekor authenticated (to X.509)
and the key of the certificate that issued the leaf (to SCT).

What is hard to test here: a value used before the check that authenticates it;
the same window tested in two files with different bounds; one candidate of
several failing (authorities, SCTs, signatures, lines of a container); the lone
last nodes of a Merkle tree whose size is no power of two; a backtracking
matcher; a budget shared by all levels of a recursion; numbers at the top of
their type; two parsers of one text that do not agree; an optional field read
under a wrong name; a fallback that drops the first error; an option that is
swallowed as the value of another. `PROJECT.json` lists these under `hazards`,
each with its line and the properties that would catch it.

## Modules

| Module | Models | State and actions |
|---|---|---|
| `Symbolic` | the cryptographic primitives (external) and `?` | operators |
| `Rekor`, `X509`, `Sct`, `Statement`, `PolicyMatch` | one file each: every check as an operator from its arguments to `Ok` or the error | operators |
| `Verifier` | `verify_digest` with the callees' sequence inlined | `pc` is the check to be made next; `log`, `time`, `ca`, `caError`, `sct`, `sctError` are the locals; one action per check and one per loop iteration |
| `Authenticity` | when a bundle is authentic for a subject under a store and policies, stated without an order of checks, and the facts it then establishes | operators |
| `VerifierContract` | what a verifier promises, for any notion of authentic | `Accept`, `Reject`, `NextCall` |
| `Glob` | the meaning of a pattern | operators |
| `GlobMatch` | `glob_match` | the loop's positions; one action per branch |
| `InclusionProof` | `verify_inclusion_proof`, `recompute_root`; as the reference, tree hash and audit path of RFC 6962 section 2.1 | the loop's locals; one action per branch |
| `StrictJson` | `parse_strict`'s visitor | the tokens read, the open containers and their keys, the budget; one action per callback |
| `Serde` | what a derived `Deserialize` accepts of a JSON value and makes of it (external) | operators from a value to the Option of what it is read as, and the field kinds structs are made of |
| `Bundle` | the raw structs of `bundle.rs`, each as its deserializer, and every `from_raw` | operators from a raw value to `Ok` or the error |
| `BundleSet` | `Bundle::from_json` and both container parsers | the item to read next, the lists filled so far; one action per line or attestation |
| `Checkpoint` | the text of a signed note: its body, its signature lines, key hints | operators |
| `SctList` | the TLS cursor and one SCT of `sct.rs`; the bytes that encode one | operators from the bytes left to the Option of what is read and what is left |
| `Payload` | the documents of a Rekor entry body and of an in-toto statement | operators |
| `Fuzzing` | every entry point of `fuzzing.rs` and the loops of the parsers behind it: signature lines, the two passes of `verify_checkpoint`, SCT lists | `BundleSet`'s state, the cached log, the lines parsed and tried, the cursor; one action per iteration |
| `Identity` | the URI parsers of `policy_match.rs` and the identity types of `policy.rs` | operators |
| `Callers` | the conformance client, the example program and any caller of the two builders | the arguments left, the options, both builders, what was built; one action per argument, step or builder call |
| `ParseUtil` | `strict_stringified_u64`, character by character | operators |
| `OriginPolicy` | `CheckpointOriginPolicy` and its builder | the builder's bindings, the rest of an `allow_origins` loop, the policy made, and what the caller asked for (a history); one action per call and per iteration |
| `Rfc3339` | `time.rs`: validation, day numbers, offsets, rounding | operators |
| `Calendar` | the days as `Rfc3339` counts them | a date that is stepped from day to day |
| `TrustStore` | `from_json` and every conversion of a trusted root | the sections done, the store under construction; one action per section |
| `MCVerifier` | genuine bundles, made as Sigstore makes them, and their departures | definitions |
| `MCBundleData` | bundle documents and each departure of a field | definitions |
| the other `MC*` | the constants of the runs | definitions |
| `VerifierProofs`, `LoopProofs`, `StrictJsonProofs`, `OriginPolicyProofs`, `FuzzingProofs`, `TrustStoreProofs`, `CallersProofs` | theorems about the module named; `LoopProofs` about `GlobMatch` and `InclusionProof`, `FuzzingProofs` also about `BundleSet`, `ParseUtil`, `Checkpoint`, `SctList` and `Payload`, `TrustStoreProofs` also about `Calendar` | |
| `SymbolicProofs` | the lemmas about `?`, `Option` and first positions that the others cite | |

`Authenticity` and `Verifier` compose the five operator modules. `Rekor` states what a Merkle root
commits to in one operator; `InclusionProof` is the detailed account of it. In
the same way `PolicyMatch` uses the declarative `Glob`, and `GlobMatch` shows
that the loop computes it, and `Rekor` states which checkpoints verify where
`Checkpoint` and `Fuzzing` parse the note and try its lines. `Callers` composes
`Identity`, `Bundle` and the checks of `PolicyMatch` and `Rekor` with the
programs' own code; what a signature proves is a constant there, since
`Verifier` models that. `Fuzzing` extends `BundleSet`, so that one state machine
holds every parser. `TrustStore` uses `Rfc3339` for the bounds of its windows
and `Sct` for the test made against them later.

Conventions: an `Option` is a set of at most one element; an outcome is `Ok` or
the name of the error; `FirstError` is a sequence of `?`; "mutated form of X"
marks an alternative definition that a property is shown to exclude.

### How the verifier's state corresponds to the code

`Stage(here, outcome, next)` is a statement `check(...)?;`: it goes on at `next`
or returns. The order of the stages is the source's: payload type, statement,
predicate type and subject (`verifier.rs:128-147`); the number of entries, the
body, the binding of the entry to the envelope and the certificate, the log key,
the SET, the proof, the checkpoint, the origin and the time windows (`rekor.rs`
`verify_tlog_entry`); authorities one by one (`x509.rs`); the envelope's
signature (`dsse.rs`); SCTs one by one (`sct.rs`); claims and policy
(`policy_match.rs`). `SelectLog`, `AuthenticateTime`, `TryCa` and `TrySct` also
set the locals the later checks read. Every call starts with fresh locals
(`Begin`). The report is not a variable: it is computed from the call when it is
accepted, as the code does at the end.

Trust stores, policies and bundles are constants, restricted by
`VerifierAssumption` to what the parsers guarantee (the shapes of a store, a
policy, a payload, a certificate, a proof and an entry) and by `Build` to what
the builder accepts.

The document modules describe a JSON value as `Str`, `Num`, `Arr`, `Obj` or
`Null`, and a type of the source as the deserializer that serde derives for it:
an operator from a value to the Option of what the value is read as. A struct
lists its fields with their kinds (`Field`, `OptionField`, `VecField`,
`Defaulted`) in the order of the source, so a missing, renamed, defaulted or
wrongly typed field, and a struct given as an array, behave as they do in the
code.

In `Callers` the result of a call is `"Pending"` until its last step and then
the outcome. What Fulcio writes into a certificate for a workflow run (`Tbs`) is
external: it is the reading of an identity that the two programs' own parsers
have to agree with.

## Runs

| Run | Question | Bounds |
|---|---|---|
| `calls` | Is a bundle accepted exactly when it is authentic, with the right report, whatever was asked before? Does every error speak of authenticated values? Which of several failures is reported? | genuine bundles from several signers, certificates, logs and times; every single edit and every pair of edits of a genuine bundle; one departure of the store or the policy at a time; after each such call any number of calls on the genuine bundle, and any sequence of calls among a few bundles |
| `chain_error` | Is the error of a refused chain the one the documentation promises? (It is not, see Findings.) | a store with an undecodable root |
| `loops` | Does the two-pointer loop compute the meaning of a pattern, and end? Does the walk accept audit paths and nothing else, and end? | one thread that matches and then walks: all patterns and texts of up to 4 characters before the shortest walk; after the shortest match, trees of up to 8 entries, every index, also beyond the tree, with genuine, cut, extended, exchanged and wrong-length paths |
| `strict_json` | Are exactly the duplicate-free documents within the budget accepted, with the right error for the others? | all documents of up to 6 tokens over 2 keys, and longer nested ones; 5 nodes, depth 3 |
| `parsers` | Is a container returned as a whole or not at all, with its lists in step and its integers as written? Is the origin of a note what was signed, whatever its lines are named? Is an SCT list read exactly? Are the subjects of a statement those written, and is one bad digest enough to refuse it? | documents with each field missing, null, or of another type; up to 4 items, 3 bundles, 2 entries; integer texts of up to 4 characters, `U64Max` 255; notes with up to 3 (and 4) lines under 4 bodies; lists of up to 2 SCTs with every truncation and every one-byte change, bytes up to 4; statements of up to 4 subjects, and of up to 2 with a malformed, missing or differently spelled digest or given as an array |
| `api_metadata` | Is the metadata of an API response kept? (It is not, see Findings.) | responses of up to 4 entries |
| `integer_sign` | Is an integer with a sign refused? (Not with a plus sign, see Findings.) | as `parsers`, the containers only |
| `unsupported_entry` | Is an entry of another kind refused as unsupported? (Not always, see Findings.) | as `parsers` |
| `origin_policy` | Does a policy allow exactly what was asked for, however its calls are mixed? | three logs of two keys, lists of up to 2 origins with empty and multi-line ones, 2 given bindings |
| `trust_store` | Does a store test whole-second evidence as the file's windows say, and an SCT's milliseconds as nearly as it can? Are validation, day numbers and instants of one calendar? | one root per kind of entry and fault; bounds whole, fractional and with offsets, within 12 seconds; chains of 2; every day of 401 years from each of two starts, the year 0 and 1969; instants of the days within 24000 of the epoch, with three offsets that lead into the day before or after |
| `sct_window` | Is every SCT outside its log's window refused? (No, see Findings.) | as `trust_store`, with a calendar of one year |
| `callers` | Does "verified" mean what was asked for, from the command line or the builders' calls to the verdict? | 17 signed runs that differ in one respect each; 15 more bundle files (wrapped, doubled, padded, unsupported); each against identities and options that name it rightly, wrongly, in another case, with an `@`, or not at all; every prefix of a command line; builder calls in any order |

Why the bounds are enough. The verifier compares values and counts to three
limits; two values of each kind suffice to make a comparison fail, and each
limit is small enough to be exceeded: `I64Max` is 4 with times up to 5, so that
the saturation of `verifier.rs:165` can occur; a checkpoint may have 3 lines and
has up to 4, a statement 4 subjects and up to 5. Pairs of edits cover a check
that only fails when another was passed by mistake. Eight leaves give a tree
with a lone last node at one and at two consecutive levels (sizes 5, 6, 7) next
to the full ones. Four characters of pattern hold two stars with literals around
them, which is what giving up an earlier star needs. Five nodes can be exceeded
by documents of six tokens, and depth 3 by the nested ones. With `U64Max` 255
three digits straddle the maximum as 20 digits do in the code. Two logs of one
key and one of another, and lists of two, hold a second binding for a key, an
origin asked for twice and a list that fails after its first origin. The days
counted hold leap days, centuries with and without one and the end of an era;
their instants are compared near the epoch only, because TLC computes in 32 bits
and seconds since 1970 soon exceed them. A window of twelve seconds holds bounds
and evidence before, on and after each other at either side of a second. Bytes
below 5 with one-byte ids and timestamps keep an SCT list short enough to change
every byte of it and still long enough for a length to reach into the next SCT;
key hints of two symbols, equal for two of the three keys, stand for the
collisions that four bytes allow. Three runs of the same workflow whose path or
ref holds an `@` are what two readings of one URI need.

`CHECK_DEADLOCK FALSE` is used where the modelled call or program ends and
nothing follows it; in `calls` and `chain_error` a next call can always be made,
and deadlock is checked.

Fairness is weak fairness of the next step of the thread that makes the two calls
(`MCLoops`). The code is sequential and never waits, so a call in progress goes
on; nothing is assumed of the caller. The verifier's own loops are `for` loops
over slices, which end by their form, so no liveness is stated of them.

### The properties

* `ImplementsContract`: `Verifier` refines `VerifierContract`. A call is accepted
  if and only if `Authentic` holds of the store, the policies and the call, and
  then with the report `Facts`. Since `Authentic` reads nothing else, no answer
  depends on earlier calls.
* `TimeIsAuthenticated`: the time the certificate checks use is the unsaturated
  time of the entry that this envelope and leaf make, which the selected log
  promised and put in its tree under an origin the policy allows, within the
  log's window and the leaf's. The time is unset before all of that was checked.
* `OnlyAuthenticatedValuesAreBlamed`: origin, time and identity errors are
  returned only about values whose signature was checked.
* `LeafChecksAgree`: the two tests of the leaf's validity, with bounds written
  in two files, never disagree.
* `FirstFailureIsReported`: of authorities that all fail, or SCTs that all fail,
  the first failure is the error returned, whatever failed after it.
* `Returns`, `WalkEnds`: the loops end.
* `Correct`, `Progress`: `glob_match` returns the declarative meaning, and its
  positions only grow in the order that bounds its running time.
* `AcceptsOnlyAuditPaths`, `OnLevel`: the inclusion proof.
* `AcceptsExactlyStrict`, `BudgetIsHonest`: strict JSON.
* `AllOrNothing`, `EntriesInStep`: containers.
* `IntegersAreAsWritten`: the integers of a bundle, up to the end of `u64`. What
  precedes the number, zeros or the plus sign of finding 4, does not change it.
* `OriginIsAsSigned`: the origin handed to the policy, and the size and root that
  were compared, are those of the signed bytes, carriage returns included.
* `NamesDecideNothing`, `EachLineIsTriedOnce`: two passes over the signature
  lines accept what one pass over all would, and verify no line twice.
* `SeedsAreVerified`: the cached log of the fuzz entry points is the one that
  signed the corpus, whichever other logs the root holds.
* `SctListIsExact`: a list is accepted if and only if its bytes encode one.
* `SubjectsAreAsWritten`: an accepted statement has the subjects that are
  written, one for one with their digests, so a digest is found at its first
  position; one subject without a digest or with a malformed one fails the whole
  statement, and nothing else is refused as a malformed subject.
* `VerifiedMeansAsked`: what a program reports as verified was made by the
  workflow, repository, ref and issuer that were asked for, for that artifact. For
  a caller of the builders, who makes the calls of its choice, only the signer's
  workflow, repository and ref are compared.
* `OnlyBundleOfTheFile`: the example's fallback never picks one bundle of several.
* `NoUnenforceablePins`: no verifier holds a signer pin that nothing enforces,
  however its policy was made.
* `ShapeCheckLosesNothing`: the client's loose look at a bundle refuses nothing
  that could verify.
* `AllowsExactlyWhatWasAsked`, `OnlyMeetableOrigins`: a builder's calls add up,
  a failed one leaves nothing behind, and no binding is there that no note can
  meet.
* `DayNumbersAreConsecutive`, `InstantsAreUnique`: the day after a valid date has
  the next number, and one instant written in two ways is one number.
* `TrustsExactlyWhatIsDeclared`: a store holds every entry of the file and its
  windows admit the whole seconds within the declared bounds, no others.
* `SctWithinASecondOfDeclared`: the window check of an SCT is exact for windows
  declared in whole seconds. For others it is off by less than a second, at
  either bound, and only towards later (finding 5).

## Findings

1. `bundle.rs:640`: `RawAttestationEntry` is read with `rename_all =
   "camelCase"`, so its optional fields are `repositoryId` and `bundleUrl`. The
   API, the recorded response under `tests/fixtures/github-cli` and `DESIGN.md`
   write `repository_id` and `bundle_url`. Both are optional, so parsing succeeds
   and the metadata is `None` for every real response. Run `api_metadata`.
2. `rekor.rs:109`: the entry body is deserialized into the `dsse` 0.0.1 struct
   before its kind and version are compared, so an entry of another kind whose
   `spec` has another shape, as that of Rekor v2 has, is malformed JSON and not
   the typed unsupported error of `rekor.rs:63-66` and `DESIGN.md:138`. The unit
   test only changes the kind and keeps the shape. Run `unsupported_entry`.
3. `x509.rs:124-130` says the error of a refused chain is the one of the first
   authority whose name matched, and that `UntrustedCertificate` is kept for the
   case that none matched. An authority of another name whose chain does not
   decode fails before its name is compared (`x509.rs:176`), and its error is
    kept. Run `chain_error`. The answer is a refusal in either case.
4. `parse_util.rs:35-41` says that `strict_stringified_u64` rejects signs and
   `"+5"`, because `str::parse::<u64>` does. That accepts one leading `+`
   (`parse_util.rs:42`), so a bundle whose `logIndex` is `"+5"` is accepted, as 5.
   Run `integer_sign`.
5. `sct.rs:335-337` and `error.rs:315-318` say that an SCT outside its log key's
   `validFor` window is `SctOutsideKeyValidity`. `sct.rs:353` compares the
   timestamp cut to its second with an end that `time.rs` rounded up, so an SCT
   up to a second past an end with a fraction is inside. `time.rs:19-22` claims
   exactness for evidence in whole seconds only. Run `sct_window`.

## Proofs

Every theorem is proved for all values of the constants that satisfy the named
assumptions.

| Theorem | Module | Says |
|---|---|---|
| `TypeCorrect` | `VerifierProofs` | `Spec => []TypeOK` |
| `TimeAuthenticated` | `VerifierProofs` | `Spec => []TimeIsAuthenticated` |
| `LeafAgreement` | `VerifierProofs` | `Spec => []LeafChecksAgree` |
| `FirstFailureReported` | `VerifierProofs` | `Spec => []FirstFailureIsReported` |
| `BlameIsAuthenticated` | `VerifierProofs` | `Spec => []OnlyAuthenticatedValuesAreBlamed` |
| `Refinement` | `VerifierProofs` | `Spec => ImplementsContract`: `Verifier` refines `VerifierContract` |
| `GlobTypeCorrect`, `GlobCorrect`, `GlobProgress` | `LoopProofs` | `TypeOK`, `Correct` and `Progress` of `glob_match` |
| `WalkOnLevel` | `LoopProofs` | `WalkSpec => []OnLevel` |
| `OnlyAuditPathsAccepted` | `LoopProofs` | `WalkSpec => []AcceptsOnlyAuditPaths` |
| `BudgetHonest` | `StrictJsonProofs` | `Spec => []BudgetIsHonest` |
| `AcceptsExactly` | `StrictJsonProofs` | `Spec => []AcceptsExactlyStrict` |
| `AcceptsOnlyStrict` | `StrictJsonProofs` | what is accepted repeats no key within an object and keeps to budget and depth |
| `RefusalsAreRight` | `StrictJsonProofs` | a callback fails only on a document that is not strict |
| `AllOrNothingHolds`, `EntriesInStepHolds` | `FuzzingProofs` | `WireSpec => []AllOrNothing`, `[]EntriesInStep`: containers |
| `OriginIsAsSignedHolds`, `NamesDecideNothingHolds`, `EachLineIsTriedOnceHolds` | `FuzzingProofs` | the same of `OriginIsAsSigned`, `NamesDecideNothing` and `EachLineIsTriedOnce`: signed notes |
| `SeedsAreVerifiedHolds` | `FuzzingProofs` | of `SeedsAreVerified`: the cached log |
| `SctListIsExactHolds` | `FuzzingProofs` | of `SctListIsExact` |
| `SubjectsAreAsWrittenHolds` | `FuzzingProofs` | of `SubjectsAreAsWritten` |
| `IntegersAreAsWrittenHolds` | `FuzzingProofs` | of `IntegersAreAsWritten` |
| `OriginPolicyExact`, `OriginPolicyMeetable` | `OriginPolicyProofs` | `AllowsExactlyWhatWasAsked` and `OnlyMeetableOrigins` of the builder |
| `StoreIsAsDeclared`, `SctsAreWithinASecond` | `TrustStoreProofs` | `TrustsExactlyWhatIsDeclared` and `SctWithinASecondOfDeclared` |
| `CalendarCorrect` | `TrustStoreProofs` | `CalendarSpec => []DayNumbersAreConsecutive`, given `StartsAreRight` |
| `OneInstantOneNumber` | `TrustStoreProofs` | `CalendarSpec => []InstantsAreUnique` |
| `VerifiedIsAsked` | `CallersProofs` | `Spec => []VerifiedMeansAsked`: both programs and the builders |
| `TheBundleOfTheFile`, `NoPinsHeld`, `RefusesNothingElse` | `CallersProofs` | `OnlyBundleOfTheFile`, `NoUnenforceablePins` and `ShapeCheckLosesNothing` |

*Verifier.* `TimeIsAuthenticated` is not inductive: it speaks of a moment when
the promise, the log and the window have all been checked, each at another
step. The inductive invariant says at each place what has been established so
far: `UnsetTime` (no time before the last check of the entry), `CountInv` (there
is one entry), `LogInv` (the selected log's key has the entry's log id),
`PromiseInv` (its promise verified), `LeafInv` (the leaf decodes and its key can
be used), `TimeInv` (the time, once set, is the entry's and within both
windows). What it leaves open, that the entry's body is the canonical one and that
the tree and its signed head hold it, is `TimeChecked`: once the time is set, every
check of the entry has established its part, and the time outlives these checks. Assumptions: `VerifierAssumption`, `RekorAssumption`,
`StatementAssumption`. `SymbolicProofs` holds the lemmas about `FirstError`,
`Check` and `FirstIndex` that every stage uses: which check of a sequence wins,
and that the sequence passes if and only if every check does.

`FirstFailureReported` needs `FirstKept`: the error a loop has kept is that of the
first failure behind its cursor, or none when nothing behind it failed. For
authorities the first is the first that did not merely have another name.

*Refinement of the contract.* The theorem says that the order of the checks, the
early returns and what the loops keep make no difference to the answer. Its
invariant `CInv` adds four parts to the one above:

* `History`: every check before the present one has established its part of
  authenticity. `Established(place)` names that part, one line per check.
* `LoopInv`: the authorities and SCTs behind the cursors failed, and the errors
  kept from them are errors of chains and of SCTs, never one about an identity,
  an origin or a time.
* `Answered`, and `OnlyAuthenticatedValuesAreBlamed` itself.

For each check there is a lemma (`FromPayloadMeans` ... `MatchPolicyErrors`) that
says when the operator returns `Ok`, in the words of `Authenticity`, and which
errors it can return. Two lemmas join these with the contract. `AuthenticNeeds`:
an authentic call has every part, so a check that fails refutes authenticity.
`EstablishedSuffices`: the parts together are authenticity, so the last check
accepts only authentic calls. Two places take more than that. The contract asks
for *some* authority under which *some* SCT verifies, and the code looks for
SCTs under the *first* authority that validates the leaf; when no SCT is left,
`NoSctLeftStep` needs that every authority that validates the leaf has the same
issuing key, since the leaf has one signature. And the contract reads the leaves
off the root hash where the code recomputes the root from the path; they agree
because a root commits to its leaves (`MerkleRoot` is a free constructor, the
usual idealisation of a hash). The assumptions are those of the verifier.

`BlameIsAuthenticated` follows from `History`: an origin is compared after the
checkpoint, a time after the promise, an identity after everything.

*Glob.* `Correct` needs two invariants. `Sound`: the pattern up to the current
position covers the text up to the current one, as does the pattern up to the
last star. `Complete`: if the whole pattern covers the whole text, then it also
does so by a continuation of the present position or by a later retry of the
*last* star; this is the argument why earlier stars may be given up. Assumption:
`GlobAssumption` (patterns and texts are sequences).

*Inclusion proof.* `OnLevel` is inductive with the types of the loop's locals.
`AcceptsOnlyAuditPaths` relates a walk up the levels of the tree with a path that
RFC 6962 defines down from the root, so the invariant `PathInv` has to name the
node reached: on some level `e` (`InReach`) the current index is that of the node
above the leaf, as many hashes are consumed as the path from the leaf to that
node has, and the running hash is the node's *if and only if* the leaf is the
entry's and the hashes consumed are the path's. The lemmas under it say what the
RFC's split at a power of two makes of the nodes of a level: a node's hash is
that of its two children, or of the one it was promoted from, and so is its path.
The last step is at the root, where the running hash is compared. Hashes are free
constructors, as in `Rekor`. Assumption: `LogsAssumption` (a log is a non-empty
sequence, a proof an index and a sequence of hashes).

*Calendar.* The day number is a formula of an era of 400 years, a year of the
era counted from March, and a day of that year. `MarchDays` and `MonthDays` say
how long such a year and its months are by the formula; they agree with
`days_in_month` and the leap year rule, so each next date (next day, next month,
next March, next era) adds one. Assumption: `StartsAreRight`, that the date a
behaviour starts from has its own number. `OneInstantOneNumber` needs no such
hypothesis: for any valid date, the seconds of an instant that an offset or a
fraction carries over midnight are those of the same instant written on the next
day, since the day numbers of the two differ by one.

*Strict JSON.* `BudgetIsHonest` is inductive with the types: the cell is the
number of values among the tokens read (`CountStep`). For the keys the invariant
`InStep` ties the stack of the visitor to the document alone: the stack is as
high as the brackets say (`OnDepth`), an open object's key set holds every key
read in it (`KeysAreKept`) and no other (`KeysAreItsOwn`), and no key read so far
is a repeat (`NoneRepeated`). Comparing a key with the innermost set is then
comparing it with all that it could repeat.

Which token sequences are JSON is defined by a recursive grammar over spans of
the document (`Derived`), while the visitor reads from left to right with a
stack. `OnGrammar` relates the two: while the visit goes on, the document is JSON
if and only if what is left of it `Completes` the open containers, that is, there
is a closing bracket for each, the inner ones first, with elements or members
between one and the next. One lemma per kind of token (`ScalarTaken`,
`ContainerEntered`, `MemberDue`, `ElementDue`, `ContainerLeft`) carries this over a
step; when no callback applies nothing can complete the stack, or the nesting is
too deep. That `Derived` has a solution follows from `Weight`: the spans a rule
reads are lighter than its own. Assumption: `StrictJsonAssumption`.

*Origin policy.* `AllowsExactlyWhatWasAsked` speaks of a policy, not of what is
under construction. `BuilderStandsForAsked` says of a builder that what its
bindings allow, together with what an unfinished `allow_origins` still has to
add, is what was asked for; a failed call ends the builder, so nothing else is
to be shown of it. Assumption: `OriginPolicyAssumption`.

*Containers.* `ContainerInv` says of the loop over lines or entries
(`ItemsInv`): `bundles` is what the items behind the cursor hold, picked in their
order, each of these was converted without error, and for a response `entries`
keeps step with the items. From it both container properties follow when the loop
ends; a failing item ends the call before anything is returned. Assumptions:
`BundleSetAssumption`, `BundleAssumption`.

*Integers.* That a container is refused for an integer is decided deep inside a
conversion of one of its items, so `IntegerInv` says where: one of its bundles
fails for an integer, and only a text that `strict_stringified_u64` refuses makes
a bundle fail so. What is left is one text. `str::parse` accumulates digits from
the left with a check for overflow; the number written is defined from the right,
by its decimal text. `ReadIsCanonical` and `CanonicalIsRead` join the two: what
has been accumulated up to a digit is the number whose decimal text is the part
read, as long as that has no leading zero, and the decimal text of every number
up to `U64Max` is read as that number. Assumptions: `ParseUtilAssumption`;
`IntegersAssumption` (lists and texts are sequences, and reading JSON fails for
another reason than an integer of ours).

*Signed notes.* `CheckpointInv` has five parts: which parser is where
(`PlaceInv`), the body was parsed before any line is (`BodyInv`), one parsed line
for each line behind the cursor (`LinesInv`), the lines tried are those of the
passes made so far, the ones with the log's name first and none twice
(`TriedInv`), and every line a pass has left behind does not verify (`NamesInv`).
`EachLineIsTriedOnce` and `NamesDecideNothing` follow. `OriginIsAsSigned` needs
`BoundInv` as well: from the comparison on, tree size and root hash are those of
the signed bytes. That the first line of those bytes is the origin whether lines
are split with or without their carriage returns is a lemma about texts.
Assumption: `CheckpointAssumption` (base64 text holds no carriage return).

*Seeds.* `SeedInv`: the lock holds nothing or the log that `EmbeddedLog` selects
from the root, and no check before the two passes fails on a seed. When the
passes begin, `NamesDecideNothing` decides. Assumptions: `FuzzingAssumption`, and
`CorpusAssumption` (a seed is a note with a signature of the corpus's log under
its key hint, which is how the files in the corpus were made).

*SCT lists.* `SctInv`: what has been read, encoded again, and what is left make
up the bytes given; and if these bytes encode some list at all, then what is left
encodes the rest of it, so no read can fail. The first half shows that only
encodings are accepted, the second that none is refused. `BigEndian` and
`TakePrefixedGives` say that a length and what it prefixes are read back.
Assumptions: `SctListAssumption` (sizes are positive), `FuzzingAssumption`
(inputs are sequences of bytes).

*Statements.* `StatementInv` (the outcome is that of `from_payload`), and how
serde reads a list element by element: `SubjectMeans` says of one subject that it
is refused exactly if it is not `WellDigested`, and that its digest is the one
written; `SubjectsMean` of the list that it has the places written. Assumptions:
`StatementAssumption`, `FuzzingAssumption` (also: the strict JSON parser fails for
another reason than a subject).

*Trust store.* `StoreInv` says at each section what the sections before it left
in the store (`SameKeys`, `SameAuthorities`): every entry of the document with
its key and its window, and nothing else. The lemmas under it follow a section
through serde's structs and through the conversion of each entry.
`SctsAreClose` compares the milliseconds of an SCT with bounds that were rounded
to seconds. Assumption: `TrustStoreAssumption` (lists of a document are
sequences).

*Callers.* `Control` types the options and says what is not there yet while
arguments are read. For `VerifiedMeansAsked` three invariants build on it:
`CompleteInv` (past the options check, the required options are given and the
rejected ones are not), `PolicyInv` (each policy under construction, or in a
verifier, constrains what the options name: `PolicyAsked`, `OriginAsked`) and
`OneBundle`. The last step is about texts: a certificate identity is written from
the run by `SanText` and read by two parsers, one that splits at the first `@` and
one that wants only one; they agree because joining and splitting at `/` are
inverse to each other for names without `/`, and because folding the case of the
text up to its third `/` touches host and owner only.
`OnlyBundleOfTheFile`, `NoUnenforceablePins` and `ShapeCheckLosesNothing` need
`Control` at most (`BundleInv`, `ShapeInv`); the last compares the client's
reading of the raw JSON with what serde and the conversions of `Bundle` do with
it. Assumptions: `InvocationsAssumption`; `FilesAssumption` (`parse_strict` accepts
no text that `serde_json` does not, and gives the same value; a file that is one
JSON text as a whole and on each line holds the same value in both readings);
`SignedAssumption` (no `/` in an owner's or repository's name, a rule of GitHub).

*Induction.* An invariant is inductive over steps. Facts about data of any length
are proved by the least counterexample (`LeastElement`): recursive functions such
as `Body` of an SCT list, `Canonical` or `Accumulate` are first shown to have a
solution, from the approximations up to each size, and then reasoned about by
their equation.

*Only model-checked.* The liveness properties `Returns` and `WalkEnds`, since the
prover does not treat fairness and ENABLED. The safety part of `Returns` is
`Progress`, which is proved.
The properties of the five runs that expect a violation are refuted there, not
proved. Every invariant and action property of the other runs has a theorem.

## Not modelled, and the plan

Not modelled, by choice: the arithmetic of ECDSA and SHA-256, DER, base64 and
PEM (libraries, or pure conversions without control of their own); `error.rs`,
`limits.rs` and `lib.rs` (declarations: each error is the outcome of the check
that returns it, each limit a constant); what the two programs print; the fuzz
targets and scripts around the entry points.

The order was: the verifier and its contract first, since all other parts exist
to feed it; then the loops whose correctness is an argument (glob, inclusion
proof); then the parsers, the trusted root with its dates, and the origin policy;
then the documents, notes and lists as they are written, and the programs that
call the library. What could follow:

1. `Sigstore`: the authority, the logs and the signers as actors that act over
   time, so that an accepted bundle can be traced back to the events that made
   it (agreement between report and world).
2. One document model for `BundleSet` and `StrictJson`, so that a repeated key is
   an event of the container parsers and not an outcome given with the text.
