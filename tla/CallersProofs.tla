--------------------------- MODULE CallersProofs ----------------------------
(***************************************************************************)
(* What the programs around the library report is what was asked of them,  *)
(* for every command line, every set of files and every order of a library *)
(* caller's calls.                                                         *)
(***************************************************************************)
EXTENDS Callers, SymbolicProofs, SequenceTheorems

Single(option) == \A a, b \in option : a = b

LEMMA TheOf ==
    ASSUME NEW option, option # {}
    PROVE  The(option) \in option /\ (Single(option) => option = {The(option)})
  BY DEF The, Single

-----------------------------------------------------------------------------
(***************************************************************************)
(* A pin that RejectSignerIdPins refuses is in no Verifier: build looks at *)
(* the policy itself, whoever made it.                                     *)
(***************************************************************************)
LEMMA BuildRejectsPins ==
    ASSUME NEW vb, VerifierBuild(vb) = Ok
    PROVE  /\ vb.trustStore # {} /\ vb.githubPolicy # {} /\ vb.originPolicy # {}
           /\ \A p \in vb.githubPolicy : p.signer.repository.ownerId = {} /\ p.signer.repository.repositoryId = {}
<1> DEFINE set == vb.trustStore # {} /\ vb.githubPolicy # {} /\ vb.originPolicy # {}
           unpinned == \A p \in vb.githubPolicy : RejectSignerIdPins(p.signer) = Ok
           known == \A origins \in vb.originPolicy : \A binding \in origins :
                       \E logs \in vb.trustStore : \E i \in DOMAIN logs : Sha256(logs[i].key) = binding.keyId
<1>1. FirstError(<< Check(set, "InvalidConfiguration"), Check(unpinned, "InvalidConfiguration"),
                    Check(known, "InvalidConfiguration") >>) = Ok
  BY DEF VerifierBuild
<1> HIDE DEF set, unpinned, known
<1>2. Check(set, "InvalidConfiguration") = Ok /\ Check(unpinned, "InvalidConfiguration") = Ok
  BY <1>1, FirstError3
<1>3. set /\ unpinned
  BY <1>2 DEF Check, Ok
<1>4. ASSUME NEW p \in vb.githubPolicy
      PROVE  p.signer.repository.ownerId = {} /\ p.signer.repository.repositoryId = {}
  BY <1>3 DEF unpinned, RejectSignerIdPins, Check, Ok
<1>5. QED
  BY <1>3, <1>4 DEF set

\* Only BuildVerifier makes a Verifier.
LEMMA VerifierUnmoved ==
    ASSUME [Next]_vars, ~BuildVerifier
    PROVE  verifier' = verifier
<1>1. CASE Subcommand \/ TakeValue \/ TakeStaging \/ TakeOperand
  BY <1>1 DEF Subcommand, TakeValue, TakeStaging, TakeOperand
<1>2. CASE CheckOptions \/ CheckExampleOptions
  BY <1>2 DEF CheckOptions, CheckExampleOptions
<1>3. CASE MakeConformancePolicy \/ LoadConformanceTrust
  BY <1>3 DEF MakeConformancePolicy, LoadConformanceTrust
<1>4. CASE MakeExamplePolicy \/ LoadExampleTrust
  BY <1>4 DEF MakeExamplePolicy, LoadExampleTrust
<1>5. CASE LoadConformanceBundle \/ LoadExampleBundle
  BY <1>5 DEF LoadConformanceBundle, LoadExampleBundle, Load
<1>6. CASE SetSource \/ SetSigner \/ BuildPolicy \/ WritePolicy
  BY <1>6 DEF SetSource, SetSigner, BuildPolicy, WritePolicy
<1>7. CASE SetTrustStore \/ SetGithubPolicy \/ SetOriginPolicy \/ ReadyToBuild
  BY <1>7 DEF SetTrustStore, SetGithubPolicy, SetOriginPolicy, ReadyToBuild
<1>8. CASE Verify \/ UNCHANGED vars
  BY <1>8 DEF Verify, vars
<1>9. QED
  BY <1>1, <1>2, <1>3, <1>4, <1>5, <1>6, <1>7, <1>8 DEF Next

(***************************************************************************)
(* No Verifier holds a pin that cannot be enforced, by whichever calls, in *)
(* whichever order, or struct it was configured.                           *)
(***************************************************************************)
THEOREM NoPinsHeld == Spec => []NoUnenforceablePins
<1>1. Init => NoUnenforceablePins
  BY DEF Init, NoUnenforceablePins
<1>2. NoUnenforceablePins /\ [Next]_vars => NoUnenforceablePins'
  <2> SUFFICES ASSUME NoUnenforceablePins, [Next]_vars PROVE NoUnenforceablePins'
    OBVIOUS
  <2>1. CASE ~BuildVerifier
    BY <2>1, VerifierUnmoved DEF NoUnenforceablePins
  <2>2. CASE BuildVerifier
    <3>1. CASE VerifierBuild(builder) # Ok
      BY <2>2, <3>1 DEF BuildVerifier, NoUnenforceablePins
    <3>2. CASE VerifierBuild(builder) = Ok
      <4>1. /\ builder.githubPolicy # {}
            /\ \A p \in builder.githubPolicy :
                  p.signer.repository.ownerId = {} /\ p.signer.repository.repositoryId = {}
        BY <3>2, BuildRejectsPins
      <4>2. The(builder.githubPolicy) \in builder.githubPolicy
        BY <4>1, TheOf
      <4>3. verifier' = {[logs |-> The(builder.trustStore), githubPolicy |-> The(builder.githubPolicy),
                          originPolicy |-> The(builder.originPolicy)]}
        BY <2>2, <3>2 DEF BuildVerifier
      <4>4. QED
        BY <4>1, <4>2, <4>3 DEF NoUnenforceablePins
    <3>3. QED
      BY <3>1, <3>2
  <2>3. QED
    BY <2>1, <2>2
<1>3. QED
  BY <1>1, <1>2, PTL DEF Spec

-----------------------------------------------------------------------------
\* The lines of a file that are not blank are a sequence.
LEMMA WrittenIsSeq ==
    ASSUME NEW path \in DOMAIN Files
    PROVE  /\ Len(Written(Files[path])) \in Nat
           /\ DOMAIN Written(Files[path]) = 1..Len(Written(Files[path]))
<1> DEFINE lines == Files[path].lines
           S == {i \in DOMAIN lines : ~lines[i].blank}
           written == [k \in DOMAIN Ascending(S) |-> lines[Ascending(S)[k]]]
<1>1. Written(Files[path]) = written
  BY DEF Written, Filter
<1>2. lines \in Seq({lines[i] : i \in DOMAIN lines})
  BY FilesAssumption DEF FilesAssumption
<1> DEFINE T == {lines[i] : i \in DOMAIN lines}
<1>3. DOMAIN lines = 1..Len(lines) /\ Len(lines) \in Nat
  <2> HIDE DEF T, lines
  <2>1. lines \in Seq(T)
    BY <1>2 DEF T
  <2>2. QED
    BY <2>1, LenProperties
<1>4. S \in SUBSET Nat /\ IsFiniteSet(S)
  <2> DEFINE D == 1..Len(lines)
  <2>1. S \subseteq D /\ D \subseteq Nat
    BY <1>3
  <2>2. IsFiniteSet(D)
    BY <1>3, FS_Interval
  <2>3. QED
    BY <2>1, <2>2, FS_Subset
<1> HIDE DEF S
<1>5. Cardinality(S) \in Nat /\ DOMAIN Ascending(S) = 1..Cardinality(S)
  BY <1>4, AscendingProperties
<1>6. DOMAIN written = 1..Cardinality(S)
  BY <1>5
<1>7. Len(written) = Cardinality(S)
  <2> DEFINE n == Cardinality(S)
             el(k) == lines[Ascending(S)[k]]
  <2>1. n \in Nat /\ written = [k \in 1..n |-> el(k)]
    BY <1>5
  <2> HIDE DEF n, el, written
  <2>2. Len([k \in 1..n |-> el(k)]) = n
    BY <2>1
  <2>3. QED
    BY <2>1, <2>2 DEF n
<1>8. QED
  BY <1>1, <1>5, <1>6, <1>7

\* load_bundle gives the bundle a file holds, if it gives one.
LEMMA LoadsTheOnlyBundle ==
    ASSUME NEW path \in DOMAIN Files, ExampleBundle[path].bundle # {}
    PROVE  ExampleBundle[path].bundle = {The(RawBundle(text.value)) : text \in BundlesOf(Files[path])}
<1> DEFINE file == Files[path]
           written == Written(file)
           R(text) == The(RawBundle(text.value))
           AllLines == \A i \in DOMAIN written : BundleFromText(written[i]) = Ok
<1>1. /\ ExampleBundle[path].bundle = {R(text) : text \in LoadBundle(file).text}
      /\ ExampleBundle[path].outcome = LoadBundle(file).outcome
  BY DEF ExampleBundle
<1>2. BundlesOf(file) = {text \in {file.whole} : BundleFromText(text) = Ok}
                          \union {text \in Range(written) : AllLines}
  BY DEF BundlesOf
<1>3. Len(written) \in Nat /\ DOMAIN written = 1..Len(written)
  BY WrittenIsSeq
<1>4. CASE BundleFromText(file.whole) = Ok
  <2>1. LoadBundle(file).text = {file.whole}
    BY <1>4 DEF LoadBundle
  <2>2. file.whole.json = Ok
    BY <1>4 DEF BundleFromText
  <2>3. ASSUME AllLines, NEW text \in Range(written)
        PROVE  R(text) = R(file.whole)
    <3>1. \A i \in DOMAIN written : written[i].json = Ok
      BY <2>3 DEF BundleFromText
    <3>2. \A i \in DOMAIN written : written[i].value = file.whole.value
      BY <2>2, <3>1, FilesAssumption DEF FilesAssumption
    <3>3. PICK i \in DOMAIN written : text = written[i]
      BY <2>3 DEF Range
    <3>4. QED
      BY <3>2, <3>3
  <2> HIDE DEF R, AllLines, written
  <2>4. {R(text) : text \in BundlesOf(file)} = {R(file.whole)}
    BY <1>2, <1>4, <2>3
  <2>5. QED
    BY <1>1, <2>1, <2>4 DEF R
<1>5. CASE BundleFromText(file.whole) # Ok
  <2>1. FromJsonLines(file) = Ok
    BY <1>1, <1>5 DEF LoadBundle
  <2>2. LoadBundle(file).text = {written[i] : i \in {1} \intersect {Len(written)}}
    BY <1>5, <2>1 DEF LoadBundle
  <2>3. Len(written) = 1
    <3> HIDE DEF written, R
    <3>1. {1} \intersect {Len(written)} # {}
      BY <1>1, <2>2
    <3>2. QED
      BY <3>1
  <2>4. AllLines
    <3>1. FirstError([i \in DOMAIN written |-> BundleFromText(written[i])]) = Ok
      <4> DEFINE a == FirstError([i \in DOMAIN written |-> BundleFromText(written[i])])
                 b == Check(written # <<>>, "EmptyContainer")
                 c == Check(Len(written) <= MaxBundlesPerSet, "TooManyBundles")
      <4>1. FirstError(<<a, b, c>>) = Ok
        BY <2>1 DEF FromJsonLines
      <4> HIDE DEF a, b, c
      <4>2. a = Ok
        BY <4>1, FirstError3
      <4>3. QED
        BY <4>2 DEF a
    <3> DEFINE out == [i \in DOMAIN written |-> BundleFromText(written[i])]
    <3>2. DOMAIN out \subseteq Nat
      BY <1>3
    <3>3. \A i \in DOMAIN out : out[i] = Ok
      <4> HIDE DEF out
      <4>1. FirstError(out) = Ok
        BY <3>1 DEF out
      <4>2. QED
        BY <3>2, <4>1, FirstErrorOk
    <3>4. QED
      BY <3>3
  <2>5. Range(written) = {written[1]}
    <3> HIDE DEF written
    <3>1. DOMAIN written = {1}
      BY <1>3, <2>3
    <3>2. QED
      BY <3>1 DEF Range
  <2>6. LoadBundle(file).text = {written[1]}
    BY <2>2, <2>3
  <2> HIDE DEF R, AllLines, written
  <2>7. BundlesOf(file) = {written[1]}
    BY <1>2, <1>5, <2>4, <2>5
  <2>8. QED
    BY <1>1, <2>6, <2>7 DEF R
<1>6. QED
  BY <1>4, <1>5

-----------------------------------------------------------------------------
(***************************************************************************)
(* The options are read before anything is made of them, and not changed   *)
(* afterwards; an outcome ends the run.                                    *)
(***************************************************************************)
TextOptions == OptionNames \ {"--owner-id", "--repo-id", "--staging"}

OptsTyped ==
    /\ DOMAIN opts = OptionNames
    /\ \A name \in OptionNames : Single(opts[name])
    /\ \A name \in TextOptions : opts[name] \subseteq Seq(STRING)

Control ==
    /\ run \in Invocations
    /\ rest \in Seq(Seq(STRING))
    /\ OptsTyped
    /\ result # "Pending" => pc = "done"
    /\ pc \in {"subcommand", "args"} =>
          bundle = {} /\ verifier = {} /\ builder.githubPolicy = {} /\ builder.originPolicy = {}

ReadArguments == Subcommand \/ TakeValue \/ TakeStaging \/ TakeOperand

LEMMA FromStrSingle ==
    ASSUME NEW text
    PROVE  Single(FromStr(text))
  BY DEF Single, FromStr

LEMMA FlagNames ==
    ASSUME NEW program \in {"conformance", "example", "library"}, NEW flag \in ValueFlags[program]
    PROVE  flag \in OptionNames /\ flag # "--staging" /\ "operand" \in TextOptions /\ "--staging" \in OptionNames
  BY DEF ValueFlags, OptionNames, TextOptions

LEMMA SetOption ==
    ASSUME OptsTyped, NEW name \in OptionNames, NEW option, Single(option),
           name \in TextOptions => option \subseteq Seq(STRING), opts' = [opts EXCEPT ![name] = option]
    PROVE  OptsTyped'
<1>1. DOMAIN opts' = OptionNames
  BY DEF OptsTyped
<1>2. ASSUME NEW n \in OptionNames
      PROVE  opts'[n] = IF n = name THEN option ELSE opts[n]
  BY DEF OptsTyped
<1>3. TextOptions \subseteq OptionNames
  BY DEF TextOptions
<1> HIDE DEF OptsTyped
<1>4. \A n \in OptionNames : Single(opts'[n])
  BY <1>2 DEF OptsTyped
<1>5. \A n \in TextOptions : opts'[n] \subseteq Seq(STRING)
  BY <1>2, <1>3 DEF OptsTyped
<1>6. QED
  BY <1>1, <1>4, <1>5 DEF OptsTyped

LEMMA InvocationProgram ==
    ASSUME NEW i \in Invocations
    PROVE  i.program \in {"conformance", "example", "library"} /\ i.args \in Seq(Seq(STRING))
  BY InvocationsAssumption DEF InvocationsAssumption

LEMMA FirstArgument ==
    ASSUME NEW args \in Seq(Seq(STRING)), args # <<>>
    PROVE  /\ args[1] \in Seq(STRING) /\ Tail(args) \in Seq(Seq(STRING))
           /\ Len(args) # 1 => args[2] \in Seq(STRING)
           /\ SubSeq(args, 3, Len(args)) \in Seq(Seq(STRING))
<1> DEFINE T == Seq(STRING)
<1> HIDE DEF T
<1> SUFFICES /\ args[1] \in T /\ Tail(args) \in Seq(T)
             /\ Len(args) # 1 => args[2] \in T
             /\ SubSeq(args, 3, Len(args)) \in Seq(T)
  BY DEF T
<1>1. args \in Seq(T)
  BY DEF T
<1>2. Len(args) \in Nat \ {0} /\ DOMAIN args = 1..Len(args) /\ \A i \in 1..Len(args) : args[i] \in T
  BY <1>1, LenProperties, EmptySeq, ElementOfSeq
<1>3. \A i \in 3..Len(args) : args[i] \in T
  BY <1>2
<1>4. SubSeq(args, 3, Len(args)) \in Seq(T)
  BY <1>2, <1>3, SubSeqProperties
<1>5. QED
  BY <1>1, <1>2, <1>4, HeadTailProperties

\* What one step of the argument loop does.
LEMMA ArgumentStep ==
    ASSUME Control, ReadArguments
    PROVE  /\ pc \in {"subcommand", "args"}
           /\ UNCHANGED <<run, policy, builder, held, bundle, verifier>>
           /\ rest' \in Seq(Seq(STRING)) /\ OptsTyped'
           /\ \/ pc' = "args" /\ result' = result
              \/ pc' = "done" /\ result' \in {"Usage", "Unsupported"}
<1>1. run.program \in {"conformance", "example", "library"}
  BY InvocationProgram DEF Control
<1>2. rest \in Seq(Seq(STRING)) /\ OptsTyped
  BY DEF Control
<1>3. CASE Subcommand
  <2>1. rest' \in Seq(Seq(STRING))
    BY <1>2, <1>3, FirstArgument DEF Subcommand
  <2>2. OptsTyped'
    BY <1>2, <1>3 DEF Subcommand, OptsTyped
  <2>3. QED
    BY <1>3, <2>1, <2>2 DEF Subcommand, Try, Return, Check, Ok
<1>4. CASE TakeValue
  <2> DEFINE flag == rest[1][1]
             isId == flag \in {"--owner-id", "--repo-id"}
             value == IF isId THEN FromStr(rest[2]) ELSE {rest[2]}
  <2>1. rest # <<>> /\ IsFlag(rest[1]) /\ rest' = SubSeq(rest, 3, Len(rest))
    BY <1>4 DEF TakeValue
  <2>2. /\ rest' \in Seq(Seq(STRING))
        /\ Len(rest) # 1 => rest[2] \in Seq(STRING)
    BY <1>2, <2>1, FirstArgument
  <2>3. flag \in ValueFlags[run.program]
    BY <2>1 DEF IsFlag
  <2>4. flag \in OptionNames /\ flag # "--staging"
    BY <1>1, <2>3, FlagNames
  <2>5. OptsTyped'
    <3>1. CASE Len(rest) = 1
      BY <1>2, <1>4, <3>1 DEF TakeValue, OptsTyped
    <3>2. CASE Len(rest) # 1
      <4>1. opts' = [opts EXCEPT ![flag] = value]
        BY <1>4, <3>2 DEF TakeValue
      <4>2. Single(value)
        BY FromStrSingle DEF Single
      <4>3. flag \in TextOptions => value \subseteq Seq(STRING)
        BY <2>2, <3>2 DEF TextOptions
      <4> HIDE DEF flag, value
      <4>4. QED
        BY <1>2, <2>4, <4>1, <4>2, <4>3, SetOption
    <3>3. QED
      BY <3>1, <3>2
  <2>6. /\ pc = "args"
        /\ UNCHANGED <<run, policy, builder, held, bundle, verifier>>
        /\ \/ pc' = "args" /\ result' = result
           \/ pc' = "done" /\ result' \in {"Usage", "Unsupported"}
    BY <1>4 DEF TakeValue, Try, Return, Check, Ok
  <2>7. QED
    BY <2>2, <2>5, <2>6
<1>5. CASE TakeStaging
  <2>1. /\ rest # <<>> /\ rest' = Tail(rest) /\ opts' = [opts EXCEPT !["--staging"] = {TRUE}]
        /\ pc = "args"
        /\ UNCHANGED <<run, pc, policy, builder, held, bundle, verifier, result>>
    BY <1>5 DEF TakeStaging
  <2>2. rest' \in Seq(Seq(STRING))
    BY <1>2, <2>1, FirstArgument
  <2>3. "--staging" \in OptionNames /\ "--staging" \notin TextOptions /\ Single({TRUE})
    BY DEF OptionNames, TextOptions, Single
  <2>4. OptsTyped'
    BY <1>2, <2>1, <2>3, SetOption
  <2>5. QED
    BY <2>1, <2>2, <2>4
<1>6. CASE TakeOperand
  <2>1. rest # <<>> /\ rest' = Tail(rest)
    BY <1>6 DEF TakeOperand
  <2>2. rest' \in Seq(Seq(STRING)) /\ rest[1] \in Seq(STRING)
    BY <1>2, <2>1, FirstArgument
  <2>3. opts' = opts \/ opts' = [opts EXCEPT !["operand"] = {rest[1]}]
    BY <1>6 DEF TakeOperand
  <2>4. "operand" \in OptionNames /\ Single({rest[1]}) /\ {rest[1]} \subseteq Seq(STRING)
    BY <2>2 DEF OptionNames, Single
  <2>5. OptsTyped'
    <3>1. CASE opts' = opts
      BY <1>2, <3>1 DEF OptsTyped
    <3>2. CASE opts' = [opts EXCEPT !["operand"] = {rest[1]}]
      BY <1>2, <2>4, <3>2, SetOption
    <3>3. QED
      BY <2>3, <3>1, <3>2
  <2>6. /\ pc = "args"
        /\ UNCHANGED <<run, policy, builder, held, bundle, verifier>>
        /\ \/ pc' = "args" /\ result' = result
           \/ pc' = "done" /\ result' \in {"Usage", "Unsupported"}
    BY <1>6 DEF TakeOperand, Try, Return, Check, Ok
  <2>7. QED
    BY <2>2, <2>5, <2>6
<1>7. QED
  BY <1>3, <1>4, <1>5, <1>6 DEF ReadArguments

\* What every other step leaves alone.
LEMMA LaterStep ==
    ASSUME Next, ~ReadArguments
    PROVE  /\ UNCHANGED <<run, rest, opts>>
           /\ pc # "done" /\ pc' \notin {"subcommand", "args"}
           /\ pc' # "done" => result' = result
<1>1. CASE CheckOptions
  BY <1>1 DEF CheckOptions, Try, Return
<1>2. CASE CheckExampleOptions
  BY <1>2 DEF CheckExampleOptions, Try, Return
<1>3. CASE MakeConformancePolicy
  BY <1>3 DEF MakeConformancePolicy, Try, Return
<1>4. CASE LoadConformanceTrust
  BY <1>4 DEF LoadConformanceTrust, Try, Return
<1>5. CASE MakeExamplePolicy
  BY <1>5 DEF MakeExamplePolicy, Try, Return
<1>6. CASE LoadExampleTrust
  BY <1>6 DEF LoadExampleTrust, Try, Return
<1>7. CASE LoadConformanceBundle
  BY <1>7 DEF LoadConformanceBundle, Load, Try, Return
<1>8. CASE LoadExampleBundle
  BY <1>8 DEF LoadExampleBundle, Load, Try, Return
<1>9. CASE SetSource \/ SetSigner \/ BuildPolicy \/ WritePolicy
  BY <1>9 DEF SetSource, SetSigner, BuildPolicy, WritePolicy, library
<1>10. CASE SetTrustStore \/ SetGithubPolicy \/ SetOriginPolicy \/ ReadyToBuild
  BY <1>10 DEF SetTrustStore, SetGithubPolicy, SetOriginPolicy, ReadyToBuild, library
<1>11. CASE BuildVerifier
  BY <1>11 DEF BuildVerifier, Try, Return
<1>12. CASE Verify
  BY <1>12 DEF Verify, Return
<1>13. QED
  BY <1>1, <1>2, <1>3, <1>4, <1>5, <1>6, <1>7, <1>8, <1>9, <1>10, <1>11, <1>12 DEF Next, ReadArguments

LEMMA ControlInit == Init => Control
<1> SUFFICES ASSUME Init PROVE Control
  OBVIOUS
<1>1. run \in Invocations /\ rest = run.args /\ opts = [o \in OptionNames |-> {}] /\ result = "Pending"
      /\ builder = VerifierBuilder /\ bundle = {} /\ verifier = {}
  BY DEF Init
<1>2. rest \in Seq(Seq(STRING))
  BY <1>1, InvocationProgram
<1>3. OptsTyped
  BY <1>1 DEF OptsTyped, Single, TextOptions
<1>4. builder.githubPolicy = {} /\ builder.originPolicy = {}
  BY <1>1 DEF VerifierBuilder
<1>5. QED
  BY <1>1, <1>2, <1>3, <1>4 DEF Control

LEMMA ControlNext == Control /\ [Next]_vars => Control'
<1> SUFFICES ASSUME Control, [Next]_vars PROVE Control'
  OBVIOUS
<1>1. CASE ReadArguments
  BY <1>1, ArgumentStep DEF Control
<1>2. CASE Next /\ ~ReadArguments
  <2>1. /\ UNCHANGED <<run, rest, opts>>
        /\ pc # "done" /\ pc' \notin {"subcommand", "args"}
        /\ pc' # "done" => result' = result
    BY <1>2, LaterStep
  <2>2. OptsTyped'
    BY <2>1 DEF Control, OptsTyped
  <2>3. QED
    BY <2>1, <2>2 DEF Control
<1>3. CASE UNCHANGED vars
  BY <1>3 DEF vars, Control, OptsTyped
<1>4. QED
  BY <1>1, <1>2, <1>3

-----------------------------------------------------------------------------
\* Only the two loads and ReadyToBuild give a caller a bundle.
LEMMA BundleUnmoved ==
    ASSUME Next, ~ReadArguments, ~LoadConformanceBundle, ~LoadExampleBundle, ~ReadyToBuild
    PROVE  bundle' = bundle
<1>1. CASE CheckOptions \/ CheckExampleOptions
  BY <1>1 DEF CheckOptions, CheckExampleOptions
<1>2. CASE MakeConformancePolicy \/ LoadConformanceTrust
  BY <1>2 DEF MakeConformancePolicy, LoadConformanceTrust
<1>3. CASE MakeExamplePolicy \/ LoadExampleTrust
  BY <1>3 DEF MakeExamplePolicy, LoadExampleTrust
<1>4. CASE SetSource \/ SetSigner \/ BuildPolicy \/ WritePolicy
  BY <1>4 DEF SetSource, SetSigner, BuildPolicy, WritePolicy
<1>5. CASE SetTrustStore \/ SetGithubPolicy \/ SetOriginPolicy
  BY <1>5 DEF SetTrustStore, SetGithubPolicy, SetOriginPolicy
<1>6. CASE BuildVerifier \/ Verify
  BY <1>6 DEF BuildVerifier, Verify
<1>7. QED
  BY <1>1, <1>2, <1>3, <1>4, <1>5, <1>6 DEF Next, ReadArguments

\* What a load gives is what the program makes of the one file it was told.
LEMMA Loaded ==
    ASSUME NEW program, NEW place, Load(program, place), Control
    PROVE  /\ run' = run /\ opts' = opts
           /\ \/ bundle' = bundle /\ result' = "Io"
              \/ \E path \in DOMAIN Files :
                    /\ opts["--bundle"] = {path} /\ bundle' = program[path].bundle
                    /\ \/ program[path].outcome = Ok /\ pc' = place /\ result' = result
                       \/ program[path].outcome # Ok /\ pc' = "done" /\ result' = program[path].outcome
<1>1. Single(opts["--bundle"])
  BY DEF Control, OptsTyped, OptionNames, ValueFlags
<1>2. ASSUME NEW path \in opts["--bundle"] \intersect DOMAIN Files
      PROVE  opts["--bundle"] = {path}
  BY <1>1 DEF Single
<1>3. QED
  BY <1>2 DEF Load, Try, Return

BundleInv == Control /\ OnlyBundleOfTheFile

LEMMA BundleNext == BundleInv /\ [Next]_vars => BundleInv'
<1> SUFFICES ASSUME BundleInv, [Next]_vars PROVE OnlyBundleOfTheFile'
  BY ControlNext DEF BundleInv
<1> USE DEF BundleInv
<1>1. CASE ReadArguments
  <2>1. bundle' = {}
    BY <1>1, ArgumentStep DEF Control
  <2>2. QED
    BY <2>1 DEF OnlyBundleOfTheFile
<1>2. CASE Next /\ ~ReadArguments /\ ~LoadConformanceBundle /\ ~LoadExampleBundle /\ ~ReadyToBuild
  <2>1. UNCHANGED <<run, opts, bundle>>
    BY <1>2, LaterStep, BundleUnmoved
  <2>2. QED
    BY <2>1 DEF OnlyBundleOfTheFile
<1>3. CASE LoadConformanceBundle \/ ReadyToBuild
  <2>1. run' = run /\ run.program # "example"
    BY <1>3 DEF LoadConformanceBundle, ReadyToBuild, library, Load
  <2>2. QED
    BY <2>1 DEF OnlyBundleOfTheFile
<1>4. CASE LoadExampleBundle
  <2>1. Load(ExampleBundle, "policy")
    BY <1>4 DEF LoadExampleBundle
  <2>2. /\ run' = run /\ opts' = opts
        /\ \/ bundle' = bundle
           \/ \E path \in DOMAIN Files : opts["--bundle"] = {path} /\ bundle' = ExampleBundle[path].bundle
    BY <2>1, Loaded
  <2>3. CASE bundle' = bundle
    BY <2>2, <2>3 DEF OnlyBundleOfTheFile
  <2>4. ASSUME NEW path \in DOMAIN Files, opts["--bundle"] = {path}, bundle' = ExampleBundle[path].bundle
        PROVE  OnlyBundleOfTheFile'
    <3>1. bundle' # {} => bundle' = {The(RawBundle(text.value)) : text \in BundlesOf(Files[path])}
      BY <2>4, LoadsTheOnlyBundle
    <3>2. {Files[q] : q \in opts'["--bundle"]} = {Files[path]}
      BY <2>2, <2>4
    <3>3. QED
      BY <3>1, <3>2 DEF OnlyBundleOfTheFile
  <2>5. QED
    BY <2>2, <2>3, <2>4
<1>5. CASE UNCHANGED vars
  BY <1>5 DEF vars, OnlyBundleOfTheFile
<1>6. QED
  BY <1>1, <1>2, <1>3, <1>4, <1>5

(***************************************************************************)
(* The bundle load_bundle returns is the only one the file holds, whether  *)
(* it is read as one bundle or as one bundle on each line.                 *)
(***************************************************************************)
THEOREM TheBundleOfTheFile == Spec => []OnlyBundleOfTheFile
<1>1. Init => BundleInv
  BY ControlInit DEF Init, BundleInv, OnlyBundleOfTheFile
<1>2. BundleInv => OnlyBundleOfTheFile
  BY DEF BundleInv
<1>3. QED
  BY <1>1, <1>2, BundleNext, PTL DEF Spec

-----------------------------------------------------------------------------
(***************************************************************************)
(* The client's look at a bundle and serde's reading of it meet in Given:  *)
(* a member found by its key is what the field of that key is read from.   *)
(***************************************************************************)
LEMMA MemberIsGiven ==
    ASSUME NEW values, NEW key, NEW x \in Member(values, key)
    PROVE  \E v \in values : \A i : Given(v, i, key) = {x}
<1>1. PICK v \in values : Is(v, "obj") /\ key \in DOMAIN v.obj /\ x = v.obj[key]
  BY DEF Member
<1>2. ASSUME NEW i PROVE Given(v, i, key) = {x}
  BY <1>1 DEF Given
<1>3. QED
  BY <1>2

LEMMA ReadBundle ==
    ASSUME NEW text, BundleFromText(text) = Ok
    PROVE  LET raw == The(RawBundle(text.value))
           IN  /\ text.json = Ok
               /\ raw \in RawBundle(text.value)
               /\ raw.mediaType = BundleMediaType
<1> DEFINE raw == The(RawBundle(text.value))
<1>1. text.json = Ok /\ BundleFromValue(text.value) = Ok
  BY DEF BundleFromText
<1>2. RawBundle(text.value) # {} /\ BundleFromRaw(raw) = Ok
  BY <1>1 DEF BundleFromValue, Ok
<1>3. raw \in RawBundle(text.value)
  BY <1>2, TheOf
<1>4. raw.mediaType = BundleMediaType
  <2> HIDE DEF raw
  <2> DEFINE a == Check(raw.mediaType = BundleMediaType, "MediaType")
             b == VerificationMaterialFromRaw(raw.verificationMaterial)
             c == DsseEnvelopeFromRaw(raw.dsseEnvelope)
  <2>1. FirstError(<<a, b, c>>) = Ok
    BY <1>2 DEF BundleFromRaw
  <2>2. a = Ok
    <3> HIDE DEF a, b, c
    <3>1. QED
      BY <2>1, FirstError3
  <2>3. QED
    BY <2>2 DEF Check, Ok
<1>5. QED
  BY <1>1, <1>3, <1>4

LEMMA ReadMediaType ==
    ASSUME NEW v, NEW raw \in RawBundle(v), NEW x \in Member({v}, "mediaType"), Is(x, "str")
    PROVE  raw.mediaType = x.str
<1>1. Given(v, 1, "mediaType") = {x}
  BY MemberIsGiven
<1>2. raw.mediaType \in Field(v, 1, "mediaType", String)
  BY DEF RawBundle, Struct
<1>3. QED
  BY <1>1, <1>2 DEF Field, String

LEMMA ReadEntries ==
    ASSUME NEW v, NEW raw \in RawBundle(v),
           NEW e \in First(Member(Member({v}, "verificationMaterial"), "tlogEntries"))
    PROVE  LET entries == raw.verificationMaterial.tlogEntries
           IN  1 \in DOMAIN entries /\ entries[1] \in RawTlogEntry(e)
<1> DEFINE material == raw.verificationMaterial
<1>1. PICK a \in Member(Member({v}, "verificationMaterial"), "tlogEntries") :
          Is(a, "arr") /\ 1 \in DOMAIN a.arr /\ e = a.arr[1]
  BY DEF First
<1>2. PICK m \in Member({v}, "verificationMaterial") : \A i : Given(m, i, "tlogEntries") = {a}
  BY MemberIsGiven
<1>3. Given(v, 2, "verificationMaterial") = {m}
  BY MemberIsGiven
<1>4. material \in RawVerificationMaterial(m)
  <2>1. material \in Field(v, 2, "verificationMaterial", RawVerificationMaterial)
    BY DEF RawBundle, Struct
  <2>2. QED
    BY <1>3, <2>1 DEF Field
<1>5. material.tlogEntries \in VecField(m, 2, "tlogEntries", RawTlogEntry)
  <2> HIDE DEF material
  <2>1. QED
    BY <1>4 DEF RawVerificationMaterial, Struct
<1>6. material.tlogEntries \in Vec(a, RawTlogEntry)
  <2> HIDE DEF material
  <2>1. Given(m, 2, "tlogEntries") = {a}
    BY <1>2
  <2>2. QED
    BY <1>5, <2>1 DEF VecField
<1>7. /\ \A i \in DOMAIN a.arr : RawTlogEntry(a.arr[i]) # {}
      /\ material.tlogEntries = [i \in DOMAIN a.arr |-> The(RawTlogEntry(a.arr[i]))]
  <2> HIDE DEF material
  <2>1. QED
    BY <1>6 DEF Vec
<1>8. material.tlogEntries[1] = The(RawTlogEntry(e)) /\ 1 \in DOMAIN material.tlogEntries
  BY <1>1, <1>7
<1>9. The(RawTlogEntry(e)) \in RawTlogEntry(e)
  BY <1>1, <1>7, TheOf
<1>10. QED
  BY <1>8, <1>9

LEMMA ReadKindVersion ==
    ASSUME NEW e, NEW raw \in RawTlogEntry(e), NEW key \in {"kind", "version"},
           NEW x \in Member(Member({e}, "kindVersion"), key), Is(x, "str")
    PROVE  /\ key = "kind" => raw.kindVersion.kind = x.str
           /\ key = "version" => raw.kindVersion.version = x.str
<1> DEFINE read == raw.kindVersion
<1>1. PICK k \in Member({e}, "kindVersion") : \A i : Given(k, i, key) = {x}
  BY MemberIsGiven
<1>2. Given(e, 3, "kindVersion") = {k}
  BY MemberIsGiven
<1>3. read \in Field(e, 3, "kindVersion", RawKindVersion)
  BY DEF RawTlogEntry, Struct
<1>4. read \in RawKindVersion(k)
  BY <1>2, <1>3 DEF Field
<1> HIDE DEF read
<1>5. read.kind \in Field(k, 1, "kind", String) /\ read.version \in Field(k, 2, "version", String)
  BY <1>4 DEF RawKindVersion, Struct
<1>6. CASE key = "kind"
  <2>1. Given(k, 1, "kind") = {x}
    BY <1>1, <1>6
  <2>2. read.kind = x.str
    BY <1>5, <2>1 DEF Field, String
  <2>3. QED
    BY <1>6, <2>2 DEF read
<1>7. CASE key = "version"
  <2>1. Given(k, 2, "version") = {x}
    BY <1>1, <1>7
  <2>2. read.version = x.str
    BY <1>5, <2>1 DEF Field, String
  <2>3. QED
    BY <1>7, <2>2 DEF read
<1>8. QED
  BY <1>6, <1>7

LEMMA RefusedRightly ==
    ASSUME NEW path \in DOMAIN Files, RejectUnsupportedBundleShape(Files[path].loose) # Ok
    PROVE  RightlyRefused(Files[path])
<1> DEFINE file == Files[path]
           v == file.whole.value
           raw == The(RawBundle(v))
           material == Member({v}, "verificationMaterial")
           entry == First(Member(material, "tlogEntries"))
           entries == raw.verificationMaterial.tlogEntries
<1> SUFFICES ASSUME BundleFromText(file.whole) = Ok PROVE RightlyRefused(file)
  BY DEF RightlyRefused
<1>1. file.whole.json = Ok /\ raw \in RawBundle(v) /\ raw.mediaType = BundleMediaType
  BY ReadBundle
<1>2. file.loose = {v}
  BY <1>1, FilesAssumption DEF FilesAssumption
<1> DEFINE noKey == Member(material, "publicKey") \subseteq {Null}
           v1 == ~(AsStr(Member(Member(entry, "kindVersion"), "version")) = {"0.0.2"}
                      /\ Member(entry, "integratedTime") = {})
           notHashed == AsStr(Member(Member(entry, "kindVersion"), "kind")) # {"hashedrekord"}
           media == AsStr(Member({v}, "mediaType")) \subseteq {BundleMediaType}
<1>3. FirstError(<< Check(noKey, "ManagedKey"), Check(v1, "RekorV2"), Check(notHashed, "HashedRekord"),
                    Check(media, "BundleMediaType") >>) # Ok
  BY <1>2 DEF RejectUnsupportedBundleShape
<1>4. ~noKey \/ ~v1 \/ ~notHashed \/ ~media
  <2> HIDE DEF noKey, v1, notHashed, media
  <2>1. ~(/\ Check(noKey, "ManagedKey") = Ok /\ Check(v1, "RekorV2") = Ok
          /\ Check(notHashed, "HashedRekord") = Ok /\ Check(media, "BundleMediaType") = Ok)
    BY <1>3, FirstError4
  <2>2. QED
    BY <2>1 DEF Check
<1>5. CASE ~noKey
  BY <1>5 DEF RightlyRefused
<1>6. ASSUME NEW key \in {"kind", "version"}, NEW e \in entry,
             NEW x \in Member(Member({e}, "kindVersion"), key), Is(x, "str"),
             key = "kind" => x.str = "hashedrekord", key = "version" => x.str = "0.0.2"
      PROVE  RightlyRefused(file)
  <2>1. 1 \in DOMAIN entries /\ entries[1] \in RawTlogEntry(e)
    BY <1>1, ReadEntries
  <2>2. /\ key = "kind" => entries[1].kindVersion.kind = x.str
        /\ key = "version" => entries[1].kindVersion.version = x.str
    BY <1>6, <2>1, ReadKindVersion
  <2>3. entries[1].kindVersion # [kind |-> "dsse", version |-> "0.0.1"]
    BY <1>6, <2>2
  <2>4. QED
    BY <2>1, <2>3 DEF RightlyRefused
<1>7. ASSUME NEW key, NEW s, AsStr(Member(Member(entry, "kindVersion"), key)) = {s}
      PROVE  \E e \in entry : \E x \in Member(Member({e}, "kindVersion"), key) : Is(x, "str") /\ x.str = s
  <2> HIDE DEF entry
  <2>1. PICK x \in Member(Member(entry, "kindVersion"), key) : Is(x, "str") /\ x.str = s
    BY <1>7 DEF AsStr
  <2>2. PICK k \in Member(entry, "kindVersion") : x \in Member({k}, key)
    BY DEF Member
  <2>3. PICK e \in entry : k \in Member({e}, "kindVersion")
    BY DEF Member
  <2>4. x \in Member(Member({e}, "kindVersion"), key)
    BY <2>2, <2>3 DEF Member
  <2>5. QED
    BY <2>1, <2>4
<1>8. CASE ~v1
  <2>1. AsStr(Member(Member(entry, "kindVersion"), "version")) = {"0.0.2"}
    BY <1>8
  <2> HIDE DEF entry
  <2>2. PICK e \in entry : \E x \in Member(Member({e}, "kindVersion"), "version") : Is(x, "str") /\ x.str = "0.0.2"
    BY <1>7, <2>1
  <2>3. PICK x \in Member(Member({e}, "kindVersion"), "version") : Is(x, "str") /\ x.str = "0.0.2"
    BY <2>2
  <2>4. QED
    BY <1>6, <2>3
<1>9. CASE ~notHashed
  <2>1. AsStr(Member(Member(entry, "kindVersion"), "kind")) = {"hashedrekord"}
    BY <1>9
  <2> HIDE DEF entry
  <2>2. PICK e \in entry : \E x \in Member(Member({e}, "kindVersion"), "kind") : Is(x, "str") /\ x.str = "hashedrekord"
    BY <1>7, <2>1
  <2>3. PICK x \in Member(Member({e}, "kindVersion"), "kind") : Is(x, "str") /\ x.str = "hashedrekord"
    BY <2>2
  <2>4. QED
    BY <1>6, <2>3
<1>10. CASE ~media
  <2>1. PICK x \in Member({v}, "mediaType") : Is(x, "str") /\ x.str # BundleMediaType
    BY <1>10 DEF AsStr
  <2>2. raw.mediaType = x.str
    BY <1>1, <2>1, ReadMediaType
  <2>3. QED
    BY <1>1, <2>1, <2>2
<1>11. QED
  BY <1>4, <1>5, <1>8, <1>9, <1>10

-----------------------------------------------------------------------------
\* Every other error has another name.
ShapeErrors == {"ManagedKey", "RekorV2", "HashedRekord", "BundleMediaType"}

OtherErrors ==
    {"Usage", "Unsupported", "Io", "InvalidConfiguration", "NoRekorLog", "MalformedDigest", "SubjectNotFound",
     "TlogEntryCount", "TlogEntryKindVersion", "UnknownLogKey", "NotAuthentic", "CheckpointOriginMismatch",
     "MissingIdentityClaim", "IssuerMismatch", "MalformedIdentityClaim", "SourceRepositoryMismatch",
     "SourceOwnerIdMismatch", "SourceRepositoryIdMismatch", "SourceRefMismatch", "SourceCommitMismatch",
     "SignerRepositoryMismatch", "SignerWorkflowPathMismatch", "SignerRevisionMismatch"}

OtherOutcomes == OtherErrors \union {Ok}

LEMMA CheckRange ==
    ASSUME NEW holds, NEW error \in OtherErrors
    PROVE  Check(holds, error) \in OtherOutcomes
  BY DEF Check, OtherOutcomes

LEMMA Range2 ==
    ASSUME NEW a \in OtherOutcomes, NEW b \in OtherOutcomes
    PROVE  FirstError(<<a, b>>) \in OtherOutcomes
  BY FirstError2 DEF OtherOutcomes

LEMMA Range3 ==
    ASSUME NEW a \in OtherOutcomes, NEW b \in OtherOutcomes, NEW c \in OtherOutcomes
    PROVE  FirstError(<<a, b, c>>) \in OtherOutcomes
  BY FirstError3 DEF OtherOutcomes

LEMMA Range4 ==
    ASSUME NEW a \in OtherOutcomes, NEW b \in OtherOutcomes, NEW c \in OtherOutcomes, NEW d \in OtherOutcomes
    PROVE  FirstError(<<a, b, c, d>>) \in OtherOutcomes
  BY FirstError4 DEF OtherOutcomes

LEMMA Range6 ==
    ASSUME NEW a \in OtherOutcomes, NEW b \in OtherOutcomes, NEW c \in OtherOutcomes, NEW d \in OtherOutcomes,
           NEW e \in OtherOutcomes, NEW f \in OtherOutcomes
    PROVE  FirstError(<<a, b, c, d, e, f>>) \in OtherOutcomes
<1> DEFINE s == <<a, b, c, d, e, f>>
<1>1. DOMAIN s = 1..6 /\ s[1] = a /\ s[2] = b /\ s[3] = c /\ s[4] = d /\ s[5] = e /\ s[6] = f
  OBVIOUS
<1> HIDE DEF s
<1>2. \A i \in DOMAIN s : s[i] \in OtherErrors \union {Ok}
  BY <1>1 DEF OtherOutcomes
<1>3. DOMAIN s \subseteq Nat
  BY <1>1
<1>4. FirstError(s) \in OtherErrors \union {Ok}
  BY <1>2, <1>3, FirstErrorRange
<1>5. QED
  BY <1>4 DEF s, OtherOutcomes

LEMMA Range7 ==
    ASSUME NEW a \in OtherOutcomes, NEW b \in OtherOutcomes, NEW c \in OtherOutcomes, NEW d \in OtherOutcomes,
           NEW e \in OtherOutcomes, NEW f \in OtherOutcomes, NEW g \in OtherOutcomes
    PROVE  FirstError(<<a, b, c, d, e, f, g>>) \in OtherOutcomes
<1> DEFINE s == <<a, b, c, d, e, f, g>>
<1>1. DOMAIN s = 1..7 /\ s[1] = a /\ s[2] = b /\ s[3] = c /\ s[4] = d /\ s[5] = e /\ s[6] = f /\ s[7] = g
  OBVIOUS
<1> HIDE DEF s
<1>2. \A i \in DOMAIN s : s[i] \in OtherErrors \union {Ok}
  BY <1>1 DEF OtherOutcomes
<1>3. DOMAIN s \subseteq Nat
  BY <1>1
<1>4. FirstError(s) \in OtherErrors \union {Ok}
  BY <1>2, <1>3, FirstErrorRange
<1>5. QED
  BY <1>4 DEF s, OtherOutcomes

LEMMA Range9 ==
    ASSUME NEW a \in OtherOutcomes, NEW b \in OtherOutcomes, NEW c \in OtherOutcomes, NEW d \in OtherOutcomes,
           NEW e \in OtherOutcomes, NEW f \in OtherOutcomes, NEW g \in OtherOutcomes, NEW h \in OtherOutcomes,
           NEW i \in OtherOutcomes
    PROVE  FirstError(<<a, b, c, d, e, f, g, h, i>>) \in OtherOutcomes
<1> DEFINE s == <<a, b, c, d, e, f, g, h, i>>
<1>1. /\ DOMAIN s = 1..9 /\ s[1] = a /\ s[2] = b /\ s[3] = c /\ s[4] = d /\ s[5] = e /\ s[6] = f /\ s[7] = g
      /\ s[8] = h /\ s[9] = i
  OBVIOUS
<1> HIDE DEF s
<1>2. \A k \in DOMAIN s : s[k] \in OtherErrors \union {Ok}
  BY <1>1 DEF OtherOutcomes
<1>3. DOMAIN s \subseteq Nat
  BY <1>1
<1>4. FirstError(s) \in OtherErrors \union {Ok}
  BY <1>2, <1>3, FirstErrorRange
<1>5. QED
  BY <1>4 DEF s, OtherOutcomes

LEMMA MatchSourceRange ==
    ASSUME NEW tbs, NEW source
    PROVE  MatchSource(tbs, source) \in OtherOutcomes
<1> DEFINE uri == Claim(tbs, "sourceRepositoryUri")
           ref == Claim(tbs, "sourceRepositoryRef")
           digest == Claim(tbs, "sourceRepositoryDigest")
           owner == CheckPinnedId(source.repository.ownerId, Claim(tbs, "sourceRepositoryOwnerId"),
                                  "SourceOwnerIdMismatch")
           id == CheckPinnedId(source.repository.repositoryId, Claim(tbs, "sourceRepositoryId"),
                               "SourceRepositoryIdMismatch")
           a == RequireClaim(uri)
           b == Check(\A u \in uri : u.parses, "MalformedIdentityClaim")
           c == Check(\A u \in uri : CheckRepositoryMatch(u, source.repository), "SourceRepositoryMismatch")
           f == RequireClaim(ref)
           g == Check(\A r \in ref : CheckRefPolicy(r, source.gitRef), "SourceRefMismatch")
           h == Check(source.commit # {} => digest # {}, "MissingIdentityClaim")
           i == Check(\A x \in source.commit : \A d \in digest : EqIgnoreAsciiCase(x, d), "SourceCommitMismatch")
<1>1. MatchSource(tbs, source) = FirstError(<<a, b, c, owner, id, f, g, h, i>>)
  BY DEF MatchSource
<1>2. /\ "MissingIdentityClaim" \in OtherErrors /\ "MalformedIdentityClaim" \in OtherErrors
      /\ "SourceRepositoryMismatch" \in OtherErrors /\ "SourceOwnerIdMismatch" \in OtherErrors
      /\ "SourceRepositoryIdMismatch" \in OtherErrors /\ "SourceRefMismatch" \in OtherErrors
      /\ "SourceCommitMismatch" \in OtherErrors
  BY DEF OtherErrors
<1>3. a \in OtherOutcomes /\ b \in OtherOutcomes /\ c \in OtherOutcomes
  BY <1>2, CheckRange DEF RequireClaim
<1>4. f \in OtherOutcomes /\ g \in OtherOutcomes /\ h \in OtherOutcomes /\ i \in OtherOutcomes
  BY <1>2, CheckRange DEF RequireClaim
<1>5. ASSUME NEW pinned, NEW claim, NEW mismatch \in OtherErrors
      PROVE  CheckPinnedId(pinned, claim, mismatch) \in OtherOutcomes
  <2> DEFINE x == Check(pinned # {} => claim # {}, "MissingIdentityClaim")
             y == Check(\A n \in pinned : \A found \in claim : found = DecimalText(n), mismatch)
  <2>1. x \in OtherOutcomes /\ y \in OtherOutcomes
    BY <1>2, CheckRange
  <2>2. CheckPinnedId(pinned, claim, mismatch) = FirstError(<<x, y>>)
    BY DEF CheckPinnedId
  <2> HIDE DEF x, y
  <2>3. QED
    BY <2>1, <2>2, Range2
<1>6. owner \in OtherOutcomes /\ id \in OtherOutcomes
  BY <1>2, <1>5
<1> HIDE DEF a, b, c, owner, id, f, g, h, i
<1>7. FirstError(<<a, b, c, owner, id, f, g, h, i>>) \in OtherOutcomes
  BY <1>3, <1>4, <1>6, Range9
<1>8. QED
  BY <1>1, <1>7

LEMMA MatchPolicyRange ==
    ASSUME NEW tbs, NEW asked
    PROVE  MatchPolicy(tbs, asked) \in OtherOutcomes
<1> DEFINE san == SanUri(tbs)
           signer == asked.signer
           a == RequireClaim(san)
           b == Check(\A s \in san : s.parses, "MalformedIdentityClaim")
           c == Check(\A s \in san : CheckRepositoryMatch(s, signer.repository), "SignerRepositoryMismatch")
           d == Check(\A s \in san : s.path = signer.path, "SignerWorkflowPathMismatch")
<1>1. /\ "MissingIdentityClaim" \in OtherErrors /\ "MalformedIdentityClaim" \in OtherErrors
      /\ "SignerRepositoryMismatch" \in OtherErrors /\ "SignerWorkflowPathMismatch" \in OtherErrors
      /\ "SignerRevisionMismatch" \in OtherErrors /\ "IssuerMismatch" \in OtherErrors
  BY DEF OtherErrors
<1>2. MatchSigner(tbs, signer) \in OtherOutcomes
  <2>1. MatchSigner(tbs, signer) = FirstError(<<a, b, c, d>>)
    BY DEF MatchSigner
  <2>2. a \in OtherOutcomes /\ b \in OtherOutcomes /\ c \in OtherOutcomes /\ d \in OtherOutcomes
    BY <1>1, CheckRange DEF RequireClaim
  <2> HIDE DEF a, b, c, d
  <2>3. QED
    BY <2>1, <2>2, Range4
<1>3. ASSUME NEW uri, NEW revision
      PROVE  CheckSignerRevision(tbs, uri, revision) \in OtherOutcomes
  <2> DEFINE digest == Claim(tbs, "buildSignerDigest")
             x == RequireClaim(digest)
             y == Check(\A found \in digest : EqIgnoreAsciiCase(found, revision.sha), "SignerRevisionMismatch")
  <2>1. x \in OtherOutcomes /\ y \in OtherOutcomes
    BY <1>1, CheckRange DEF RequireClaim
  <2>2. FirstError(<<x, y>>) \in OtherOutcomes
    <3> HIDE DEF x, y
    <3>1. QED
      BY <2>1, Range2
  <2>3. Ok \in OtherOutcomes /\ "SignerRevisionMismatch" \in OtherOutcomes
    BY <1>1 DEF OtherOutcomes
  <2>4. CheckSignerRevision(tbs, uri, revision) \in {Ok, "SignerRevisionMismatch", FirstError(<<x, y>>)}
    <3> DEFINE z == FirstError(<<x, y>>)
    <3>1. CheckSignerRevision(tbs, uri, revision) =
            CASE revision.type = "any" -> Ok
              [] revision.type = "ref" -> IF uri.gitRef = revision.ref THEN Ok ELSE "SignerRevisionMismatch"
              [] OTHER -> z
      BY DEF CheckSignerRevision
    <3> HIDE DEF z
    <3>2. CASE revision.type = "any"
      BY <3>1, <3>2
    <3>3. CASE revision.type = "ref"
      BY <3>1, <3>3
    <3>4. CASE revision.type # "any" /\ revision.type # "ref"
      BY <3>1, <3>4 DEF z
    <3>5. QED
      BY <3>2, <3>3, <3>4
  <2>5. QED
    BY <2>2, <2>3, <2>4
<1>4. SignerRevision(tbs, signer) \in OtherOutcomes
  BY <1>3 DEF SignerRevision
<1>5. MatchSource(tbs, asked.source) \in OtherOutcomes
  BY MatchSourceRange
<1>6. "MissingIdentityClaim" \in OtherOutcomes /\ "IssuerMismatch" \in OtherOutcomes
  BY <1>1 DEF OtherOutcomes
<1>7. QED
  BY <1>2, <1>4, <1>5, <1>6 DEF MatchPolicy

LEMMA VerifyDigestRange ==
    ASSUME NEW v, NEW b, NEW subject
    PROVE  VerifyDigest(v, b, subject) \in OtherOutcomes
<1> DEFINE signed == Signed[b.dsseEnvelope.payload]
           entries == b.verificationMaterial.tlogEntries
           o1 == Check(subject \in signed.subjects, "SubjectNotFound")
           o2 == Check(Len(entries) = 1, "TlogEntryCount")
           o3 == Check(\A i \in DOMAIN entries :
                         entries[i].kindVersion = [kind |-> "dsse", version |-> "0.0.1"], "TlogEntryKindVersion")
           o4 == Check(\E i \in DOMAIN v.logs : v.logs[i].key = signed.log, "UnknownLogKey")
           o5 == Check(signed.authentic, "NotAuthentic")
           o6 == Check(Allows(v.originPolicy, Sha256(signed.log), signed.origin), "CheckpointOriginMismatch")
           o7 == MatchPolicy(Certificate[b.dsseEnvelope.payload], v.githubPolicy)
<1>1. VerifyDigest(v, b, subject) = FirstError(<<o1, o2, o3, o4, o5, o6, o7>>)
  BY DEF VerifyDigest
<1>2. {"SubjectNotFound", "TlogEntryCount", "TlogEntryKindVersion", "UnknownLogKey", "NotAuthentic",
       "CheckpointOriginMismatch"} \subseteq OtherErrors
  BY DEF OtherErrors
<1>3. o1 \in OtherOutcomes /\ o2 \in OtherOutcomes /\ o3 \in OtherOutcomes
  BY <1>2, CheckRange
<1>4. o4 \in OtherOutcomes /\ o5 \in OtherOutcomes /\ o6 \in OtherOutcomes
  BY <1>2, CheckRange
<1>5. o7 \in OtherOutcomes
  BY MatchPolicyRange
<1> HIDE DEF o1, o2, o3, o4, o5, o6, o7
<1>6. FirstError(<<o1, o2, o3, o4, o5, o6, o7>>) \in OtherOutcomes
  BY <1>3, <1>4, <1>5, Range7
<1>7. QED
  BY <1>1, <1>6

LEMMA GithubPolicyBuildRange ==
    ASSUME NEW made
    PROVE  GithubPolicyBuild(made) \in OtherOutcomes
  BY DEF GithubPolicyBuild, RejectSignerIdPins, Check, OtherOutcomes, OtherErrors

LEMMA VerifierBuildRange ==
    ASSUME NEW vb
    PROVE  VerifierBuild(vb) \in OtherOutcomes
<1> DEFINE o1 == Check(vb.trustStore # {} /\ vb.githubPolicy # {} /\ vb.originPolicy # {}, "InvalidConfiguration")
           o2 == Check(\A p \in vb.githubPolicy : RejectSignerIdPins(p.signer) = Ok, "InvalidConfiguration")
           o3 == Check(\A origins \in vb.originPolicy : \A binding \in origins :
                         \E logs \in vb.trustStore : \E i \in DOMAIN logs : Sha256(logs[i].key) = binding.keyId,
                       "InvalidConfiguration")
<1>1. "InvalidConfiguration" \in OtherErrors
  BY DEF OtherErrors
<1>2. o1 \in OtherOutcomes /\ o2 \in OtherOutcomes /\ o3 \in OtherOutcomes
  BY <1>1, CheckRange
<1>3. VerifierBuild(vb) = FirstError(<<o1, o2, o3>>)
  BY DEF VerifierBuild
<1> HIDE DEF o1, o2, o3
<1>4. QED
  BY <1>2, <1>3, Range3

\* Only a load reports a shape error.
LEMMA OutcomesElsewhere ==
    ASSUME Next, ~ReadArguments, ~LoadConformanceBundle, ~LoadExampleBundle
    PROVE  result' = result \/ result' \in OtherOutcomes
<1>0. /\ {"Usage", "Unsupported", "Io", "InvalidConfiguration", "NoRekorLog", "MalformedDigest"} \subseteq OtherErrors
      /\ OtherErrors \subseteq OtherOutcomes /\ Ok \in OtherOutcomes
  BY DEF OtherErrors, OtherOutcomes
<1>1. CASE CheckOptions
  <2> DEFINE a == Check(opts["--staging"] = {}, "Unsupported")
             b == Check(opts["--key"] = {}, "Unsupported")
             c == Check(opts["--certificate-identity"] # {} /\ opts["--certificate-oidc-issuer"] # {}, "Usage")
             d == Check(opts["--bundle"] # {}, "Usage")
             e == Check(opts["operand"] # {}, "Usage")
             f == Check(opts["--certificate-oidc-issuer"] = {Issuer}, "Unsupported")
  <2>1. Try(FirstError(<<a, b, c, d, e, f>>), "policy")
    BY <1>1 DEF CheckOptions
  <2>2. /\ a \in OtherOutcomes /\ b \in OtherOutcomes /\ c \in OtherOutcomes
        /\ d \in OtherOutcomes /\ e \in OtherOutcomes /\ f \in OtherOutcomes
    BY <1>0, CheckRange
  <2> HIDE DEF a, b, c, d, e, f
  <2>3. FirstError(<<a, b, c, d, e, f>>) \in OtherOutcomes
    BY <2>2, Range6
  <2>4. QED
    BY <2>1, <2>3 DEF Try, Return
<1>2. CASE CheckExampleOptions
  <2> DEFINE artifact == opts["--artifact"]
             digest == opts["--digest"]
             a == Check((artifact = {}) # (digest = {}), "Usage")
             b == Check(artifact \subseteq DOMAIN Files, "Io")
             c == Check(\A d \in digest : DigestOf(d) # {}, "MalformedDigest")
             e == Check(\A name \in {"--bundle", "--repo", "--signer-workflow", "--checkpoint-origin"} :
                           opts[name] # {}, "Usage")
  <2>1. Try(FirstError(<<a, b, c, e>>), "bundle")
    BY <1>2 DEF CheckExampleOptions
  <2>2. a \in OtherOutcomes /\ b \in OtherOutcomes /\ c \in OtherOutcomes /\ e \in OtherOutcomes
    BY <1>0, CheckRange
  <2> HIDE DEF a, b, c, e
  <2>3. FirstError(<<a, b, c, e>>) \in OtherOutcomes
    BY <2>2, Range4
  <2>4. QED
    BY <2>1, <2>3 DEF Try, Return
<1>3. CASE MakeConformancePolicy
  <2> DEFINE identity == ParseGithubIdentity(Opt("--certificate-identity"))
             repository == UNION {RepositoryIdentityParse(i.repository) : i \in identity}
             path == UNION {WorkflowPathNew(i.path) : i \in identity}
             made == [source |-> {SourcePolicy(r, RefPolicyGlob(Wildcard)) : r \in repository},
                      signer |-> {SignerPolicy(r, The(path), RevisionRef(i.gitRef)) :
                                     r \in repository, i \in identity}]
             a == Check(identity # {}, "Usage")
             b == Check(repository # {} /\ path # {}, "InvalidConfiguration")
             c == GithubPolicyBuild(made)
  <2>1. Try(FirstError(<<a, b, c>>), "trustStore")
    BY <1>3 DEF MakeConformancePolicy
  <2>2. a \in OtherOutcomes /\ b \in OtherOutcomes
    BY <1>0, CheckRange
  <2>3. c \in OtherOutcomes
    BY GithubPolicyBuildRange
  <2> HIDE DEF a, b, c
  <2>4. FirstError(<<a, b, c>>) \in OtherOutcomes
    BY <2>2, <2>3, Range3
  <2>5. QED
    BY <2>1, <2>4 DEF Try, Return
<1>4. CASE LoadConformanceTrust
  BY <1>0, <1>4 DEF LoadConformanceTrust, Try, Return, Check
<1>5. CASE MakeExamplePolicy
  <2> DEFINE repository == RepositoryIdentityParse(Opt("--repo"))
             path == WorkflowPathNew(Opt("--signer-workflow"))
             ref == IF opts["--source-ref"] = {} THEN RefPolicyGlob(Wildcard)
                    ELSE RefPolicyExact(Opt("--source-ref"))
             made == [source |-> {SourcePolicy(Pinned(r, opts["--owner-id"], opts["--repo-id"]), ref) :
                                     r \in repository},
                      signer |-> {SignerPolicy(r, p, RevisionAny) : r \in repository, p \in path}]
             a == Check(repository # {} /\ path # {}, "InvalidConfiguration")
             b == GithubPolicyBuild(made)
  <2>1. Try(FirstError(<<a, b>>), "trustStore")
    BY <1>5 DEF MakeExamplePolicy
  <2>2. a \in OtherOutcomes
    BY <1>0, CheckRange
  <2>3. b \in OtherOutcomes
    BY GithubPolicyBuildRange
  <2> HIDE DEF a, b
  <2>4. FirstError(<<a, b>>) \in OtherOutcomes
    BY <2>2, <2>3, Range2
  <2>5. QED
    BY <2>1, <2>4 DEF Try, Return
<1>6. CASE LoadExampleTrust
  <2> DEFINE a == Check(run.embedded # <<>>, "NoRekorLog")
             b == Check(ValidOrigin(Opt("--checkpoint-origin")), "InvalidConfiguration")
  <2>1. Try(FirstError(<<a, b>>), "build")
    BY <1>6 DEF LoadExampleTrust
  <2>2. a \in OtherOutcomes /\ b \in OtherOutcomes
    BY <1>0, CheckRange
  <2> HIDE DEF a, b
  <2>3. FirstError(<<a, b>>) \in OtherOutcomes
    BY <2>2, Range2
  <2>4. QED
    BY <2>1, <2>3 DEF Try, Return
<1>7. CASE SetSource \/ SetSigner \/ BuildPolicy \/ WritePolicy
  BY <1>7 DEF SetSource, SetSigner, BuildPolicy, WritePolicy
<1>8. CASE SetTrustStore \/ SetGithubPolicy \/ SetOriginPolicy \/ ReadyToBuild
  BY <1>8 DEF SetTrustStore, SetGithubPolicy, SetOriginPolicy, ReadyToBuild
<1>9. CASE BuildVerifier
  <2>1. Try(VerifierBuild(builder), "verify") /\ VerifierBuild(builder) \in OtherOutcomes
    BY <1>9, VerifierBuildRange DEF BuildVerifier
  <2>2. QED
    BY <2>1 DEF Try, Return
<1>10. CASE Verify
  <2>1. result' = "Io" \/ \E subject \in Subject, v \in verifier, b \in bundle : result' = VerifyDigest(v, b, subject)
    BY <1>10 DEF Verify, Return
  <2>2. QED
    BY <1>0, <2>1, VerifyDigestRange
<1>11. QED
  BY <1>1, <1>2, <1>3, <1>4, <1>5, <1>6, <1>7, <1>8, <1>9, <1>10 DEF Next, ReadArguments

ShapeInv == Control /\ ShapeCheckLosesNothing

LEMMA ShapeMeans ==
    ShapeCheckLosesNothing <=>
        (result \in ShapeErrors => \A path \in opts["--bundle"] : RightlyRefused(Files[path]))
  BY DEF ShapeCheckLosesNothing, ShapeErrors

LEMMA ShapeMeansNext ==
    ShapeCheckLosesNothing' <=>
        (result' \in ShapeErrors => \A path \in opts'["--bundle"] : RightlyRefused(Files[path]))
  BY DEF ShapeCheckLosesNothing, ShapeErrors

LEMMA ShapeNext == ShapeInv /\ [Next]_vars => ShapeInv'
<1> SUFFICES ASSUME ShapeInv, [Next]_vars PROVE ShapeCheckLosesNothing'
  BY ControlNext DEF ShapeInv
<1> USE DEF ShapeInv
<1>0. "Pending" \notin ShapeErrors /\ "Io" \notin ShapeErrors /\ "SeveralBundles" \notin ShapeErrors
      /\ {"Usage", "Unsupported"} \intersect ShapeErrors = {} /\ OtherOutcomes \intersect ShapeErrors = {}
      /\ Ok \notin ShapeErrors
  BY DEF ShapeErrors, OtherOutcomes, OtherErrors, Ok
<1>1. CASE ReadArguments
  <2>1. result' = result \/ result' \in {"Usage", "Unsupported"}
    BY <1>1, ArgumentStep
  <2>2. result = "Pending"
    BY <1>1, ArgumentStep DEF Control
  <2>3. QED
    BY <1>0, <2>1, <2>2, ShapeMeansNext
<1>2. CASE Next /\ ~ReadArguments /\ ~LoadConformanceBundle /\ ~LoadExampleBundle
  <2>1. result' = result \/ result' \in OtherOutcomes
    BY <1>2, OutcomesElsewhere
  <2>2. result = "Pending"
    BY <1>2, LaterStep DEF Control
  <2>3. QED
    BY <1>0, <2>1, <2>2, ShapeMeansNext
<1>3. ASSUME NEW program, NEW place, Load(program, place), pc = "bundle",
             \A path \in DOMAIN Files : program[path].outcome \in ShapeErrors => RightlyRefused(Files[path])
      PROVE  ShapeCheckLosesNothing'
  <2>1. result = "Pending"
    BY <1>3 DEF Control
  <2>2. CASE result' = "Io" \/ result' = result
    BY <1>0, <2>1, <2>2, ShapeMeansNext
  <2>3. ASSUME NEW path \in DOMAIN Files, opts["--bundle"] = {path}, result' = program[path].outcome
        PROVE  ShapeCheckLosesNothing'
    <3>1. opts' = opts
      BY <1>3, Loaded
    <3>2. QED
      BY <1>3, <2>3, <3>1, ShapeMeansNext
  <2>4. QED
    BY <1>3, <2>2, <2>3, Loaded
<1>4. CASE LoadConformanceBundle
  <2>1. ASSUME NEW path \in DOMAIN Files, ClientBundle[path].outcome \in ShapeErrors
        PROVE  RightlyRefused(Files[path])
    <3> DEFINE file == Files[path]
    <3>1. ClientBundle[path].outcome =
            FirstError(<< RejectUnsupportedBundleShape(file.loose), BundleFromText(file.whole) >>)
      BY DEF ClientBundle
    <3>2. RejectUnsupportedBundleShape(file.loose) # Ok \/ BundleFromText(file.whole) # Ok
      BY <1>0, <2>1, <3>1, FirstError2
    <3>3. QED
      BY <3>2, RefusedRightly DEF RightlyRefused
  <2>2. Load(ClientBundle, "build") /\ pc = "bundle"
    BY <1>4 DEF LoadConformanceBundle
  <2>3. QED
    BY <1>3, <2>1, <2>2
<1>5. CASE LoadExampleBundle
  <2>1. ASSUME NEW path \in DOMAIN Files, ExampleBundle[path].outcome \in ShapeErrors
        PROVE  RightlyRefused(Files[path])
    <3>1. ExampleBundle[path].outcome = LoadBundle(Files[path]).outcome
      BY DEF ExampleBundle
    <3>2. CASE BundleFromText(Files[path].whole) = Ok
      <4>1. LoadBundle(Files[path]).outcome = Ok
        BY <3>2 DEF LoadBundle
      <4>2. QED
        BY <1>0, <2>1, <3>1, <4>1
    <3>3. QED
      BY <3>2 DEF RightlyRefused
  <2>2. Load(ExampleBundle, "policy") /\ pc = "bundle"
    BY <1>5 DEF LoadExampleBundle
  <2>3. QED
    BY <1>3, <2>1, <2>2
<1>6. CASE UNCHANGED vars
  <2>1. result' = result /\ opts' = opts
    BY <1>6 DEF vars
  <2>2. QED
    BY <2>1, ShapeMeans, ShapeMeansNext
<1>7. QED
  BY <1>1, <1>2, <1>4, <1>5, <1>6

(***************************************************************************)
(* What the conformance client refuses before parsing is a bundle with a   *)
(* managed key, or one the library would not parse, or not verify whatever *)
(* was asked.                                                              *)
(***************************************************************************)
THEOREM RefusesNothingElse == Spec => []ShapeCheckLosesNothing
<1>1. Init => ShapeInv
  <2>1. Init => result \notin {"ManagedKey", "RekorV2", "HashedRekord", "BundleMediaType"}
    BY DEF Init
  <2>2. QED
    BY <2>1, ControlInit DEF ShapeInv, ShapeCheckLosesNothing
<1>2. ShapeInv => ShapeCheckLosesNothing
  BY DEF ShapeInv
<1>3. QED
  BY <1>1, <1>2, ShapeNext, PTL DEF Spec

-----------------------------------------------------------------------------
\* Texts that are joined, split and stripped.
LEMMA Joined ==
    ASSUME NEW S, NEW x \in Seq(S), NEW c \in S, NEW y \in Seq(S)
    PROVE  /\ Join(x, c, y) \in Seq(S) /\ Len(Join(x, c, y)) = Len(x) + 1 + Len(y)
           /\ \A i \in 1..Len(x) : Join(x, c, y)[i] = x[i]
           /\ Join(x, c, y)[Len(x) + 1] = c
           /\ \A i \in 1..Len(y) : Join(x, c, y)[Len(x) + 1 + i] = y[i]
BY DEF Join

LEMMA Piece ==
    ASSUME NEW S, NEW s \in Seq(S), NEW m \in Nat \ {0}, NEW n \in Nat, n <= Len(s), m <= n + 1
    PROVE  /\ SubSeq(s, m, n) \in Seq(S) /\ Len(SubSeq(s, m, n)) = n - m + 1
           /\ \A i \in 1..(n - m + 1) : SubSeq(s, m, n)[i] = s[m + i - 1]
OBVIOUS

LEMMA SplitMeans ==
    ASSUME NEW S, NEW text \in Seq(S), NEW c, NEW s \in SplitOnce(text, c)
    PROVE  /\ c \in S /\ s.before \in Seq(S) /\ s.after \in Seq(S)
           /\ text = Join(s.before, c, s.after)
           /\ ~Contains(s.before, c)
<1>1. Len(text) \in Nat /\ DOMAIN text = 1..Len(text) /\ \A i \in 1..Len(text) : text[i] \in S
  BY LenProperties, ElementOfSeq
<1>2. PICK i \in DOMAIN text : /\ text[i] = c /\ \A j \in 1..(i - 1) : text[j] # c
                               /\ s = [before |-> SubSeq(text, 1, i - 1), after |-> SubSeq(text, i + 1, Len(text))]
  BY DEF SplitOnce
<1> DEFINE x == SubSeq(text, 1, i - 1)
           y == SubSeq(text, i + 1, Len(text))
<1>3. i \in 1..Len(text) /\ i \in Nat \ {0} /\ i - 1 \in Nat /\ c \in S
  BY <1>1, <1>2
<1>4. x \in Seq(S) /\ Len(x) = i - 1 /\ \A k \in 1..(i - 1) : x[k] = text[k]
  <2>1. /\ x \in Seq(S) /\ Len(x) = (i - 1) - 1 + 1
        /\ \A k \in 1..((i - 1) - 1 + 1) : x[k] = text[1 + k - 1]
    BY <1>1, <1>3, Piece
  <2> HIDE DEF x
  <2>2. QED
    BY <1>3, <2>1
<1>5. y \in Seq(S) /\ Len(y) = Len(text) - i /\ \A k \in 1..(Len(text) - i) : y[k] = text[i + k]
  <2>1. /\ y \in Seq(S) /\ Len(y) = Len(text) - (i + 1) + 1
        /\ \A k \in 1..(Len(text) - (i + 1) + 1) : y[k] = text[(i + 1) + k - 1]
    BY <1>1, <1>3, Piece
  <2> HIDE DEF y
  <2>2. QED
    BY <1>1, <1>3, <2>1, SMTT(30)
<1>6. s.before = x /\ s.after = y
  BY <1>2
<1> HIDE DEF x, y
<1>7. /\ Join(x, c, y) \in Seq(S) /\ Len(Join(x, c, y)) = Len(x) + 1 + Len(y)
      /\ \A k \in 1..Len(x) : Join(x, c, y)[k] = x[k]
      /\ Join(x, c, y)[Len(x) + 1] = c
      /\ \A k \in 1..Len(y) : Join(x, c, y)[Len(x) + 1 + k] = y[k]
  <2>1. x \in Seq(S) /\ c \in S /\ y \in Seq(S)
    BY <1>3, <1>4, <1>5
  <2>2. QED
    BY ONLY <2>1 DEF Join
<1> DEFINE t == Join(x, c, y)
<1> HIDE DEF t
<1>8. /\ t \in Seq(S) /\ Len(t) = Len(text)
      /\ \A k \in 1..(i - 1) : t[k] = x[k]
      /\ t[i] = c
      /\ \A k \in 1..(Len(text) - i) : t[i + k] = y[k]
  <2>1. Len(x) = i - 1 /\ Len(y) = Len(text) - i
    BY <1>4, <1>5
  <2>2. (i - 1) + 1 = i /\ (i - 1) + 1 + (Len(text) - i) = Len(text)
    BY <1>1, <1>3
  <2>3. /\ t \in Seq(S) /\ Len(t) = Len(x) + 1 + Len(y)
        /\ \A k \in 1..Len(x) : t[k] = x[k]
        /\ t[Len(x) + 1] = c
        /\ \A k \in 1..Len(y) : t[Len(x) + 1 + k] = y[k]
    BY <1>7 DEF t
  <2>4. QED
    BY <2>1, <2>2, <2>3
<1>9. ASSUME NEW k \in 1..Len(text) PROVE t[k] = text[k]
  <2>1. CASE k < i
    BY <1>1, <1>3, <1>4, <1>8, <2>1
  <2>2. CASE k = i
    BY <1>2, <1>8, <2>2
  <2>3. CASE k > i
    <3>1. k - i \in 1..(Len(text) - i) /\ i + (k - i) = k
      BY <1>1, <1>3, <2>3
    <3>2. t[i + (k - i)] = y[k - i] /\ y[k - i] = text[i + (k - i)]
      BY <1>5, <1>8, <3>1
    <3>3. QED
      BY <3>1, <3>2
  <2>4. QED
    BY <1>1, <1>3, <2>1, <2>2, <2>3
<1>10. t = text
  BY <1>8, <1>9, SeqEqual
<1>11. ~Contains(x, c)
  BY <1>2, <1>4 DEF Contains
<1>12. QED
  BY <1>3, <1>4, <1>5, <1>6, <1>10, <1>11 DEF t

\* A joined text splits where it was joined, if the first part or what comes after
\* the split has no separator.
LEMMA SplitJoined ==
    ASSUME NEW S, NEW x \in Seq(S), NEW c \in S, NEW y \in Seq(S), NEW s \in SplitOnce(Join(x, c, y), c),
           ~Contains(x, c) \/ ~Contains(s.after, c)
    PROVE  s.before = x /\ s.after = y
<1> DEFINE text == Join(x, c, y)
           n == Len(x) + 1
<1>1. /\ text \in Seq(S) /\ Len(text) = Len(x) + 1 + Len(y)
      /\ \A k \in 1..Len(x) : text[k] = x[k]
      /\ text[Len(x) + 1] = c
      /\ \A k \in 1..Len(y) : text[Len(x) + 1 + k] = y[k]
  BY DEF Join
<1>2. Len(x) \in Nat /\ Len(y) \in Nat
  BY LenProperties
<1>3. s \in SplitOnce(text, c)
  OBVIOUS
<1> HIDE DEF text
<1>4. DOMAIN text = 1..Len(text)
  BY <1>1, LenProperties
<1>5. PICK i \in DOMAIN text : /\ text[i] = c /\ \A j \in 1..(i - 1) : text[j] # c
                               /\ s = [before |-> SubSeq(text, 1, i - 1), after |-> SubSeq(text, i + 1, Len(text))]
  BY <1>3 DEF SplitOnce
<1> DEFINE b == SubSeq(text, 1, i - 1)
           a == SubSeq(text, i + 1, Len(text))
<1>6. i \in 1..(Len(x) + 1 + Len(y)) /\ n \in 1..(Len(x) + 1 + Len(y))
  BY <1>1, <1>2, <1>4
<1>7. b \in Seq(S) /\ Len(b) = i - 1 /\ \A k \in 1..(i - 1) : b[k] = text[k]
  <2>1. /\ b \in Seq(S) /\ Len(b) = (i - 1) - 1 + 1
        /\ \A k \in 1..((i - 1) - 1 + 1) : b[k] = text[1 + k - 1]
    BY <1>1, <1>2, <1>6, Piece
  <2> HIDE DEF b
  <2>2. QED
    BY <1>2, <1>6, <2>1
<1>8. a \in Seq(S) /\ Len(a) = Len(text) - i /\ \A k \in 1..(Len(text) - i) : a[k] = text[i + k]
  <2>1. /\ a \in Seq(S) /\ Len(a) = Len(text) - (i + 1) + 1
        /\ \A k \in 1..(Len(text) - (i + 1) + 1) : a[k] = text[(i + 1) + k - 1]
    BY <1>1, <1>2, <1>6, Piece, SMTT(30)
  <2> HIDE DEF a
  <2>2. Len(text) - (i + 1) + 1 = Len(text) - i /\ \A k \in 1..(Len(text) - i) : (i + 1) + k - 1 = i + k
    BY <1>1, <1>2, <1>6
  <2>3. QED
    BY <2>1, <2>2
<1>9. s.before = b /\ s.after = a
  BY <1>5
<1> HIDE DEF b, a
<1>10. ~(n < i)
  <2>1. n < i => n \in 1..(i - 1)
    BY <1>2, <1>6
  <2>2. QED
    BY <1>1, <1>5, <2>1
<1>11. ~(i < n)
  <2> SUFFICES ASSUME i < n PROVE FALSE
    OBVIOUS
  <2>1. i \in 1..Len(x) /\ x[i] = c
    BY <1>1, <1>2, <1>5, <1>6
  <2>2. Contains(x, c)
    BY <2>1 DEF Contains
  <2>3. n - i \in 1..(Len(text) - i) /\ i + (n - i) = n
    BY <1>1, <1>2, <1>6
  <2>4. n - i \in 1..Len(a) /\ a[n - i] = c
    BY <1>1, <1>8, <2>3
  <2>5. Contains(a, c)
    BY <2>4 DEF Contains
  <2>6. QED
    BY <1>9, <2>2, <2>5
<1>12. i = n
  BY <1>2, <1>6, <1>10, <1>11
<1>13. b = x
  <2>1. Len(b) = Len(x) /\ \A k \in 1..Len(b) : b[k] = x[k]
    BY <1>1, <1>2, <1>7, <1>12
  <2>2. QED
    BY <1>7, <2>1, SeqEqual
<1>14. a = y
  <2>1. Len(a) = Len(y) /\ \A k \in 1..Len(a) : a[k] = y[k]
    BY <1>1, <1>2, <1>8, <1>12
  <2>2. QED
    BY <1>8, <2>1, SeqEqual
<1>15. QED
  BY <1>9, <1>13, <1>14

LEMMA StripMeans ==
    ASSUME NEW S, NEW text \in Seq(S), NEW prefix \in Seq(S), NEW r \in StripPrefix(text, prefix)
    PROVE  r \in Seq(S) /\ text = prefix \o r
<1>1. /\ Len(prefix) <= Len(text) /\ SubSeq(prefix, 1, Len(prefix)) = SubSeq(text, 1, Len(prefix))
      /\ r = SubSeq(text, Len(prefix) + 1, Len(text))
  BY DEF StripPrefix, IsPrefix
<1>2. Len(prefix) \in Nat /\ Len(text) \in Nat
  BY LenProperties
<1>3. SubSeq(prefix, 1, Len(prefix)) = prefix /\ SubSeq(text, 1, Len(text)) = text
  BY SubSeqFull
<1>4. SubSeq(text, 1, Len(prefix)) \o SubSeq(text, Len(prefix) + 1, Len(text)) = SubSeq(text, 1, Len(text))
  <2> DEFINE k == Len(prefix)
             n == Len(text)
  <2>1. 1 \in 1..(Len(text) + 1) /\ k \in (1 - 1)..Len(text) /\ n \in k..Len(text)
    BY <1>1, <1>2
  <2> HIDE DEF k, n
  <2>2. SubSeq(text, 1, k) \o SubSeq(text, k + 1, n) = SubSeq(text, 1, n)
    BY <2>1, ConcatAdjacentSubSeq
  <2>3. QED
    BY <2>2 DEF k, n
<1>5. r \in Seq(S)
  BY <1>1, <1>2, Piece
<1>6. QED
  BY <1>1, <1>3, <1>4, <1>5

LEMMA StripJoined ==
    ASSUME NEW S, NEW prefix \in Seq(S), NEW y \in Seq(S), NEW r \in StripPrefix(prefix \o y, prefix)
    PROVE  r = y
<1>1. SubSeq(prefix \o y, Len(prefix) + 1, Len(prefix \o y)) = y
  OBVIOUS
<1>2. QED
  BY <1>1 DEF StripPrefix

-----------------------------------------------------------------------------
(***************************************************************************)
(* Texts are sequences of Chars: the provers do not know that a literal    *)
(* such as "/" is a STRING.                                                *)
(***************************************************************************)
Chars == STRING \union {"/", "@", "https://github.com"}

LEMMA TextsAreChars == Seq(STRING) \subseteq Seq(Chars)
<1>1. ASSUME NEW s \in Seq(STRING) PROVE s \in Seq(Chars)
  <2> DEFINE T == STRING
             C == Chars
  <2>1. s \in Seq(T) /\ T \subseteq C
    BY DEF Chars
  <2> HIDE DEF T, C
  <2>2. s \in Seq(C)
    BY <2>1
  <2>3. QED
    BY <2>2 DEF C
<1>2. QED
  BY <1>1

LEMMA PrefixIsText == GithubUriPrefix \in Seq(Chars)
<1> DEFINE C == Chars
           a == "https://github.com"
           b == "/"
<1>1. a \in C /\ b \in C
  BY DEF Chars
<1> HIDE DEF a, b, C
<1>2. <<a, b>> \in Seq(C)
  BY <1>1
<1>3. QED
  BY <1>2 DEF a, b, C, GithubUriPrefix

LEMMA JoinIsText ==
    ASSUME NEW x \in Seq(Chars), NEW y \in Seq(Chars)
    PROVE  Join(x, "/", y) \in Seq(Chars) /\ Join(x, "@", y) \in Seq(Chars)
<1>1. "/" \in Chars /\ "@" \in Chars
  BY DEF Chars
<1>2. Join(x, "/", y) \in Seq(Chars)
  BY <1>1, Joined, Zenon
<1>3. Join(x, "@", y) \in Seq(Chars)
  BY <1>1, Joined, Zenon
<1>4. QED
  BY <1>2, <1>3

LEMMA SlashSplit ==
    ASSUME NEW x \in Seq(Chars), NEW y \in Seq(Chars), ~Contains(x, "/"), NEW s \in SplitOnce(Join(x, "/", y), "/")
    PROVE  s.before = x /\ s.after = y
<1> DEFINE c == "/"
<1>1. c \in Chars /\ s \in SplitOnce(Join(x, c, y), c) /\ ~Contains(x, c)
  BY DEF Chars
<1> HIDE DEF c
<1>2. QED
  BY <1>1, SplitJoined

LEMMA AtSplit ==
    ASSUME NEW x \in Seq(Chars), NEW y \in Seq(Chars), NEW s \in SplitOnce(Join(x, "@", y), "@"), ~Contains(s.after, "@")
    PROVE  s.before = x /\ s.after = y
<1> DEFINE c == "@"
<1>1. c \in Chars /\ s \in SplitOnce(Join(x, c, y), c) /\ ~Contains(s.after, c)
  BY DEF Chars
<1> HIDE DEF c
<1>2. QED
  BY <1>1, SplitJoined

LEMMA SplitText ==
    ASSUME NEW text \in Seq(Chars), NEW c \in {"/", "@"}, NEW s \in SplitOnce(text, c)
    PROVE  /\ s.before \in Seq(Chars) /\ s.after \in Seq(Chars)
           /\ text = Join(s.before, c, s.after) /\ ~Contains(s.before, c)
  BY SplitMeans

(***************************************************************************)
(* The certificate's parsers give back the parts its URIs were made of.    *)
(* The last '@' separates the ref, or else the parse fails; the first '/'  *)
(* ends the owner and the second the name.                                 *)
(***************************************************************************)
IsWorkflow(w) ==
    /\ w.owner \in Seq(Chars) /\ w.name \in Seq(Chars) /\ w.path \in Seq(Chars) /\ w.gitRef \in Seq(Chars)
    /\ ~Contains(w.owner, "/") /\ ~Contains(w.name, "/")

LEMMA PartsOfJoined ==
    ASSUME NEW o \in Seq(Chars), NEW n \in Seq(Chars), NEW p \in Seq(Chars), ~Contains(o, "/"), ~Contains(n, "/"),
           NEW parts \in OwnerNamePath(Join(o, "/", Join(n, "/", p)))
    PROVE  parts.owner = o /\ parts.name = n /\ parts.path = p
<1> DEFINE m == Join(n, "/", p)
<1>1. m \in Seq(Chars)
  BY JoinIsText
<1>2. PICK s \in SplitOnce(Join(o, "/", m), "/") :
        parts \in {[owner |-> s.before, name |-> q.before, path |-> q.after] : q \in SplitOnce(s.after, "/")}
  BY DEF OwnerNamePath
<1>3. PICK q \in SplitOnce(s.after, "/") : parts = [owner |-> s.before, name |-> q.before, path |-> q.after]
  BY <1>2
<1> HIDE DEF m
<1>4. s.before = o /\ s.after = m
  BY <1>1, SlashSplit
<1>5. q \in SplitOnce(Join(n, "/", p), "/")
  BY <1>4 DEF m
<1>6. q.before = n /\ q.after = p
  BY <1>5, SlashSplit
<1>7. QED
  BY <1>3, <1>4, <1>6

LEMMA SanParses ==
    ASSUME NEW w, IsWorkflow(w), NEW parts \in ParseSignerSanUri(SanText(w))
    PROVE  parts.owner = w.owner /\ parts.name = w.name /\ parts.path = w.path /\ parts.gitRef = w.gitRef
<1> DEFINE z == Join(w.name, "/", w.path)
           x == Join(w.owner, "/", z)
           y == Join(x, "@", w.gitRef)
           P(s) == {[owner |-> p.owner, name |-> p.name, path |-> p.path, gitRef |-> s.after] : p \in OwnerNamePath(s.before)}
<1>1. /\ w.owner \in Seq(Chars) /\ w.name \in Seq(Chars) /\ w.path \in Seq(Chars) /\ w.gitRef \in Seq(Chars)
      /\ ~Contains(w.owner, "/") /\ ~Contains(w.name, "/")
  BY DEF IsWorkflow
<1>2. z \in Seq(Chars)
  BY <1>1, JoinIsText
<1> HIDE DEF z
<1>3. x \in Seq(Chars)
  BY <1>1, <1>2, JoinIsText
<1> HIDE DEF x
<1>4. y \in Seq(Chars)
  BY <1>1, <1>3, JoinIsText
<1>5. SanText(w) = GithubUriPrefix \o y
  BY DEF SanText, x, z
<1>6. PICK r \in StripPrefix(SanText(w), GithubUriPrefix) : \E s \in SplitOnce(r, "@") : parts \in P(s)
  BY DEF ParseSignerSanUri
<1> HIDE DEF y
<1>7. r = y
  BY <1>4, <1>5, <1>6, PrefixIsText, StripJoined
<1>8. PICK s \in SplitOnce(y, "@") : parts \in P(s)
  BY <1>6, <1>7
<1>9. PICK p \in OwnerNamePath(s.before) :
        parts = [owner |-> p.owner, name |-> p.name, path |-> p.path, gitRef |-> s.after]
  BY <1>8
<1>10. ~Contains(s.after, "@")
  BY <1>9 DEF ParseSignerSanUri
<1>11. s.before = x /\ s.after = w.gitRef
  <2>1. s \in SplitOnce(Join(x, "@", w.gitRef), "@")
    BY <1>8 DEF y
  <2>2. QED
    BY <1>1, <1>3, <1>10, <2>1, AtSplit
<1>12. p.owner = w.owner /\ p.name = w.name /\ p.path = w.path
  <2>1. p \in OwnerNamePath(Join(w.owner, "/", Join(w.name, "/", w.path)))
    BY <1>9, <1>11 DEF x, z
  <2>2. QED
    BY <1>1, <2>1, PartsOfJoined
<1>13. QED
  BY <1>9, <1>11, <1>12

LEMMA SourceParses ==
    ASSUME NEW source, source.owner \in Seq(Chars), source.name \in Seq(Chars), ~Contains(source.owner, "/"),
           NEW parts \in ParseGithubRepoUri(SourceUri(source))
    PROVE  parts.before = source.owner /\ parts.after = source.name
<1> DEFINE y == Join(source.owner, "/", source.name)
<1>1. y \in Seq(Chars)
  BY JoinIsText
<1>2. SourceUri(source) = GithubUriPrefix \o y
  BY DEF SourceUri
<1> HIDE DEF y
<1>3. PICK r \in StripPrefix(SourceUri(source), GithubUriPrefix) : parts \in SplitOnce(r, "/")
  BY DEF ParseGithubRepoUri
<1>4. r = y
  BY <1>1, <1>2, <1>3, PrefixIsText, StripJoined
<1>5. parts \in SplitOnce(Join(source.owner, "/", source.name), "/")
  BY <1>3, <1>4 DEF y
<1>6. QED
  BY <1>5, SlashSplit

\* What parse_github_identity of the client accepts is the URI of a workflow, taken apart.
LEMMA IdentityParses ==
    ASSUME NEW u \in Seq(Chars), NEW i \in ParseGithubIdentity(u)
    PROVE  \E w \in [owner : Seq(Chars), name : Seq(Chars), path : Seq(Chars), gitRef : Seq(Chars)] :
              /\ IsWorkflow(w) /\ u = SanText(w)
              /\ i.repository = Join(w.owner, "/", w.name) /\ i.path = w.path /\ i.gitRef = w.gitRef
<1> DEFINE P(s) == {[owner |-> q.owner, name |-> q.name, path |-> q.path, gitRef |-> s.after] : q \in OwnerNamePath(s.before)}
<1>1. PICK r \in StripPrefix(u, GithubUriPrefix) : \E s \in SplitOnce(r, "@") : \E p \in P(s) :
        i = [repository |-> Join(p.owner, "/", p.name), path |-> p.path, gitRef |-> p.gitRef]
  BY DEF ParseGithubIdentity
<1>2. PICK s \in SplitOnce(r, "@") : \E p \in P(s) :
        i = [repository |-> Join(p.owner, "/", p.name), path |-> p.path, gitRef |-> p.gitRef]
  BY <1>1
<1>3. PICK q \in OwnerNamePath(s.before) :
        i = [repository |-> Join(q.owner, "/", q.name), path |-> q.path, gitRef |-> s.after]
  BY <1>2
<1>4. r \in Seq(Chars) /\ u = GithubUriPrefix \o r
  BY <1>1, PrefixIsText, StripMeans
<1>5. s.before \in Seq(Chars) /\ s.after \in Seq(Chars) /\ r = Join(s.before, "@", s.after)
  BY <1>4, SplitText
<1>6. PICK a \in SplitOnce(s.before, "/") : \E b \in SplitOnce(a.after, "/") :
        q = [owner |-> a.before, name |-> b.before, path |-> b.after]
  BY <1>3 DEF OwnerNamePath
<1>7. PICK b \in SplitOnce(a.after, "/") : q = [owner |-> a.before, name |-> b.before, path |-> b.after]
  BY <1>6
<1>8. /\ a.before \in Seq(Chars) /\ a.after \in Seq(Chars)
      /\ s.before = Join(a.before, "/", a.after) /\ ~Contains(a.before, "/")
  BY <1>5, SplitText
<1>9. /\ b.before \in Seq(Chars) /\ b.after \in Seq(Chars)
      /\ a.after = Join(b.before, "/", b.after) /\ ~Contains(b.before, "/")
  BY <1>8, SplitText
<1> DEFINE w == [owner |-> a.before, name |-> b.before, path |-> b.after, gitRef |-> s.after]
<1>10. w.owner = a.before /\ w.name = b.before /\ w.path = b.after /\ w.gitRef = s.after
  OBVIOUS
<1>11. w \in [owner : Seq(Chars), name : Seq(Chars), path : Seq(Chars), gitRef : Seq(Chars)]
  BY <1>5, <1>8, <1>9
<1> HIDE DEF w
<1>12. IsWorkflow(w)
  BY <1>5, <1>8, <1>9, <1>10 DEF IsWorkflow
<1>13. u = SanText(w)
  BY <1>4, <1>5, <1>8, <1>9, <1>10 DEF SanText
<1>14. i.repository = Join(w.owner, "/", w.name) /\ i.path = w.path /\ i.gitRef = w.gitRef
  BY <1>3, <1>7, <1>10
<1>15. QED
  BY <1>11, <1>12, <1>13, <1>14

LEMMA RepositoryParses ==
    ASSUME NEW o \in Seq(Chars), NEW n \in Seq(Chars), ~Contains(o, "/"),
           NEW r \in RepositoryIdentityParse(Join(o, "/", n))
    PROVE  r = [owner |-> CaseText(o), name |-> CaseText(n), ownerId |-> {}, repositoryId |-> {}]
<1>1. PICK s \in SplitOnce(Join(o, "/", n), "/") : r \in RepositoryIdentityNew(s.before, s.after)
  BY DEF RepositoryIdentityParse
<1>2. s.before = o /\ s.after = n
  BY SlashSplit
<1>3. QED
  BY <1>1, <1>2 DEF RepositoryIdentityNew

\* A repository option is the two names it is parsed to, joined.
LEMMA RepositoryText ==
    ASSUME NEW u \in Seq(Chars), NEW r \in RepositoryIdentityParse(u)
    PROVE  \E o, n \in Seq(Chars) :
              /\ u = Join(o, "/", n) /\ ~Contains(o, "/")
              /\ r = [owner |-> CaseText(o), name |-> CaseText(n), ownerId |-> {}, repositoryId |-> {}]
<1>1. PICK s \in SplitOnce(u, "/") : r \in RepositoryIdentityNew(s.before, s.after)
  BY DEF RepositoryIdentityParse
<1>2. s.before \in Seq(Chars) /\ s.after \in Seq(Chars) /\ u = Join(s.before, "/", s.after) /\ ~Contains(s.before, "/")
  BY SplitText
<1>3. r = [owner |-> CaseText(s.before), name |-> CaseText(s.after), ownerId |-> {}, repositoryId |-> {}]
  BY <1>1 DEF RepositoryIdentityNew
<1>4. QED
  BY <1>2, <1>3

\* Texts with the same fold.
Low(c) == IF c \in DOMAIN Lowercase THEN Lowercase[c] ELSE c

LEMMA FoldIs ==
    ASSUME NEW S, NEW x \in Seq(S)
    PROVE  DOMAIN Fold(x) = 1..Len(x) /\ \A i \in 1..Len(x) : Fold(x)[i] = Low(x[i])
  BY DEF Fold, Low

LEMMA FoldMeans ==
    ASSUME NEW S, NEW x \in Seq(S), NEW y \in Seq(S), Fold(x) = Fold(y)
    PROVE  Len(x) = Len(y) /\ \A i \in 1..Len(x) : Low(x[i]) = Low(y[i])
<1>1. Len(x) \in Nat /\ Len(y) \in Nat
  BY LenProperties
<1>2. 1..Len(x) = 1..Len(y)
  BY FoldIs
<1>3. Len(x) = Len(y)
  BY <1>1, <1>2
<1>4. ASSUME NEW i \in 1..Len(x) PROVE Low(x[i]) = Low(y[i])
  BY <1>2, FoldIs
<1>5. QED
  BY <1>3, <1>4

LEMMA JoinAssociates ==
    ASSUME NEW S, NEW x \in Seq(S), NEW y \in Seq(S), NEW z \in Seq(S), NEW c \in S, NEW e \in S
    PROVE  Join(Join(x, c, y), e, z) = Join(x, c, Join(y, e, z))
<1> DEFINE m == <<e>>
           a == x \o <<c>>
           b == y \o m
<1>1. m \in Seq(S) /\ a \in Seq(S)
  OBVIOUS
<1>2. Join(Join(x, c, y), e, z) = ((a \o y) \o m) \o z /\ Join(x, c, Join(y, e, z)) = a \o (b \o z)
  BY DEF Join
<1> HIDE DEF m, a
<1>3. (a \o y) \o m = a \o b
  BY <1>1, ConcatAssociative, SMTT(30)
<1>4. b \in Seq(S)
  BY <1>1
<1> HIDE DEF b
<1>5. \A u, v \in Seq(S) : (u \o v) \o z = u \o (v \o z)
  OBVIOUS
<1>6. (a \o b) \o z = a \o (b \o z)
  BY <1>1, <1>4, <1>5, Zenon
<1>7. QED
  BY <1>2, <1>3, <1>6, Zenon

\* y is in a text after n of its characters.
After(text, n, y) == n + Len(y) <= Len(text) /\ \A i \in 1..Len(y) : text[n + i] = y[i]

LEMMA AfterTwice ==
   ASSUME NEW S, NEW text \in Seq(S), NEW x \in Seq(S), NEW y \in Seq(S), NEW m \in Nat, NEW n \in Nat, After(text, m, x), After(x, n, y),
          NEW k, k = m + n
   PROVE  After(text, k, y)
<1>1. Len(x) \in Nat /\ Len(y) \in Nat /\ Len(text) \in Nat
  OBVIOUS
<1>2. m + Len(x) <= Len(text) /\ n + Len(y) <= Len(x) /\ m + n + Len(y) <= Len(text)
  BY <1>1 DEF After
<1>3. ASSUME NEW i \in 1..Len(y) PROVE text[m + n + i] = y[i]
  <2>1. n + i \in 1..Len(x) /\ m + (n + i) = m + n + i
    BY <1>1, <1>2
  <2>2. text[m + (n + i)] = x[n + i] /\ x[n + i] = y[i]
    BY <2>1 DEF After
  <2>3. QED
    BY <2>1, <2>2
<1>4. QED
  BY <1>2, <1>3 DEF After

LEMMA InConcat ==
  ASSUME NEW S, NEW x \in Seq(S), NEW y \in Seq(S)
  PROVE  x \o y \in Seq(S) /\ Len(x \o y) = Len(x) + Len(y) /\ After(x \o y, 0, x) /\ After(x \o y, Len(x), y)
<1>1. x \o y \in Seq(S) /\ Len(x \o y) = Len(x) + Len(y)
  OBVIOUS
<1>2. After(x \o y, 0, x)
  BY DEF After
<1>3. After(x \o y, Len(x), y)
  BY DEF After
<1>4. QED
  BY <1>1, <1>2, <1>3

LEMMA InJoin ==
  ASSUME NEW S, NEW x \in Seq(S), NEW c \in S, NEW y \in Seq(S)
  PROVE  /\ Join(x, c, y) \in Seq(S) /\ Len(Join(x, c, y)) = Len(x) + 1 + Len(y)
         /\ After(Join(x, c, y), 0, x) /\ After(Join(x, c, y), Len(x) + 1, y)
         /\ Join(x, c, y)[Len(x) + 1] = c
<1>1. Join(x, c, y) \in Seq(S) /\ Len(Join(x, c, y)) = Len(x) + 1 + Len(y) /\ Join(x, c, y)[Len(x) + 1] = c
  BY DEF Join
<1>2. After(Join(x, c, y), 0, x)
  BY DEF After, Join
<1>3. After(Join(x, c, y), Len(x) + 1, y)
  BY DEF After, Join
<1>4. QED
  BY <1>1, <1>2, <1>3

\* A text that is two characters, an owner, a name and the rest, with separators.
IsUri(text, S, p, o, c, n, q) ==
    /\ text \in Seq(S) /\ Len(text) = Len(o) + Len(n) + 4 + Len(q)
    /\ After(text, 0, p) /\ After(text, 2, o) /\ After(text, Len(o) + 3, n) /\ After(text, Len(o) + Len(n) + 4, q)
    /\ text[Len(o) + 3] = c /\ text[Len(o) + Len(n) + 4] = c

LEMMA InUri ==
    ASSUME NEW S, NEW p \in Seq(S), Len(p) = 2, NEW o \in Seq(S), NEW c \in S, NEW n \in Seq(S), NEW q \in Seq(S)
    PROVE  IsUri(p \o Join(o, c, Join(n, c, q)), S, p, o, c, n, q)
<1> DEFINE y == Join(n, c, q)
           x == Join(o, c, y)
           text == p \o x
<1>0. /\ \A a, b \in Seq(S) :
            /\ Join(a, c, b) \in Seq(S) /\ Len(Join(a, c, b)) = Len(a) + 1 + Len(b)
            /\ After(Join(a, c, b), 0, a) /\ After(Join(a, c, b), Len(a) + 1, b) /\ Join(a, c, b)[Len(a) + 1] = c
      /\ \A a, b \in Seq(S) : a \o b \in Seq(S) /\ Len(a \o b) = Len(a) + Len(b) /\ After(a \o b, 0, a) /\ After(a \o b, Len(a), b)
  <2>1. \A a, b \in Seq(S) :
            /\ Join(a, c, b) \in Seq(S) /\ Len(Join(a, c, b)) = Len(a) + 1 + Len(b)
            /\ After(Join(a, c, b), 0, a) /\ After(Join(a, c, b), Len(a) + 1, b) /\ Join(a, c, b)[Len(a) + 1] = c
    BY InJoin
  <2>2. \A a, b \in Seq(S) :
            /\ a \o b \in Seq(S) /\ Len(a \o b) = Len(a) + Len(b)
            /\ After(a \o b, 0, a) /\ After(a \o b, Len(a), b)
    BY InConcat
  <2>3. QED
    BY ONLY <2>1, <2>2
<1>1. y \in Seq(S) /\ Len(y) = Len(n) + 1 + Len(q) /\ After(y, 0, n) /\ After(y, Len(n) + 1, q) /\ y[Len(n) + 1] = c
  BY <1>0, Zenon
<1> HIDE DEF y
<1>2. x \in Seq(S) /\ Len(x) = Len(o) + 1 + Len(y) /\ After(x, 0, o) /\ After(x, Len(o) + 1, y) /\ x[Len(o) + 1] = c
  BY <1>0, <1>1, Zenon
<1> HIDE DEF x
<1>4. text \in Seq(S) /\ Len(text) = Len(p) + Len(x) /\ After(text, 0, p) /\ After(text, Len(p), x)
  BY <1>0, <1>2, Zenon
<1> HIDE DEF text
<1> DEFINE lo == Len(o)
           ln == Len(n)
<1>5. lo \in Nat /\ ln \in Nat /\ Len(q) \in Nat
  OBVIOUS
<1>6. Len(y) = ln + 1 + Len(q) /\ Len(x) = lo + 1 + Len(y) /\ Len(text) = 2 + Len(x) /\ After(text, 2, x) /\ After(x, lo + 1, y)
     /\ After(y, ln + 1, q)
  BY <1>1, <1>2, <1>4
<1> HIDE DEF lo, ln
<1>7. After(text, 2, o)
  <2>1. 2 = 2 + 0 /\ 2 \in Nat /\ 0 \in Nat
    OBVIOUS
  <2>2. QED
    BY <1>2, <1>4, <1>6, <2>1, AfterTwice, Zenon
<1> DEFINE a == lo + 1
           b == lo + 3
           d == ln + 1
           e == lo + ln + 4
<1>8. /\ a \in Nat /\ b \in Nat /\ d \in Nat /\ 0 \in Nat /\ 2 \in Nat /\ b = 2 + a /\ b = b + 0 /\ e = b + d
      /\ After(x, a, y) /\ After(y, d, q)
  BY <1>5, <1>6
<1> HIDE DEF a, b, d, e
<1>9. After(text, b, y)
  BY <1>1, <1>2, <1>4, <1>6, <1>8, AfterTwice, Zenon
<1>10. After(text, b, n) /\ After(text, e, q)
  BY <1>1, <1>4, <1>8, <1>9, AfterTwice, Zenon
<1>11. text[lo + 3] = c
  <2>1. lo + 1 \in 1..Len(x) /\ 2 + (lo + 1) = lo + 3
    BY <1>5, <1>6
  <2>2. text[2 + (lo + 1)] = x[lo + 1]
    BY <1>6, <2>1 DEF After
  <2>3. x[lo + 1] = c
    BY <1>2 DEF lo
  <2>4. QED
    BY <2>1, <2>2, <2>3
<1>12. text[lo + ln + 4] = c
  <2>1. ln + 1 \in 1..Len(y) /\ lo + 3 + (ln + 1) = lo + ln + 4
    BY <1>5, <1>6
  <2>2. text[lo + 3 + (ln + 1)] = y[ln + 1]
    BY <1>9, <2>1 DEF After, b
  <2>3. y[ln + 1] = c
    BY <1>1 DEF ln
  <2>4. QED
    BY <2>1, <2>2, <2>3
<1>13. Len(text) = lo + ln + 4 + Len(q)
  BY <1>5, <1>6
<1>14. QED
  BY <1>4, <1>7, <1>10, <1>11, <1>12, <1>13 DEF IsUri, lo, ln, b, e, text, x, y

LEMMA InSan ==
    ASSUME NEW w, IsWorkflow(w)
    PROVE  IsUri(SanText(w), Chars, GithubUriPrefix, w.owner, "/", w.name, Join(w.path, "@", w.gitRef))
<1> DEFINE c == "/"
           e == "@"
           p == GithubUriPrefix
           q == Join(w.path, e, w.gitRef)
           z == Join(w.name, c, w.path)
           text == p \o Join(w.owner, c, Join(w.name, c, q))
<1>1. /\ w.owner \in Seq(Chars) /\ w.name \in Seq(Chars) /\ w.path \in Seq(Chars) /\ w.gitRef \in Seq(Chars)
  BY DEF IsWorkflow
<1>2. c \in Chars /\ e \in Chars /\ p \in Seq(Chars) /\ Len(p) = 2
  BY PrefixIsText DEF Chars, GithubUriPrefix
<1>3. z \in Seq(Chars) /\ q \in Seq(Chars)
  BY <1>1, JoinIsText
<1>4. SanText(w) = p \o Join(Join(w.owner, c, z), e, w.gitRef)
  BY DEF SanText
<1> HIDE DEF c, e, p
<1>5. Join(z, e, w.gitRef) = Join(w.name, c, Join(w.path, e, w.gitRef))
  BY <1>1, <1>2, JoinAssociates
<1> HIDE DEF z
<1>6. Join(Join(w.owner, c, z), e, w.gitRef) = Join(w.owner, c, Join(z, e, w.gitRef))
  BY <1>1, <1>2, <1>3, JoinAssociates
<1>7. SanText(w) = text
  BY <1>4, <1>5, <1>6
<1> HIDE DEF q
<1>8. IsUri(text, Chars, p, w.owner, c, w.name, q)
  BY <1>1, <1>2, <1>3, InUri
<1> HIDE DEF text
<1>9. QED
  BY <1>7, <1>8 DEF c, e, p, q

\* Three '/' come before a character of a workflow's URI exactly when it follows the name's.
LEMMA ThreeSlashes ==
    ASSUME NEW w, IsWorkflow(w), NEW i \in Nat
    PROVE  (\E j, k, l \in {j \in DOMAIN SanText(w) : SanText(w)[j] = "/"} : j < k /\ k < l /\ l < i)
              <=> Len(w.owner) + Len(w.name) + 4 < i
<1> DEFINE text == SanText(w)
           o == w.owner
           n == w.name
           q == Join(w.path, "@", w.gitRef)
           lo == Len(o)
           ln == Len(n)
           slashes == {j \in DOMAIN text : text[j] = "/"}
<1>1. IsUri(text, Chars, GithubUriPrefix, o, "/", n, q)
  BY InSan
<1>2. o \in Seq(Chars) /\ n \in Seq(Chars) /\ ~Contains(o, "/") /\ ~Contains(n, "/") /\ q \in Seq(Chars)
  BY JoinIsText DEF IsWorkflow
<1> HIDE DEF text, o, n, q
<1>3. lo \in Nat /\ ln \in Nat /\ Len(q) \in Nat
  BY <1>2, LenProperties
<1>4. DOMAIN text = 1..Len(text) /\ Len(text) = lo + ln + 4 + Len(q)
  BY <1>1, LenProperties DEF IsUri
<1>5. text[1] = "https://github.com" /\ text[2] = "/"
  <2>1. Len(GithubUriPrefix) = 2 /\ GithubUriPrefix[1] = "https://github.com" /\ GithubUriPrefix[2] = "/"
    BY DEF GithubUriPrefix
  <2>2. After(text, 0, GithubUriPrefix)
    BY <1>1 DEF IsUri
  <2> DEFINE p == GithubUriPrefix
  <2> HIDE DEF p
  <2>3. Len(p) = 2 /\ p[1] = "https://github.com" /\ p[2] = "/" /\ After(text, 0, p)
    BY <2>1, <2>2 DEF p
  <2>4. text[0 + 1] = p[1] /\ text[0 + 2] = p[2]
    BY <2>3 DEF After
  <2>5. QED
    BY <2>3, <2>4
<1>6. text[lo + 3] = "/" /\ text[lo + ln + 4] = "/"
  BY <1>1 DEF IsUri
<1>7. After(text, 2, o) /\ After(text, lo + 3, n)
  BY <1>1 DEF IsUri
<1> HIDE DEF lo, ln
<1>8. 2 \in slashes /\ lo + 3 \in slashes /\ lo + ln + 4 \in slashes
  BY <1>3, <1>4, <1>5, <1>6
<1>9. ASSUME NEW j \in slashes, j < lo + ln + 4
      PROVE  j = 2 \/ j = lo + 3
  <2>1. j \in 1..(lo + ln + 4 + Len(q)) /\ text[j] = "/"
    BY <1>4
  <2>2. j # 1
    BY <1>5, <2>1
  <2>3. ~(2 < j /\ j < lo + 3)
    <3> SUFFICES ASSUME 2 < j, j < lo + 3 PROVE FALSE
      OBVIOUS
    <3>1. j - 2 \in 1..Len(o) /\ 2 + (j - 2) = j
      BY <1>3, <2>1 DEF lo
    <3>2. o[j - 2] = "/"
      BY <1>7, <2>1, <3>1 DEF After
    <3>3. QED
      BY <1>2, <3>1, <3>2 DEF Contains
  <2>4. ~(lo + 3 < j /\ j < lo + ln + 4)
    <3> SUFFICES ASSUME lo + 3 < j, j < lo + ln + 4 PROVE FALSE
      OBVIOUS
    <3> DEFINE m == lo + 3
    <3>1. j - m \in 1..Len(n) /\ m + (j - m) = j
      BY <1>3, <2>1 DEF ln
    <3> HIDE DEF m
    <3>2. After(text, m, n)
      BY <1>7 DEF m
    <3>3. n[j - m] = "/"
      BY <2>1, <3>1, <3>2 DEF After
    <3>4. QED
      BY <1>2, <3>1, <3>3 DEF Contains
  <2>5. QED
    BY <1>3, <1>9, <2>1, <2>2, <2>3, <2>4
<1>10. ASSUME NEW j \in slashes, NEW k \in slashes, NEW l \in slashes, j < k, k < l, l < i
       PROVE  lo + ln + 4 < i
  <2>1. j \in Nat /\ k \in Nat /\ l \in Nat
    BY <1>3, <1>4
  <2>2. ~(l < lo + ln + 4)
    <3> SUFFICES ASSUME l < lo + ln + 4 PROVE FALSE
      OBVIOUS
    <3>1. j < lo + ln + 4 /\ k < lo + ln + 4
      BY <1>3, <1>10, <2>1
    <3>2. (j = 2 \/ j = lo + 3) /\ (k = 2 \/ k = lo + 3) /\ (l = 2 \/ l = lo + 3)
      BY <1>9, <3>1
    <3>3. QED
      BY <1>3, <1>10, <2>1, <3>2
  <2>3. QED
    BY <1>3, <1>10, <2>1, <2>2
<1>11. ASSUME lo + ln + 4 < i PROVE \E j, k, l \in slashes : j < k /\ k < l /\ l < i
  <2>1. 2 < lo + 3 /\ lo + 3 < lo + ln + 4
    BY <1>3
  <2>2. QED
    BY <1>8, <1>11, <2>1
<1>12. (\E j, k, l \in slashes : j < k /\ k < l /\ l < i) <=> lo + ln + 4 < i
  BY <1>10, <1>11
<1>13. QED
  BY <1>12 DEF text, lo, ln, o, n

\* The same workflow, but for the case of its owner and name, has the same folded URI.
LEMMA SameUri ==
    ASSUME NEW v, NEW w, IsWorkflow(v), IsWorkflow(w), Fold(v.owner) = Fold(w.owner), Fold(v.name) = Fold(w.name),
           v.path = w.path, v.gitRef = w.gitRef
    PROVE  FoldRepository(SanText(v)) = FoldRepository(SanText(w))
<1> DEFINE s == SanText(v)
           t == SanText(w)
           p == GithubUriPrefix
           q == Join(w.path, "@", w.gitRef)
           lo == Len(w.owner)
           ln == Len(w.name)
           m == lo + ln + 4
           R(uri) == [i \in DOMAIN uri |-> IF m < i THEN uri[i] ELSE Fold(uri)[i]]
<1>1. IsUri(s, Chars, p, v.owner, "/", v.name, q) /\ IsUri(t, Chars, p, w.owner, "/", w.name, q)
  BY InSan
<1>2. /\ v.owner \in Seq(Chars) /\ v.name \in Seq(Chars) /\ w.owner \in Seq(Chars) /\ w.name \in Seq(Chars)
      /\ q \in Seq(Chars) /\ p \in Seq(Chars)
  BY JoinIsText, PrefixIsText DEF IsWorkflow
<1>3. /\ Len(v.owner) = lo /\ \A i \in 1..lo : Low(v.owner[i]) = Low(w.owner[i])
      /\ Len(v.name) = ln /\ \A i \in 1..ln : Low(v.name[i]) = Low(w.name[i])
  BY <1>2, FoldMeans
<1>4. lo \in Nat /\ ln \in Nat /\ Len(q) \in Nat
  BY <1>2, LenProperties
<1>5. FoldRepository(s) = R(s) /\ FoldRepository(t) = R(t)
  <2>1. DOMAIN s \subseteq Nat /\ DOMAIN t \subseteq Nat
    <3>1. s \in Seq(Chars) /\ t \in Seq(Chars)
      BY <1>1 DEF IsUri
    <3> HIDE DEF s, t
    <3>2. QED
      BY <3>1, LenProperties
  <2>2. \A i \in DOMAIN s : (\E j, k, l \in {j \in DOMAIN s : s[j] = "/"} : j < k /\ k < l /\ l < i) <=> m < i
    BY <1>3, <2>1, ThreeSlashes
  <2>3. \A i \in DOMAIN t : (\E j, k, l \in {j \in DOMAIN t : t[j] = "/"} : j < k /\ k < l /\ l < i) <=> m < i
    BY <2>1, ThreeSlashes
  <2> HIDE DEF s, t, m
  <2>4. QED
    BY <2>2, <2>3 DEF FoldRepository
<1> HIDE DEF s, t, p, q
<1>6. Len(p) = 2
  BY DEF p, GithubUriPrefix
<1>7. /\ s \in Seq(Chars) /\ t \in Seq(Chars) /\ Len(s) = m + Len(q) /\ Len(t) = m + Len(q)
      /\ After(s, 0, p) /\ After(s, 2, v.owner) /\ After(s, lo + 3, v.name) /\ After(s, m, q)
      /\ After(t, 0, p) /\ After(t, 2, w.owner) /\ After(t, lo + 3, w.name) /\ After(t, m, q)
      /\ s[lo + 3] = "/" /\ s[m] = "/" /\ t[lo + 3] = "/" /\ t[m] = "/"
  BY <1>1, <1>3 DEF IsUri
<1> HIDE DEF lo, ln
<1>8. m \in Nat /\ m = lo + ln + 4
  BY <1>4
<1> HIDE DEF m
<1>9. DOMAIN s = 1..(m + Len(q)) /\ DOMAIN t = 1..(m + Len(q))
  BY <1>7, LenProperties
<1>10. ASSUME NEW i \in 1..(m + Len(q)), m < i PROVE s[i] = t[i]
  <2>1. i - m \in 1..Len(q) /\ m + (i - m) = i
    BY <1>4, <1>8, <1>10
  <2>2. QED
    BY <1>7, <2>1 DEF After
<1>11. ASSUME NEW i \in 1..(m + Len(q)), ~(m < i) PROVE Low(s[i]) = Low(t[i])
  <2>1. CASE i <= 2
    <3>1. i \in 1..Len(p) /\ 0 + i = i
      BY <1>6, <2>1
    <3>2. s[i] = p[i] /\ t[i] = p[i]
      BY <1>7, <3>1 DEF After
    <3>3. QED
      BY <3>2
  <2>2. CASE 2 < i /\ i < lo + 3
    <3>1. i - 2 \in 1..lo /\ 2 + (i - 2) = i
      BY <1>4, <2>2
    <3>2. lo = Len(v.owner) /\ lo = Len(w.owner)
      BY <1>3 DEF lo
    <3>3. s[i] = v.owner[i - 2] /\ t[i] = w.owner[i - 2]
      BY <1>7, <3>1, <3>2, SMTT(30) DEF After
    <3>4. QED
      BY <1>3, <3>1, <3>3, SMTT(30)
  <2>3. CASE i = lo + 3 \/ i = m
    BY <1>7, <2>3
  <2>4. CASE lo + 3 < i /\ i < m
    <3> DEFINE a == lo + 3
    <3>1. i - a \in 1..ln /\ a + (i - a) = i
      BY <1>4, <1>8, <2>4
    <3> HIDE DEF a
    <3>2. ln = Len(v.name) /\ ln = Len(w.name) /\ After(s, a, v.name) /\ After(t, a, w.name)
      BY <1>3, <1>7 DEF ln, a
    <3>3. s[i] = v.name[i - a] /\ t[i] = w.name[i - a]
      BY <3>1, <3>2 DEF After
    <3>4. QED
      BY <1>3, <3>1, <3>3
  <2>5. QED
    BY <1>4, <1>8, <1>11, <2>1, <2>2, <2>3, <2>4
<1>12. ASSUME NEW i \in 1..(m + Len(q)) PROVE R(s)[i] = R(t)[i]
  <2>1. Fold(s)[i] = Low(s[i]) /\ Fold(t)[i] = Low(t[i])
    BY <1>7, FoldIs
  <2>2. R(s)[i] = (IF m < i THEN s[i] ELSE Fold(s)[i]) /\ R(t)[i] = (IF m < i THEN t[i] ELSE Fold(t)[i])
    BY <1>9
  <2>3. QED
    BY <1>10, <1>11, <2>1, <2>2
<1>13. R(s) = R(t)
  <2> DEFINE d == 1..(m + Len(q))
             f(i) == IF m < i THEN s[i] ELSE Fold(s)[i]
             g(i) == IF m < i THEN t[i] ELSE Fold(t)[i]
  <2>1. R(s) = [i \in d |-> f(i)] /\ R(t) = [i \in d |-> g(i)]
    BY <1>9
  <2>2. \A i \in d : f(i) = g(i)
    BY <1>9, <1>12
  <2> HIDE DEF d, f, g, R
  <2>3. QED
    BY <2>1, <2>2
<1>14. QED
  BY <1>5, <1>13 DEF s, t

\* The same repository, but for case, has the same folded "owner/name".
LEMMA SameRepository ==
    ASSUME NEW o \in Seq(Chars), NEW n \in Seq(Chars), NEW a \in Seq(Chars), NEW b \in Seq(Chars),
           Fold(o) = Fold(a), Fold(n) = Fold(b)
    PROVE  Fold(Join(o, "/", n)) = Fold(Join(a, "/", b))
<1> DEFINE c == "/"
           s == Join(o, c, n)
           t == Join(a, c, b)
           lo == Len(o)
           ln == Len(n)
<1>1. c \in Chars
  BY DEF Chars
<1> HIDE DEF c
<1>2. /\ Len(a) = lo /\ \A i \in 1..lo : Low(o[i]) = Low(a[i])
      /\ Len(b) = ln /\ \A i \in 1..ln : Low(n[i]) = Low(b[i])
  BY FoldMeans
<1>3. lo \in Nat /\ ln \in Nat
  BY LenProperties
<1>0. \A x, y \in Seq(Chars) :
        /\ Join(x, c, y) \in Seq(Chars) /\ Len(Join(x, c, y)) = Len(x) + 1 + Len(y)
        /\ After(Join(x, c, y), 0, x) /\ After(Join(x, c, y), Len(x) + 1, y) /\ Join(x, c, y)[Len(x) + 1] = c
  BY <1>1, InJoin
<1>4. s \in Seq(Chars) /\ Len(s) = lo + 1 + ln /\ After(s, 0, o) /\ After(s, lo + 1, n) /\ s[lo + 1] = c
  BY <1>0, Zenon
<1>5. t \in Seq(Chars) /\ Len(t) = Len(a) + 1 + Len(b) /\ After(t, 0, a) /\ After(t, Len(a) + 1, b) /\ t[Len(a) + 1] = c
  BY <1>0, Zenon
<1> HIDE DEF s, t
<1>6. ASSUME NEW i \in 1..(lo + 1 + ln) PROVE Low(s[i]) = Low(t[i])
  <2>1. CASE i <= lo
    <3>1. i \in 1..Len(o) /\ i \in 1..Len(a) /\ 0 + i = i
      BY <1>2, <1>3, <2>1
    <3>2. s[i] = o[i] /\ t[i] = a[i]
      BY <1>4, <1>5, <3>1 DEF After
    <3>3. QED
      BY <1>2, <3>1, <3>2
  <2>2. CASE i = lo + 1
    BY <1>2, <1>4, <1>5, <2>2
  <2>3. CASE lo + 1 < i
    <3> DEFINE d == lo + 1
    <3>1. i - d \in 1..Len(n) /\ i - d \in 1..Len(b) /\ d + (i - d) = i
      BY <1>2, <1>3, <2>3
    <3> HIDE DEF d
    <3>2. After(s, d, n) /\ After(t, d, b)
      BY <1>2, <1>4, <1>5 DEF d
    <3>3. s[i] = n[i - d] /\ t[i] = b[i - d]
      BY <3>1, <3>2 DEF After
    <3>4. QED
      BY <1>2, <3>1, <3>3
  <2>4. QED
    BY <1>3, <2>1, <2>2, <2>3
<1>7. Len(s) = lo + 1 + ln /\ Len(t) = lo + 1 + ln
  BY <1>2, <1>4, <1>5
<1>8. /\ DOMAIN Fold(s) = 1..(lo + 1 + ln) /\ DOMAIN Fold(t) = 1..(lo + 1 + ln)
      /\ \A i \in 1..(lo + 1 + ln) : Fold(s)[i] = Low(s[i]) /\ Fold(t)[i] = Low(t[i])
  BY <1>4, <1>5, <1>7, FoldIs
<1>9. Fold(s) = Fold(t)
  <2>1. Fold(s) = [i \in DOMAIN Fold(s) |-> Fold(s)[i]] /\ Fold(t) = [i \in DOMAIN Fold(t) |-> Fold(t)[i]]
    BY DEF Fold
  <2>2. \A i \in 1..(lo + 1 + ln) : Fold(s)[i] = Fold(t)[i]
    BY <1>6, <1>8
  <2>3. QED
    BY <1>8, <2>1, <2>2
<1>10. QED
  BY <1>9 DEF s, t, c

-----------------------------------------------------------------------------
(***************************************************************************)
(* What a policy that is matched by the certificate of a signature says of *)
(* the run and the workflow that made the signature.                       *)
(***************************************************************************)
LEMMA ClaimOf ==
    ASSUME NEW tbs, NEW oid, NEW value, tbs.ext[oid] = Claimed(value), oid \in DOMAIN tbs.ext
    PROVE  Claim(tbs, oid) = {value}
<1> DEFINE r == [critical |-> FALSE, decodes |-> TRUE, value |-> value]
           found == <<r>>
<1>1. Occurrences(tbs, oid) = found
  BY DEF Occurrences, Claimed
<1>2. found # <<>> /\ Len(found) = 1 /\ DOMAIN found = {1} /\ found[1] = r /\ r.decodes /\ r.value = value
  OBVIOUS
<1> HIDE DEF r, found
<1>3. FindExtension(tbs, oid) = Ok
  BY <1>1, <1>2 DEF FindExtension
<1>4. Check(\A i \in DOMAIN Occurrences(tbs, oid) : Occurrences(tbs, oid)[i].decodes, "InvalidDer") = Ok
  BY <1>1, <1>2 DEF Check
<1>5. FindExtensionDecoded(tbs, oid) = Ok
  BY <1>3, <1>4, FirstError2 DEF FindExtensionDecoded
<1>6. QED
  BY <1>1, <1>2, <1>5 DEF Claim, ExtensionValue

LEMMA FirstError7 ==
    ASSUME NEW a, NEW b, NEW c, NEW d, NEW e, NEW f, NEW g, FirstError(<<a, b, c, d, e, f, g>>) = Ok
    PROVE  a = Ok /\ b = Ok /\ c = Ok /\ d = Ok /\ e = Ok /\ f = Ok /\ g = Ok
<1> DEFINE s == <<a, b, c, d, e, f, g>>
<1>1. DOMAIN s = 1..7 /\ s[1] = a /\ s[2] = b /\ s[3] = c /\ s[4] = d /\ s[5] = e /\ s[6] = f /\ s[7] = g
  OBVIOUS
<1> HIDE DEF s
<1>2. DOMAIN s \subseteq Nat /\ FirstError(s) = Ok
  BY <1>1 DEF s
<1>3. \A i \in DOMAIN s : s[i] = Ok
  BY <1>2, FirstErrorOk
<1>4. QED
  BY <1>1, <1>3

LEMMA FirstError9 ==
    ASSUME NEW a, NEW b, NEW c, NEW d, NEW e, NEW f, NEW g, NEW h, NEW i,
           FirstError(<<a, b, c, d, e, f, g, h, i>>) = Ok
    PROVE  a = Ok /\ b = Ok /\ c = Ok /\ d = Ok /\ e = Ok /\ f = Ok /\ g = Ok /\ h = Ok /\ i = Ok
<1> DEFINE s == <<a, b, c, d, e, f, g, h, i>>
<1>1. /\ DOMAIN s = 1..9 /\ s[1] = a /\ s[2] = b /\ s[3] = c /\ s[4] = d /\ s[5] = e /\ s[6] = f /\ s[7] = g
      /\ s[8] = h /\ s[9] = i
  OBVIOUS
<1> HIDE DEF s
<1>2. DOMAIN s \subseteq Nat /\ FirstError(s) = Ok
  BY <1>1 DEF s
<1>3. \A k \in DOMAIN s : s[k] = Ok
  BY <1>2, FirstErrorOk
<1>4. QED
  BY <1>1, <1>3

LEMMA SourceMatched ==
    ASSUME NEW tbs, NEW source, MatchSource(tbs, source) = Ok
    PROVE  /\ \A u \in Claim(tbs, "sourceRepositoryUri") : u.parses /\ CheckRepositoryMatch(u, source.repository)
           /\ \A id \in source.repository.ownerId : \A x \in Claim(tbs, "sourceRepositoryOwnerId") : x = DecimalText(id)
           /\ \A id \in source.repository.repositoryId : \A x \in Claim(tbs, "sourceRepositoryId") : x = DecimalText(id)
           /\ \A r \in Claim(tbs, "sourceRepositoryRef") : CheckRefPolicy(r, source.gitRef)
<1> DEFINE uri == Claim(tbs, "sourceRepositoryUri")
           ref == Claim(tbs, "sourceRepositoryRef")
           digest == Claim(tbs, "sourceRepositoryDigest")
           owner == CheckPinnedId(source.repository.ownerId, Claim(tbs, "sourceRepositoryOwnerId"),
                                  "SourceOwnerIdMismatch")
           id == CheckPinnedId(source.repository.repositoryId, Claim(tbs, "sourceRepositoryId"),
                               "SourceRepositoryIdMismatch")
           a == RequireClaim(uri)
           b == Check(\A u \in uri : u.parses, "MalformedIdentityClaim")
           c == Check(\A u \in uri : CheckRepositoryMatch(u, source.repository), "SourceRepositoryMismatch")
           f == RequireClaim(ref)
           g == Check(\A r \in ref : CheckRefPolicy(r, source.gitRef), "SourceRefMismatch")
           h == Check(source.commit # {} => digest # {}, "MissingIdentityClaim")
           i == Check(\A x \in source.commit : \A d \in digest : EqIgnoreAsciiCase(x, d), "SourceCommitMismatch")
<1>1. FirstError(<<a, b, c, owner, id, f, g, h, i>>) = Ok
  BY DEF MatchSource
<1> HIDE DEF a, b, c, owner, id, f, g, h, i
<1>2. b = Ok /\ c = Ok /\ owner = Ok /\ id = Ok /\ g = Ok
  BY <1>1, FirstError9
<1>3. \A u \in uri : u.parses
  BY <1>2 DEF b, Check, Ok
<1>4. \A u \in uri : CheckRepositoryMatch(u, source.repository)
  BY <1>2 DEF c, Check, Ok
<1>5. \A r \in ref : CheckRefPolicy(r, source.gitRef)
  BY <1>2 DEF g, Check, Ok
<1>6. ASSUME NEW pinned, NEW claim, NEW mismatch, mismatch # Ok, CheckPinnedId(pinned, claim, mismatch) = Ok
      PROVE  \A n \in pinned : \A x \in claim : x = DecimalText(n)
  <2> DEFINE x == Check(pinned # {} => claim # {}, "MissingIdentityClaim")
             y == Check(\A n \in pinned : \A found \in claim : found = DecimalText(n), mismatch)
  <2>1. FirstError(<<x, y>>) = Ok
    BY <1>6 DEF CheckPinnedId
  <2> HIDE DEF x, y
  <2>2. y = Ok
    BY <2>1, FirstError2
  <2>3. QED
    BY <1>6, <2>2 DEF y, Check
<1>7. "SourceOwnerIdMismatch" # Ok /\ "SourceRepositoryIdMismatch" # Ok
  BY DEF Ok
<1>8. \A n \in source.repository.ownerId : \A x \in Claim(tbs, "sourceRepositoryOwnerId") : x = DecimalText(n)
  BY <1>2, <1>6, <1>7 DEF owner
<1>9. \A n \in source.repository.repositoryId : \A x \in Claim(tbs, "sourceRepositoryId") : x = DecimalText(n)
  BY <1>2, <1>6, <1>7 DEF id
<1>10. QED
  BY <1>3, <1>4, <1>5, <1>8, <1>9

LEMMA SignerMatched ==
    ASSUME NEW tbs, NEW signer, MatchSigner(tbs, signer) = Ok
    PROVE  \A s \in SanUri(tbs) : s.parses /\ CheckRepositoryMatch(s, signer.repository) /\ s.path = signer.path
<1> DEFINE san == SanUri(tbs)
           a == RequireClaim(san)
           b == Check(\A s \in san : s.parses, "MalformedIdentityClaim")
           c == Check(\A s \in san : CheckRepositoryMatch(s, signer.repository), "SignerRepositoryMismatch")
           d == Check(\A s \in san : s.path = signer.path, "SignerWorkflowPathMismatch")
<1>1. FirstError(<<a, b, c, d>>) = Ok
  BY DEF MatchSigner
<1> HIDE DEF a, b, c, d
<1>2. b = Ok /\ c = Ok /\ d = Ok
  BY <1>1, FirstError4
<1>3. \A s \in san : s.parses
  BY <1>2 DEF b, Check, Ok
<1>4. \A s \in san : CheckRepositoryMatch(s, signer.repository)
  BY <1>2 DEF c, Check, Ok
<1>5. \A s \in san : s.path = signer.path
  BY <1>2 DEF d, Check, Ok
<1>6. QED
  BY <1>3, <1>4, <1>5

\* What a policy asks, of the run and the workflow themselves.
Satisfies(signed, asked) ==
    /\ signed.issuer = ExpectedIssuer
    /\ asked.source.repository.owner.word = Fold(signed.source.owner)
    /\ asked.source.repository.name.word = Fold(signed.source.name)
    /\ asked.source.repository.ownerId \subseteq {signed.source.ownerId}
    /\ asked.source.repository.repositoryId \subseteq {signed.source.id}
    /\ asked.source.gitRef.type = "exact" => asked.source.gitRef.ref = signed.source.gitRef
    /\ asked.signer.repository.owner.word = Fold(signed.workflow.owner)
    /\ asked.signer.repository.name.word = Fold(signed.workflow.name)
    /\ asked.signer.path = signed.workflow.path
    /\ asked.signer.revision.type = "ref" => asked.signer.revision.ref = signed.workflow.gitRef

LEMMA SignedTexts ==
    ASSUME NEW payload \in DOMAIN Signed
    PROVE  /\ IsWorkflow(Signed[payload].workflow)
           /\ Signed[payload].source.owner \in Seq(Chars) /\ Signed[payload].source.name \in Seq(Chars)
           /\ ~Contains(Signed[payload].source.owner, "/") /\ ~Contains(Signed[payload].source.name, "/")
  BY SignedAssumption, TextsAreChars DEF SignedAssumption, IsWorkflow

LEMMA SignedClaims ==
    ASSUME NEW signed
    PROVE  /\ Claim(Tbs(signed), "issuer") = {signed.issuer}
           /\ Claim(Tbs(signed), "sourceRepositoryUri") = {SourceUriClaim(SourceUri(signed.source))}
           /\ Claim(Tbs(signed), "sourceRepositoryRef") = {signed.source.gitRef}
           /\ Claim(Tbs(signed), "sourceRepositoryId") = {DecimalText(signed.source.id)}
           /\ Claim(Tbs(signed), "sourceRepositoryOwnerId") = {DecimalText(signed.source.ownerId)}
           /\ SanUri(Tbs(signed)) = {SignerUriClaim(SanText(signed.workflow))}
<1> DEFINE tbs == Tbs(signed)
           uri == SourceUriClaim(SourceUri(signed.source))
           san == SignerUriClaim(SanText(signed.workflow))
           names == <<[type |-> "uri", uri |-> san]>>
<1>1. /\ {"issuer", "sourceRepositoryUri", "sourceRepositoryRef", "sourceRepositoryId", "sourceRepositoryOwnerId",
          "subjectAltName"} \subseteq DOMAIN tbs.ext
      /\ tbs.ext["issuer"] = Claimed(signed.issuer)
      /\ tbs.ext["sourceRepositoryUri"] = Claimed(uri)
      /\ tbs.ext["sourceRepositoryRef"] = Claimed(signed.source.gitRef)
      /\ tbs.ext["sourceRepositoryId"] = Claimed(DecimalText(signed.source.id))
      /\ tbs.ext["sourceRepositoryOwnerId"] = Claimed(DecimalText(signed.source.ownerId))
      /\ tbs.ext["subjectAltName"] = Claimed(names)
  BY DEF Tbs
<1> HIDE DEF tbs, names
<1>2. Claim(tbs, "subjectAltName") = {names}
  BY <1>1, ClaimOf
<1>3. SanUri(tbs) = {san}
  <2> HIDE DEF san
  <2>1. DOMAIN names = {1} /\ names[1].type = "uri" /\ names[1].uri = san
    BY DEF names
  <2> DEFINE hits(ns) == {i \in DOMAIN ns : ns[i].type = "uri"}
             first(ns) == IF hits(ns) = {} THEN 0 ELSE CHOOSE i \in hits(ns) : \A j \in hits(ns) : i <= j
             U(ns) == IF first(ns) = 0 THEN {} ELSE {ns[first(ns)].uri}
  <2>2. hits(names) = {1}
    BY <2>1
  <2>3. U(names) = {san}
    <3> HIDE DEF hits
    <3>1. first(names) = 1
      BY <2>2
    <3> HIDE DEF first
    <3>2. QED
      BY <2>1, <3>1
  <2>4. SanUri(tbs) = UNION {U(ns) : ns \in Claim(tbs, "subjectAltName")}
    BY DEF SanUri, FirstIndex
  <2> HIDE DEF U
  <2>5. QED
    BY <1>2, <2>3, <2>4
<1> HIDE DEF uri, san
<1>4. /\ Claim(tbs, "issuer") = {signed.issuer} /\ Claim(tbs, "sourceRepositoryUri") = {uri}
      /\ Claim(tbs, "sourceRepositoryRef") = {signed.source.gitRef}
  BY <1>1, ClaimOf
<1>5. /\ Claim(tbs, "sourceRepositoryId") = {DecimalText(signed.source.id)}
      /\ Claim(tbs, "sourceRepositoryOwnerId") = {DecimalText(signed.source.ownerId)}
  BY <1>1, ClaimOf
<1>6. QED
  BY <1>3, <1>4, <1>5 DEF tbs, uri, san

LEMMA PolicyMatched ==
    ASSUME NEW payload \in DOMAIN Signed, NEW asked, MatchPolicy(Certificate[payload], asked) = Ok
    PROVE  Satisfies(Signed[payload], asked)
<1> DEFINE signed == Signed[payload]
           tbs == Tbs(signed)
           uri == SourceUriClaim(SourceUri(signed.source))
           san == SignerUriClaim(SanText(signed.workflow))
           source == asked.source
           signer == asked.signer
<1>1. /\ Claim(tbs, "issuer") = {signed.issuer} /\ Claim(tbs, "sourceRepositoryUri") = {uri}
      /\ Claim(tbs, "sourceRepositoryRef") = {signed.source.gitRef}
      /\ Claim(tbs, "sourceRepositoryId") = {DecimalText(signed.source.id)}
      /\ Claim(tbs, "sourceRepositoryOwnerId") = {DecimalText(signed.source.ownerId)}
      /\ SanUri(tbs) = {san}
  BY SignedClaims
<1>2. MatchPolicy(tbs, asked) = Ok
  BY DEF Certificate
<1>3. uri.parses => uri.owner.word = Fold(signed.source.owner) /\ uri.name.word = Fold(signed.source.name)
  <2> SUFFICES ASSUME uri.parses
               PROVE  uri.owner.word = Fold(signed.source.owner) /\ uri.name.word = Fold(signed.source.name)
    OBVIOUS
  <2> DEFINE found == ParseGithubRepoUri(SourceUri(signed.source))
             parts == CHOOSE p \in found : TRUE
  <2>1. found # {}
    BY DEF SourceUriClaim
  <2>2. parts \in found
    BY <2>1
  <2>3. uri = [parses |-> TRUE, owner |-> CaseText(parts.before), name |-> CaseText(parts.after)]
    BY <2>1 DEF SourceUriClaim
  <2>4. parts.before = signed.source.owner /\ parts.after = signed.source.name
    BY <2>2, SignedTexts, SourceParses
  <2> HIDE DEF parts, uri
  <2>5. uri.owner.word = Fold(parts.before) /\ uri.name.word = Fold(parts.after)
    BY <2>3 DEF CaseText
  <2>6. QED
    BY <2>4, <2>5
<1>4. san.parses => /\ san.owner.word = Fold(signed.workflow.owner) /\ san.name.word = Fold(signed.workflow.name)
                    /\ san.path = signed.workflow.path /\ san.gitRef = signed.workflow.gitRef
  <2> SUFFICES ASSUME san.parses
               PROVE  /\ san.owner.word = Fold(signed.workflow.owner) /\ san.name.word = Fold(signed.workflow.name)
                      /\ san.path = signed.workflow.path /\ san.gitRef = signed.workflow.gitRef
    OBVIOUS
  <2> DEFINE found == ParseSignerSanUri(SanText(signed.workflow))
             parts == CHOOSE p \in found : TRUE
  <2>1. found # {}
    BY DEF SignerUriClaim
  <2>2. parts \in found
    BY <2>1
  <2>3. san = [parses |-> TRUE, owner |-> CaseText(parts.owner), name |-> CaseText(parts.name),
               path |-> parts.path, gitRef |-> parts.gitRef]
    BY <2>1 DEF SignerUriClaim
  <2>4. /\ parts.owner = signed.workflow.owner /\ parts.name = signed.workflow.name
        /\ parts.path = signed.workflow.path /\ parts.gitRef = signed.workflow.gitRef
    BY <2>2, SignedTexts, SanParses
  <2> HIDE DEF parts, san
  <2>5. /\ san.owner.word = Fold(parts.owner) /\ san.name.word = Fold(parts.name)
        /\ san.path = parts.path /\ san.gitRef = parts.gitRef
    BY <2>3 DEF CaseText
  <2>6. QED
    BY <2>4, <2>5
<1> HIDE DEF tbs, uri, san
<1>5. /\ {signed.issuer} = {ExpectedIssuer} /\ MatchSource(tbs, source) = Ok /\ MatchSigner(tbs, signer) = Ok
      /\ SignerRevision(tbs, signer) = Ok
  <2>1. "MissingIdentityClaim" # Ok /\ "IssuerMismatch" # Ok
    BY DEF Ok
  <2>2. QED
    BY <1>1, <1>2, <2>1 DEF MatchPolicy
<1>6. /\ uri.parses /\ CheckRepositoryMatch(uri, source.repository)
      /\ \A id \in source.repository.ownerId : DecimalText(signed.source.ownerId) = DecimalText(id)
      /\ \A id \in source.repository.repositoryId : DecimalText(signed.source.id) = DecimalText(id)
      /\ CheckRefPolicy(signed.source.gitRef, source.gitRef)
  BY <1>1, <1>5, SourceMatched
<1>7. san.parses /\ CheckRepositoryMatch(san, signer.repository) /\ san.path = signer.path
  BY <1>1, <1>5, SignerMatched
<1>8. source.repository.owner.word = Fold(signed.source.owner) /\ source.repository.name.word = Fold(signed.source.name)
  BY <1>3, <1>6 DEF CheckRepositoryMatch, EqIgnoreAsciiCase
<1>9. /\ source.repository.ownerId \subseteq {signed.source.ownerId}
      /\ source.repository.repositoryId \subseteq {signed.source.id}
  <2>1. \A m, n : DecimalText(m) = DecimalText(n) => m = n
    BY DEF DecimalText
  <2>2. QED
    BY <1>6, <2>1
<1>10. source.gitRef.type = "exact" => source.gitRef.ref = signed.source.gitRef
  BY <1>6 DEF CheckRefPolicy
<1>11. /\ signer.repository.owner.word = Fold(signed.workflow.owner)
       /\ signer.repository.name.word = Fold(signed.workflow.name) /\ signer.path = signed.workflow.path
  BY <1>4, <1>7 DEF CheckRepositoryMatch, EqIgnoreAsciiCase
<1>12. signer.revision.type = "ref" => signer.revision.ref = signed.workflow.gitRef
  <2> SUFFICES ASSUME signer.revision.type = "ref" PROVE signer.revision.ref = signed.workflow.gitRef
    OBVIOUS
  <2>1. (CHOOSE s \in SanUri(tbs) : TRUE) = san
    BY <1>1
  <2>2. CheckSignerRevision(tbs, san, signer.revision) = Ok
    BY <1>5, <2>1 DEF SignerRevision
  <2>3. san.gitRef = signer.revision.ref
    BY <2>2 DEF CheckSignerRevision, Ok
  <2>4. QED
    BY <1>4, <1>7, <2>3
<1>13. signed.issuer = ExpectedIssuer
  BY <1>5
<1>14. QED
  BY <1>8, <1>9, <1>10, <1>11, <1>12, <1>13 DEF Satisfies

-----------------------------------------------------------------------------
(***************************************************************************)
(* What leads from the options to the verifier: the options are complete   *)
(* once they are checked, the policies are made of them alone, and there   *)
(* is one bundle, whose signature is known.                                *)
(***************************************************************************)
Complete ==
    /\ run.program = "conformance" =>
          /\ opts["--staging"] = {} /\ opts["--key"] = {} /\ opts["--certificate-identity"] # {}
          /\ opts["operand"] # {} /\ opts["--certificate-oidc-issuer"] = {Issuer}
    /\ run.program = "example" =>
          /\ opts["--artifact"] = {} \/ opts["--digest"] = {}
          /\ opts["--repo"] # {} /\ opts["--signer-workflow"] # {} /\ opts["--checkpoint-origin"] # {}

IdentityAsked(p) ==
    \E w \in [owner : Seq(Chars), name : Seq(Chars), path : Seq(Chars), gitRef : Seq(Chars)] :
        /\ IsWorkflow(w) /\ Opt("--certificate-identity") = SanText(w)
        /\ p.signer.repository.owner.word = Fold(w.owner) /\ p.signer.repository.name.word = Fold(w.name)
        /\ p.signer.path = w.path /\ p.signer.revision.type = "ref" /\ p.signer.revision.ref = w.gitRef

RepositoryAsked(p) ==
    /\ \E o, n \in Seq(Chars) :
          /\ Opt("--repo") = Join(o, "/", n)
          /\ p.source.repository.owner.word = Fold(o) /\ p.source.repository.name.word = Fold(n)
          /\ p.signer.repository.owner.word = Fold(o) /\ p.signer.repository.name.word = Fold(n)
    /\ p.source.repository.ownerId = opts["--owner-id"] /\ p.source.repository.repositoryId = opts["--repo-id"]
    /\ opts["--source-ref"] # {} => p.source.gitRef.type = "exact" /\ p.source.gitRef.ref = Opt("--source-ref")
    /\ p.signer.path = Opt("--signer-workflow")

PolicyAsked(p) ==
    /\ run.program = "conformance" => IdentityAsked(p)
    /\ run.program = "example" => RepositoryAsked(p)

OriginAsked(origins) ==
    run.program = "example" => \A binding \in origins : binding.origins = {Opt("--checkpoint-origin")}

CompleteInv == Control /\ (pc \notin {"subcommand", "args", "calls", "done"} => Complete)

PolicyInv ==
    /\ CompleteInv
    /\ \A p \in builder.githubPolicy : PolicyAsked(p)
    /\ \A origins \in builder.originPolicy : OriginAsked(origins)
    /\ Single(verifier)
    /\ \A v \in verifier : PolicyAsked(v.githubPolicy) /\ OriginAsked(v.originPolicy)

OneBundle == Single(bundle) /\ \A b \in bundle : b.dsseEnvelope.payload \in DOMAIN Signed

AskedInv == PolicyInv /\ OneBundle /\ VerifiedMeansAsked

\* What VerifiedMeansAsked says of a run that was verified.
Meant ==
    LET signed == Signed[The(bundle).dsseEnvelope.payload]
    IN  /\ signed.authentic /\ Asked(signed)
        /\ Subject # {}
        /\ run.program # "library" => Subject \subseteq signed.subjects

LEMMA MeantIs == VerifiedMeansAsked <=> (result = Ok => Meant)
  BY DEF VerifiedMeansAsked, Meant

LEMMA MeantNext == VerifiedMeansAsked' <=> (result' = Ok => Meant')
  BY DEF VerifiedMeansAsked, Meant

LEMMA MeantStays ==
    ASSUME UNCHANGED <<run, opts, bundle, verifier>>
    PROVE  Meant' <=> Meant
<1>1. \A signed : Asked(signed)' <=> Asked(signed)
  BY DEF Asked, Opt
<1>2. Subject' = Subject
  BY DEF Subject, Opt
<1>3. QED
  BY <1>1, <1>2 DEF Meant

LEMMA VerifyOk ==
    ASSUME NEW v, NEW b, NEW subject, VerifyDigest(v, b, subject) = Ok, b.dsseEnvelope.payload \in DOMAIN Signed
    PROVE  LET signed == Signed[b.dsseEnvelope.payload]
           IN  /\ subject \in signed.subjects /\ signed.authentic /\ Satisfies(signed, v.githubPolicy)
               /\ Allows(v.originPolicy, Sha256(signed.log), signed.origin)
<1> DEFINE signed == Signed[b.dsseEnvelope.payload]
           entries == b.verificationMaterial.tlogEntries
           o1 == Check(subject \in signed.subjects, "SubjectNotFound")
           o2 == Check(Len(entries) = 1, "TlogEntryCount")
           o3 == Check(\A i \in DOMAIN entries :
                         entries[i].kindVersion = [kind |-> "dsse", version |-> "0.0.1"], "TlogEntryKindVersion")
           o4 == Check(\E i \in DOMAIN v.logs : v.logs[i].key = signed.log, "UnknownLogKey")
           o5 == Check(signed.authentic, "NotAuthentic")
           o6 == Check(Allows(v.originPolicy, Sha256(signed.log), signed.origin), "CheckpointOriginMismatch")
           o7 == MatchPolicy(Certificate[b.dsseEnvelope.payload], v.githubPolicy)
<1>1. FirstError(<<o1, o2, o3, o4, o5, o6, o7>>) = Ok
  BY DEF VerifyDigest
<1> HIDE DEF o1, o2, o3, o4, o5, o6, o7
<1>2. o1 = Ok /\ o5 = Ok /\ o6 = Ok /\ o7 = Ok
  BY <1>1, FirstError7
<1>3. subject \in signed.subjects
  BY <1>2 DEF o1, Check, Ok
<1>4. signed.authentic
  BY <1>2 DEF o5, Check, Ok
<1>5. Allows(v.originPolicy, Sha256(signed.log), signed.origin)
  BY <1>2 DEF o6, Check, Ok
<1>6. Satisfies(signed, v.githubPolicy)
  BY <1>2, PolicyMatched DEF o7
<1>7. QED
  BY <1>3, <1>4, <1>5, <1>6

LEMMA OptionText ==
    ASSUME Control, NEW name \in TextOptions, opts[name] # {}
    PROVE  Opt(name) \in Seq(Chars) /\ opts[name] = {Opt(name)}
<1>1. opts[name] \subseteq Seq(STRING) /\ Single(opts[name])
  BY DEF Control, OptsTyped, TextOptions
<1>2. The(opts[name]) \in opts[name] /\ opts[name] = {The(opts[name])}
  BY <1>1, TheOf
<1>3. QED
  BY <1>1, <1>2, TextsAreChars DEF Opt

LEMMA TextOptionNames ==
    {"--bundle", "--certificate-identity", "--certificate-oidc-issuer", "--key", "--artifact", "--digest", "--repo",
     "--source-ref", "--signer-workflow", "--checkpoint-origin", "operand"} \subseteq TextOptions
  BY DEF TextOptions, OptionNames, ValueFlags

LEMMA OneSubject ==
    ASSUME Control, Complete, run.program \in {"conformance", "example"}
    PROVE  Single(Subject)
<1>1. ASSUME NEW text PROVE Single(DigestOf(text))
  BY DEF Single, DigestOf
<1>2. ASSUME NEW paths, Single(paths) PROVE Single(OfFiles(paths))
  BY <1>2 DEF Single, OfFiles
<1>3. Single(opts["operand"]) /\ Single(opts["--artifact"]) /\ Single(opts["--digest"])
  BY TextOptionNames DEF Control, OptsTyped, TextOptions
<1>4. CASE run.program = "conformance"
  <2> DEFINE texts == StripPrefix(Opt("operand"), << "sha256:" >>)
             digest == UNION {DigestOf(d) : d \in texts}
  <2>1. Subject = IF digest # {} THEN digest ELSE OfFiles(opts["operand"])
    BY <1>4 DEF Subject
  <2>2. \A a, b \in texts : a = b
    BY DEF StripPrefix
  <2> HIDE DEF texts
  <2>3. Single(digest)
    BY <1>1, <2>2 DEF Single
  <2> HIDE DEF digest
  <2>4. Single(OfFiles(opts["operand"]))
    BY <1>2, <1>3
  <2>5. QED
    BY <2>1, <2>3, <2>4
<1>5. CASE run.program = "example"
  <2> DEFINE digest == UNION {DigestOf(d) : d \in opts["--digest"]}
             file == OfFiles(opts["--artifact"])
  <2>1. Subject = digest \union file
    <3> DEFINE other == LET d == UNION {DigestOf(d) : d \in StripPrefix(Opt("operand"), << "sha256:" >>)}
                        IN  IF d # {} THEN d ELSE OfFiles(opts["operand"])
               this == digest \union file
    <3>1. Subject = CASE run.program = "conformance" -> other
                      [] run.program = "example" -> this
                      [] run.program = "library" -> Digests
      BY DEF Subject
    <3> HIDE DEF other, this
    <3>2. Subject = this
      BY <1>5, <3>1
    <3>3. QED
      BY <3>2 DEF this
  <2>2. Single(digest)
    BY <1>1, <1>3 DEF Single
  <2>3. Single(file)
    BY <1>2, <1>3
  <2>4. digest = {} \/ file = {}
    BY <1>5 DEF Complete, OfFiles
  <2> HIDE DEF digest, file
  <2>5. QED
    BY <2>1, <2>2, <2>3, <2>4
<1>6. QED
  BY <1>4, <1>5

LEMMA AskedOf ==
    ASSUME Control, Complete, NEW v, verifier = {v}, PolicyAsked(v.githubPolicy), OriginAsked(v.originPolicy),
           NEW payload \in DOMAIN Signed, Satisfies(Signed[payload], v.githubPolicy),
           Allows(v.originPolicy, Sha256(Signed[payload].log), Signed[payload].origin)
    PROVE  Asked(Signed[payload])
<1> DEFINE signed == Signed[payload]
           p == v.githubPolicy
<1>1. run.program \in {"conformance", "example", "library"}
  BY InvocationProgram DEF Control
<1>2. /\ IsWorkflow(signed.workflow)
      /\ signed.source.owner \in Seq(Chars) /\ signed.source.name \in Seq(Chars)
  BY SignedTexts
<1>3. signed.workflow.owner \in Seq(Chars) /\ signed.workflow.name \in Seq(Chars)
  BY <1>2 DEF IsWorkflow
<1>4. Satisfies(signed, p)
  OBVIOUS
<1>5. Allows(v.originPolicy, Sha256(signed.log), signed.origin)
  OBVIOUS
<1> HIDE DEF signed, p
<1>6. CASE run.program = "conformance"
  <2>1. IdentityAsked(p)
    BY <1>6 DEF PolicyAsked, p
  <2>2. PICK w \in [owner : Seq(Chars), name : Seq(Chars), path : Seq(Chars), gitRef : Seq(Chars)] :
          /\ IsWorkflow(w) /\ Opt("--certificate-identity") = SanText(w)
          /\ p.signer.repository.owner.word = Fold(w.owner) /\ p.signer.repository.name.word = Fold(w.name)
          /\ p.signer.path = w.path /\ p.signer.revision.type = "ref" /\ p.signer.revision.ref = w.gitRef
    BY <2>1 DEF IdentityAsked
  <2>3. /\ Fold(w.owner) = Fold(signed.workflow.owner) /\ Fold(w.name) = Fold(signed.workflow.name)
        /\ w.path = signed.workflow.path /\ w.gitRef = signed.workflow.gitRef /\ signed.issuer = ExpectedIssuer
    BY <1>4, <2>2 DEF Satisfies
  <2>4. FoldRepository(SanText(w)) = FoldRepository(SanText(signed.workflow))
    BY <1>2, <2>2, <2>3, SameUri
  <2>5. /\ opts["--certificate-oidc-issuer"] = {<< signed.issuer >>}
        /\ opts["--staging"] = {} /\ opts["--key"] = {}
    BY <1>6, <2>3 DEF Complete, Issuer
  <2>6. FoldRepository(Opt("--certificate-identity")) = FoldRepository(SanText(signed.workflow))
    BY <2>2, <2>4
  <2>7. Asked(signed)
    BY <1>6, <2>5, <2>6 DEF Asked
  <2>8. QED
    BY <2>7 DEF signed
<1>7. CASE run.program = "example"
  <2>1. RepositoryAsked(p)
    BY <1>7 DEF PolicyAsked, p
  <2>2. PICK o, n \in Seq(Chars) :
          /\ Opt("--repo") = Join(o, "/", n)
          /\ p.source.repository.owner.word = Fold(o) /\ p.source.repository.name.word = Fold(n)
          /\ p.signer.repository.owner.word = Fold(o) /\ p.signer.repository.name.word = Fold(n)
    BY <2>1 DEF RepositoryAsked
  <2>3. /\ Fold(o) = Fold(signed.source.owner) /\ Fold(n) = Fold(signed.source.name)
        /\ Fold(o) = Fold(signed.workflow.owner) /\ Fold(n) = Fold(signed.workflow.name)
    BY <1>4, <2>2 DEF Satisfies
  <2>4. IsRepository(Opt("--repo"), signed.source) /\ IsRepository(Opt("--repo"), signed.workflow)
    <3>1. ASSUME NEW r, r.owner \in Seq(Chars), r.name \in Seq(Chars), Fold(o) = Fold(r.owner), Fold(n) = Fold(r.name)
          PROVE  IsRepository(Opt("--repo"), r)
      <4> DEFINE a == r.owner
                 b == r.name
      <4>1. a \in Seq(Chars) /\ b \in Seq(Chars) /\ Fold(o) = Fold(a) /\ Fold(n) = Fold(b)
        BY <3>1
      <4> HIDE DEF a, b
      <4>2. Fold(Join(o, "/", n)) = Fold(Join(a, "/", b))
        BY <2>2, <4>1, SameRepository
      <4>3. QED
        BY <2>2, <4>2 DEF IsRepository, a, b
    <3>2. QED
      BY <1>2, <1>3, <2>3, <3>1
  <2>5. /\ opts["--owner-id"] \subseteq {signed.source.ownerId} /\ opts["--repo-id"] \subseteq {signed.source.id}
        /\ Opt("--signer-workflow") = signed.workflow.path
    BY <1>4, <2>1 DEF RepositoryAsked, Satisfies
  <2>6. opts["--source-ref"] \subseteq {signed.source.gitRef}
    <3>1. CASE opts["--source-ref"] = {}
      BY <3>1
    <3>2. CASE opts["--source-ref"] # {}
      <4>1. opts["--source-ref"] = {Opt("--source-ref")}
        BY <3>2, OptionText, TextOptionNames
      <4>2. Opt("--source-ref") = signed.source.gitRef
        BY <1>4, <2>1, <3>2 DEF RepositoryAsked, Satisfies
      <4>3. QED
        BY <4>1, <4>2
    <3>3. QED
      BY <3>1, <3>2
  <2>7. Opt("--checkpoint-origin") = signed.origin
    BY <1>5, <1>7 DEF OriginAsked, Allows
  <2>8. Asked(signed)
    BY <1>7, <2>4, <2>5, <2>6, <2>7 DEF Asked
  <2>9. QED
    BY <2>8 DEF signed
<1>8. CASE run.program = "library"
  <2>1. The(verifier) = v
    BY DEF The
  <2>2. /\ p.signer.repository.owner.word = Fold(signed.workflow.owner)
        /\ p.signer.repository.name.word = Fold(signed.workflow.name)
        /\ p.signer.path = signed.workflow.path
        /\ p.signer.revision.type = "ref" => p.signer.revision.ref = signed.workflow.gitRef
    BY <1>4 DEF Satisfies
  <2>3. The(verifier).githubPolicy.signer = p.signer
    BY <2>1 DEF p
  <2>4. Asked(signed)
    BY <1>8, <2>2, <2>3 DEF Asked
  <2>5. QED
    BY <2>4 DEF signed
<1>9. QED
  BY <1>1, <1>6, <1>7, <1>8

-----------------------------------------------------------------------------
LEMMA FirstError6 ==
    ASSUME NEW a, NEW b, NEW c, NEW d, NEW e, NEW f, FirstError(<<a, b, c, d, e, f>>) = Ok
    PROVE  a = Ok /\ b = Ok /\ c = Ok /\ d = Ok /\ e = Ok /\ f = Ok
<1> DEFINE s == <<a, b, c, d, e, f>>
<1>1. DOMAIN s = 1..6 /\ s[1] = a /\ s[2] = b /\ s[3] = c /\ s[4] = d /\ s[5] = e /\ s[6] = f
  OBVIOUS
<1> HIDE DEF s
<1>2. FirstError(s) = Ok
  BY DEF s
<1>3. DOMAIN s \subseteq Nat
  BY <1>1
<1>4. \A i \in DOMAIN s : s[i] = Ok
  BY <1>2, <1>3, FirstErrorOk
<1>5. QED
  BY <1>1, <1>4

LEMMA CheckedOptions ==
    ASSUME CheckOptions, pc' # "done"
    PROVE  Complete
<1> DEFINE a == Check(opts["--staging"] = {}, "Unsupported")
           b == Check(opts["--key"] = {}, "Unsupported")
           c == Check(opts["--certificate-identity"] # {} /\ opts["--certificate-oidc-issuer"] # {}, "Usage")
           d == Check(opts["--bundle"] # {}, "Usage")
           e == Check(opts["operand"] # {}, "Usage")
           f == Check(opts["--certificate-oidc-issuer"] = {Issuer}, "Unsupported")
<1>1. FirstError(<<a, b, c, d, e, f>>) = Ok /\ run.program = "conformance"
  BY DEF CheckOptions, Try, Return
<1> HIDE DEF a, b, c, d, e, f
<1>2. a = Ok /\ b = Ok /\ c = Ok /\ e = Ok /\ f = Ok
  BY <1>1, FirstError6
<1>3. opts["--staging"] = {} /\ opts["--key"] = {}
  BY <1>2 DEF a, b, Check, Ok
<1>4. opts["--certificate-identity"] # {} /\ opts["operand"] # {}
  BY <1>2 DEF c, e, Check, Ok
<1>5. opts["--certificate-oidc-issuer"] = {Issuer}
  BY <1>2 DEF f, Check, Ok
<1>6. QED
  BY <1>1, <1>3, <1>4, <1>5 DEF Complete

LEMMA CheckedExampleOptions ==
    ASSUME CheckExampleOptions, pc' # "done"
    PROVE  Complete
<1> DEFINE artifact == opts["--artifact"]
           digest == opts["--digest"]
           a == Check((artifact = {}) # (digest = {}), "Usage")
           b == Check(artifact \subseteq DOMAIN Files, "Io")
           c == Check(\A t \in digest : DigestOf(t) # {}, "MalformedDigest")
           d == Check(\A name \in {"--bundle", "--repo", "--signer-workflow", "--checkpoint-origin"} : opts[name] # {},
                      "Usage")
<1>1. FirstError(<<a, b, c, d>>) = Ok /\ run.program = "example"
  BY DEF CheckExampleOptions, Try, Return
<1> HIDE DEF a, b, c, d
<1>2. a = Ok /\ d = Ok
  BY <1>1, FirstError4
<1>3. artifact = {} \/ digest = {}
  BY <1>2 DEF a, Check, Ok
<1>4. opts["--repo"] # {} /\ opts["--signer-workflow"] # {} /\ opts["--checkpoint-origin"] # {}
  BY <1>2 DEF d, Check, Ok
<1>5. QED
  BY <1>1, <1>3, <1>4 DEF Complete

\* The steps of a library caller, before it builds.
Calls ==
    \/ SetSource \/ SetSigner \/ BuildPolicy \/ WritePolicy
    \/ SetTrustStore \/ SetGithubPolicy \/ SetOriginPolicy \/ ReadyToBuild

LEMMA CompleteNext == CompleteInv /\ [Next]_vars => CompleteInv'
<1> SUFFICES ASSUME CompleteInv, [Next]_vars, pc' \notin {"subcommand", "args", "calls", "done"}
             PROVE  Complete'
  BY ControlNext DEF CompleteInv
<1>1. CASE ReadArguments
  BY <1>1, ArgumentStep DEF CompleteInv
<1>2. CASE Next /\ ~ReadArguments
  <2>1. UNCHANGED <<run, rest, opts>>
    BY <1>2, LaterStep
  <2>2. Complete' <=> Complete
    BY <2>1 DEF Complete
  <2>3. CASE CheckOptions
    BY <2>2, <2>3, CheckedOptions
  <2>4. CASE CheckExampleOptions
    BY <2>2, <2>4, CheckedExampleOptions
  <2>5. CASE Calls
    <3>1. run.program = "library"
      BY <2>5 DEF Calls, SetSource, SetSigner, BuildPolicy, WritePolicy, SetTrustStore, SetGithubPolicy,
                  SetOriginPolicy, ReadyToBuild, library
    <3>2. QED
      BY <2>2, <3>1 DEF Complete
  <2>6. CASE ~CheckOptions /\ ~CheckExampleOptions /\ ~Calls
    <3>1. pc \in {"policy", "trustStore", "bundle", "build", "verify"}
      BY <1>2, <2>6 DEF Next, ReadArguments, Calls, MakeConformancePolicy, LoadConformanceTrust,
            LoadConformanceBundle, LoadExampleBundle, MakeExamplePolicy, LoadExampleTrust, BuildVerifier, Verify
    <3>2. QED
      BY <2>2, <3>1 DEF CompleteInv
  <2>7. QED
    BY <2>3, <2>4, <2>5, <2>6
<1>3. CASE UNCHANGED vars
  BY <1>3 DEF vars, CompleteInv, Complete
<1>4. QED
  BY <1>1, <1>2, <1>3

-----------------------------------------------------------------------------
\* The policies and origins in hand are made of the options alone.
LEMMA AskedStays ==
    ASSUME UNCHANGED <<run, opts>>, NEW p
    PROVE  (PolicyAsked(p)' <=> PolicyAsked(p)) /\ (OriginAsked(p)' <=> OriginAsked(p))
  BY DEF PolicyAsked, OriginAsked, IdentityAsked, RepositoryAsked, Opt

LEMMA LibraryAsksNothing ==
    ASSUME run.program = "library", NEW p
    PROVE  PolicyAsked(p) /\ OriginAsked(p)
  BY DEF PolicyAsked, OriginAsked

\* What GithubPolicyBuild lets through, GithubPolicy takes.
LEMMA PolicyTaken ==
    ASSUME NEW made, GithubPolicyBuild(made) = Ok
    PROVE  GithubPolicy(made).source \in made.source /\ GithubPolicy(made).signer \in made.signer
<1>1. made.source # {} /\ made.signer # {}
  BY DEF GithubPolicyBuild, Ok
<1>2. QED
  BY <1>1 DEF GithubPolicy

\* A text is split, and parsed, in one way.
LEMMA SplitSingle ==
    ASSUME NEW text \in Seq(Chars), NEW c
    PROVE  Single(SplitOnce(text, c))
<1> DEFINE At == {i \in DOMAIN text : text[i] = c /\ \A j \in 1..(i-1) : text[j] # c}
<1>1. DOMAIN text = 1..Len(text) /\ Len(text) \in Nat
  BY LenProperties
<1>2. ASSUME NEW i \in At, NEW j \in At PROVE i = j
  <2>1. i \in 1..Len(text) /\ j \in 1..Len(text) /\ text[i] = c /\ text[j] = c
    BY <1>1
  <2>2. ~(i < j)
    <3>1. i < j => i \in 1..(j-1)
      BY <1>1, <2>1
    <3>2. QED
      BY <2>1, <3>1
  <2>3. ~(j < i)
    <3>1. j < i => j \in 1..(i-1)
      BY <1>1, <2>1
    <3>2. QED
      BY <2>1, <3>1
  <2>4. QED
    BY <1>1, <2>1, <2>2, <2>3
<1>3. QED
  BY <1>2 DEF SplitOnce, Single

LEMMA OwnerNamePathSingle ==
    ASSUME NEW text \in Seq(Chars)
    PROVE  Single(OwnerNamePath(text))
<1> SUFFICES ASSUME NEW p \in OwnerNamePath(text), NEW q \in OwnerNamePath(text) PROVE p = q
  BY DEF Single
<1>1. PICK a \in SplitOnce(text, "/") : \E n \in SplitOnce(a.after, "/") :
        p = [owner |-> a.before, name |-> n.before, path |-> n.after]
  BY DEF OwnerNamePath
<1>2. PICK b \in SplitOnce(text, "/") : \E n \in SplitOnce(b.after, "/") :
        q = [owner |-> b.before, name |-> n.before, path |-> n.after]
  BY DEF OwnerNamePath
<1>3. a = b
  BY SplitSingle DEF Single
<1>4. a.after \in Seq(Chars)
  BY SplitText
<1>5. \A m, n \in SplitOnce(a.after, "/") : m = n
  BY <1>4, SplitSingle DEF Single
<1>6. QED
  BY <1>1, <1>2, <1>3, <1>5

LEMMA IdentitySingle ==
    ASSUME NEW u \in Seq(Chars)
    PROVE  Single(ParseGithubIdentity(u))
<1> SUFFICES ASSUME NEW i \in ParseGithubIdentity(u), NEW j \in ParseGithubIdentity(u) PROVE i = j
  BY DEF Single
<1> DEFINE made(s, q) == [repository |-> Join(q.owner, "/", q.name), path |-> q.path, gitRef |-> s.after]
           strip == StripPrefix(u, GithubUriPrefix)
<1>0. ASSUME NEW x \in ParseGithubIdentity(u)
      PROVE  \E r \in strip : \E s \in SplitOnce(r, "@") : \E q \in OwnerNamePath(s.before) : x = made(s, q)
  BY DEF ParseGithubIdentity
<1> HIDE DEF made
<1>1. PICK r \in strip : \E s \in SplitOnce(r, "@") : \E q \in OwnerNamePath(s.before) : i = made(s, q)
  BY <1>0
<1>2. PICK t \in strip : \E s \in SplitOnce(t, "@") : \E q \in OwnerNamePath(s.before) : j = made(s, q)
  BY <1>0
<1>3. r = t /\ r \in Seq(Chars)
  <2>1. r \in Seq(Chars)
    BY PrefixIsText, StripMeans
  <2>2. r = t
    BY DEF StripPrefix
  <2>3. QED
    BY <2>1, <2>2
<1>4. \A a, b \in SplitOnce(r, "@") : a = b /\ a.before \in Seq(Chars)
  BY <1>3, SplitSingle, SplitText DEF Single
<1>5. PICK s \in SplitOnce(r, "@") : \E q \in OwnerNamePath(s.before) : i = made(s, q)
  BY <1>1
<1>6. \E q \in OwnerNamePath(s.before) : j = made(s, q)
  BY <1>2, <1>3, <1>4
<1>7. \A p, q \in OwnerNamePath(s.before) : p = q
  BY <1>4, OwnerNamePathSingle DEF Single
<1>8. QED
  BY <1>5, <1>6, <1>7

LEMMA RepositorySingle ==
    ASSUME NEW u \in Seq(Chars)
    PROVE  Single(RepositoryIdentityParse(u))
<1> SUFFICES ASSUME NEW p \in RepositoryIdentityParse(u), NEW q \in RepositoryIdentityParse(u) PROVE p = q
  BY DEF Single
<1>1. PICK a \in SplitOnce(u, "/") : p \in RepositoryIdentityNew(a.before, a.after)
  BY DEF RepositoryIdentityParse
<1>2. PICK b \in SplitOnce(u, "/") : q \in RepositoryIdentityNew(b.before, b.after)
  BY DEF RepositoryIdentityParse
<1>3. a = b
  BY SplitSingle DEF Single
<1>4. QED
  BY <1>1, <1>2, <1>3 DEF RepositoryIdentityNew

LEMMA ConformancePolicyAsked ==
    ASSUME PolicyInv, MakeConformancePolicy
    PROVE  /\ builder'.originPolicy = builder.originPolicy
           /\ \A p \in builder'.githubPolicy : PolicyAsked(p)
<1> DEFINE u == Opt("--certificate-identity")
           identity == ParseGithubIdentity(u)
           repository == UNION {RepositoryIdentityParse(i.repository) : i \in identity}
           path == UNION {WorkflowPathNew(i.path) : i \in identity}
           made == [source |-> {SourcePolicy(r, RefPolicyGlob(Wildcard)) : r \in repository},
                    signer |-> {SignerPolicy(r, The(path), RevisionRef(i.gitRef)) : r \in repository, i \in identity}]
<1>1. /\ pc = "policy" /\ run.program = "conformance"
      /\ builder' = IF GithubPolicyBuild(made) = Ok THEN [builder EXCEPT !.githubPolicy = {GithubPolicy(made)}]
                    ELSE builder
  BY DEF MakeConformancePolicy
<1>2. Control /\ Complete /\ \A p \in builder.githubPolicy : PolicyAsked(p)
  BY <1>1 DEF PolicyInv, CompleteInv
<1>3. u \in Seq(Chars)
  BY <1>1, <1>2, OptionText, TextOptionNames DEF Complete
<1>4. ASSUME GithubPolicyBuild(made) = Ok
      PROVE  PolicyAsked(GithubPolicy(made))
  <2> DEFINE signer == GithubPolicy(made).signer
  <2>1. signer \in {SignerPolicy(r, The(path), RevisionRef(i.gitRef)) : r \in repository, i \in identity}
    <3> HIDE DEF made
    <3>1. signer \in made.signer
      BY <1>4, PolicyTaken
    <3> HIDE DEF signer, path, identity, repository
    <3>2. made.signer = {SignerPolicy(r, The(path), RevisionRef(i.gitRef)) : r \in repository, i \in identity}
      BY DEF made
    <3>3. QED
      BY <3>1, <3>2
  <2> HIDE DEF made, path
  <2>2. PICK r \in repository : \E i \in identity : signer = SignerPolicy(r, The(path), RevisionRef(i.gitRef))
    BY <2>1
  <2>3. PICK i \in identity : signer = SignerPolicy(r, The(path), RevisionRef(i.gitRef))
    BY <2>2
  <2>4. identity = {i}
    BY <1>3, IdentitySingle DEF Single
  <2>5. PICK w \in [owner : Seq(Chars), name : Seq(Chars), path : Seq(Chars), gitRef : Seq(Chars)] :
          /\ IsWorkflow(w) /\ u = SanText(w)
          /\ i.repository = Join(w.owner, "/", w.name) /\ i.path = w.path /\ i.gitRef = w.gitRef
    BY <1>3, IdentityParses
  <2>6. r = [owner |-> CaseText(w.owner), name |-> CaseText(w.name), ownerId |-> {}, repositoryId |-> {}]
    <3>1. r \in RepositoryIdentityParse(Join(w.owner, "/", w.name))
      BY <2>4, <2>5
    <3>2. QED
      BY <2>5, <3>1, RepositoryParses DEF IsWorkflow
  <2>7. i.path # <<>>
    <3>1. PICK p : i.path = p.path /\ Len(p.path) > Len(WorkflowPathPrefix)
      BY DEF ParseGithubIdentity
    <3>2. Len(WorkflowPathPrefix) = 4
      BY DEF WorkflowPathPrefix
    <3>3. QED
      BY <3>1, <3>2
  <2>8. The(path) = i.path
    <3>1. path = {i.path}
      BY <2>4, <2>7 DEF path, WorkflowPathNew
    <3>2. QED
      BY <3>1 DEF The
  <2> HIDE DEF identity, repository, u
  <2>9. /\ signer.repository.owner.word = Fold(w.owner) /\ signer.repository.name.word = Fold(w.name)
        /\ signer.path = w.path
    BY <2>3, <2>5, <2>6, <2>8 DEF SignerPolicy, CaseText
  <2>10. signer.revision.type = "ref" /\ signer.revision.ref = w.gitRef
    BY <2>3, <2>5 DEF SignerPolicy, RevisionRef
  <2> HIDE DEF signer
  <2>11. IdentityAsked(GithubPolicy(made))
    BY <2>5, <2>9, <2>10 DEF IdentityAsked, u, signer
  <2>12. QED
    BY <1>1, <2>11 DEF PolicyAsked
<1> HIDE DEF made
<1>5. QED
  BY <1>1, <1>2, <1>4

LEMMA ExamplePolicyAsked ==
    ASSUME PolicyInv, MakeExamplePolicy
    PROVE  /\ builder'.originPolicy = builder.originPolicy
           /\ \A p \in builder'.githubPolicy : PolicyAsked(p)
<1> DEFINE u == Opt("--repo")
           repository == RepositoryIdentityParse(u)
           path == WorkflowPathNew(Opt("--signer-workflow"))
           ref == IF opts["--source-ref"] = {} THEN RefPolicyGlob(Wildcard) ELSE RefPolicyExact(Opt("--source-ref"))
           made == [source |-> {SourcePolicy(Pinned(r, opts["--owner-id"], opts["--repo-id"]), ref) : r \in repository},
                    signer |-> {SignerPolicy(r, p, RevisionAny) : r \in repository, p \in path}]
<1>1. /\ pc = "policy" /\ run.program = "example"
      /\ builder' = IF GithubPolicyBuild(made) = Ok THEN [builder EXCEPT !.githubPolicy = {GithubPolicy(made)}]
                    ELSE builder
  BY DEF MakeExamplePolicy
<1>2. Control /\ Complete /\ \A p \in builder.githubPolicy : PolicyAsked(p)
  BY <1>1 DEF PolicyInv, CompleteInv
<1>3. u \in Seq(Chars)
  BY <1>1, <1>2, OptionText, TextOptionNames DEF Complete
<1>4. ASSUME GithubPolicyBuild(made) = Ok
      PROVE  PolicyAsked(GithubPolicy(made))
  <2> DEFINE asked == GithubPolicy(made)
             pinned(r) == Pinned(r, opts["--owner-id"], opts["--repo-id"])
  <2>1. /\ asked.source \in {SourcePolicy(pinned(r), ref) : r \in repository}
        /\ asked.signer \in {SignerPolicy(r, p, RevisionAny) : r \in repository, p \in path}
    <3> HIDE DEF made
    <3>1. asked.source \in made.source /\ asked.signer \in made.signer
      BY <1>4, PolicyTaken
    <3> HIDE DEF asked, path, repository, ref
    <3>2. /\ made.source = {SourcePolicy(pinned(r), ref) : r \in repository}
          /\ made.signer = {SignerPolicy(r, p, RevisionAny) : r \in repository, p \in path}
      BY DEF made
    <3>3. QED
      BY <3>1, <3>2
  <2> HIDE DEF asked, made, ref, pinned
  <2>2. PICK r \in repository : asked.source = SourcePolicy(pinned(r), ref)
    BY <2>1
  <2>3. \E q \in repository, p \in path : asked.signer = SignerPolicy(q, p, RevisionAny)
    BY <2>1
  <2>4. repository = {r}
    BY <1>3, RepositorySingle DEF Single
  <2>5. path \subseteq {Opt("--signer-workflow")}
    BY DEF WorkflowPathNew
  <2>6. PICK o \in Seq(Chars) : \E n \in Seq(Chars) :
          /\ u = Join(o, "/", n)
          /\ r = [owner |-> CaseText(o), name |-> CaseText(n), ownerId |-> {}, repositoryId |-> {}]
    BY <1>3, RepositoryText
  <2>7. PICK n \in Seq(Chars) :
          /\ u = Join(o, "/", n)
          /\ r = [owner |-> CaseText(o), name |-> CaseText(n), ownerId |-> {}, repositoryId |-> {}]
    BY <2>6
  <2> HIDE DEF repository, path, u
  <2>8. asked.signer = SignerPolicy(r, Opt("--signer-workflow"), RevisionAny)
    BY <2>3, <2>4, <2>5
  <2>9. r.owner.word = Fold(o) /\ r.name.word = Fold(n)
    BY <2>7 DEF CaseText
  <2>10. /\ pinned(r).owner.word = Fold(o) /\ pinned(r).name.word = Fold(n)
         /\ pinned(r).ownerId = opts["--owner-id"] /\ pinned(r).repositoryId = opts["--repo-id"]
    BY <2>7, <2>9 DEF pinned, Pinned
  <2>11. /\ asked.source.repository = pinned(r) /\ asked.source.gitRef = ref
         /\ asked.signer.repository = r /\ asked.signer.path = Opt("--signer-workflow")
    BY <2>2, <2>8 DEF SourcePolicy, SignerPolicy
  <2>12. opts["--source-ref"] # {} => ref.type = "exact" /\ ref.ref = Opt("--source-ref")
    BY DEF ref, RefPolicyExact
  <2>13. RepositoryAsked(asked)
    <3>1. \E a, b \in Seq(Chars) :
             /\ Opt("--repo") = Join(a, "/", b)
             /\ asked.source.repository.owner.word = Fold(a) /\ asked.source.repository.name.word = Fold(b)
             /\ asked.signer.repository.owner.word = Fold(a) /\ asked.signer.repository.name.word = Fold(b)
      <4>1. u = Opt("--repo")
        BY DEF u
      <4>2. QED
        BY <2>7, <2>9, <2>10, <2>11, <4>1
    <3>2. QED
      BY <2>10, <2>11, <2>12, <3>1 DEF RepositoryAsked
  <2>14. QED
    BY <1>1, <2>13 DEF PolicyAsked, asked
<1> HIDE DEF made
<1>5. QED
  BY <1>1, <1>2, <1>4

LEMMA TrustSet ==
    ASSUME NEW b, NEW store, NEW origins
    PROVE  LET c == [b EXCEPT !.trustStore = store, !.originPolicy = origins]
           IN  c.githubPolicy = b.githubPolicy /\ c.originPolicy \in {b.originPolicy, origins}
<1> DEFINE c == [b EXCEPT !.trustStore = store, !.originPolicy = origins]
<1>1. c.githubPolicy = b.githubPolicy
  OBVIOUS
<1>2. c.originPolicy \in {b.originPolicy, origins}
  OBVIOUS
<1>3. QED
  BY <1>1, <1>2

LEMMA ExampleOriginAsked ==
    ASSUME PolicyInv, LoadExampleTrust
    PROVE  /\ builder'.githubPolicy = builder.githubPolicy
           /\ \A origins \in builder'.originPolicy : OriginAsked(origins)
<1> DEFINE origin == Opt("--checkpoint-origin")
           policyFor == OriginPolicyFor(run.embedded[1], origin)
           trusting == [builder EXCEPT !.trustStore = {run.embedded}, !.originPolicy = {policyFor}]
<1>1. builder' = builder \/ builder' = trusting
  BY DEF LoadExampleTrust
<1>2. OriginAsked(policyFor)
  BY DEF OriginAsked, OriginPolicyFor
<1>3. \A origins \in builder.originPolicy : OriginAsked(origins)
  BY DEF PolicyInv
<1> HIDE DEF policyFor
<1>4. trusting.githubPolicy = builder.githubPolicy /\ trusting.originPolicy \in {builder.originPolicy, {policyFor}}
  BY TrustSet, Zenon
<1> HIDE DEF trusting
<1>5. QED
  BY <1>1, <1>2, <1>3, <1>4

\* Of the programs' steps only these four change the builder.
LEMMA BuilderUnmoved ==
    ASSUME Next, ~ReadArguments, ~Calls, ~MakeConformancePolicy, ~LoadConformanceTrust, ~MakeExamplePolicy, ~LoadExampleTrust
    PROVE  builder' = builder
<1>1. CASE CheckOptions \/ CheckExampleOptions
  BY <1>1 DEF CheckOptions, CheckExampleOptions
<1>2. CASE LoadConformanceBundle \/ LoadExampleBundle
  BY <1>2 DEF LoadConformanceBundle, LoadExampleBundle, Load
<1>3. CASE BuildVerifier \/ Verify
  BY <1>3 DEF BuildVerifier, Verify
<1>4. QED
  BY <1>1, <1>2, <1>3 DEF Next, ReadArguments, Calls

LEMMA VerifierIsBuilt ==
    ASSUME BuildVerifier
    PROVE  /\ Single(verifier')
           /\ \A v \in verifier' : v.githubPolicy \in builder.githubPolicy /\ v.originPolicy \in builder.originPolicy
<1>1. CASE VerifierBuild(builder) # Ok
  BY <1>1 DEF BuildVerifier, Single
<1>2. CASE VerifierBuild(builder) = Ok
  <2> DEFINE p == The(builder.githubPolicy)
             o == The(builder.originPolicy)
             t == The(builder.trustStore)
  <2>1. verifier' = {[logs |-> t, githubPolicy |-> p, originPolicy |-> o]}
    BY <1>2 DEF BuildVerifier
  <2>2. p \in builder.githubPolicy /\ o \in builder.originPolicy
    BY <1>2, BuildRejectsPins, TheOf
  <2> HIDE DEF p, o, t
  <2>3. QED
    BY <2>1, <2>2 DEF Single
<1>3. QED
  BY <1>1, <1>2

LEMMA PolicyNext == PolicyInv /\ [Next]_vars => PolicyInv'
<1> SUFFICES ASSUME PolicyInv, [Next]_vars PROVE PolicyInv'
  OBVIOUS
<1>1. CompleteInv' /\ CompleteInv /\ Control
  BY CompleteNext DEF PolicyInv, CompleteInv
<1>2. ASSUME UNCHANGED <<run, opts>>,
             \A p \in builder'.githubPolicy : PolicyAsked(p),
             \A origins \in builder'.originPolicy : OriginAsked(origins),
             Single(verifier'),
             \A v \in verifier' : PolicyAsked(v.githubPolicy) /\ OriginAsked(v.originPolicy)
      PROVE  PolicyInv'
  <2>1. \A p : (PolicyAsked(p)' <=> PolicyAsked(p)) /\ (OriginAsked(p)' <=> OriginAsked(p))
    BY <1>2, AskedStays
  <2>2. Single(verifier)'
    BY <1>2 DEF Single
  <2>3. QED
    BY <1>1, <1>2, <2>1, <2>2 DEF PolicyInv
<1>3. CASE ReadArguments
  <2>1. verifier' = {} /\ builder'.githubPolicy = {} /\ builder'.originPolicy = {}
    BY <1>1, <1>3, ArgumentStep DEF Control
  <2>2. QED
    BY <1>1, <2>1 DEF PolicyInv, Single
<1>4. CASE Next /\ ~ReadArguments
  <2>1. UNCHANGED <<run, opts>>
    BY <1>4, LaterStep
  <2>2. /\ \A p \in builder.githubPolicy : PolicyAsked(p)
        /\ \A origins \in builder.originPolicy : OriginAsked(origins)
        /\ Single(verifier) /\ \A v \in verifier : PolicyAsked(v.githubPolicy) /\ OriginAsked(v.originPolicy)
    BY DEF PolicyInv
  <2>3. CASE Calls
    <3>1. run.program = "library"
      BY <2>3 DEF Calls, SetSource, SetSigner, BuildPolicy, WritePolicy, SetTrustStore, SetGithubPolicy,
                  SetOriginPolicy, ReadyToBuild, library
    <3>2. ~BuildVerifier
      BY <2>3 DEF Calls, BuildVerifier, SetSource, SetSigner, BuildPolicy, WritePolicy, SetTrustStore, SetGithubPolicy,
                  SetOriginPolicy, ReadyToBuild, library
    <3>3. verifier' = verifier
      BY <3>2, VerifierUnmoved
    <3>4. \A p : PolicyAsked(p) /\ OriginAsked(p)
      BY <3>1, LibraryAsksNothing
    <3>5. QED
      BY <1>2, <2>1, <2>2, <3>3, <3>4
  <2>4. CASE BuildVerifier
    <3>1. builder' = builder
      BY <2>4 DEF BuildVerifier
    <3>2. QED
      BY <1>2, <2>1, <2>2, <2>4, <3>1, VerifierIsBuilt
  <2>5. CASE ~Calls /\ ~BuildVerifier
    <3>1. verifier' = verifier
      BY <2>5, VerifierUnmoved
    <3>2. CASE MakeConformancePolicy
      BY <1>2, <2>1, <2>2, <3>1, <3>2, ConformancePolicyAsked
    <3>3. CASE MakeExamplePolicy
      BY <1>2, <2>1, <2>2, <3>1, <3>3, ExamplePolicyAsked
    <3>4. CASE LoadExampleTrust
      BY <1>2, <2>1, <2>2, <3>1, <3>4, ExampleOriginAsked
    <3>5. CASE LoadConformanceTrust
      <4>1. run.program = "conformance" /\ builder'.githubPolicy = builder.githubPolicy
        BY <3>5 DEF LoadConformanceTrust
      <4>2. \A origins : OriginAsked(origins)
        BY <4>1 DEF OriginAsked
      <4>3. QED
        BY <1>2, <2>1, <2>2, <3>1, <4>1, <4>2
    <3>6. CASE ~MakeConformancePolicy /\ ~MakeExamplePolicy /\ ~LoadExampleTrust /\ ~LoadConformanceTrust
      <4>1. builder' = builder
        BY <1>4, <2>5, <3>6, BuilderUnmoved
      <4>2. QED
        BY <1>2, <2>1, <2>2, <3>1, <4>1
    <3>7. QED
      BY <3>2, <3>3, <3>4, <3>5, <3>6
  <2>6. QED
    BY <2>3, <2>4, <2>5
<1>5. CASE UNCHANGED vars
  <2>1. UNCHANGED <<run, opts, builder, verifier>>
    BY <1>5 DEF vars
  <2>2. QED
    BY <1>2, <2>1 DEF PolicyInv
<1>6. QED
  BY <1>3, <1>4, <1>5

-----------------------------------------------------------------------------
\* There is one bundle, and it is known what its signature proves.
LEMMA PayloadSigned ==
    ASSUME NEW path \in DOMAIN Files, NEW text \in {Files[path].whole} \union Range(Written(Files[path])),
           BundleFromText(text) = Ok
    PROVE  The(RawBundle(text.value)).dsseEnvelope.payload \in DOMAIN Signed
  BY FilesAssumption DEF FilesAssumption

IsOne(option) == Single(option) /\ \A b \in option : b.dsseEnvelope.payload \in DOMAIN Signed

LEMMA ClientBundleOne ==
    ASSUME NEW path \in DOMAIN Files
    PROVE  IsOne(ClientBundle[path].bundle)
<1> DEFINE file == Files[path]
           shape == RejectUnsupportedBundleShape(file.loose)
           parse == BundleFromText(file.whole)
           outcome == FirstError(<<shape, parse>>)
           raw == The(RawBundle(file.whole.value))
<1>1. ClientBundle[path].bundle = IF outcome = Ok THEN {raw} ELSE {}
  BY DEF ClientBundle
<1>2. CASE outcome # Ok
  BY <1>1, <1>2 DEF IsOne, Single
<1>3. CASE outcome = Ok
  <2>1. parse = Ok
    <3> HIDE DEF shape, parse
    <3>1. QED
      BY <1>3, FirstError2
  <2>2. raw.dsseEnvelope.payload \in DOMAIN Signed
    BY <2>1, PayloadSigned
  <2>3. ClientBundle[path].bundle = {raw}
    BY <1>1, <1>3
  <2> HIDE DEF raw
  <2>4. QED
    BY <2>2, <2>3 DEF IsOne, Single
<1>4. QED
  BY <1>2, <1>3

LEMMA ExampleBundleOne ==
    ASSUME NEW path \in DOMAIN Files
    PROVE  IsOne(ExampleBundle[path].bundle)
<1> DEFINE file == Files[path]
           written == Written(file)
           R(text) == The(RawBundle(text.value))
           found == ExampleBundle[path].bundle
<1>1. found = {R(text) : text \in LoadBundle(file).text}
  BY DEF ExampleBundle
<1>2. Single(LoadBundle(file).text)
  BY DEF LoadBundle, Single
<1>3. Single(found)
  <2> HIDE DEF R, found
  <2>1. QED
    BY <1>1, <1>2 DEF Single
<1>4. ASSUME NEW b \in found
      PROVE  b.dsseEnvelope.payload \in DOMAIN Signed
  <2>1. found = {R(text) : text \in BundlesOf(file)}
    BY <1>4, LoadsTheOnlyBundle
  <2> HIDE DEF found
  <2>2. PICK text \in BundlesOf(file) : b = R(text)
    BY <1>4, <2>1
  <2>3. text \in {file.whole} \union Range(written) /\ BundleFromText(text) = Ok
    BY DEF BundlesOf, Range
  <2>4. QED
    BY <2>2, <2>3, PayloadSigned
<1>5. QED
  BY <1>3, <1>4 DEF IsOne

LEMMA OneBundleNext ==
    ASSUME Control, OneBundle, [Next]_vars
    PROVE  OneBundle'
<1>1. IsOne(bundle)
  BY DEF OneBundle, IsOne
<1>2. IsOne(bundle')
  <2>1. CASE ReadArguments
    BY <1>1, <2>1, ArgumentStep
  <2>2. CASE Next /\ ~ReadArguments /\ ~LoadConformanceBundle /\ ~LoadExampleBundle /\ ~ReadyToBuild
    BY <1>1, <2>2, BundleUnmoved
  <2>3. CASE LoadConformanceBundle
    <3>1. Load(ClientBundle, "build")
      BY <2>3 DEF LoadConformanceBundle
    <3>2. bundle' = bundle \/ \E path \in DOMAIN Files : bundle' = ClientBundle[path].bundle
      BY <3>1, Loaded
    <3>3. QED
      BY <1>1, <3>2, ClientBundleOne
  <2>4. CASE LoadExampleBundle
    <3>1. Load(ExampleBundle, "policy")
      BY <2>4 DEF LoadExampleBundle
    <3>2. bundle' = bundle \/ \E path \in DOMAIN Files : bundle' = ExampleBundle[path].bundle
      BY <3>1, Loaded
    <3>3. QED
      BY <1>1, <3>2, ExampleBundleOne
  <2>5. CASE ReadyToBuild
    <3>1. PICK path \in Library.files : bundle' = {The(RawBundle(Files[path].whole.value))}
      BY <2>5 DEF ReadyToBuild
    <3>2. path \in DOMAIN Files /\ BundleFromText(Files[path].whole) = Ok
      BY InvocationsAssumption DEF InvocationsAssumption
    <3>3. The(RawBundle(Files[path].whole.value)).dsseEnvelope.payload \in DOMAIN Signed
      BY <3>2, PayloadSigned
    <3>4. QED
      BY <3>1, <3>3 DEF IsOne, Single
  <2>6. CASE UNCHANGED vars
    BY <1>1, <2>6 DEF vars
  <2>7. QED
    BY <2>1, <2>2, <2>3, <2>4, <2>5, <2>6
<1>3. QED
  BY <1>2 DEF OneBundle, IsOne, Single

-----------------------------------------------------------------------------
\* Only Verify says "verified".
LEMMA TryFails ==
    ASSUME NEW outcome, NEW place, Try(outcome, place)
    PROVE  result' = result \/ result' # Ok
  BY DEF Try, Return

LEMMA OnlyVerifyVerifies ==
    ASSUME Next, ~ReadArguments, ~Verify
    PROVE  result' = result \/ result' # Ok
<1>1. CASE CheckOptions
  BY <1>1, TryFails DEF CheckOptions
<1>2. CASE CheckExampleOptions
  BY <1>2, TryFails DEF CheckExampleOptions
<1>3. CASE MakeConformancePolicy
  BY <1>3, TryFails DEF MakeConformancePolicy
<1>4. CASE LoadConformanceTrust
  BY <1>4, TryFails DEF LoadConformanceTrust
<1>5. CASE MakeExamplePolicy
  BY <1>5, TryFails DEF MakeExamplePolicy
<1>6. CASE LoadExampleTrust
  BY <1>6, TryFails DEF LoadExampleTrust
<1>7. CASE LoadConformanceBundle \/ LoadExampleBundle
  <2>1. PICK program, place : Load(program, place)
    BY <1>7 DEF LoadConformanceBundle, LoadExampleBundle
  <2>2. Return("Io") \/ \E outcome : Try(outcome, place)
    BY <2>1 DEF Load
  <2>3. QED
    BY <2>2, TryFails DEF Return, Ok
<1>8. CASE Calls
  BY <1>8 DEF Calls, SetSource, SetSigner, BuildPolicy, WritePolicy, SetTrustStore, SetGithubPolicy, SetOriginPolicy,
              ReadyToBuild
<1>9. CASE BuildVerifier
  BY <1>9, TryFails DEF BuildVerifier
<1>10. QED
  BY <1>1, <1>2, <1>3, <1>4, <1>5, <1>6, <1>7, <1>8, <1>9 DEF Next, ReadArguments, Calls

LEMMA VerifyMeans ==
    ASSUME AskedInv, Verify, result' = Ok
    PROVE  Meant
<1>1. Control /\ Complete
  BY DEF AskedInv, PolicyInv, CompleteInv, Verify
<1>2. PICK subject \in Subject, v \in verifier, b \in bundle : VerifyDigest(v, b, subject) = Ok
  BY DEF Verify, Return, Ok
<1>3. verifier = {v} /\ bundle = {b} /\ b.dsseEnvelope.payload \in DOMAIN Signed
  BY DEF AskedInv, PolicyInv, OneBundle, Single
<1>4. PolicyAsked(v.githubPolicy) /\ OriginAsked(v.originPolicy)
  BY DEF AskedInv, PolicyInv
<1> DEFINE signed == Signed[b.dsseEnvelope.payload]
<1>5. /\ subject \in signed.subjects /\ signed.authentic /\ Satisfies(signed, v.githubPolicy)
      /\ Allows(v.originPolicy, Sha256(signed.log), signed.origin)
  BY <1>2, <1>3, VerifyOk
<1>6. Asked(signed)
  BY <1>1, <1>3, <1>4, <1>5, AskedOf
<1>7. run.program # "library" => Subject \subseteq signed.subjects
  <2> SUFFICES ASSUME run.program # "library" PROVE Subject \subseteq signed.subjects
    OBVIOUS
  <2>1. run.program \in {"conformance", "example"}
    BY <1>1, InvocationProgram DEF Control
  <2>2. Single(Subject)
    BY <1>1, <2>1, OneSubject
  <2> HIDE DEF signed
  <2>3. QED
    BY <1>5, <2>2 DEF Single
<1>8. The(bundle) = b
  BY <1>3 DEF The
<1> HIDE DEF signed
<1>9. Signed[The(bundle).dsseEnvelope.payload] = signed
  BY <1>8 DEF signed
<1>10. QED
  BY <1>2, <1>5, <1>6, <1>7, <1>9 DEF Meant

LEMMA AskedNext == AskedInv /\ [Next]_vars => AskedInv'
<1> SUFFICES ASSUME AskedInv, [Next]_vars PROVE AskedInv'
  OBVIOUS
<1>1. PolicyInv' /\ OneBundle' /\ Control
  BY PolicyNext, OneBundleNext DEF AskedInv, PolicyInv, CompleteInv
<1>2. ASSUME result' = Ok PROVE Meant'
  <2>1. CASE ReadArguments
    <3>1. pc # "done" /\ (result' = result \/ result' \in {"Usage", "Unsupported"})
      BY <1>1, <2>1, ArgumentStep
    <3>2. QED
      BY <1>1, <1>2, <3>1 DEF Control, Ok
  <2>2. CASE Next /\ ~ReadArguments /\ ~Verify
    <3>1. pc # "done" /\ (result' = result \/ result' # Ok)
      BY <2>2, LaterStep, OnlyVerifyVerifies
    <3>2. QED
      BY <1>1, <1>2, <3>1 DEF Control, Ok
  <2>3. CASE Verify
    <3>1. UNCHANGED <<run, opts, bundle, verifier>>
      BY <2>3 DEF Verify
    <3>2. QED
      BY <1>2, <2>3, <3>1, VerifyMeans, MeantStays
  <2>4. CASE UNCHANGED vars
    <3>1. UNCHANGED <<run, opts, bundle, verifier, result>>
      BY <2>4 DEF vars
    <3>2. Meant
      BY <1>2, <3>1, MeantIs DEF AskedInv
    <3>3. QED
      BY <3>1, <3>2, MeantStays
  <2>5. QED
    BY <2>1, <2>2, <2>3, <2>4
<1>3. VerifiedMeansAsked'
  BY <1>2, MeantNext
<1>4. QED
  BY <1>1, <1>3 DEF AskedInv

(***************************************************************************)
(* "verified" means what was asked for, whatever the command line, the     *)
(* files and the order of a library caller's calls.                        *)
(***************************************************************************)
THEOREM VerifiedIsAsked == Spec => []VerifiedMeansAsked
<1>1. Init => AskedInv
  <2> SUFFICES ASSUME Init PROVE AskedInv
    OBVIOUS
  <2>1. /\ Control /\ pc \in {"subcommand", "args", "calls"} /\ result = "Pending"
        /\ builder = VerifierBuilder /\ bundle = {} /\ verifier = {}
    BY ControlInit DEF Init
  <2>2. CompleteInv
    BY <2>1 DEF CompleteInv
  <2>3. PolicyInv
    BY <2>1, <2>2 DEF PolicyInv, VerifierBuilder, Single
  <2>4. OneBundle
    BY <2>1 DEF OneBundle, Single
  <2>5. VerifiedMeansAsked
    BY <2>1 DEF VerifiedMeansAsked, Ok
  <2>6. QED
    BY <2>3, <2>4, <2>5 DEF AskedInv
<1>2. AskedInv => VerifiedMeansAsked
  BY DEF AskedInv
<1>3. QED
  BY <1>1, <1>2, AskedNext, PTL DEF Spec
=============================================================================
