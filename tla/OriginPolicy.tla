---------------------------- MODULE OriginPolicy ----------------------------
(***************************************************************************)
(* policy.rs: how a caller makes a CheckpointOriginPolicy, from bindings   *)
(* or through CheckpointOriginPolicyBuilder.  A builder is moved into each *)
(* of its calls; a call that fails does not give it back.  `asked` is what *)
(* the caller asked for, a history the code does not keep.                 *)
(***************************************************************************)
EXTENDS Symbolic

CONSTANTS
    Logs,           \* the transparency logs of the caller's trust store: [key]
    Origins,        \* the strings given as origins
    EmptyOrigin,    \* the empty one
    MultiLine,      \* those with CR or LF
    OriginLists,    \* the sequences of them given in one call
    MaxBindings     \* how many bindings a caller gives to a builder

ASSUME OriginPolicyAssumption ==
    /\ Logs # {}
    /\ OriginLists \subseteq Seq(Origins)
    /\ MaxBindings \in Nat

VARIABLES
    bindings,   \* those of the builder, in order: [keyId, origins]; stale without a builder
    building,   \* "no" (no builder), "yes", or "loop" inside allow_origins
    rest,       \* inside allow_origins: the origins still to be allowed
    forLog,     \* and the log they are for
    policy,     \* the policy made, as an Option of its bindings
    asked       \* the pairs <<keyId, origin>> the policy or the builder stands for

vars == <<bindings, building, rest, forLog, policy, asked>>

CheckpointLogKeyId(log) == Sha256(log.key)

ValidateOrigin(origin) ==
    Check(origin # EmptyOrigin /\ origin \notin MultiLine, "InvalidConfiguration")

ValidateOrigins(list) ==
    Check((\A i \in DOMAIN list : ValidateOrigin(list[i]) = Ok) /\ list # <<>>, "InvalidConfiguration")

\* CheckpointOriginPolicy::allows.
Allows(list, keyId, origin) ==
    \E i \in DOMAIN list : list[i].keyId = keyId
                           /\ \E j \in DOMAIN list[i].origins : list[i].origins[j] = origin

Pairs(binding) == {<<binding.keyId, binding.origins[i]>> : i \in DOMAIN binding.origins}

Init ==
    /\ bindings = <<>> /\ building = "no" /\ rest = <<>> /\ forLog = (CHOOSE log \in Logs : TRUE)
    /\ policy = {} /\ asked = {}

-----------------------------------------------------------------------------
\* CheckpointOriginBinding::new, as an Option; a failure gives the caller nothing.
NewBinding(log, list) ==
    IF ValidateOrigins(list) = Ok THEN {[keyId |-> CheckpointLogKeyId(log), origins |-> list]} ELSE {}

\* CheckpointOriginPolicy::builder: a new, empty builder.
Builder ==
    /\ policy = {} /\ building = "no"
    /\ building' = "yes" /\ bindings' = <<>> /\ asked' = {}
    /\ UNCHANGED <<rest, forLog, policy>>

\* CheckpointOriginPolicyBuilder::binding: appended, whatever is there for its key.
Binding(binding) ==
    /\ building = "yes" /\ Len(bindings) < MaxBindings
    /\ bindings' = Append(bindings, binding)
    /\ asked' = asked \union Pairs(binding)
    /\ UNCHANGED <<building, rest, forLog, policy>>

\* allow_origin on a valid origin: into the first binding of the key, or a new one.
Matching(keyId) == {i \in DOMAIN bindings : bindings[i].keyId = keyId}

First(indices) == CHOOSE i \in indices : \A j \in indices : i <= j

Allowed(keyId, origin) ==
    LET i == First(Matching(keyId)) IN
    IF Matching(keyId) = {} THEN Append(bindings, [keyId |-> keyId, origins |-> <<origin>>])
    ELSE IF \E j \in DOMAIN bindings[i].origins : bindings[i].origins[j] = origin THEN bindings
    ELSE [bindings EXCEPT ![i].origins = Append(@, origin)]

AllowOrigin(log, origin) ==
    /\ building = "yes"
    /\ \/ /\ ValidateOrigin(origin) = Ok
          /\ bindings' = Allowed(CheckpointLogKeyId(log), origin)
          /\ asked' = asked \union {<<CheckpointLogKeyId(log), origin>>}
          /\ UNCHANGED building
       \/ /\ ValidateOrigin(origin) # Ok
          /\ building' = "no"
          /\ UNCHANGED <<bindings, asked>>
    /\ UNCHANGED <<rest, forLog, policy>>

\* allow_origins: what it stands for is the whole list, from its start.
AllowOrigins(log, list) ==
    /\ building = "yes"
    /\ building' = "loop" /\ rest' = list /\ forLog' = log
    /\ asked' = asked \union {<<CheckpointLogKeyId(log), list[i]>> : i \in DOMAIN list}
    /\ UNCHANGED <<bindings, policy>>

\* Mutated form of AllowNext: a bad origin ends the loop with what there is.
AllowNextLeniently ==
    /\ building = "loop" /\ rest # <<>>
    /\ \/ /\ ValidateOrigin(Head(rest)) = Ok
          /\ bindings' = Allowed(CheckpointLogKeyId(forLog), Head(rest))
          /\ rest' = Tail(rest)
          /\ UNCHANGED building
       \/ /\ ValidateOrigin(Head(rest)) # Ok
          /\ building' = "yes" /\ rest' = <<>>
          /\ UNCHANGED bindings
    /\ UNCHANGED <<forLog, policy, asked>>

AllowNext ==
    /\ building = "loop" /\ rest # <<>>
    /\ \/ /\ ValidateOrigin(Head(rest)) = Ok
          /\ bindings' = Allowed(CheckpointLogKeyId(forLog), Head(rest))
          /\ rest' = Tail(rest)
          /\ UNCHANGED building
       \/ /\ ValidateOrigin(Head(rest)) # Ok
          /\ building' = "no" /\ rest' = <<>>
          /\ UNCHANGED bindings
    /\ UNCHANGED <<forLog, policy, asked>>

AllowedAll ==
    /\ building = "loop" /\ rest = <<>>
    /\ building' = "yes"
    /\ UNCHANGED <<bindings, rest, forLog, policy, asked>>

\* Mutated form of New: an empty policy is made.
NewUnchecked(list) == {list}

\* CheckpointOriginPolicy::new: an empty policy is an error, which ends the builder.
New(list) == IF list = <<>> THEN {} ELSE {list}

Build ==
    /\ building = "yes"
    /\ policy' = New(bindings)
    /\ building' = "no"
    /\ UNCHANGED <<bindings, rest, forLog, asked>>

\* for_log, and new on bindings the caller made.
ForLog(log, list) ==
    /\ policy = {} /\ building = "no"
    /\ \E binding \in NewBinding(log, list) :
          policy' = New(<<binding>>) /\ asked' = Pairs(binding)
    /\ UNCHANGED <<bindings, building, rest, forLog>>

NewPolicy(binding, other) ==
    /\ policy = {} /\ building = "no"
    /\ policy' = New(<<binding, other>>) /\ asked' = Pairs(binding) \union Pairs(other)
    /\ UNCHANGED <<bindings, building, rest, forLog>>

CheckpointOriginBindings == UNION {NewBinding(log, list) : log \in Logs, list \in OriginLists}

Next ==
    \/ Builder \/ AllowNext \/ AllowedAll \/ Build
    \/ \E log \in Logs, list \in OriginLists : AllowOrigins(log, list) \/ ForLog(log, list)
    \/ \E log \in Logs, origin \in Origins : AllowOrigin(log, origin)
    \/ \E binding \in CheckpointOriginBindings :
          Binding(binding) \/ \E other \in CheckpointOriginBindings : NewPolicy(binding, other)

Spec == Init /\ [][Next]_vars

-----------------------------------------------------------------------------
(***************************************************************************)
(* A policy allows exactly the origins the caller asked for, each for its  *)
(* own log key, however the calls were mixed: bindings of one key given    *)
(* twice add up, a list with a bad origin is not taken in part, and no     *)
(* origin is let in under another key.                                     *)
(***************************************************************************)
AllowsExactlyWhatWasAsked ==
    \A list \in policy :
        \A keyId \in {CheckpointLogKeyId(log) : log \in Logs}, origin \in Origins :
            Allows(list, keyId, origin) <=> <<keyId, origin>> \in asked

(***************************************************************************)
(* No policy and no builder holds an origin that no checkpoint note can    *)
(* have on its first line, or a key without an origin, and no policy is    *)
(* empty: each would only show when every bundle is refused.               *)
(***************************************************************************)
WellFormed(list) ==
    \A i \in DOMAIN list :
        /\ list[i].origins # <<>>
        /\ \A j \in DOMAIN list[i].origins : ValidateOrigin(list[i].origins[j]) = Ok

OnlyMeetableOrigins ==
    /\ building # "no" => WellFormed(bindings)
    /\ \A list \in policy : list # <<>> /\ WellFormed(list)
=============================================================================
