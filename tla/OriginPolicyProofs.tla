------------------------- MODULE OriginPolicyProofs -------------------------
(***************************************************************************)
(* A checkpoint origin policy allows exactly what its maker asked for,     *)
(* whatever the logs, the origins and the number of calls.  The invariant  *)
(* says the same of the builder between any two calls, and within          *)
(* allow_origins that the rest of the list is what is still missing.       *)
(***************************************************************************)
EXTENDS OriginPolicy, SymbolicProofs

KeyIds == {CheckpointLogKeyId(log) : log \in Logs}

Bindings == [keyId : KeyIds, origins : Seq(Origins)]

BindingLists == Seq(Bindings)

Typed ==
    /\ bindings \in BindingLists
    /\ building \in {"no", "yes", "loop"}
    /\ rest \in Seq(Origins) /\ forLog \in Logs
    /\ policy \subseteq BindingLists
    /\ policy # {} => building = "no"

Has(origins, origin) == \E i \in DOMAIN origins : origins[i] = origin

\* What the builder still lacks of what was asked for.
Missing(keyId, origin) ==
    building = "loop" /\ keyId = CheckpointLogKeyId(forLog) /\ Has(rest, origin)

BuilderStandsForAsked ==
    building # "no" =>
        \A keyId \in KeyIds, origin \in Origins :
            (Allows(bindings, keyId, origin) \/ Missing(keyId, origin)) <=> <<keyId, origin>> \in asked

IInv == Typed /\ BuilderStandsForAsked /\ AllowsExactlyWhatWasAsked /\ OnlyMeetableOrigins

-----------------------------------------------------------------------------
\* What Append does, position by position.
LEMMA Appended ==
    ASSUME NEW S, NEW s \in Seq(S), NEW e \in S
    PROVE  /\ Append(s, e) \in Seq(S)
           /\ DOMAIN Append(s, e) = DOMAIN s \union {Len(s) + 1}
           /\ \A i \in DOMAIN s : s[i] \in S /\ Append(s, e)[i] = s[i]
           /\ Append(s, e)[Len(s) + 1] = e
  OBVIOUS

LEMMA AppendHas ==
    ASSUME NEW origins \in Seq(Origins), NEW origin \in Origins, NEW o
    PROVE  Has(Append(origins, origin), o) <=> Has(origins, o) \/ o = origin
<1>1. /\ DOMAIN Append(origins, origin) = DOMAIN origins \union {Len(origins) + 1}
      /\ \A i \in DOMAIN origins : Append(origins, origin)[i] = origins[i]
      /\ Append(origins, origin)[Len(origins) + 1] = origin
  BY Appended
<1> DEFINE longer == Append(origins, origin)
           n == Len(origins) + 1
<1> HIDE DEF longer, n
<1>2. QED
  BY <1>1 DEF Has, longer, n

\* A binding at the end adds its origins, for its key.
LEMMA AppendAllows ==
    ASSUME NEW list \in BindingLists, NEW b \in Bindings, NEW keyId, NEW origin
    PROVE  Allows(Append(list, b), keyId, origin)
               <=> Allows(list, keyId, origin) \/ (b.keyId = keyId /\ Has(b.origins, origin))
<1> DEFINE longer == Append(list, b)
           n == Len(list) + 1
<1>1. /\ DOMAIN longer = DOMAIN list \union {n}
      /\ \A i \in DOMAIN list : longer[i] = list[i]
      /\ longer[n] = b
  BY Appended DEF BindingLists
<1> HIDE DEF longer, n
<1>2. Allows(longer, keyId, origin)
          <=> Allows(list, keyId, origin) \/ (b.keyId = keyId /\ Has(b.origins, origin))
  BY <1>1 DEF Allows, Has
<1>3. QED
  BY <1>2 DEF longer

LEMMA AppendWellFormed ==
    ASSUME NEW list \in BindingLists, NEW b \in Bindings,
           WellFormed(list), WellFormed(<<b>>)
    PROVE  Append(list, b) \in BindingLists /\ WellFormed(Append(list, b))
  BY Appended DEF WellFormed, BindingLists

LEMMA Singleton ==
    ASSUME NEW keyId \in KeyIds, NEW origin \in Origins
    PROVE  LET b == [keyId |-> keyId, origins |-> <<origin>>]
           IN  /\ b \in Bindings
               /\ \A o : Has(b.origins, o) <=> o = origin
               /\ ValidateOrigin(origin) = Ok => WellFormed(<<b>>)
  BY DEF Has, WellFormed, Bindings

\* allow_origin allows the origin for its key, and changes nothing else.
LEMMA AllowedAllows ==
    ASSUME bindings \in BindingLists, NEW keyId \in KeyIds, NEW origin \in Origins
    PROVE  /\ Allowed(keyId, origin) \in BindingLists
           /\ \A k, o : Allows(Allowed(keyId, origin), k, o)
                            <=> Allows(bindings, k, o) \/ (k = keyId /\ o = origin)
           /\ WellFormed(bindings) /\ ValidateOrigin(origin) = Ok
                  => WellFormed(Allowed(keyId, origin))
<1> DEFINE i == First(Matching(keyId))
           b == [keyId |-> keyId, origins |-> <<origin>>]
<1>1. CASE Matching(keyId) = {}
  <2>1. Allowed(keyId, origin) = Append(bindings, b)
    BY <1>1 DEF Allowed
  <2>2. /\ b \in Bindings
        /\ \A o : Has(b.origins, o) <=> o = origin
        /\ b.keyId = keyId
        /\ ValidateOrigin(origin) = Ok => WellFormed(<<b>>)
    BY Singleton
  <2> HIDE DEF b
  <2>3. Append(bindings, b) \in BindingLists
    BY <2>2, Appended DEF BindingLists
  <2>4. \A k, o : Allows(Append(bindings, b), k, o)
                      <=> Allows(bindings, k, o) \/ (k = keyId /\ o = origin)
    BY <2>2, AppendAllows
  <2>5. WellFormed(bindings) /\ ValidateOrigin(origin) = Ok => WellFormed(Append(bindings, b))
    BY <2>2, AppendWellFormed
  <2>6. QED
    BY <2>1, <2>3, <2>4, <2>5
<1>2. CASE Matching(keyId) # {}
  <2>1. i \in DOMAIN bindings /\ bindings[i].keyId = keyId
    <3>1. Matching(keyId) \in SUBSET Nat
      BY DEF Matching, BindingLists
    <3>2. i \in Matching(keyId)
      BY <1>2, <3>1, LeastElement DEF First
    <3>3. QED
      BY <3>2 DEF Matching
  <2>2. CASE Has(bindings[i].origins, origin)
    BY <1>2, <2>1, <2>2 DEF Allowed, Has, Allows
  <2>3. CASE ~Has(bindings[i].origins, origin)
    <3> DEFINE longer == [bindings EXCEPT ![i].origins = Append(@, origin)]
    <3>1. Allowed(keyId, origin) = longer
      BY <1>2, <2>3 DEF Allowed, Has
    <3> HIDE DEF i
    <3>a. \A j \in DOMAIN bindings : bindings[j] \in Bindings
      BY DEF BindingLists
    <3>b. bindings[i].origins \in Seq(Origins)
      BY <2>1, <3>a DEF Bindings
    <3>c. Append(bindings[i].origins, origin) \in Seq(Origins)
      BY <3>b
    <3>d. [bindings[i] EXCEPT !.origins = Append(@, origin)] \in Bindings
      BY <2>1, <3>a, <3>c DEF Bindings
    <3>2. longer \in BindingLists
      BY <2>1, <3>d DEF BindingLists
    <3>3. DOMAIN longer = DOMAIN bindings
      BY DEF BindingLists
    <3>4. \A j \in DOMAIN bindings :
             /\ longer[j].keyId = bindings[j].keyId
             /\ j # i => longer[j].origins = bindings[j].origins
             /\ j = i => longer[j].origins = Append(bindings[i].origins, origin)
      BY <2>1 DEF BindingLists
    <3>6. \A o : Has(Append(bindings[i].origins, origin), o)
                     <=> Has(bindings[i].origins, o) \/ o = origin
      BY <3>b, AppendHas
    <3> HIDE DEF longer
    <3>7. \A k, o : Allows(longer, k, o) <=> Allows(bindings, k, o) \/ (k = keyId /\ o = origin)
      <4> SUFFICES ASSUME NEW k, NEW o
                   PROVE  Allows(longer, k, o) <=> Allows(bindings, k, o) \/ (k = keyId /\ o = origin)
        OBVIOUS
      <4>1. \A j \in DOMAIN bindings :
               (longer[j].keyId = k /\ Has(longer[j].origins, o))
                   <=> \/ bindings[j].keyId = k /\ Has(bindings[j].origins, o)
                       \/ j = i /\ k = keyId /\ o = origin
        BY <2>1, <3>4, <3>6
      <4>2. QED
        BY <2>1, <3>3, <4>1 DEF Allows, Has
    <3>8. WellFormed(bindings) /\ ValidateOrigin(origin) = Ok => WellFormed(longer)
      <4> SUFFICES ASSUME WellFormed(bindings), ValidateOrigin(origin) = Ok PROVE WellFormed(longer)
        OBVIOUS
      <4>1. Append(bindings[i].origins, origin) # <<>>
        BY <3>b
      <4>2. \A o : Has(Append(bindings[i].origins, origin), o) => ValidateOrigin(o) = Ok
        BY <2>1, <3>6 DEF WellFormed, Has
      <4>3. QED
        BY <3>3, <3>4, <4>1, <4>2 DEF WellFormed, Has
    <3>9. QED
      BY <3>1, <3>2, <3>7, <3>8
  <2>4. QED
    BY <2>2, <2>3
<1>3. QED
  BY <1>1, <1>2

-----------------------------------------------------------------------------
\* A list is its first element and the rest.
LEMMA HeadOrTail ==
    ASSUME NEW list \in Seq(Origins), list # <<>>, NEW o
    PROVE  Has(list, o) <=> o = Head(list) \/ Has(Tail(list), o)
<1>1. /\ Len(list) \in Nat \ {0} /\ DOMAIN list = 1..Len(list) /\ Head(list) = list[1]
      /\ DOMAIN Tail(list) = 1..(Len(list) - 1)
      /\ \A i \in 1..(Len(list) - 1) : Tail(list)[i] = list[i + 1]
  OBVIOUS
<1>2. ASSUME NEW i \in DOMAIN list, list[i] = o PROVE o = Head(list) \/ Has(Tail(list), o)
  <2>1. CASE i = 1
    BY <1>1, <1>2, <2>1
  <2>2. CASE i # 1
    <3>1. i - 1 \in 1..(Len(list) - 1) /\ (i - 1) + 1 = i
      BY <1>1, <2>2
    <3>2. Tail(list)[i - 1] = o
      BY <1>1, <1>2, <3>1
    <3>3. QED
      BY <1>1, <3>1, <3>2 DEF Has
  <2>3. QED
    BY <2>1, <2>2
<1>3. ASSUME NEW i \in DOMAIN Tail(list), Tail(list)[i] = o PROVE Has(list, o)
  BY <1>1, <1>3 DEF Has
<1>4. o = Head(list) => Has(list, o)
  BY <1>1 DEF Has
<1>5. QED
  BY <1>2, <1>3, <1>4 DEF Has

\* What the caller may give.
LEMMA Given ==
    ASSUME NEW log \in Logs, NEW list \in OriginLists
    PROVE  /\ CheckpointLogKeyId(log) \in KeyIds
           /\ list \in Seq(Origins)
           /\ \A b \in NewBinding(log, list) : b \in Bindings /\ WellFormed(<<b>>)
<1>1. CheckpointLogKeyId(log) \in KeyIds /\ list \in Seq(Origins)
  BY OriginPolicyAssumption DEF KeyIds
<1>2. ASSUME NEW b \in NewBinding(log, list)
      PROVE  b \in Bindings /\ WellFormed(<<b>>)
  <2>1. ValidateOrigins(list) = Ok /\ b = [keyId |-> CheckpointLogKeyId(log), origins |-> list]
    BY DEF NewBinding
  <2>2. (\A i \in DOMAIN list : ValidateOrigin(list[i]) = Ok) /\ list # <<>>
    BY <2>1 DEF ValidateOrigins, Check, Ok
  <2>3. QED
    BY <1>1, <2>1, <2>2 DEF Bindings, WellFormed
<1>3. QED
  BY <1>1, <1>2

LEMMA GivenBindings == \A b \in CheckpointOriginBindings : b \in Bindings /\ WellFormed(<<b>>)
<1> SUFFICES ASSUME NEW b \in CheckpointOriginBindings
             PROVE  b \in Bindings /\ WellFormed(<<b>>)
  OBVIOUS
<1>1. PICK log \in Logs, list \in OriginLists : b \in NewBinding(log, list)
  BY DEF CheckpointOriginBindings
<1>2. QED
  BY <1>1, Given

LEMMA PairsOf ==
    ASSUME NEW b, NEW keyId, NEW origin
    PROVE  <<keyId, origin>> \in Pairs(b) <=> b.keyId = keyId /\ Has(b.origins, origin)
  BY DEF Pairs, Has

\* With no builder and no policy made there is nothing to show but types.
LEMMA InitInv == Init => IInv
<1> SUFFICES ASSUME Init PROVE IInv
  OBVIOUS
<1>1. forLog \in Logs
  BY OriginPolicyAssumption DEF Init
<1>2. Typed
  BY <1>1 DEF Init, Typed, BindingLists
<1>3. QED
  BY <1>2 DEF Init, IInv, BuilderStandsForAsked, AllowsExactlyWhatWasAsked, OnlyMeetableOrigins

\* A policy made of what the builder holds when nothing is missing.
LEMMA AllowAll ==
    ASSUME IInv, building = "yes"
    PROVE  \A keyId \in KeyIds, origin \in Origins :
               Allows(bindings, keyId, origin) <=> <<keyId, origin>> \in asked
  BY DEF IInv, BuilderStandsForAsked, Missing

\* Allows and WellFormed are of the value of a list, whichever state it is in.
LEMMA NextValues ==
    /\ \A k, o : Allows(bindings, k, o)' <=> Allows(bindings', k, o)
    /\ WellFormed(bindings)' <=> WellFormed(bindings')
<1>1. \A k, o : Allows(bindings, k, o)' <=> Allows(bindings', k, o)
  BY DEF Allows
<1>2. WellFormed(bindings)' <=> WellFormed(bindings')
  BY DEF WellFormed, ValidateOrigin
<1>3. QED
  BY <1>1, <1>2

LEMMA NextInv == IInv /\ [Next]_vars => IInv'
<1> SUFFICES ASSUME IInv, [Next]_vars PROVE IInv'
  OBVIOUS
<1> USE DEF KeyIds
<1>1. CASE Builder
  <2>1. Typed'
    BY <1>1 DEF IInv, Typed, Builder, BindingLists
  <2>2. BuilderStandsForAsked'
    BY <1>1 DEF Builder, BuilderStandsForAsked, Missing, Allows
  <2>3. (AllowsExactlyWhatWasAsked /\ OnlyMeetableOrigins)'
    BY <1>1 DEF Builder, AllowsExactlyWhatWasAsked, OnlyMeetableOrigins, WellFormed
  <2>4. QED
    BY <2>1, <2>2, <2>3 DEF IInv
<1>2. ASSUME NEW b \in CheckpointOriginBindings, Binding(b) PROVE IInv'
  <2>0. b \in Bindings /\ WellFormed(<<b>>)
    BY GivenBindings
  <2>1. bindings' = Append(bindings, b) /\ policy = {} /\ building = "yes"
    BY <1>2 DEF Binding, IInv, Typed
  <2>2. Append(bindings, b) \in BindingLists /\ WellFormed(Append(bindings, b))
    BY <2>0, <2>1, AppendWellFormed DEF IInv, Typed, OnlyMeetableOrigins
  <2>3. \A k, o : Allows(bindings, k, o)' <=> Allows(bindings, k, o) \/ <<k, o>> \in Pairs(b)
    <3>1. \A k, o : Allows(Append(bindings, b), k, o)
                        <=> Allows(bindings, k, o) \/ <<k, o>> \in Pairs(b)
      BY <2>0, AppendAllows, PairsOf DEF IInv, Typed
    <3>2. QED
      BY <2>1, <3>1, NextValues
  <2>4. BuilderStandsForAsked'
    BY <1>2, <2>1, <2>3, AllowAll DEF Binding, BuilderStandsForAsked, Missing
  <2>5. QED
    BY <1>2, <2>1, <2>2, <2>4
       DEF Binding, IInv, Typed, AllowsExactlyWhatWasAsked, OnlyMeetableOrigins, WellFormed
<1>3. ASSUME NEW log \in Logs, NEW origin \in Origins, AllowOrigin(log, origin) PROVE IInv'
  <2> DEFINE keyId == CheckpointLogKeyId(log)
  <2>0. keyId \in KeyIds /\ building = "yes" /\ policy = {} /\ bindings \in BindingLists
    BY <1>3 DEF AllowOrigin, IInv, Typed
  <2>1. CASE ValidateOrigin(origin) = Ok
    <3>1. bindings' = Allowed(keyId, origin) /\ asked' = asked \union {<<keyId, origin>>}
          /\ UNCHANGED <<building, rest, forLog, policy>>
      BY <1>3, <2>1 DEF AllowOrigin
    <3>2. /\ Allowed(keyId, origin) \in BindingLists
          /\ \A k, o : Allows(Allowed(keyId, origin), k, o)
                           <=> Allows(bindings, k, o) \/ (k = keyId /\ o = origin)
          /\ WellFormed(Allowed(keyId, origin))
      BY <2>0, <2>1, AllowedAllows DEF IInv, OnlyMeetableOrigins
    <3>3. \A k, o : Allows(bindings, k, o)' <=> Allows(bindings, k, o) \/ (k = keyId /\ o = origin)
      BY <3>1, <3>2, NextValues
    <3>4. BuilderStandsForAsked'
      BY <2>0, <3>1, <3>3, AllowAll DEF BuilderStandsForAsked, Missing
    <3>5. QED
      BY <2>0, <3>1, <3>2, <3>4
         DEF IInv, Typed, AllowsExactlyWhatWasAsked, OnlyMeetableOrigins, WellFormed
  <2>2. CASE ValidateOrigin(origin) # Ok
    BY <1>3, <2>0, <2>2
       DEF AllowOrigin, IInv, Typed, BuilderStandsForAsked, AllowsExactlyWhatWasAsked, OnlyMeetableOrigins
  <2>3. QED
    BY <2>1, <2>2
<1>4. ASSUME NEW log \in Logs, NEW list \in OriginLists, AllowOrigins(log, list) PROVE IInv'
  <2>0. list \in Seq(Origins) /\ building = "yes" /\ policy = {}
    BY <1>4, OriginPolicyAssumption DEF AllowOrigins, IInv, Typed
  <2>1. Typed'
    BY <1>4, <2>0 DEF AllowOrigins, IInv, Typed
  <2>2. \A k, o : <<k, o>> \in asked'
                      <=> <<k, o>> \in asked \/ (k = CheckpointLogKeyId(log) /\ Has(list, o))
    BY <1>4 DEF AllowOrigins, Has
  <2>3. \A k, o : Missing(k, o)' <=> k = CheckpointLogKeyId(log) /\ Has(list, o)
    BY <1>4 DEF AllowOrigins, Missing, Has, CheckpointLogKeyId
  <2>4. \A k, o : Allows(bindings, k, o)' <=> Allows(bindings, k, o)
    BY <1>4 DEF AllowOrigins, Allows
  <2>5. BuilderStandsForAsked'
    BY <2>0, <2>2, <2>3, <2>4, AllowAll DEF BuilderStandsForAsked
  <2>6. QED
    BY <1>4, <2>0, <2>1, <2>5
       DEF AllowOrigins, IInv, AllowsExactlyWhatWasAsked, OnlyMeetableOrigins, WellFormed
<1>5. CASE AllowNext
  <2> DEFINE keyId == CheckpointLogKeyId(forLog)
             origin == Head(rest)
  <2>0. /\ building = "loop" /\ policy = {} /\ bindings \in BindingLists
        /\ rest \in Seq(Origins) /\ rest # <<>> /\ forLog \in Logs
    BY <1>5 DEF AllowNext, IInv, Typed
  <2>1. keyId \in KeyIds /\ origin \in Origins /\ Tail(rest) \in Seq(Origins)
    BY <2>0
  <2>2. CASE ValidateOrigin(origin) = Ok
    <3>1. bindings' = Allowed(keyId, origin) /\ rest' = Tail(rest)
          /\ UNCHANGED <<building, forLog, policy, asked>>
      BY <1>5, <2>2 DEF AllowNext
    <3>2. /\ Allowed(keyId, origin) \in BindingLists
          /\ \A k, o : Allows(Allowed(keyId, origin), k, o)
                           <=> Allows(bindings, k, o) \/ (k = keyId /\ o = origin)
          /\ WellFormed(Allowed(keyId, origin))
      BY <2>0, <2>1, <2>2, AllowedAllows DEF IInv, OnlyMeetableOrigins
    <3>3. \A k, o : Allows(bindings, k, o)' <=> Allows(bindings, k, o) \/ (k = keyId /\ o = origin)
      BY <3>1, <3>2, NextValues
    <3>4. \A o : Has(rest, o) <=> o = origin \/ Has(Tail(rest), o)
      BY <2>0, HeadOrTail
    <3>5. \A k, o : Missing(k, o) <=> k = keyId /\ (o = origin \/ Has(Tail(rest), o))
      BY <2>0, <3>4 DEF Missing
    <3>6. \A k, o : Missing(k, o)' <=> k = keyId /\ Has(Tail(rest), o)
      BY <2>0, <3>1 DEF Missing, Has, CheckpointLogKeyId
    <3>7. \A k \in KeyIds, o \in Origins :
             (Allows(bindings, k, o) \/ Missing(k, o)) <=> <<k, o>> \in asked
      BY <2>0 DEF IInv, BuilderStandsForAsked
    <3>8. BuilderStandsForAsked'
      BY <3>1, <3>3, <3>5, <3>6, <3>7 DEF BuilderStandsForAsked
    <3>9. QED
      BY <2>0, <2>1, <3>1, <3>2, <3>8
         DEF IInv, Typed, AllowsExactlyWhatWasAsked, OnlyMeetableOrigins, WellFormed
  <2>3. CASE ValidateOrigin(origin) # Ok
    <3>1. building' = "no" /\ rest' = <<>> /\ UNCHANGED <<bindings, forLog, policy, asked>>
      BY <1>5, <2>3 DEF AllowNext
    <3>2. Typed'
      BY <2>0, <3>1 DEF IInv, Typed
    <3>3. QED
      BY <2>0, <3>1, <3>2
         DEF IInv, BuilderStandsForAsked, AllowsExactlyWhatWasAsked, OnlyMeetableOrigins
  <2>4. QED
    BY <2>2, <2>3
<1>6. CASE AllowedAll
  <2>0. building = "loop" /\ rest = <<>> /\ policy = {} /\ building' = "yes"
        /\ UNCHANGED <<bindings, rest, forLog, policy, asked>>
    BY <1>6 DEF AllowedAll, IInv, Typed
  <2>1. \A k, o : ~Missing(k, o) /\ ~Missing(k, o)'
    BY <2>0 DEF Missing, Has
  <2>2. BuilderStandsForAsked'
    <3>1. \A k, o : Allows(bindings, k, o)' <=> Allows(bindings, k, o)
      BY <2>0, NextValues
    <3>2. \A k \in KeyIds, o \in Origins : Allows(bindings, k, o) <=> <<k, o>> \in asked
      BY <2>0, <2>1 DEF IInv, BuilderStandsForAsked
    <3>3. QED
      BY <2>0, <2>1, <3>1, <3>2 DEF BuilderStandsForAsked
  <2>3. QED
    BY <2>0, <2>2 DEF IInv, Typed, AllowsExactlyWhatWasAsked, OnlyMeetableOrigins, WellFormed
<1>7. CASE Build
  <2>0. /\ building' = "no" /\ building = "yes" /\ bindings \in BindingLists
        /\ policy' = IF bindings = <<>> THEN {} ELSE {bindings}
        /\ UNCHANGED <<bindings, rest, forLog, asked>>
    BY <1>7 DEF Build, New, IInv, Typed
  <2>1. Typed' /\ BuilderStandsForAsked'
    BY <2>0 DEF IInv, Typed, BuilderStandsForAsked
  <2>2. AllowsExactlyWhatWasAsked'
    BY <2>0, AllowAll DEF AllowsExactlyWhatWasAsked
  <2>3. OnlyMeetableOrigins'
    BY <2>0 DEF IInv, OnlyMeetableOrigins
  <2>4. QED
    BY <2>1, <2>2, <2>3 DEF IInv
<1>8. ASSUME NEW log \in Logs, NEW list \in OriginLists, ForLog(log, list) PROVE IInv'
  <2>1. PICK b \in NewBinding(log, list) : policy' = New(<<b>>) /\ asked' = Pairs(b)
    BY <1>8 DEF ForLog
  <2>2. b \in Bindings /\ WellFormed(<<b>>)
    BY Given
  <2>3. policy' = {<<b>>} /\ UNCHANGED <<bindings, building, rest, forLog>> /\ building = "no"
    BY <1>8, <2>1 DEF New, ForLog
  <2>4. \A k, o : Allows(<<b>>, k, o) <=> <<k, o>> \in Pairs(b)
    <3>1. \A k, o : Allows(<<b>>, k, o) <=> b.keyId = k /\ Has(b.origins, o)
      BY DEF Allows, Has
    <3>2. QED
      BY <3>1, PairsOf
  <2>5. Typed' /\ BuilderStandsForAsked'
    BY <2>2, <2>3 DEF IInv, Typed, BuilderStandsForAsked, BindingLists
  <2>6. AllowsExactlyWhatWasAsked'
    BY <2>1, <2>3, <2>4 DEF AllowsExactlyWhatWasAsked
  <2>7. OnlyMeetableOrigins'
    BY <2>2, <2>3 DEF OnlyMeetableOrigins
  <2>8. QED
    BY <2>5, <2>6, <2>7 DEF IInv
<1>9. ASSUME NEW b \in CheckpointOriginBindings, NEW c \in CheckpointOriginBindings, NewPolicy(b, c)
      PROVE  IInv'
  <2>1. /\ b \in Bindings /\ WellFormed(<<b>>)
        /\ c \in Bindings /\ WellFormed(<<c>>)
    BY GivenBindings
  <2>2. policy' = {<<b, c>>} /\ asked' = Pairs(b) \union Pairs(c)
        /\ UNCHANGED <<bindings, building, rest, forLog>> /\ building = "no"
    BY <1>9 DEF New, NewPolicy
  <2>3. \A k, o : Allows(<<b, c>>, k, o) <=> <<k, o>> \in Pairs(b) \union Pairs(c)
    <3>1. \A k, o : Allows(<<b, c>>, k, o)
                        <=> (b.keyId = k /\ Has(b.origins, o)) \/ (c.keyId = k /\ Has(c.origins, o))
      BY DEF Allows, Has
    <3>2. QED
      BY <3>1, PairsOf
  <2>4. Typed' /\ BuilderStandsForAsked'
    BY <2>1, <2>2 DEF IInv, Typed, BuilderStandsForAsked, BindingLists
  <2>5. AllowsExactlyWhatWasAsked'
    BY <2>2, <2>3 DEF AllowsExactlyWhatWasAsked
  <2>6. OnlyMeetableOrigins'
    <3> DEFINE Good(x) == x.origins # <<>> /\ \A j \in DOMAIN x.origins : ValidateOrigin(x.origins[j]) = Ok
    <3>1. Good(b) /\ Good(c)
      <4>1. ASSUME NEW x, WellFormed(<<x>>) PROVE Good(x)
        <5>1. 1 \in DOMAIN <<x>> /\ <<x>>[1] = x
          OBVIOUS
        <5>2. Good(<<x>>[1])
          BY <4>1, <5>1 DEF WellFormed
        <5>3. QED
          BY <5>1, <5>2
      <4>2. QED
        BY <2>1, <4>1
    <3>2. \A i \in DOMAIN <<b, c>> : Good(<<b, c>>[i])
      <4> HIDE DEF Good
      <4>1. DOMAIN <<b, c>> = {1, 2} /\ <<b, c>>[1] = b /\ <<b, c>>[2] = c
        OBVIOUS
      <4>2. QED
        BY <3>1, <4>1
    <3>3. WellFormed(<<b, c>>)
      BY <3>2 DEF WellFormed
    <3>4. QED
      BY <2>2, <3>3 DEF OnlyMeetableOrigins
  <2>7. QED
    BY <2>4, <2>5, <2>6 DEF IInv
<1>10. CASE UNCHANGED vars
  <2>1. UNCHANGED <<bindings, building, rest, forLog, policy, asked>>
    BY <1>10 DEF vars
  <2>2. \A k, o : Allows(bindings, k, o)' <=> Allows(bindings, k, o)
    BY <2>1, NextValues
  <2>3. \A k, o : Missing(k, o)' <=> Missing(k, o)
    BY <2>1 DEF Missing, Has, CheckpointLogKeyId
  <2>4. BuilderStandsForAsked'
    BY <2>1, <2>2, <2>3 DEF IInv, BuilderStandsForAsked
  <2>5. Typed' /\ OnlyMeetableOrigins'
    BY <2>1, NextValues DEF IInv, Typed, OnlyMeetableOrigins
  <2>6. AllowsExactlyWhatWasAsked'
    BY <2>1 DEF IInv, AllowsExactlyWhatWasAsked
  <2>7. QED
    BY <2>4, <2>5, <2>6 DEF IInv
<1>11. QED
  BY <1>1, <1>2, <1>3, <1>4, <1>5, <1>6, <1>7, <1>8, <1>9, <1>10 DEF Next

(***************************************************************************)
(* However its calls are mixed and whichever of them fail, a builder makes *)
(* the policy that allows what it was asked to allow, and nothing else.    *)
(***************************************************************************)
THEOREM OriginPolicyExact == Spec => []AllowsExactlyWhatWasAsked
<1>1. IInv => AllowsExactlyWhatWasAsked
  BY DEF IInv
<1>2. QED
  BY <1>1, InitInv, NextInv, PTL DEF Spec

(***************************************************************************)
(* Every policy made has a binding, and every binding origins that a note  *)
(* can have.                                                               *)
(***************************************************************************)
THEOREM OriginPolicyMeetable == Spec => []OnlyMeetableOrigins
<1>1. IInv => OnlyMeetableOrigins
  BY DEF IInv
<1>2. QED
  BY <1>1, InitInv, NextInv, PTL DEF Spec
=============================================================================
