--------------------------- MODULE VerifierProofs ---------------------------
(***************************************************************************)
(* Proofs about module Verifier, for every trust store, policy and bundle: *)
(* its inductive invariant, and that it implements VerifierContract and    *)
(* blames only values it has authenticated.                                *)
(***************************************************************************)
EXTENDS Verifier, SymbolicProofs

-----------------------------------------------------------------------------
(***************************************************************************)
(* The inductive invariant.  Each part records what one check has          *)
(* established, from the place after it on and, since the locals outlive   *)
(* the walk, for as long as the local it set is set.                       *)
(***************************************************************************)
CountInv ==
    pc \in AfterCount \/ log # 0 \/ time # {} => Len(call.bundle.tlogEntries) = 1

LogInv ==
    /\ pc \in AfterLogKey \/ time # {} => log # 0
    /\ log # 0 => Sha256(Tlog.key) = Entry.logId

Promise ==
    Signature(Tlog.key, SetSignedBytes(Entry.body, Entry.integratedTime, Entry.logId, Entry.logIndex))

PromiseInv ==
    pc \in AfterSet \/ time # {} => Promise \in Entry.promise

LeafInv ==
    pc = "timeWindow" \/ time # {} => LeafCertificateInfo(Leaf) = Ok

TimeInv ==
    time # {} =>
        /\ time = {Entry.integratedTime}
        /\ WithinValidFor(Entry.integratedTime, Tlog.validFor)
        /\ Leaf.tbs.notBefore <= Entry.integratedTime
        /\ Entry.integratedTime <= Leaf.tbs.notAfter

\* The time is set by the last of the entry's checks, and not before.
UnsetTime == time # {} => pc \in AfterTimeWindow \union {"done"}

IInv == TypeOK /\ UnsetTime /\ CountInv /\ LogInv /\ PromiseInv /\ LeafInv /\ TimeInv

-----------------------------------------------------------------------------
(***************************************************************************)
(* The verifier and the call are made of values of the assumed shapes.     *)
(***************************************************************************)
LEMMA Shapes ==
    ASSUME verifier \in Verifiers, call \in Calls
    PROVE  /\ StoreShape(verifier.trustStore)
           /\ PolicyShape(verifier.githubPolicy)
           /\ PayloadShape(Envelope.payload)
           /\ CertificateShape(Leaf)
           /\ IsSequence(call.bundle.tlogEntries)
           /\ Len(call.bundle.tlogEntries) = 1 => EntryShape(Entry)
<1>1. verifier.trustStore \in TrustStores /\ verifier.githubPolicy \in GithubPolicies
  BY DEF Verifiers
<1>2. call.bundle \in Bundles
  BY DEF Calls
<1>3. IsSequence(call.bundle.tlogEntries)
  BY <1>2, VerifierAssumption
<1>4. ASSUME Len(call.bundle.tlogEntries) = 1 PROVE EntryShape(Entry)
  <2>1. 1 \in DOMAIN call.bundle.tlogEntries
    BY <1>3, <1>4 DEF IsSequence
  <2>2. QED
    BY <1>2, <2>1, VerifierAssumption DEF Entry
<1>5. QED
  BY <1>1, <1>2, <1>3, <1>4, VerifierAssumption DEF Envelope, Leaf

\* The lists of the trust store have a length.
LEMMA StoreLengths ==
    ASSUME verifier \in Verifiers, call \in Calls
    PROVE  /\ IsSequence(verifier.trustStore.tlogs) /\ Len(verifier.trustStore.tlogs) \in Nat
           /\ Len(Cas) \in Nat /\ DOMAIN Cas = 1..Len(Cas)
  BY Shapes DEF StoreShape, IsSequence, Cas

(***************************************************************************)
(* The log select_log_key picks is one of the trust store's, and its key   *)
(* has the wanted id.                                                      *)
(***************************************************************************)
LEMMA SelectedLogFound ==
    ASSUME NEW tlogs, IsSequence(tlogs), NEW logId
    PROVE  /\ SelectedLog(tlogs, logId) \in 0..Len(tlogs)
           /\ SelectedLog(tlogs, logId) # 0 => Sha256(tlogs[SelectedLog(tlogs, logId)].key) = logId
<1> DEFINE hits == {i \in DOMAIN tlogs : Sha256(tlogs[i].key) = logId}
           first == CHOOSE i \in hits : \A j \in hits : i <= j
<1>1. DOMAIN tlogs = 1..Len(tlogs) /\ Len(tlogs) \in Nat
  BY DEF IsSequence
<1>2. SelectedLog(tlogs, logId) = IF hits = {} THEN 0 ELSE first
  BY DEF SelectedLog, FirstIndex
<1>3. CASE hits = {}
  BY <1>1, <1>2, <1>3
<1>4. CASE hits # {}
  <2>1. hits \in SUBSET Nat
    BY <1>1
  <2>2. first \in hits
    BY <1>4, <2>1, LeastElement
  <2>3. QED
    BY <1>1, <1>2, <1>4, <2>2
<1>5. QED
  BY <1>3, <1>4

(***************************************************************************)
(* check_time_window passes only inside both windows, and only for a time  *)
(* that fits an i64.                                                       *)
(***************************************************************************)
LEMMA TimeWindowOk ==
    ASSUME NEW t, NEW window, NEW notBefore, NEW notAfter,
           CheckTimeWindow(t, window, notBefore, notAfter) = Ok
    PROVE  /\ t <= I64Max
           /\ WithinValidFor(t, window)
           /\ notBefore <= t /\ t <= notAfter
<1> DEFINE inLog == Check(t <= I64Max /\ WithinValidFor(t, window),
                          "IntegratedTimeOutsideLogKeyValidity")
           inLeaf == Check(notBefore <= t /\ t <= notAfter,
                           "IntegratedTimeOutsideCertificateValidity")
<1>1. FirstError(<<inLog, inLeaf>>) = Ok
  BY DEF CheckTimeWindow
<1> HIDE DEF inLog, inLeaf
<1>2. inLog = Ok /\ inLeaf = Ok
  BY <1>1, FirstErrorOk
<1>3. QED
  BY <1>2 DEF inLog, inLeaf, Check, Ok

-----------------------------------------------------------------------------
\* The invariant holds when the first call begins, with every local unset.
LEMMA InitIInv == Init => IInv
<1> SUFFICES ASSUME Init PROVE IInv
  OBVIOUS
<1>1. Len(verifier.trustStore.tlogs) \in Nat /\ Len(Cas) \in Nat
  BY StoreLengths DEF Init
<1>2. TypeOK
  BY <1>1, RekorAssumption DEF Init, AtStart, TypeOK, Places
<1>3. QED
  BY <1>2 DEF Init, AtStart, IInv, UnsetTime, CountInv, LogInv, PromiseInv, LeafInv, TimeInv,
              AfterCount, AfterLogKey, AfterSet, AfterTimeWindow

(***************************************************************************)
(* A check that only reads keeps the invariant if its success establishes  *)
(* what the invariant says of the place it leads to.                       *)
(***************************************************************************)
LEMMA StageIInv ==
    ASSUME NEW here, NEW outcome, NEW next,
           IInv, Stage(here, outcome, next),
           here # "done", next \in Places \ {"done"},
           here \in AfterTimeWindow => next \in AfterTimeWindow,
           outcome = Ok /\ next \in AfterCount => Len(call.bundle.tlogEntries) = 1,
           outcome = Ok /\ next \in AfterLogKey => log # 0,
           outcome = Ok /\ next \in AfterSet => Promise \in Entry.promise,
           outcome = Ok /\ next = "timeWindow" => LeafCertificateInfo(Leaf) = Ok
    PROVE  IInv'
<1> USE DEF Stage, Try, Return, locals
<1>1. /\ UNCHANGED <<verifier, call, log, time, ca, caError, sct, sctError>>
      /\ \/ outcome = Ok /\ pc' = next
         \/ pc' = "done"
  OBVIOUS
<1>2. TypeOK'
  BY <1>1 DEF IInv, TypeOK, Places, Cas
<1>3. CountInv'
  BY <1>1 DEF IInv, CountInv, AfterCount, AfterLogKey, AfterSet, AfterTimeWindow
<1>4. LogInv'
  BY <1>1 DEF IInv, LogInv, AfterLogKey, AfterSet, AfterTimeWindow, Tlog, Entry
<1>5. PromiseInv'
  BY <1>1 DEF IInv, PromiseInv, AfterSet, AfterTimeWindow, Promise, Tlog, Entry
<1>6. LeafInv'
  BY <1>1 DEF IInv, LeafInv, Leaf
<1>7. TimeInv'
  BY <1>1 DEF IInv, TimeInv, Leaf, Tlog, Entry
<1>8. UnsetTime'
  BY <1>1 DEF IInv, UnsetTime
<1>9. QED
  BY <1>2, <1>3, <1>4, <1>5, <1>6, <1>7, <1>8 DEF IInv

(***************************************************************************)
(* The loops after the time window, and the last check, keep what the      *)
(* invariant says of the entry and the time.                               *)
(***************************************************************************)
LEMMA SameLocals ==
    ASSUME IInv, TypeOK', UNCHANGED <<verifier, call, log, time>>,
           pc \in AfterTimeWindow, pc' \in AfterTimeWindow \union {"done"}
    PROVE  IInv'
<1> USE DEF AfterCount, AfterLogKey, AfterSet, AfterTimeWindow
<1>1. CountInv'
  BY DEF IInv, CountInv
<1>2. LogInv'
  BY DEF IInv, LogInv, Tlog, Entry
<1>3. PromiseInv'
  BY DEF IInv, PromiseInv, Promise, Tlog, Entry
<1>4. LeafInv'
  BY DEF IInv, LeafInv, Leaf
<1>5. TimeInv'
  BY DEF IInv, TimeInv, Tlog, Entry, Leaf
<1>6. QED
  BY <1>1, <1>2, <1>3, <1>4, <1>5 DEF IInv, UnsetTime

(***************************************************************************)
(* What the invariant says of the places, from one to the next.            *)
(***************************************************************************)
LEMMA StepIInv == IInv /\ Step => IInv'
<1> SUFFICES ASSUME IInv, Step PROVE IInv'
  OBVIOUS
<1> USE DEF Places, AfterCount, AfterLogKey, AfterSet, AfterTimeWindow
<1>b. /\ pc \in AfterCount => Len(call.bundle.tlogEntries) = 1
      /\ pc \in AfterLogKey => log # 0
      /\ pc \in AfterSet => Promise \in Entry.promise
      /\ pc = "timeWindow" => LeafCertificateInfo(Leaf) = Ok
  BY DEF IInv, CountInv, LogInv, PromiseInv, LeafInv
<1>c. Len(Cas) \in Nat
  BY StoreLengths DEF IInv, TypeOK
<1>1. CASE CheckPayloadType
  BY <1>1, StageIInv, <1>b DEF CheckPayloadType, Stage
<1>2. CASE ParseStatement
  BY <1>2, StageIInv, <1>b DEF ParseStatement, Stage
<1>3. CASE CheckPredicateType
  BY <1>3, StageIInv, <1>b DEF CheckPredicateType, Stage
<1>4. CASE BindSubject
  BY <1>4, StageIInv, <1>b DEF BindSubject, Stage
<1>5. CASE RequireOneTlogEntry
  <2> DEFINE some == Check(Len(call.bundle.tlogEntries) # 0, "NoTlogEntries")
             one == Check(Len(call.bundle.tlogEntries) = 1, "MultipleTlogEntries")
             outcome == FirstError(<<some, one>>)
  <2>1. one = Ok => Len(call.bundle.tlogEntries) = 1
    BY DEF Check, Ok
  <2> HIDE DEF some, one
  <2>2. outcome = Ok => Len(call.bundle.tlogEntries) = 1
    BY <2>1, FirstErrorOk
  <2>3. Stage("tlogEntries", outcome, "body")
    BY <1>5 DEF RequireOneTlogEntry, some, one
  <2> HIDE DEF outcome
  <2>4. QED
    BY <2>2, <2>3, StageIInv
<1>6. CASE ParseBody
  BY <1>6, StageIInv, <1>b DEF ParseBody, Stage
<1>7. CASE BindEntry
  BY <1>7, StageIInv, <1>b DEF BindEntry, Stage
<1>8. CASE SelectLog
  <2> DEFINE tlogs == verifier.trustStore.tlogs
             outcome == SelectLogKey(tlogs, Entry.logId)
  <2>1. IsSequence(tlogs)
    BY StoreLengths DEF IInv, TypeOK
  <2>2. /\ pc = "logKey"
        /\ UNCHANGED <<verifier, call, time, ca, caError, sct, sctError>>
        /\ \/ outcome = Ok /\ pc' = "set" /\ log' = SelectedLog(tlogs, Entry.logId) /\ UNCHANGED result
           \/ outcome # Ok /\ pc' = "done" /\ log' = log
    BY <1>8 DEF SelectLog, Try, Return
  <2>3. outcome = Ok => SelectedLog(tlogs, Entry.logId) # 0
    BY DEF SelectLogKey, Ok
  <2>4. /\ SelectedLog(tlogs, Entry.logId) \in 0..Len(tlogs)
        /\ outcome = Ok => Sha256(tlogs[SelectedLog(tlogs, Entry.logId)].key) = Entry.logId
    BY <2>1, <2>3, SelectedLogFound
  <2> HIDE DEF outcome
  <2>5. TypeOK'
    BY <2>2, <2>4 DEF IInv, TypeOK, Cas
  <2>6. time = {}
    BY <1>b, <2>2 DEF IInv, UnsetTime
  <2>7. CountInv' /\ LogInv'
    BY <1>b, <2>2, <2>3, <2>4, <2>6 DEF IInv, CountInv, LogInv, Tlog, Entry
  <2>8. UnsetTime' /\ PromiseInv' /\ LeafInv' /\ TimeInv'
    BY <2>2, <2>6 DEF UnsetTime, PromiseInv, LeafInv, TimeInv
  <2>9. QED
    BY <2>5, <2>7, <2>8 DEF IInv
<1>9. CASE CheckSet
  <2>1. Stage("set", VerifySet(Entry, Tlog.key), "inclusionProof")
    BY <1>9 DEF CheckSet
  <2>2. pc = "set" /\ log # 0 /\ Sha256(Tlog.key) = Entry.logId
    BY <1>b, <2>1 DEF IInv, LogInv, Stage
  <2>3. VerifySet(Entry, Tlog.key) = Ok => Promise \in Entry.promise
    BY <2>2 DEF VerifySet, VerifyDer, Promise, Ok
  <2>4. QED
    BY <1>b, <2>1, <2>2, <2>3, StageIInv
<1>10. CASE RequireInclusionProof
  BY <1>10, StageIInv, <1>b DEF RequireInclusionProof, Stage
<1>11. CASE CheckInclusion
  BY <1>11, StageIInv, <1>b DEF CheckInclusion, Stage
<1>12. CASE CheckCheckpoint
  BY <1>12, StageIInv, <1>b DEF CheckCheckpoint, Stage
<1>13. CASE CheckCheckpointOrigin
  BY <1>13, StageIInv, <1>b DEF CheckCheckpointOrigin, Stage
<1>14. CASE ReadLeafInfo
  BY <1>14, StageIInv, <1>b DEF ReadLeafInfo, Stage
<1>15. CASE AuthenticateTime
  <2> DEFINE outcome == CheckTimeWindow(Entry.integratedTime, Tlog.validFor,
                                        Leaf.tbs.notBefore, Leaf.tbs.notAfter)
  <2>1. /\ pc = "timeWindow"
        /\ UNCHANGED <<verifier, call, log, ca, caError, sct, sctError>>
        /\ \/ /\ outcome = Ok /\ pc' = "chain" /\ UNCHANGED result
              /\ time' = {SaturatingI64(Entry.integratedTime)}
           \/ outcome # Ok /\ pc' = "done" /\ time' = time
    BY <1>15 DEF AuthenticateTime, Try, Return
  <2>2. Entry.integratedTime \in Nat
    BY <1>b, <2>1, Shapes DEF IInv, TypeOK, EntryShape
  <2>3. outcome = Ok =>
          /\ Entry.integratedTime <= I64Max
          /\ WithinValidFor(Entry.integratedTime, Tlog.validFor)
          /\ Leaf.tbs.notBefore <= Entry.integratedTime
          /\ Entry.integratedTime <= Leaf.tbs.notAfter
    BY TimeWindowOk
  <2> HIDE DEF outcome
  <2>4. outcome = Ok => SaturatingI64(Entry.integratedTime) = Entry.integratedTime
    BY <2>2, <2>3, RekorAssumption DEF SaturatingI64
  <2>5. TypeOK'
    <3>0. outcome = Ok => SaturatingI64(Entry.integratedTime) \in 0..I64Max
      BY <2>2, <2>3, <2>4, RekorAssumption
    <3>1. time' \in SUBSET (0..I64Max)
      <4>1. CASE outcome = Ok
        BY <2>1, <3>0, <4>1
      <4>2. CASE outcome # Ok
        BY <2>1, <4>2 DEF IInv, TypeOK
      <4>3. QED
        BY <4>1, <4>2
    <3>2. (pc \in Places /\ (pc # "done" => result = "Pending"))'
      BY <2>1 DEF IInv, TypeOK
    <3>3. QED
      BY <2>1, <3>1, <3>2 DEF IInv, TypeOK, Cas
  <2>6. CountInv' /\ LogInv'
    BY <1>b, <2>1 DEF IInv, CountInv, LogInv, Tlog, Entry
  <2>7. PromiseInv' /\ LeafInv'
    BY <1>b, <2>1 DEF IInv, PromiseInv, LeafInv, Promise, Tlog, Entry, Leaf
  <2>8. TimeInv' /\ UnsetTime'
    BY <2>1, <2>3, <2>4 DEF IInv, TimeInv, UnsetTime, Tlog, Entry, Leaf
  <2>9. QED
    BY <2>5, <2>6, <2>7, <2>8 DEF IInv
<1>16. CASE TryCa
  <2>1. /\ UNCHANGED <<verifier, call, log, time>>
        /\ pc \in AfterTimeWindow
        /\ \/ pc' \in AfterTimeWindow /\ UNCHANGED result
           \/ pc' = "done"
    BY <1>16 DEF TryCa
  <2>2. TypeOK'
    BY <1>16, <2>1, <1>c DEF TryCa, IInv, TypeOK, Cas
  <2>3. QED
    BY <1>b, <2>1, <2>2, SameLocals
<1>17. CASE NoCaLeft
  <2>1. /\ UNCHANGED <<verifier, call, log, time>>
        /\ pc \in AfterTimeWindow
        /\ \/ pc' \in AfterTimeWindow /\ UNCHANGED result
           \/ pc' = "done"
    BY <1>17 DEF NoCaLeft, Return, locals
  <2>2. TypeOK'
    BY <1>17, <2>1, <1>c DEF NoCaLeft, Return, locals, IInv, TypeOK, Cas
  <2>3. QED
    BY <1>b, <2>1, <2>2, SameLocals
<1>18. CASE ReadLeafKey
  BY <1>18, StageIInv, <1>b DEF ReadLeafKey, Stage
<1>19. CASE CheckEnvelope
  BY <1>19, StageIInv, <1>b DEF CheckEnvelope, Stage
<1>20. CASE ParseSctList
  BY <1>20, StageIInv, <1>b DEF ParseSctList, Stage
<1>21. CASE TrySct
  <2>1. /\ UNCHANGED <<verifier, call, log, time>>
        /\ pc \in AfterTimeWindow
        /\ \/ pc' \in AfterTimeWindow /\ UNCHANGED result
           \/ pc' = "done"
    BY <1>21 DEF TrySct
  <2>2. TypeOK'
    BY <1>21, <2>1, <1>c DEF TrySct, IInv, TypeOK, Cas
  <2>3. QED
    BY <1>b, <2>1, <2>2, SameLocals
<1>22. CASE NoSctLeft
  <2>1. /\ UNCHANGED <<verifier, call, log, time>>
        /\ pc \in AfterTimeWindow
        /\ \/ pc' \in AfterTimeWindow /\ UNCHANGED result
           \/ pc' = "done"
    BY <1>22 DEF NoSctLeft, Return, locals
  <2>2. TypeOK'
    BY <1>22, <2>1, <1>c DEF NoSctLeft, Return, locals, IInv, TypeOK, Cas
  <2>3. QED
    BY <1>b, <2>1, <2>2, SameLocals
<1>23. CASE ReadClaims
  BY <1>23, StageIInv, <1>b DEF ReadClaims, Stage
<1>24. CASE CheckPolicy
  <2>1. /\ UNCHANGED <<verifier, call, log, time>>
        /\ pc \in AfterTimeWindow
        /\ \/ pc' \in AfterTimeWindow /\ UNCHANGED result
           \/ pc' = "done"
    BY <1>24 DEF CheckPolicy, Return, locals
  <2>2. TypeOK'
    BY <1>24, <2>1, <1>c DEF CheckPolicy, Return, locals, IInv, TypeOK, Cas
  <2>3. QED
    BY <1>b, <2>1, <2>2, SameLocals
<1>25. QED
  BY <1>1, <1>2, <1>3, <1>4, <1>5, <1>6, <1>7, <1>8, <1>9, <1>10, <1>11, <1>12, <1>13, <1>14, <1>15, <1>16, <1>17, <1>18, <1>19, <1>20, <1>21, <1>22, <1>23, <1>24 DEF Step

(***************************************************************************)
(* Between two calls and at the start of one, too.                         *)
(***************************************************************************)
LEMMA NextIInv == IInv /\ [Next]_vars => IInv'
<1> SUFFICES ASSUME IInv, [Next]_vars PROVE IInv'
  OBVIOUS
<1>1. CASE Step
  BY <1>1, StepIInv
<1>2. ASSUME NEW s \in Subjects, NEW b \in Bundles, VerifyDigest(s, b)
      PROVE  IInv'
  <2>1. Len(Cas) \in Nat /\ Len(verifier.trustStore.tlogs) \in Nat
    BY StoreLengths DEF IInv, TypeOK
  <2>2. TypeOK'
    BY <1>2, <2>1, RekorAssumption DEF IInv, TypeOK, VerifyDigest, Begin, Places, Calls, Cas
  <2>3. QED
    BY <1>2, <2>2 DEF VerifyDigest, Begin, IInv, UnsetTime, CountInv, LogInv, PromiseInv, LeafInv,
                      TimeInv, AfterCount, AfterLogKey, AfterSet, AfterTimeWindow
<1>3. ASSUME NEW a \in Artifacts, NEW b \in Bundles, VerifyBytes(a, b)
      PROVE  IInv'
  <2>1. Sha256(a) \in Subjects
    BY DEF Subjects
  <2>2. VerifyDigest(Sha256(a), b)
    BY <1>3 DEF VerifyBytes
  <2>3. QED
    BY <1>2, <2>1, <2>2
<1>4. CASE UNCHANGED vars
  BY <1>4 DEF vars, locals, IInv, TypeOK, UnsetTime, CountInv, LogInv, PromiseInv, LeafInv, TimeInv,
              Promise, Tlog, Entry, Leaf, Cas
<1>5. QED
  BY <1>1, <1>2, <1>3, <1>4 DEF Next

LEMMA InvariantIInv == Spec => []IInv
  BY InitIInv, NextIInv, PTL DEF Spec

-----------------------------------------------------------------------------
(***************************************************************************)
(* The state of verify_digest is always of its type; in particular the     *)
(* cursor of the loop over authorities stays in range, the selected log is *)
(* one of the trust store's, and the authenticated time fits an i64.       *)
(***************************************************************************)
THEOREM TypeCorrect == Spec => []TypeOK
<1>1. IInv => TypeOK
  BY DEF IInv
<1>2. QED
  BY <1>1, InvariantIInv, PTL

(***************************************************************************)
(* The leaf passes x509.rs's own window and dsse.rs's key parsing whenever *)
(* it passed rekor.rs's, at the bounds of the window too.                  *)
(***************************************************************************)
THEOREM LeafAgreement == Spec => []LeafChecksAgree
<1>1. IInv => LeafChecksAgree
  <2> SUFFICES ASSUME IInv, time # {}
               PROVE  /\ VerifyTimeWindow(Leaf.tbs, AuthenticatedTime) = Ok
                      /\ FromSpkiDer(Leaf.tbs.key) = Ok
    BY DEF LeafChecksAgree
  <2>1. AuthenticatedTime = Entry.integratedTime
    BY DEF IInv, TimeInv, AuthenticatedTime
  <2>2. LeafCertificateInfo(Leaf) = Ok
    BY DEF IInv, LeafInv
  <2>3. FromSpkiDer(Leaf.tbs.key) = Ok
    BY <2>2 DEF LeafCertificateInfo, Ok
  <2>4. Leaf.tbs.notBefore \in Int /\ Leaf.tbs.notAfter \in Int
    BY Shapes DEF IInv, TypeOK, CertificateShape
  <2>5. Entry.integratedTime \in Int
    <3>1. time \subseteq 0..I64Max /\ Entry.integratedTime \in time
      BY DEF IInv, TypeOK, TimeInv
    <3>2. Entry.integratedTime \in 0..I64Max
      BY <3>1
    <3>3. QED
      BY <3>2, RekorAssumption
  <2>6. VerifyTimeWindow(Leaf.tbs, AuthenticatedTime) = Ok
    BY <2>1, <2>4, <2>5 DEF IInv, TimeInv, VerifyTimeWindow
  <2>7. QED
    BY <2>3, <2>6
<1>2. QED
  BY <1>1, InvariantIInv, PTL

-----------------------------------------------------------------------------
(***************************************************************************)
(* What the outcome of each check means: it is Ok exactly if the bundle    *)
(* has the part of authenticity the check is there for, and otherwise one  *)
(* of the check's own errors.                                              *)
(***************************************************************************)

\* Statement::from_payload.
LEMMA FromPayloadMeans ==
    ASSUME NEW payload, PayloadShape(payload)
    PROVE  /\ FromPayload(payload) = Ok <=>
                /\ payload.parses = "yes"
                /\ payload.type = StatementType
                /\ Len(payload.subjects) <= MaxStatementSubjects
           /\ FromPayload(payload) \in {Ok, "StatementType", "TooManySubjects"} \union PayloadErrors
<1> DEFINE a == Check(payload.parses \in {"yes", "MalformedSubject"}, payload.parses)
           b == Check(payload.type = StatementType, "StatementType")
           c == Check(Len(payload.subjects) <= MaxStatementSubjects, "TooManySubjects")
           d == Check(payload.parses = "yes", payload.parses)
<1>1. FromPayload(payload) = FirstError(<<a, b, c, d>>)
  BY DEF FromPayload
<1>2. /\ a \in {Ok} \union PayloadErrors /\ d \in {Ok} \union PayloadErrors
      /\ a = Ok <=> payload.parses \in {"yes", "MalformedSubject"}
      /\ d = Ok <=> payload.parses = "yes"
  BY DEF Check, Ok, PayloadShape, PayloadErrors
<1>3. /\ b \in {Ok, "StatementType"} /\ (b = Ok <=> payload.type = StatementType)
      /\ c \in {Ok, "TooManySubjects"} /\ (c = Ok <=> Len(payload.subjects) <= MaxStatementSubjects)
  BY DEF Check, Ok
<1> HIDE DEF a, b, c, d
<1>4. QED
  BY <1>1, <1>2, <1>3, FirstError4

\* Statement::find_subject.
LEMMA FindSubjectMeans ==
    ASSUME NEW payload, PayloadShape(payload), NEW subject
    PROVE  FindSubject(payload, subject) # 0 <=>
             \E i \in DOMAIN payload.subjects : payload.subjects[i].sha256 = {subject}
<1> DEFINE hits == {i \in DOMAIN payload.subjects : payload.subjects[i].sha256 = {subject}}
           first == CHOOSE i \in hits : \A j \in hits : i <= j
<1>1. DOMAIN payload.subjects = 1..Len(payload.subjects)
  BY DEF PayloadShape, IsSequence
<1>2. FindSubject(payload, subject) = IF hits = {} THEN 0 ELSE first
  BY DEF FindSubject, FirstIndex
<1>3. hits \subseteq DOMAIN payload.subjects
  OBVIOUS
<1>4. hits # {} <=> \E i \in DOMAIN payload.subjects : payload.subjects[i].sha256 = {subject}
  OBVIOUS
<1>5. hits # {} => first \in hits
  <2>1. hits \in SUBSET Nat
    BY <1>1
  <2>2. QED
    BY <2>1, FirstHit
<1> HIDE DEF hits, first
<1>6. hits # {} => first # 0
  BY <1>1, <1>3, <1>5
<1>7. QED
  BY <1>2, <1>4, <1>6

\* verify_digest's count of the entries.
LEMMA OneEntryMeans ==
    ASSUME NEW n
    PROVE  LET outcome == FirstError(<< Check(n # 0, "NoTlogEntries"),
                                        Check(n = 1, "MultipleTlogEntries") >>)
           IN  /\ outcome = Ok <=> n = 1
               /\ outcome \in {Ok, "NoTlogEntries", "MultipleTlogEntries"}
<1> DEFINE a == Check(n # 0, "NoTlogEntries")
           b == Check(n = 1, "MultipleTlogEntries")
<1>1. /\ a \in {Ok, "NoTlogEntries"} /\ (a = Ok <=> n # 0)
      /\ b \in {Ok, "MultipleTlogEntries"} /\ (b = Ok <=> n = 1)
  BY DEF Check, Ok
<1>2. n = 1 => n # 0
  OBVIOUS
<1> HIDE DEF a, b
<1>3. /\ FirstError(<<a, b>>) = Ok <=> n = 1
      /\ FirstError(<<a, b>>) \in {Ok, "NoTlogEntries", "MultipleTlogEntries"}
  BY <1>1, <1>2, FirstError2
<1>4. QED
  BY <1>3 DEF a, b

\* parse_tlog_entry_body.
LEMMA ParseBodyMeans ==
    ASSUME NEW body, BodyShape(body)
    PROVE  /\ ParseTlogEntryBody(body) = Ok <=> body.parses = "yes" /\ body.kind = SupportedKind
           /\ ParseTlogEntryBody(body) \in {Ok, "TlogEntryKindVersion"} \union BodyErrors
<1> DEFINE a == Check(body.parses \notin {"Json", "TooManyJsonNodes"}, body.parses)
           b == Check(body.kind = SupportedKind, "TlogEntryKindVersion")
           c == Check(body.parses = "yes", body.parses)
<1>1. ParseTlogEntryBody(body) = FirstError(<<a, b, c>>)
  BY DEF ParseTlogEntryBody
<1>2. /\ a \in {Ok} \union BodyErrors /\ c \in {Ok} \union BodyErrors
      /\ body.parses = "yes" => a = Ok
      /\ c = Ok <=> body.parses = "yes"
  <2>1. body.parses \in {"yes", "Json", "TooManyJsonNodes", "DsseSignatureCount", "Hex", "Base64"}
    BY DEF BodyShape, BodyErrors
  <2>2. QED
    BY <2>1 DEF Check, Ok, BodyErrors
<1>3. b \in {Ok, "TlogEntryKindVersion"} /\ (b = Ok <=> body.kind = SupportedKind)
  BY DEF Check, Ok
<1> HIDE DEF a, b, c
<1>4. QED
  BY <1>1, <1>2, <1>3, FirstError3

BindingErrors ==
    {"TlogEntryKindVersionMismatch", "TlogEntrySignatureMismatch", "TlogEntryCertificateMismatch",
     "TlogEntryPayloadHashMismatch", "TlogEntryEnvelopeHashMismatch"}

\* check_entry_binding, of a body that parse_tlog_entry_body has read.
LEMMA EntryBindingMeans ==
    ASSUME NEW entry, NEW envelope, NEW certificate, BodyShape(entry.body),
           entry.body.parses = "yes", entry.body.kind = SupportedKind
    PROVE  /\ CheckEntryBinding(entry, envelope, certificate) = Ok <=>
                entry.kind = SupportedKind /\ entry.body = CanonicalBody(envelope, certificate)
           /\ CheckEntryBinding(entry, envelope, certificate) \in {Ok} \union BindingErrors
<1> DEFINE body == entry.body
           a == Check(entry.kind = body.kind, "TlogEntryKindVersionMismatch")
           b == Check(body.signature = envelope.sig, "TlogEntrySignatureMismatch")
           c == Check(body.verifier = certificate, "TlogEntryCertificateMismatch")
           d == Check(body.payloadHash = Sha256(envelope.payload), "TlogEntryPayloadHashMismatch")
           e == Check(body.envelopeHash = ComputeEnvelopeHash(envelope), "TlogEntryEnvelopeHashMismatch")
<1>1. CheckEntryBinding(entry, envelope, certificate) = FirstError(<<a, b, c, d, e>>)
  BY DEF CheckEntryBinding
<1>2. /\ a \in {Ok} \union BindingErrors /\ (a = Ok <=> entry.kind = body.kind)
      /\ b \in {Ok} \union BindingErrors /\ (b = Ok <=> body.signature = envelope.sig)
      /\ c \in {Ok} \union BindingErrors /\ (c = Ok <=> body.verifier = certificate)
      /\ d \in {Ok} \union BindingErrors /\ (d = Ok <=> body.payloadHash = Sha256(envelope.payload))
      /\ e \in {Ok} \union BindingErrors
      /\ e = Ok <=> body.envelopeHash = ComputeEnvelopeHash(envelope)
  BY DEF Check, Ok, BindingErrors
<1>3. body = CanonicalBody(envelope, certificate) <=>
        /\ body.signature = envelope.sig
        /\ body.verifier = certificate
        /\ body.payloadHash = Sha256(envelope.payload)
        /\ body.envelopeHash = ComputeEnvelopeHash(envelope)
  BY DEF BodyShape, CanonicalBody
<1> HIDE DEF a, b, c, d, e, body
<1>4. /\ FirstError(<<a, b, c, d, e>>) = Ok <=> a = Ok /\ b = Ok /\ c = Ok /\ d = Ok /\ e = Ok
      /\ FirstError(<<a, b, c, d, e>>) \in {Ok, a, b, c, d, e}
  BY FirstError5
<1>5. FirstError(<<a, b, c, d, e>>) \in {Ok} \union BindingErrors
  BY <1>2, <1>4
<1>6. body.kind = SupportedKind
  BY DEF body
<1>7. QED
  BY <1>1, <1>2, <1>3, <1>4, <1>5, <1>6 DEF body

\* select_log_key.
LEMMA SelectedLogMeans ==
    ASSUME NEW tlogs, IsSequence(tlogs), NEW entry
    PROVE  LET i == SelectedLog(tlogs, entry.logId)
           IN  \A tlog : TrustedLog(tlogs, entry, tlog) <=> i # 0 /\ tlog = tlogs[i]
<1> DEFINE hits == {i \in DOMAIN tlogs : Sha256(tlogs[i].key) = entry.logId}
           first == CHOOSE i \in hits : \A j \in hits : i <= j
<1>1. DOMAIN tlogs = 1..Len(tlogs) /\ Len(tlogs) \in Nat
  BY DEF IsSequence
<1>2. SelectedLog(tlogs, entry.logId) = IF hits = {} THEN 0 ELSE first
  BY DEF SelectedLog, FirstIndex
<1>3. \A i \in DOMAIN tlogs : i \in hits <=> Sha256(tlogs[i].key) = entry.logId
  OBVIOUS
<1>4. hits \subseteq DOMAIN tlogs
  OBVIOUS
<1>5. hits # {} => first \in hits /\ \A j \in hits : first <= j
  <2>1. hits \in SUBSET Nat
    BY <1>1
  <2>2. QED
    BY <2>1, FirstHit
<1> HIDE DEF hits, first
<1> SUFFICES ASSUME NEW tlog
             PROVE  TrustedLog(tlogs, entry, tlog) <=>
                      /\ SelectedLog(tlogs, entry.logId) # 0
                      /\ tlog = tlogs[SelectedLog(tlogs, entry.logId)]
  OBVIOUS
<1>6. ASSUME TrustedLog(tlogs, entry, tlog)
      PROVE  hits # {} /\ tlog = tlogs[first]
  <2>1. PICK i \in DOMAIN tlogs :
          /\ tlog = tlogs[i]
          /\ Sha256(tlogs[i].key) = entry.logId
          /\ \A j \in 1..(i-1) : Sha256(tlogs[j].key) # entry.logId
    BY <1>6 DEF TrustedLog
  <2>2. i \in hits
    BY <1>3, <2>1
  <2>3. first <= i /\ first \in 1..Len(tlogs) /\ i \in 1..Len(tlogs)
    BY <1>1, <1>4, <1>5, <2>2
  <2>4. ~(first < i)
    BY <1>3, <1>4, <1>5, <2>1, <2>2, <2>3
  <2>5. first = i
    BY <2>3, <2>4
  <2>6. QED
    BY <2>1, <2>2, <2>5
<1>7. ASSUME hits # {}, tlog = tlogs[first]
      PROVE  TrustedLog(tlogs, entry, tlog)
  <2>1. first \in DOMAIN tlogs /\ Sha256(tlogs[first].key) = entry.logId
    BY <1>3, <1>4, <1>5, <1>7
  <2>2. \A j \in 1..(first-1) : Sha256(tlogs[j].key) # entry.logId
    BY <1>1, <1>3, <1>4, <1>5, <1>7, <2>1
  <2>3. QED
    BY <1>7, <2>1, <2>2 DEF TrustedLog
<1>8. hits # {} => first # 0
  BY <1>1, <1>4, <1>5
<1>9. QED
  BY <1>2, <1>6, <1>7, <1>8

\* verify_set.
LEMMA VerifySetMeans ==
    ASSUME NEW entry, EntryShape(entry), NEW key
    PROVE  /\ VerifySet(entry, key) = Ok <=> Promised(entry, key)
           /\ VerifySet(entry, key) \in {Ok, "SetMissing", "SetInvalid"}
<1> DEFINE s == Signature(key, SetSignedBytes(entry.body, entry.integratedTime, Sha256(key),
                                              entry.logIndex))
<1>1. VerifySet(entry, key) = IF entry.promise = {} THEN "SetMissing"
                              ELSE IF \E set \in entry.promise : set = s THEN Ok ELSE "SetInvalid"
  BY DEF VerifySet, VerifyDer
<1>2. Promised(entry, key) <=> entry.promise = {s}
  BY DEF Promised
<1>3. \A x, y \in entry.promise : x = y
  BY DEF EntryShape, IsOption
<1> HIDE DEF s
<1>4. entry.promise = {s} <=> s \in entry.promise
  BY <1>3
<1>5. QED
  BY <1>1, <1>2, <1>4 DEF Ok

\* An element put between two sequences: what the path of verify_inclusion_proof is.
LEMMA Around ==
    ASSUME NEW T, NEW left \in Seq(T), NEW middle \in T, NEW right \in Seq(T)
    PROVE  LET path == left \o <<middle>> \o right IN
           /\ path \in Seq(T) /\ Len(path) = Len(left) + 1 + Len(right)
           /\ \A i \in 1..(Len(left) + 1 + Len(right)) :
                 path[i] = IF i <= Len(left) THEN left[i]
                           ELSE IF i = Len(left) + 1 THEN middle ELSE right[i - Len(left) - 1]
<1> DEFINE front == left \o <<middle>>
<1>1. /\ front \in Seq(T) /\ Len(front) = Len(left) + 1
      /\ \A i \in 1..(Len(left) + 1) : front[i] = IF i <= Len(left) THEN left[i] ELSE middle
  OBVIOUS
<1> HIDE DEF front
<1>2. QED
  BY <1>1 DEF front

\* verify_inclusion_proof.
LEMMA InclusionMeans ==
    ASSUME NEW proof, ProofShape(proof), NEW body
    PROVE  /\ VerifyInclusionProof(body, proof) = Ok <=> InTree(proof, body)
           /\ VerifyInclusionProof(body, proof) \in {Ok, "InclusionProofInvalid"}
<1> DEFINE leaves == proof.rootHash.root
           k == proof.logIndex
           n == proof.treeSize
           others == proof.hashes
           left == SubSeq(others, 1, k)
           right == SubSeq(others, k + 1, n - 1)
           path == left \o <<body>> \o right
<1>1. /\ k \in Nat /\ n \in Nat
      /\ IsSequence(others) /\ IsSequence(leaves)
      /\ proof.rootHash = MerkleRoot(leaves)
  BY DEF ProofShape
<1>2. PICK T : others \in Seq(T) /\ leaves \in Seq(T) /\ body \in T
  <2>1. others \in Seq({others[i] : i \in DOMAIN others}) /\ leaves \in Seq({leaves[i] : i \in DOMAIN leaves})
    BY <1>1 DEF IsSequence
  <2> DEFINE T == {others[i] : i \in DOMAIN others} \union {leaves[i] : i \in DOMAIN leaves} \union {body}
  <2>2. others \in Seq(T) /\ leaves \in Seq(T) /\ body \in T
    BY <2>1
  <2>3. QED
    BY <2>2
<1>3. VerifyInclusionProof(body, proof) = Ok <=>
        k < n /\ Len(others) = n - 1 /\ leaves = path
  <2>1. MerkleRoot(leaves) = MerkleRoot(path) <=> leaves = path
    BY DEF MerkleRoot
  <2>2. RecomputeRoot(body, k, n, others) =
          IF k >= n \/ Len(others) # n - 1 THEN {} ELSE {MerkleRoot(path)}
    BY DEF RecomputeRoot
  <2> HIDE DEF path
  <2>3. VerifyInclusionProof(body, proof) = Ok <=> proof.rootHash \in RecomputeRoot(body, k, n, others)
    BY DEF VerifyInclusionProof, Ok
  <2>4. QED
    BY <1>1, <2>1, <2>2, <2>3
<1>4. InTree(proof, body) <=>
        /\ n = Len(leaves)
        /\ k + 1 \in DOMAIN leaves
        /\ leaves[k + 1] = body
        /\ Len(others) = Len(leaves) - 1
        /\ \A i \in DOMAIN others : others[i] = leaves[IF i <= k THEN i ELSE i + 1]
  BY DEF InTree
<1> HIDE DEF leaves, k, n, others
<1>5. ASSUME k < n, Len(others) = n - 1
      PROVE  /\ path \in Seq(T) /\ Len(path) = n
             /\ \A i \in 1..n : path[i] = IF i <= k THEN others[i]
                                          ELSE IF i = k + 1 THEN body ELSE others[i - 1]
  <2>1. left \in Seq(T) /\ Len(left) = k /\ \A i \in 1..k : left[i] = others[i]
    BY <1>1, <1>2, <1>5
  <2>2. right \in Seq(T) /\ Len(right) = n - 1 - k /\ \A i \in 1..(n - 1 - k) : right[i] = others[k + i]
    BY <1>1, <1>2, <1>5
  <2> HIDE DEF left, right
  <2>3. left \in Seq(T) /\ body \in T /\ right \in Seq(T)
    BY <1>2, <2>1, <2>2
  <2>4. /\ path \in Seq(T) /\ Len(path) = Len(left) + 1 + Len(right)
        /\ \A i \in 1..(Len(left) + 1 + Len(right)) :
              path[i] = IF i <= Len(left) THEN left[i]
                        ELSE IF i = Len(left) + 1 THEN body ELSE right[i - Len(left) - 1]
    BY <2>3, Around
  <2> HIDE DEF path
  <2>5. Len(path) = n
    BY <1>1, <1>5, <2>1, <2>2, <2>4
  <2>6. ASSUME NEW i \in 1..n
        PROVE  path[i] = IF i <= k THEN left[i] ELSE IF i = k + 1 THEN body ELSE right[i - k - 1]
    BY <1>1, <1>5, <2>1, <2>2, <2>4
  <2>7. ASSUME NEW i \in 1..n
        PROVE  path[i] = IF i <= k THEN others[i] ELSE IF i = k + 1 THEN body ELSE others[i - 1]
    <3>1. CASE i <= k
      <4>1. path[i] = left[i] /\ left[i] = others[i]
        BY <1>1, <2>1, <2>6, <3>1
      <4>2. QED
        BY <3>1, <4>1
    <3>2. CASE i = k + 1
      <4>1. path[i] = body /\ ~(i <= k)
        BY <1>1, <2>6, <3>2
      <4>2. QED
        BY <3>2, <4>1
    <3>3. CASE i > k + 1
      <4>1. path[i] = right[i - k - 1]
        BY <1>1, <2>6, <3>3
      <4>2. i - k - 1 \in 1..(n - 1 - k) /\ k + (i - k - 1) = i - 1 /\ ~(i <= k) /\ i # k + 1
        BY <1>1, <1>5, <3>3
      <4>3. QED
        BY <2>2, <4>1, <4>2
    <3>4. QED
      BY <1>1, <3>1, <3>2, <3>3
  <2>8. QED
    BY <2>4, <2>5, <2>7
<1>6. VerifyInclusionProof(body, proof) = Ok => InTree(proof, body)
  BY <1>1, <1>2, <1>3, <1>4, <1>5, SMTT(30)
<1>7. ASSUME InTree(proof, body)
      PROVE  VerifyInclusionProof(body, proof) = Ok
  <2>1. n = Len(leaves) /\ k < n /\ Len(others) = n - 1
    BY <1>1, <1>2, <1>4, <1>7
  <2>2. /\ leaves[k + 1] = body
        /\ \A i \in 1..(n - 1) : others[i] = leaves[IF i <= k THEN i ELSE i + 1]
    BY <1>2, <1>4, <1>7, <2>1
  <2>3. /\ path \in Seq(T) /\ Len(path) = n
        /\ \A i \in 1..n : path[i] = IF i <= k THEN others[i]
                                     ELSE IF i = k + 1 THEN body ELSE others[i - 1]
    BY <1>5, <2>1
  <2> HIDE DEF path
  <2>4. \A i \in 1..n : path[i] = leaves[i]
    BY <1>1, <2>1, <2>2, <2>3
  <2>5. path = leaves
    BY <1>2, <2>1, <2>3, <2>4
  <2>6. QED
    BY <1>3, <2>1, <2>5 DEF path
<1>8. QED
  BY <1>6, <1>7 DEF VerifyInclusionProof, Ok

CheckpointErrors ==
    {"Checkpoint", "TooManyCheckpointSignatures", "CheckpointTreeSizeMismatch",
     "CheckpointRootHashMismatch", "CheckpointSignatureInvalid"}

\* verify_checkpoint: an unsigned note has no line to verify.
LEMMA CheckpointMeans ==
    ASSUME NEW proof, NEW tlog
    PROVE  /\ VerifyCheckpoint(proof, tlog) = Ok <=> HeadSigned(proof, tlog)
           /\ VerifyCheckpoint(proof, tlog) \in {Ok} \union CheckpointErrors
<1> DEFINE note == proof.checkpoint
           signed == \E i \in DOMAIN note.signatures :
                        /\ note.signatures[i].hint \in CheckpointKeyHint(tlog)
                        /\ note.signatures[i].signature = Signature(tlog.key, NoteBody(note))
           verified == \E i \in Candidates(note, tlog) :
                          VerifyDer(tlog.key, NoteBody(note), note.signatures[i].signature)
           a == Check(note.parses, "Checkpoint")
           b == Check(Len(note.signatures) <= MaxCheckpointSignatures, "TooManyCheckpointSignatures")
           c == Check(note.linesParse /\ note.signatures # <<>>, "Checkpoint")
           d == Check(note.treeSize = proof.treeSize, "CheckpointTreeSizeMismatch")
           e == Check(note.rootHash = proof.rootHash, "CheckpointRootHashMismatch")
           f == Check(verified, "CheckpointSignatureInvalid")
           parsed == ParseCheckpoint(note)
<1>1. parsed = FirstError(<<a, b, c>>)
  BY DEF ParseCheckpoint
<1>2. VerifyCheckpoint(proof, tlog) = IF parsed # Ok THEN parsed ELSE FirstError(<<d, e, f>>)
  BY DEF VerifyCheckpoint
<1>3. verified <=> signed
  BY DEF Candidates, VerifyDer
<1>4. signed => note.signatures # <<>>
  OBVIOUS
<1>5. /\ a \in {Ok, "Checkpoint"} /\ (a = Ok <=> note.parses)
      /\ c \in {Ok, "Checkpoint"} /\ (c = Ok <=> note.linesParse /\ note.signatures # <<>>)
  BY DEF Check, Ok
<1>6. /\ b \in {Ok, "TooManyCheckpointSignatures"}
      /\ b = Ok <=> Len(note.signatures) <= MaxCheckpointSignatures
      /\ d \in {Ok, "CheckpointTreeSizeMismatch"} /\ (d = Ok <=> note.treeSize = proof.treeSize)
      /\ e \in {Ok, "CheckpointRootHashMismatch"} /\ (e = Ok <=> note.rootHash = proof.rootHash)
  BY DEF Check, Ok
<1>7. f \in {Ok, "CheckpointSignatureInvalid"} /\ (f = Ok <=> verified)
  BY DEF Check, Ok
<1>8. HeadSigned(proof, tlog) <=>
        /\ note.parses /\ note.linesParse
        /\ Len(note.signatures) <= MaxCheckpointSignatures
        /\ note.treeSize = proof.treeSize /\ note.rootHash = proof.rootHash
        /\ signed
  BY DEF HeadSigned
<1> HIDE DEF a, b, c, d, e, f, parsed, signed, verified
<1>9. parsed = Ok <=> a = Ok /\ b = Ok /\ c = Ok
  BY <1>1, FirstError3
<1>10. FirstError(<<d, e, f>>) = Ok <=> d = Ok /\ e = Ok /\ f = Ok
  BY FirstError3
<1>11. VerifyCheckpoint(proof, tlog) = Ok <=> HeadSigned(proof, tlog)
  BY <1>2, <1>3, <1>4, <1>5, <1>6, <1>7, <1>8, <1>9, <1>10
<1>12. parsed \in {Ok} \union CheckpointErrors
  BY <1>1, <1>5, <1>6, FirstError3 DEF CheckpointErrors
<1>13. FirstError(<<d, e, f>>) \in {Ok} \union CheckpointErrors
  BY <1>6, <1>7, FirstError3 DEF CheckpointErrors
<1>14. QED
  BY <1>2, <1>11, <1>12, <1>13

\* check_time_window.
LEMMA TimeWindowMeans ==
    ASSUME NEW t, NEW window, NEW notBefore, NEW notAfter
    PROVE  /\ CheckTimeWindow(t, window, notBefore, notAfter) = Ok <=>
                /\ t <= I64Max /\ WithinValidFor(t, window)
                /\ notBefore <= t /\ t <= notAfter
           /\ CheckTimeWindow(t, window, notBefore, notAfter) \in
                {Ok, "IntegratedTimeOutsideLogKeyValidity", "IntegratedTimeOutsideCertificateValidity"}
<1> DEFINE a == Check(t <= I64Max /\ WithinValidFor(t, window), "IntegratedTimeOutsideLogKeyValidity")
           b == Check(notBefore <= t /\ t <= notAfter, "IntegratedTimeOutsideCertificateValidity")
<1>1. CheckTimeWindow(t, window, notBefore, notAfter) = FirstError(<<a, b>>)
  BY DEF CheckTimeWindow
<1>2. /\ a \in {Ok, "IntegratedTimeOutsideLogKeyValidity"}
      /\ a = Ok <=> t <= I64Max /\ WithinValidFor(t, window)
  BY DEF Check, Ok
<1>3. /\ b \in {Ok, "IntegratedTimeOutsideCertificateValidity"}
      /\ b = Ok <=> notBefore <= t /\ t <= notAfter
  BY DEF Check, Ok
<1> HIDE DEF a, b
<1>4. QED
  BY <1>1, <1>2, <1>3, FirstError2

-----------------------------------------------------------------------------
(***************************************************************************)
(* The errors of the certificate checks.                                   *)
(***************************************************************************)
ExtensionErrors == {"DuplicateExtension", "InvalidDer"}

LEMMA FindExtensionErrors ==
    ASSUME NEW tbs, NEW oid
    PROVE  FindExtensionDecoded(tbs, oid) \in {Ok} \union ExtensionErrors
<1> DEFINE a == FindExtension(tbs, oid)
           b == Check(\A i \in DOMAIN Occurrences(tbs, oid) : Occurrences(tbs, oid)[i].decodes, "InvalidDer")
<1>1. FindExtensionDecoded(tbs, oid) = FirstError(<<a, b>>)
  BY DEF FindExtensionDecoded
<1>2. a \in {Ok, "DuplicateExtension"} /\ b \in {Ok, "InvalidDer"}
  BY DEF FindExtension, Check, Ok
<1> HIDE DEF a, b
<1>3. QED
  BY <1>1, <1>2, FirstError2 DEF ExtensionErrors

ProfileErrors ==
    {"UnknownCriticalExtension", "InvalidBasicConstraints", "MissingKeyUsage", "MissingCodeSigningEku",
     "PathLengthExceeded"} \union ExtensionErrors

LEMMA LeafProfileErrors ==
    ASSUME NEW tbs
    PROVE  VerifyLeafProfile(tbs) \in {Ok} \union ProfileErrors
<1> DEFINE a == Check(CriticalExtensions(tbs) \subseteq KnownLeafExtensions, "UnknownCriticalExtension")
           b == FindExtensionDecoded(tbs, "basicConstraints")
           c == Check(\A bc \in ExtensionValue(tbs, "basicConstraints") : ~bc.ca, "InvalidBasicConstraints")
           d == FindExtensionDecoded(tbs, "keyUsage")
           e == Check(\E ku \in ExtensionValue(tbs, "keyUsage") : "digitalSignature" \in ku, "MissingKeyUsage")
           f == FindExtensionDecoded(tbs, "extKeyUsage")
           g == Check(\E eku \in ExtensionValue(tbs, "extKeyUsage") : "codeSigning" \in eku,
                      "MissingCodeSigningEku")
           s == <<a, b, c, d, e, f, g>>
<1>1. VerifyLeafProfile(tbs) = FirstError(s)
  BY DEF VerifyLeafProfile
<1>2. /\ a \in ProfileErrors \union {Ok} /\ c \in ProfileErrors \union {Ok}
      /\ e \in ProfileErrors \union {Ok} /\ g \in ProfileErrors \union {Ok}
  BY DEF Check, ProfileErrors
<1>3. b \in ProfileErrors \union {Ok} /\ d \in ProfileErrors \union {Ok} /\ f \in ProfileErrors \union {Ok}
  BY FindExtensionErrors DEF ProfileErrors
<1> HIDE DEF a, b, c, d, e, f, g
<1>4. DOMAIN s \subseteq Nat /\ \A i \in DOMAIN s : s[i] \in ProfileErrors \union {Ok}
  BY <1>2, <1>3
<1> HIDE DEF s
<1>5. QED
  BY <1>1, <1>4, FirstErrorRange

LEMMA CaProfileErrors ==
    ASSUME NEW tbs, NEW count
    PROVE  VerifyCaProfile(tbs, count) \in {Ok} \union ProfileErrors
<1> DEFINE a == Check(CriticalExtensions(tbs) \subseteq KnownCaCriticalExtensions, "UnknownCriticalExtension")
           b == FindExtensionDecoded(tbs, "basicConstraints")
           c == Check(\E bc \in ExtensionValue(tbs, "basicConstraints") : bc.ca, "InvalidBasicConstraints")
           d == Check(\A bc \in ExtensionValue(tbs, "basicConstraints") :
                         \A max \in bc.pathLen : count <= max, "PathLengthExceeded")
           e == FindExtensionDecoded(tbs, "keyUsage")
           f == Check(\E ku \in ExtensionValue(tbs, "keyUsage") : "keyCertSign" \in ku, "MissingKeyUsage")
           s == <<a, b, c, d, e, f>>
<1>1. VerifyCaProfile(tbs, count) = FirstError(s)
  BY DEF VerifyCaProfile
<1>2. /\ a \in ProfileErrors \union {Ok} /\ c \in ProfileErrors \union {Ok}
      /\ d \in ProfileErrors \union {Ok} /\ f \in ProfileErrors \union {Ok}
  BY DEF Check, ProfileErrors
<1>3. b \in ProfileErrors \union {Ok} /\ e \in ProfileErrors \union {Ok}
  BY FindExtensionErrors DEF ProfileErrors
<1> HIDE DEF a, b, c, d, e, f
<1>4. DOMAIN s \subseteq Nat /\ \A i \in DOMAIN s : s[i] \in ProfileErrors \union {Ok}
  BY <1>2, <1>3
<1> HIDE DEF s
<1>5. QED
  BY <1>1, <1>4, FirstErrorRange

LinkErrors ==
    {"IssuerNameMismatch", "OutsideCertificateValidity", "UnsupportedKeyAlgorithm",
     "UnsupportedSignatureAlgorithm", "SignatureInvalid"} \union ProfileErrors

\* A link of the path that is in order carries the issuer's signature.
LEMMA VerifyLinkMeans ==
    ASSUME NEW signee, NEW issuer, NEW i, NEW t
    PROVE  /\ VerifyLink(signee, issuer, i, t) = Ok =>
                signee.sig = Signature(issuer.tbs.key, signee.tbs)
           /\ VerifyLink(signee, issuer, i, t) \in {Ok} \union LinkErrors
<1> DEFINE key == issuer.tbs.key
           expected == IF key.alg = "P256" THEN "ecdsaWithSha256" ELSE "ecdsaWithSha384"
           x == FromSpkiDer(key)
           y == Check(signee.sigAlg = expected, "UnsupportedSignatureAlgorithm")
           z == Check(VerifyDer(key, signee.tbs, signee.sig), "SignatureInvalid")
           a == Check(issuer.tbs.subject = signee.tbs.issuer, "IssuerNameMismatch")
           b == VerifyTimeWindow(issuer.tbs, t)
           c == VerifyCaProfile(issuer.tbs, i - 1)
           d == VerifySignature(signee, issuer)
<1>1. /\ VerifyLink(signee, issuer, i, t) = FirstError(<<a, b, c, d>>)
      /\ d = FirstError(<<x, y, z>>)
  BY DEF VerifyLink, VerifySignature
<1>2. /\ x \in {Ok, "UnsupportedKeyAlgorithm"} /\ y \in {Ok, "UnsupportedSignatureAlgorithm"}
      /\ z \in {Ok, "SignatureInvalid"} /\ (z = Ok <=> signee.sig = Signature(key, signee.tbs))
  BY DEF FromSpkiDer, Check, Ok, VerifyDer
<1>3. /\ a \in {Ok, "IssuerNameMismatch"} /\ b \in {Ok, "OutsideCertificateValidity"}
      /\ c \in {Ok} \union ProfileErrors
  BY CaProfileErrors DEF Check, Ok, VerifyTimeWindow
<1> HIDE DEF a, b, c, d, x, y, z
<1>4. d \in {Ok, x, y, z} /\ (d = Ok => z = Ok)
  BY <1>1, FirstError3
<1>5. FirstError(<<a, b, c, d>>) \in {Ok, a, b, c, d} /\ (FirstError(<<a, b, c, d>>) = Ok => d = Ok)
  BY FirstError4
<1>6. {a, b, c, d, x, y, z} \subseteq {Ok} \union LinkErrors
  BY <1>2, <1>3, <1>4 DEF LinkErrors
<1>7. QED
  BY <1>1, <1>2, <1>4, <1>5, <1>6

ChainErrors == {"OutsideCaValidity"} \union LinkErrors

\* An authority that validates the leaf has signed it with its first certificate's key.
LEMMA ChainMeans ==
    ASSUME NEW leaf, NEW authority, IsSequence(authority.certificates), NEW t
    PROVE  /\ TryValidateAgainstCa(leaf, authority, t) = Ok =>
                /\ 1 \in DOMAIN authority.certificates
                /\ leaf.sig = Signature(authority.certificates[1].tbs.key, leaf.tbs)
           /\ TryValidateAgainstCa(leaf, authority, t) \in {Ok, "None"} \union ChainErrors
<1> DEFINE chain == authority.certificates
           undecoded == \E i \in DOMAIN chain : ~chain[i].decodes
           links == [i \in DOMAIN chain |->
                       VerifyLink(IF i = 1 THEN leaf ELSE chain[i - 1], chain[i], i, t)]
           a == Check(WithinValidFor(t, authority.validFor), "OutsideCaValidity")
           b == VerifyTimeWindow(leaf.tbs, t)
           c == VerifyLeafProfile(leaf.tbs)
           d == VerifyPath(leaf, chain, t)
           checks == FirstError(<<a, b, c, d>>)
<1>1. TryValidateAgainstCa(leaf, authority, t) =
        IF undecoded THEN "InvalidDer"
        ELSE IF chain = <<>> THEN "None"
        ELSE IF chain[1].tbs.subject # leaf.tbs.issuer THEN "None"
        ELSE checks
  BY DEF TryValidateAgainstCa
<1>2. d = FirstError(links)
  BY DEF VerifyPath
<1>3. DOMAIN chain = 1..Len(chain) /\ Len(chain) \in Nat /\ (chain # <<>> => 1 \in DOMAIN chain)
  BY DEF IsSequence
<1>4. DOMAIN links \subseteq Nat /\ DOMAIN links = DOMAIN chain
  BY <1>3
<1>5. \A i \in DOMAIN links : links[i] \in LinkErrors \union {Ok}
  BY VerifyLinkMeans
<1>6. 1 \in DOMAIN chain => links[1] = VerifyLink(leaf, chain[1], 1, t)
  OBVIOUS
<1>7. a \in {Ok, "OutsideCaValidity"} /\ b \in {Ok, "OutsideCertificateValidity"}
  BY DEF Check, Ok, VerifyTimeWindow
<1>8. c \in {Ok} \union ProfileErrors
  BY LeafProfileErrors
<1> HIDE DEF links, a, b, c, d, checks, undecoded, chain
<1>9. d \in LinkErrors \union {Ok}
  BY <1>2, <1>4, <1>5, FirstErrorRange
<1>10. d = Ok /\ 1 \in DOMAIN chain => VerifyLink(leaf, chain[1], 1, t) = Ok
  BY <1>2, <1>4, <1>6, FirstErrorIff
<1>11. checks \in {Ok, a, b, c, d} /\ (checks = Ok => d = Ok)
  BY FirstError4 DEF checks
<1>12. checks \in {Ok} \union ChainErrors
  BY <1>7, <1>8, <1>9, <1>11 DEF ChainErrors, LinkErrors
<1>13. TryValidateAgainstCa(leaf, authority, t) \in {Ok, "None"} \union ChainErrors
  BY <1>1, <1>12 DEF ChainErrors, LinkErrors, ProfileErrors, ExtensionErrors
<1>14. ASSUME TryValidateAgainstCa(leaf, authority, t) = Ok
       PROVE  /\ 1 \in DOMAIN chain
              /\ leaf.sig = Signature(chain[1].tbs.key, leaf.tbs)
  <2>1. chain # <<>> /\ checks = Ok
    BY <1>1, <1>14 DEF Ok
  <2>2. 1 \in DOMAIN chain /\ VerifyLink(leaf, chain[1], 1, t) = Ok
    BY <1>3, <1>10, <1>11, <2>1
  <2>3. QED
    BY <2>2, VerifyLinkMeans
<1>15. QED
  BY <1>13, <1>14 DEF chain

SctErrors == {"UnknownCtLog", "SctOutsideKeyValidity", "SctInvalid", "UnsupportedKeyAlgorithm"}

LEMMA OneSctErrors ==
    ASSUME NEW stamp, NEW tbs, NEW issuerKey, NEW ctlogs
    PROVE  VerifyOneSct(stamp, tbs, issuerKey, ctlogs) \in {Ok} \union SctErrors
<1> DEFINE i == SelectedCtLog(ctlogs, stamp.logId)
           message == DigitallySignedBytes(stamp.timestampMs, Sha256(issuerKey), PrecertTbs(tbs),
                                           stamp.extensions)
           a == Check(SctWithinValidFor(stamp.timestampMs, ctlogs[i].validFor), "SctOutsideKeyValidity")
           b == Check(stamp.supported, "SctInvalid")
           c == FromSpkiDer(ctlogs[i].key)
           d == Check(VerifyDer(ctlogs[i].key, message, stamp.signature), "SctInvalid")
<1>1. VerifyOneSct(stamp, tbs, issuerKey, ctlogs) =
        IF i = 0 THEN "UnknownCtLog" ELSE FirstError(<<a, b, c, d>>)
  BY DEF VerifyOneSct
<1>2. /\ a \in {Ok} \union SctErrors /\ b \in {Ok} \union SctErrors
      /\ c \in {Ok} \union SctErrors /\ d \in {Ok} \union SctErrors
  BY DEF Check, FromSpkiDer, SctErrors
<1> HIDE DEF a, b, c, d, i
<1>3. FirstError(<<a, b, c, d>>) \in {Ok} \union SctErrors
  BY <1>2, FirstError4
<1>4. QED
  BY <1>1, <1>3 DEF SctErrors

\* extract_sct_list: one that succeeds has found a list with an SCT.
LEMMA SctListMeans ==
    ASSUME NEW certificate, CertificateShape(certificate)
    PROVE  /\ ExtractSctList(certificate.tbs) = Ok =>
                IsSequence(SctList(certificate.tbs)) /\ SctList(certificate.tbs) # <<>>
           /\ ExtractSctList(certificate.tbs) \in {Ok, "SctMissing", "SctInvalid"} \union ExtensionErrors
<1> DEFINE tbs == certificate.tbs
           found == Occurrences(tbs, "sctList")
           a == FindExtension(tbs, "sctList")
           b == Check(found # <<>>, "SctMissing")
           c == FindExtensionDecoded(tbs, "sctList")
           d == Check(\A list \in ExtensionValue(tbs, "sctList") : list.parses, "SctInvalid")
           e == Check(\A list \in ExtensionValue(tbs, "sctList") : list.scts # <<>>, "SctMissing")
           errors == {Ok, "SctMissing", "SctInvalid"} \union ExtensionErrors
<1>1. ExtractSctList(tbs) = FirstError(<<a, b, c, d, e>>)
  BY DEF ExtractSctList
<1>2. /\ a \in errors /\ b \in errors /\ d \in errors /\ e \in errors
      /\ b = Ok <=> found # <<>>
  BY DEF FindExtension, Check, Ok, ExtensionErrors
<1>3. c \in errors
  BY FindExtensionErrors
<1>4. IsSequence(found) /\ \A i \in DOMAIN found : IsSequence(found[i].value.scts)
  BY DEF CertificateShape
<1>5. SctList(tbs) = found[1].value.scts
  BY DEF SctList
<1>s. b = Ok /\ c = Ok /\ e = Ok => SctList(tbs) # <<>>
  BY DEF SctList, ExtensionValue, Check, Ok
<1> HIDE DEF a, b, c, d, e, found
<1>6. /\ FirstError(<<a, b, c, d, e>>) \in {Ok, a, b, c, d, e}
      /\ FirstError(<<a, b, c, d, e>>) = Ok => b = Ok /\ c = Ok /\ e = Ok
  BY FirstError5
<1>7. found # <<>> => 1 \in DOMAIN found
  BY <1>4 DEF IsSequence
<1>8. ExtractSctList(tbs) \in errors
  <2> HIDE DEF errors
  <2>1. Ok \in errors
    BY DEF errors
  <2>2. QED
    BY <1>1, <1>2, <1>3, <1>6, <2>1
<1>9. ExtractSctList(tbs) = Ok => IsSequence(SctList(tbs)) /\ SctList(tbs) # <<>>
  BY <1>1, <1>2, <1>4, <1>5, <1>s, <1>6, <1>7
<1>10. QED
  BY <1>8, <1>9

\* extract_claims.
LEMMA ClaimsErrors ==
    ASSUME NEW tbs
    PROVE  ExtractClaims(tbs) \in ExtensionErrors \union {Ok}
<1> DEFINE s == [i \in DOMAIN ClaimOids |-> FindExtensionDecoded(tbs, ClaimOids[i])]
<1>1. DOMAIN s \subseteq Nat
  BY DEF ClaimOids
<1>2. \A i \in DOMAIN s : s[i] \in ExtensionErrors \union {Ok}
  BY FindExtensionErrors
<1>3. ExtractClaims(tbs) = FirstError(s)
  BY DEF ExtractClaims
<1> HIDE DEF s
<1>4. QED
  BY <1>1, <1>2, <1>3, FirstErrorRange

LEMMA PinnedIdErrors ==
    ASSUME NEW pinned, NEW claim, NEW mismatch, mismatch \in PolicyErrors
    PROVE  CheckPinnedId(pinned, claim, mismatch) \in PolicyErrors \union {Ok}
<1> DEFINE a == Check(pinned # {} => claim # {}, "MissingIdentityClaim")
           b == Check(\A id \in pinned : \A found \in claim : found = DecimalText(id), mismatch)
<1>1. CheckPinnedId(pinned, claim, mismatch) = FirstError(<<a, b>>)
  BY DEF CheckPinnedId
<1>2. a \in PolicyErrors \union {Ok} /\ b \in PolicyErrors \union {Ok}
  BY DEF Check, PolicyErrors
<1> HIDE DEF a, b
<1>3. QED
  BY <1>1, <1>2, FirstError2

\* match_policy: every error is about a claim.
LEMMA SourceErrors ==
    ASSUME NEW tbs, NEW source
    PROVE  MatchSource(tbs, source) \in PolicyErrors \union {Ok}
<1> DEFINE uri == Claim(tbs, "sourceRepositoryUri")
           ref == Claim(tbs, "sourceRepositoryRef")
           digest == Claim(tbs, "sourceRepositoryDigest")
           owner == CheckPinnedId(source.repository.ownerId, Claim(tbs, "sourceRepositoryOwnerId"),
                                  "SourceOwnerIdMismatch")
           id == CheckPinnedId(source.repository.repositoryId, Claim(tbs, "sourceRepositoryId"),
                               "SourceRepositoryIdMismatch")
           a == RequireClaim(uri)
           b == Check(\A u \in uri : u.parses, "MalformedIdentityClaim")
           c == Check(\A u \in uri : CheckRepositoryMatch(u, source.repository), "SourceRepositoryMismatch")
           d == RequireClaim(ref)
           e == Check(\A r \in ref : CheckRefPolicy(r, source.gitRef), "SourceRefMismatch")
           f == Check(source.commit # {} => digest # {}, "MissingIdentityClaim")
           g == Check(\A x \in source.commit : \A y \in digest : EqIgnoreAsciiCase(x, y),
                      "SourceCommitMismatch")
           s == <<a, b, c, owner, id, d, e, f, g>>
<1>1. MatchSource(tbs, source) = FirstError(s)
  BY DEF MatchSource
<1>2. /\ a \in PolicyErrors \union {Ok} /\ d \in PolicyErrors \union {Ok}
      /\ f \in PolicyErrors \union {Ok} /\ g \in PolicyErrors \union {Ok}
  BY DEF RequireClaim, Check, PolicyErrors
<1>3. b \in PolicyErrors \union {Ok} /\ c \in PolicyErrors \union {Ok} /\ e \in PolicyErrors \union {Ok}
  BY DEF Check, PolicyErrors
<1>4. "SourceOwnerIdMismatch" \in PolicyErrors /\ "SourceRepositoryIdMismatch" \in PolicyErrors
  BY DEF PolicyErrors
<1>5. owner \in PolicyErrors \union {Ok} /\ id \in PolicyErrors \union {Ok}
  BY <1>4, PinnedIdErrors
<1> HIDE DEF a, b, c, d, e, f, g, owner, id
<1>6. DOMAIN s \subseteq Nat /\ \A i \in DOMAIN s : s[i] \in PolicyErrors \union {Ok}
  BY <1>2, <1>3, <1>5
<1> HIDE DEF s
<1>7. QED
  BY <1>1, <1>6, FirstErrorRange

LEMMA SignerErrors ==
    ASSUME NEW tbs, NEW signer
    PROVE  MatchSigner(tbs, signer) \in PolicyErrors \union {Ok}
<1> DEFINE san == SanUri(tbs)
           a == RequireClaim(san)
           b == Check(\A x \in san : x.parses, "MalformedIdentityClaim")
           c == Check(\A x \in san : CheckRepositoryMatch(x, signer.repository), "SignerRepositoryMismatch")
           d == Check(\A x \in san : x.path = signer.path, "SignerWorkflowPathMismatch")
<1>1. MatchSigner(tbs, signer) = FirstError(<<a, b, c, d>>)
  BY DEF MatchSigner
<1>2. /\ a \in PolicyErrors \union {Ok} /\ b \in PolicyErrors \union {Ok}
      /\ c \in PolicyErrors \union {Ok} /\ d \in PolicyErrors \union {Ok}
  BY DEF RequireClaim, Check, PolicyErrors
<1> HIDE DEF a, b, c, d
<1>3. QED
  BY <1>1, <1>2, FirstError4

LEMMA RevisionErrors ==
    ASSUME NEW tbs, NEW signer, signer.revision.type \in {"any", "ref", "sha"}
    PROVE  SignerRevision(tbs, signer) \in PolicyErrors \union {Ok}
<1> DEFINE policy == signer.revision
           san == CHOOSE s \in SanUri(tbs) : TRUE
           digest == Claim(tbs, "buildSignerDigest")
           a == RequireClaim(digest)
           b == Check(\A found \in digest : EqIgnoreAsciiCase(found, policy.sha), "SignerRevisionMismatch")
<1>1. SignerRevision(tbs, signer) = CheckSignerRevision(tbs, san, policy)
  BY DEF SignerRevision
<1>2. a \in PolicyErrors \union {Ok} /\ b \in PolicyErrors \union {Ok}
  BY DEF RequireClaim, Check, PolicyErrors
<1>3. CheckSignerRevision(tbs, san, policy) =
        CASE policy.type = "any" -> Ok
          [] policy.type = "ref" -> IF san.gitRef = policy.ref THEN Ok ELSE "SignerRevisionMismatch"
          [] OTHER -> FirstError(<<a, b>>)
  BY DEF CheckSignerRevision
<1> HIDE DEF a, b, san
<1>4. FirstError(<<a, b>>) \in PolicyErrors \union {Ok}
  BY <1>2, FirstError2
<1>5. "SignerRevisionMismatch" \in PolicyErrors
  BY DEF PolicyErrors
<1>6. QED
  BY <1>1, <1>3, <1>4, <1>5

LEMMA MatchPolicyErrors ==
    ASSUME NEW tbs, NEW policy, PolicyShape(policy)
    PROVE  MatchPolicy(tbs, policy) \in PolicyErrors \union {Ok}
<1>1. /\ MatchSource(tbs, policy.source) \in PolicyErrors \union {Ok}
      /\ MatchSigner(tbs, policy.signer) \in PolicyErrors \union {Ok}
      /\ SignerRevision(tbs, policy.signer) \in PolicyErrors \union {Ok}
  BY SourceErrors, SignerErrors, RevisionErrors DEF PolicyShape
<1>2. "MissingIdentityClaim" \in PolicyErrors /\ "IssuerMismatch" \in PolicyErrors
  BY DEF PolicyErrors
<1>3. QED
  BY <1>1, <1>2 DEF MatchPolicy

-----------------------------------------------------------------------------
(***************************************************************************)
(* The part of authenticity that each check establishes.  Nothing is said  *)
(* of the leaf's key: its algorithm is established with the leaf.          *)
(***************************************************************************)
Established(place) ==
    LET payload == Envelope.payload
        t == Entry.integratedTime
    IN
    /\ place = "payloadType" => Envelope.payloadType = SupportedPayloadType
    /\ place = "statement" =>
          /\ payload.parses = "yes"
          /\ payload.type = StatementType
          /\ Len(payload.subjects) <= MaxStatementSubjects
    /\ place = "predicateType" => payload.predicateType = SupportedPredicateType
    /\ place = "subject" => \E i \in DOMAIN payload.subjects : payload.subjects[i].sha256 = {call.subject}
    /\ place = "tlogEntries" => Len(call.bundle.tlogEntries) = 1
    /\ place = "body" => Entry.body.parses = "yes" /\ Entry.body.kind = SupportedKind
    /\ place = "binding" => Entry.kind = SupportedKind /\ Entry.body = CanonicalBody(Envelope, Leaf)
    /\ place = "logKey" =>
          /\ log \in DOMAIN verifier.trustStore.tlogs
          /\ \A tlog : TrustedLog(verifier.trustStore.tlogs, Entry, tlog) <=> tlog = Tlog
          /\ Tlog.key.alg \in {"P256", "P384"}
    /\ place = "set" => Promised(Entry, Tlog.key)
    /\ place = "inclusionProof" => Entry.inclusionProof = {Proof}
    /\ place = "inclusion" => InTree(Proof, Entry.body)
    /\ place = "checkpoint" => HeadSigned(Proof, Tlog)
    /\ place = "origin" => OriginAllowed(Proof.checkpoint, Tlog, verifier.originPolicy)
    /\ place = "leafInfo" => Leaf.decodes /\ Leaf.tbs.key.alg \in {"P256", "P384"}
    /\ place = "timeWindow" =>
          /\ t <= I64Max /\ WithinValidFor(t, Tlog.validFor)
          /\ Leaf.tbs.notBefore <= t /\ t <= Leaf.tbs.notAfter
    /\ place = "chain" => ca \in DOMAIN Cas /\ TryValidateAgainstCa(Leaf, Cas[ca], t) = Ok
    /\ place = "envelope" => Envelope.sig = Signature(Leaf.tbs.key, Pae(Envelope))
    /\ place = "sctList" => ExtractSctList(Leaf.tbs) = Ok
    /\ place = "scts" =>
          \E j \in DOMAIN SctList(Leaf.tbs) :
              VerifyOneSct(SctList(Leaf.tbs)[j], Leaf.tbs, Cas[ca].certificates[1].tbs.key,
                           verifier.trustStore.ctlogs) = Ok
    /\ place = "claims" => ExtractClaims(Leaf.tbs) = Ok

\* The checks in the order of the code.
Rank ==
    [payloadType |-> 1, statement |-> 2, predicateType |-> 3, subject |-> 4, tlogEntries |-> 5, body |-> 6,
     binding |-> 7, logKey |-> 8, set |-> 9, inclusionProof |-> 10, inclusion |-> 11, checkpoint |-> 12,
     origin |-> 13, leafInfo |-> 14, timeWindow |-> 15, chain |-> 16, leafKey |-> 17, envelope |-> 18,
     sctList |-> 19, scts |-> 20, claims |-> 21, policy |-> 22, done |-> 23]

\* Every check that has been passed established its part.
History == \A place \in DOMAIN Rank : pc # "done" /\ Rank[place] < Rank[pc] => Established(place)

(***************************************************************************)
(* What the loops have behind them: authorities and SCTs that failed, with *)
(* errors of their own.  Before a loop its cursor is on the first.         *)
(***************************************************************************)
LoopInv ==
    /\ caError \subseteq ChainErrors
    /\ sctError \subseteq SctErrors
    /\ pc # "done" /\ Rank[pc] < Rank["chain"] => ca = 1
    /\ pc # "done" /\ Rank[pc] < Rank["scts"] => sct = 1
    /\ pc = "chain" => time = {Entry.integratedTime}
    /\ pc = "chain" => \A i \in 1..(ca - 1) : TryValidateAgainstCa(Leaf, Cas[i], Entry.integratedTime) # Ok
    /\ pc = "scts" =>
          \A j \in 1..(sct - 1) :
              VerifyOneSct(SctList(Leaf.tbs)[j], Leaf.tbs, Cas[ca].certificates[1].tbs.key,
                           verifier.trustStore.ctlogs) # Ok

\* A call that has returned has an answer.
Answered == pc = "done" => result # "Pending"

CInv == IInv /\ History /\ LoopInv /\ Answered /\ OnlyAuthenticatedValuesAreBlamed

-----------------------------------------------------------------------------
(***************************************************************************)
(* Authenticity is what the checks establish, no less: every part of it    *)
(* follows, those that speak of the log once the log is the trusted one    *)
(* the entry names.                                                        *)
(***************************************************************************)
LEMMA AuthenticNeeds ==
    ASSUME verifier \in Verifiers, call \in Calls, Authentic(verifier, call)
    PROVE  /\ \A place \in {"payloadType", "statement", "predicateType", "subject", "tlogEntries", "body",
                            "binding", "inclusionProof", "inclusion", "leafInfo", "leafKey", "envelope",
                            "sctList", "claims"} : Established(place)
           /\ Established("logKey") =>
                \A place \in {"set", "checkpoint", "origin", "timeWindow"} : Established(place)
<1>1. /\ Envelope.payloadType = SupportedPayloadType
      /\ Attests(Envelope.payload, call.subject)
      /\ Len(call.bundle.tlogEntries) = 1
      /\ Entry.kind = SupportedKind
      /\ Entry.body = CanonicalBody(Envelope, Leaf)
      /\ Leaf.decodes /\ Leaf.tbs.key.alg \in {"P256", "P384"}
      /\ Leaf.tbs.notBefore <= Entry.integratedTime /\ Entry.integratedTime <= Leaf.tbs.notAfter
      /\ Issued(Leaf, verifier.trustStore, Entry.integratedTime)
      /\ Envelope.sig = Signature(Leaf.tbs.key, Pae(Envelope))
      /\ ExtractClaims(Leaf.tbs) = Ok
  BY DEF Authentic, Envelope, Entry, Leaf, Pae, SupportedPayloadType
<1>2. PICK i \in DOMAIN verifier.trustStore.tlogs :
        LET tlog == verifier.trustStore.tlogs[i] IN
        /\ TrustedLog(verifier.trustStore.tlogs, Entry, tlog)
        /\ Promised(Entry, tlog.key)
        /\ Included(Entry, tlog, verifier.originPolicy)
        /\ Entry.integratedTime <= I64Max /\ WithinValidFor(Entry.integratedTime, tlog.validFor)
  BY DEF Authentic, Entry
<1> DEFINE tlog == verifier.trustStore.tlogs[i]
<1>3. PICK proof \in Entry.inclusionProof :
        /\ InTree(proof, Entry.body)
        /\ HeadSigned(proof, tlog)
        /\ OriginAllowed(proof.checkpoint, tlog, verifier.originPolicy)
  BY <1>2 DEF Included
<1>4. Entry.inclusionProof = {proof} /\ Proof = proof
  <2>1. \A x, y \in Entry.inclusionProof : x = y
    BY <1>1, Shapes DEF EntryShape, IsOption
  <2>2. QED
    BY <1>3, <2>1 DEF Proof
<1>5. Entry.body.parses = "yes" /\ Entry.body.kind = SupportedKind
  BY <1>1 DEF CanonicalBody
<1>6. ExtractSctList(Leaf.tbs) = Ok
  BY <1>1 DEF Issued
<1>7. \A place \in {"payloadType", "statement", "predicateType", "subject", "tlogEntries", "body",
                    "binding", "inclusionProof", "inclusion", "leafInfo", "leafKey", "envelope",
                    "sctList", "claims"} : Established(place)
  BY <1>1, <1>3, <1>4, <1>5, <1>6 DEF Established, Attests
<1>8. ASSUME Established("logKey")
      PROVE  \A place \in {"set", "checkpoint", "origin", "timeWindow"} : Established(place)
  <2>1. tlog = Tlog
    <3>1. \A x : TrustedLog(verifier.trustStore.tlogs, Entry, x) <=> x = Tlog
      BY <1>8 DEF Established
    <3>2. QED
      BY <1>2, <3>1
  <2> HIDE DEF tlog
  <2>2. /\ Promised(Entry, Tlog.key)
        /\ Entry.integratedTime <= I64Max /\ WithinValidFor(Entry.integratedTime, Tlog.validFor)
    BY <1>2, <2>1 DEF tlog
  <2>3. HeadSigned(Proof, Tlog) /\ OriginAllowed(Proof.checkpoint, Tlog, verifier.originPolicy)
    BY <1>3, <1>4, <2>1, SMTT(30)
  <2>4. QED
    BY <1>1, <2>2, <2>3 DEF Established
<1>9. QED
  BY <1>7, <1>8

(***************************************************************************)
(* And no more: the checks together, with the policy, make it.             *)
(***************************************************************************)
LEMMA EstablishedSuffices ==
    ASSUME verifier \in Verifiers, call \in Calls,
           \A place \in DOMAIN Rank \ {"policy", "done"} : Established(place),
           MatchPolicy(Leaf.tbs, verifier.githubPolicy) = Ok
    PROVE  Authentic(verifier, call)
<1> USE DEF Rank
<1>1. /\ Envelope.payloadType = SupportedPayloadType
      /\ Len(call.bundle.tlogEntries) = 1
      /\ Entry.kind = SupportedKind
      /\ Entry.body = CanonicalBody(Envelope, Leaf)
  BY DEF Established
<1>2. Attests(Envelope.payload, call.subject)
  BY DEF Established, Attests
<1>3. /\ log \in DOMAIN verifier.trustStore.tlogs
      /\ TrustedLog(verifier.trustStore.tlogs, Entry, Tlog)
      /\ Tlog.key.alg \in {"P256", "P384"}
      /\ Promised(Entry, Tlog.key)
  <2>1. /\ log \in DOMAIN verifier.trustStore.tlogs
        /\ \A x : TrustedLog(verifier.trustStore.tlogs, Entry, x) <=> x = Tlog
        /\ Tlog.key.alg \in {"P256", "P384"}
        /\ Promised(Entry, Tlog.key)
    BY DEF Established
  <2>2. QED
    BY <2>1
<1>4. Included(Entry, Tlog, verifier.originPolicy)
  <2>1. /\ Proof \in Entry.inclusionProof
        /\ InTree(Proof, Entry.body)
        /\ HeadSigned(Proof, Tlog)
        /\ OriginAllowed(Proof.checkpoint, Tlog, verifier.originPolicy)
    BY DEF Established
  <2>2. QED
    BY <2>1 DEF Included
<1>5. /\ Leaf.decodes /\ Leaf.tbs.key.alg \in {"P256", "P384"}
      /\ Entry.integratedTime <= I64Max /\ WithinValidFor(Entry.integratedTime, Tlog.validFor)
      /\ Leaf.tbs.notBefore <= Entry.integratedTime /\ Entry.integratedTime <= Leaf.tbs.notAfter
  BY DEF Established
<1>6. Issued(Leaf, verifier.trustStore, Entry.integratedTime)
  <2>1. /\ ca \in DOMAIN Cas
        /\ TryValidateAgainstCa(Leaf, Cas[ca], Entry.integratedTime) = Ok
        /\ ExtractSctList(Leaf.tbs) = Ok
    BY DEF Established
  <2>2. \E j \in DOMAIN SctList(Leaf.tbs) :
           VerifyOneSct(SctList(Leaf.tbs)[j], Leaf.tbs, Cas[ca].certificates[1].tbs.key,
                        verifier.trustStore.ctlogs) = Ok
    BY DEF Established
  <2>3. QED
    BY <2>1, <2>2 DEF Issued, Cas
<1>7. Envelope.sig = Signature(Leaf.tbs.key, Pae(Envelope)) /\ ExtractClaims(Leaf.tbs) = Ok
  BY DEF Established
<1>8. QED
  BY <1>1, <1>2, <1>3, <1>4, <1>5, <1>6, <1>7
     DEF Authentic, Envelope, Entry, Leaf, Tlog, Pae, SupportedPayloadType

(***************************************************************************)
(* What is established stays so while the call goes on: it depends on the  *)
(* call, the selected log and the authority, and on nothing else.          *)
(***************************************************************************)
LEMMA StillEstablished ==
    ASSUME NEW place, Established(place), UNCHANGED <<verifier, call>>,
           \/ UNCHANGED <<log, ca>>
           \/ UNCHANGED log /\ place \notin {"chain", "scts"}
           \/ place \in {"payloadType", "statement", "predicateType", "subject", "tlogEntries", "body",
                         "binding"}
    PROVE  Established(place)'
<1>1. UNCHANGED <<Envelope, Leaf, Entry, Proof, Cas>>
  BY DEF Envelope, Leaf, Entry, Proof, Cas
<1>2. CASE UNCHANGED <<log, ca>>
  <2>1. UNCHANGED Tlog
    BY <1>2 DEF Tlog
  <2>2. QED
    BY <1>1, <1>2, <2>1 DEF Established, Pae
<1>3. CASE UNCHANGED log /\ place \notin {"chain", "scts"}
  <2>1. UNCHANGED Tlog
    BY <1>3 DEF Tlog
  <2>2. QED
    BY <1>1, <1>3, <2>1 DEF Established, Pae
<1>4. CASE place \in {"payloadType", "statement", "predicateType", "subject", "tlogEntries", "body",
                      "binding"}
  BY <1>1, <1>4 DEF Established
<1>5. QED
  BY <1>2, <1>3, <1>4

-----------------------------------------------------------------------------
(***************************************************************************)
(* Steps.  Refined is what a step does to the contract's state.            *)
(***************************************************************************)
Refined == [Contract!Next]_(Contract!vars)

Blamed ==
    {"CheckpointOriginMismatch", "IntegratedTimeOutsideLogKeyValidity",
     "IntegratedTimeOutsideCertificateValidity", "OutsideCaValidity", "OutsideCertificateValidity"}
        \union PolicyErrors

\* A step within a call is none of the contract's.
LEMMA GoOn ==
    ASSUME CInv, IInv', pc # "done", pc' # "done", UNCHANGED <<verifier, call>>, History', LoopInv'
    PROVE  CInv' /\ Refined
<1>1. result = "Pending" /\ result' = "Pending"
  BY DEF CInv, IInv, TypeOK
<1>2. Answered'
  BY DEF Answered
<1>3. OnlyAuthenticatedValuesAreBlamed'
  BY <1>1 DEF OnlyAuthenticatedValuesAreBlamed, OriginBlamed, TimeBlamed, IdentityBlamed, PolicyErrors
<1>4. Refined
  BY <1>1 DEF Refined, Contract!vars, Ok
<1>5. QED
  BY <1>2, <1>3, <1>4 DEF CInv

\* Returning an error rejects the call.
LEMMA Rejected ==
    ASSUME CInv, IInv', pc # "done", pc' = "done", UNCHANGED <<verifier, call, caError, sctError>>,
           result' \notin {Ok, "Pending"}, ~Authentic(verifier, call),
           OnlyAuthenticatedValuesAreBlamed'
    PROVE  CInv' /\ Refined
<1>1. result = "Pending"
  BY DEF CInv, IInv, TypeOK
<1>2. Contract!Reject
  BY <1>1 DEF Contract!Reject, Contract!Ok, Ok
<1>3. (History /\ LoopInv)'
  BY DEF CInv, LoopInv, History
<1>4. Answered'
  BY DEF Answered
<1>5. QED
  BY <1>2, <1>3, <1>4 DEF CInv, Refined, Contract!Next

LEMMA NotBlamed ==
    ASSUME result' \notin Blamed
    PROVE  OnlyAuthenticatedValuesAreBlamed'
  BY DEF Blamed, OnlyAuthenticatedValuesAreBlamed, OriginBlamed, TimeBlamed, IdentityBlamed

\* A check passed adds its part to the history.
LEMMA HistoryGrows ==
    ASSUME History, pc \in DOMAIN Rank \ {"done"}, pc' \in DOMAIN Rank \ {"done"}, Rank[pc'] = Rank[pc] + 1,
           UNCHANGED <<verifier, call, log, ca>>, Established(pc)
    PROVE  History'
<1> SUFFICES ASSUME NEW place \in DOMAIN Rank, Rank[place] < Rank[pc']
             PROVE  Established(place)'
  BY DEF History, Rank
<1>1. Rank[place] \in Nat /\ Rank[pc] \in Nat
  BY DEF Rank
<1>2. Rank[place] < Rank[pc] \/ Rank[place] = Rank[pc]
  BY <1>1
<1>3. Rank[place] = Rank[pc] => place = pc
  BY DEF Rank
<1>4. Established(place)
  BY <1>2, <1>3 DEF History
<1>5. QED
  BY <1>4, StillEstablished

(***************************************************************************)
(* A check that only reads is a step of the contract if it succeeds        *)
(* exactly when its part of authenticity is there.                         *)
(***************************************************************************)
LEMMA StageCInv ==
    ASSUME CInv, IInv', NEW here, NEW outcome, NEW next, Stage(here, outcome, next),
           here \in DOMAIN Rank \ {"done", "chain", "timeWindow", "logKey", "scts", "policy"},
           next \in DOMAIN Rank \ {"done"}, Rank[next] = Rank[here] + 1,
           outcome = Ok <=> Established(here),
           outcome # "Pending",
           outcome # Ok /\ result' = outcome => OnlyAuthenticatedValuesAreBlamed'
    PROVE  CInv' /\ Refined
<1>1. /\ pc = here /\ pc # "done"
      /\ UNCHANGED <<verifier, call, log, time, ca, caError, sct, sctError>>
      /\ \/ outcome = Ok /\ pc' = next /\ UNCHANGED result
         \/ outcome # Ok /\ pc' = "done" /\ result' = outcome
  BY DEF Stage, Try, Return, locals
<1>2. CASE outcome = Ok
  <2>1. pc' = next
    BY <1>1, <1>2
  <2>2. History'
    BY <1>1, <1>2, <2>1, HistoryGrows DEF CInv
  <2>3. LoopInv'
    <3>1. /\ caError \subseteq ChainErrors
          /\ sctError \subseteq SctErrors
          /\ Rank[here] < Rank["chain"] => ca = 1
          /\ Rank[here] < Rank["scts"] => sct = 1
      BY <1>1 DEF CInv, LoopInv
    <3>2. /\ Rank[next] < Rank["chain"] => Rank[here] < Rank["chain"]
          /\ Rank[next] < Rank["scts"] => Rank[here] < Rank["scts"]
          /\ next # "chain"
          /\ next = "scts" => Rank[here] < Rank["scts"]
      BY DEF Rank
    <3>3. QED
      BY <1>1, <2>1, <3>1, <3>2 DEF LoopInv
  <2>4. QED
    BY <1>1, <2>1, <2>2, <2>3, GoOn
<1>3. CASE outcome # Ok
  <2>1. ~Authentic(verifier, call)
    <3>1. verifier \in Verifiers /\ call \in Calls
      BY DEF CInv, IInv, TypeOK
    <3>2. here \in {"set", "checkpoint", "origin"} => Established("logKey")
      <4>1. here \in {"set", "checkpoint", "origin"} => Rank["logKey"] < Rank[here]
        BY DEF Rank
      <4>2. "logKey" \in DOMAIN Rank
        BY DEF Rank
      <4>3. QED
        BY <1>1, <4>1, <4>2 DEF CInv, History
    <3>3. here \in {"payloadType", "statement", "predicateType", "subject", "tlogEntries", "body",
                    "binding", "inclusionProof", "inclusion", "leafInfo", "leafKey", "envelope",
                    "sctList", "claims", "set", "checkpoint", "origin"}
      BY DEF Rank
    <3>4. QED
      BY <1>3, <3>1, <3>2, <3>3, AuthenticNeeds
  <2>2. QED
    BY <1>1, <1>3, <2>1, Rejected
<1>4. QED
  BY <1>2, <1>3

\* What the checks before the present one established.
LEMMA Past ==
    ASSUME CInv, NEW here \in DOMAIN Rank \ {"done"}, pc = here
    PROVE  \A place \in DOMAIN Rank : Rank[place] < Rank[here] => Established(place)
  BY DEF CInv, History

\* The checks of the statement and the entry.
LEMMA EntryStages ==
    ASSUME CInv, IInv',
           \/ CheckPayloadType \/ ParseStatement \/ CheckPredicateType \/ BindSubject
           \/ RequireOneTlogEntry \/ ParseBody \/ BindEntry
    PROVE  CInv' /\ Refined
<1>a. /\ PayloadShape(Envelope.payload)
      /\ pc \in AfterCount => EntryShape(Entry)
  BY Shapes DEF CInv, IInv, TypeOK, CountInv
<1>1. CASE CheckPayloadType
  <2> DEFINE outcome == IF Envelope.payloadType = SupportedPayloadType THEN Ok ELSE "DssePayloadType"
  <2>1. Stage("payloadType", outcome, "statement")
    BY <1>1 DEF CheckPayloadType
  <2>2. outcome \in {Ok, "DssePayloadType"} /\ (outcome = Ok <=> Established("payloadType"))
    BY DEF Established, Ok
  <2> HIDE DEF outcome
  <2>3. outcome # "Pending" /\ outcome \notin Blamed
    BY <2>2 DEF Blamed, PolicyErrors, Ok
  <2>4. "payloadType" \in DOMAIN Rank /\ "statement" \in DOMAIN Rank /\ Rank["statement"] = Rank["payloadType"] + 1
    BY DEF Rank
  <2>5. QED
    BY <2>1, <2>2, <2>3, <2>4, StageCInv, NotBlamed
<1>2. CASE ParseStatement
  <2> DEFINE outcome == FromPayload(Envelope.payload)
  <2>1. Stage("statement", outcome, "predicateType")
    BY <1>2 DEF ParseStatement
  <2>2. /\ outcome \in {Ok, "StatementType", "TooManySubjects"} \union PayloadErrors
        /\ outcome = Ok <=> Established("statement")
    BY <1>a, FromPayloadMeans DEF Established
  <2> HIDE DEF outcome
  <2>3. outcome # "Pending" /\ outcome \notin Blamed
    BY <2>2 DEF Blamed, PolicyErrors, PayloadErrors, Ok
  <2>4. "statement" \in DOMAIN Rank /\ "predicateType" \in DOMAIN Rank /\ Rank["predicateType"] = Rank["statement"] + 1
    BY DEF Rank
  <2>5. QED
    BY <2>1, <2>2, <2>3, <2>4, StageCInv, NotBlamed
<1>3. CASE CheckPredicateType
  <2> DEFINE outcome == IF Envelope.payload.predicateType = SupportedPredicateType THEN Ok ELSE "PredicateType"
  <2>1. Stage("predicateType", outcome, "subject")
    BY <1>3 DEF CheckPredicateType
  <2>2. outcome \in {Ok, "PredicateType"} /\ (outcome = Ok <=> Established("predicateType"))
    BY DEF Established, Ok
  <2> HIDE DEF outcome
  <2>3. outcome # "Pending" /\ outcome \notin Blamed
    BY <2>2 DEF Blamed, PolicyErrors, Ok
  <2>4. "predicateType" \in DOMAIN Rank /\ "subject" \in DOMAIN Rank /\ Rank["subject"] = Rank["predicateType"] + 1
    BY DEF Rank
  <2>5. QED
    BY <2>1, <2>2, <2>3, <2>4, StageCInv, NotBlamed
<1>4. CASE BindSubject
  <2> DEFINE outcome == IF FindSubject(Envelope.payload, call.subject) # 0 THEN Ok ELSE "SubjectNotFound"
  <2>1. Stage("subject", outcome, "tlogEntries")
    BY <1>4 DEF BindSubject
  <2>2. outcome \in {Ok, "SubjectNotFound"} /\ (outcome = Ok <=> Established("subject"))
    BY <1>a, FindSubjectMeans DEF Established, Ok
  <2> HIDE DEF outcome
  <2>3. outcome # "Pending" /\ outcome \notin Blamed
    BY <2>2 DEF Blamed, PolicyErrors, Ok
  <2>4. "subject" \in DOMAIN Rank /\ "tlogEntries" \in DOMAIN Rank /\ Rank["tlogEntries"] = Rank["subject"] + 1
    BY DEF Rank
  <2>5. QED
    BY <2>1, <2>2, <2>3, <2>4, StageCInv, NotBlamed
<1>5. CASE RequireOneTlogEntry
  <2> DEFINE n == Len(call.bundle.tlogEntries)
             outcome == FirstError(<< Check(n # 0, "NoTlogEntries"), Check(n = 1, "MultipleTlogEntries") >>)
  <2>1. Stage("tlogEntries", outcome, "body")
    BY <1>5 DEF RequireOneTlogEntry
  <2>2. outcome \in {Ok, "NoTlogEntries", "MultipleTlogEntries"} /\ (outcome = Ok <=> n = 1)
    BY OneEntryMeans
  <2> HIDE DEF outcome
  <2>3. outcome # "Pending" /\ outcome \notin Blamed
    BY <2>2 DEF Blamed, PolicyErrors, Ok
  <2>4. "tlogEntries" \in DOMAIN Rank /\ "body" \in DOMAIN Rank /\ Rank["body"] = Rank["tlogEntries"] + 1
    BY DEF Rank
  <2>5. outcome = Ok <=> Established("tlogEntries")
    BY <2>2 DEF Established
  <2>6. QED
    BY <2>1, <2>3, <2>4, <2>5, StageCInv, NotBlamed
<1>6. CASE ParseBody
  <2> DEFINE outcome == ParseTlogEntryBody(Entry.body)
  <2>1. Stage("body", outcome, "binding")
    BY <1>6 DEF ParseBody
  <2>2. BodyShape(Entry.body)
    BY <1>a, <2>1 DEF Stage, AfterCount, EntryShape
  <2>3. /\ outcome \in {Ok, "TlogEntryKindVersion"} \union BodyErrors
        /\ outcome = Ok <=> Established("body")
    BY <2>2, ParseBodyMeans DEF Established
  <2> HIDE DEF outcome
  <2>4. outcome # "Pending" /\ outcome \notin Blamed
    BY <2>3 DEF Blamed, PolicyErrors, BodyErrors, Ok
  <2>5. "body" \in DOMAIN Rank /\ "binding" \in DOMAIN Rank /\ Rank["binding"] = Rank["body"] + 1
    BY DEF Rank
  <2>6. QED
    BY <2>1, <2>3, <2>4, <2>5, StageCInv, NotBlamed
<1>7. CASE BindEntry
  <2> DEFINE outcome == CheckEntryBinding(Entry, Envelope, Leaf)
  <2>1. Stage("binding", outcome, "logKey")
    BY <1>7 DEF BindEntry
  <2>2. BodyShape(Entry.body)
    BY <1>a, <2>1 DEF Stage, AfterCount, EntryShape
  <2>3. "binding" \in DOMAIN Rank /\ "logKey" \in DOMAIN Rank /\ Rank["logKey"] = Rank["binding"] + 1
    BY DEF Rank
  <2>4. Established("body")
    <3>1. "body" \in DOMAIN Rank /\ Rank["body"] < Rank["binding"]
      BY DEF Rank
    <3>2. QED
      BY <2>1, <2>3, <3>1, Past DEF Stage
  <2>5. Entry.body.parses = "yes" /\ Entry.body.kind = SupportedKind
    BY <2>4 DEF Established
  <2>6. /\ outcome \in {Ok} \union BindingErrors
        /\ outcome = Ok <=> Established("binding")
    BY <2>2, <2>5, EntryBindingMeans DEF Established
  <2> HIDE DEF outcome
  <2>7. outcome # "Pending" /\ outcome \notin Blamed
    BY <2>6 DEF Blamed, PolicyErrors, BindingErrors, Ok
  <2>8. QED
    BY <2>1, <2>3, <2>6, <2>7, StageCInv, NotBlamed
<1>8. QED
  BY <1>1, <1>2, <1>3, <1>4, <1>5, <1>6, <1>7

\* A refused origin is that of a note the selected key signed.
LEMMA OriginBlameIsFair ==
    ASSUME HeadSigned(Proof, Tlog), UNCHANGED <<verifier, call, log>>,
           result' = "CheckpointOriginMismatch"
    PROVE  OnlyAuthenticatedValuesAreBlamed'
<1>1. \E i \in DOMAIN Proof.checkpoint.signatures :
         Proof.checkpoint.signatures[i].signature = Signature(Tlog.key, NoteBody(Proof.checkpoint))
  BY DEF HeadSigned
<1>2. Proof' = Proof /\ Tlog' = Tlog
  BY DEF Proof, Entry, Tlog
<1>3. OriginBlamed'
  BY <1>1, <1>2 DEF OriginBlamed
<1>4. TimeBlamed' /\ IdentityBlamed'
  BY DEF TimeBlamed, IdentityBlamed, PolicyErrors
<1>5. QED
  BY <1>3, <1>4 DEF OnlyAuthenticatedValuesAreBlamed

\* A refused time is one the selected log promised.
LEMMA TimeBlameIsFair ==
    ASSUME log # 0, Promise \in Entry.promise, UNCHANGED <<verifier, call, log>>,
           result' \notin PolicyErrors, result' # "CheckpointOriginMismatch"
    PROVE  OnlyAuthenticatedValuesAreBlamed'
<1>1. TimeBlamed'
  BY DEF TimeBlamed, Promise, Tlog, Entry
<1>2. OriginBlamed' /\ IdentityBlamed'
  BY DEF OriginBlamed, IdentityBlamed
<1>3. QED
  BY <1>1, <1>2 DEF OnlyAuthenticatedValuesAreBlamed

\* The selection of the log, which the parts that follow speak of.
LEMMA SelectLogStep ==
    ASSUME CInv, IInv', SelectLog
    PROVE  CInv' /\ Refined
<1> DEFINE tlogs == verifier.trustStore.tlogs
           chosen == SelectedLog(tlogs, Entry.logId)
           outcome == SelectLogKey(tlogs, Entry.logId)
<1>1. /\ pc = "logKey" /\ UNCHANGED <<verifier, call, time, ca, caError, sct, sctError>>
      /\ \/ outcome = Ok /\ pc' = "set" /\ UNCHANGED result /\ log' = chosen
         \/ outcome # Ok /\ pc' = "done" /\ result' = outcome /\ log' = log
  BY DEF SelectLog, Try, Return
<1>2. verifier \in Verifiers /\ call \in Calls /\ IsSequence(tlogs) /\ DOMAIN tlogs = 1..Len(tlogs)
  BY StoreLengths DEF CInv, IInv, TypeOK, IsSequence
<1>3. /\ chosen \in 0..Len(tlogs)
      /\ \A tlog : TrustedLog(tlogs, Entry, tlog) <=> chosen # 0 /\ tlog = tlogs[chosen]
  BY <1>2, SelectedLogFound, SelectedLogMeans
<1>4. /\ outcome = Ok <=> chosen # 0 /\ tlogs[chosen].key.alg \in {"P256", "P384"}
      /\ outcome \in {Ok, "UnknownLogKey", "UnsupportedKeyAlgorithm"}
  BY DEF SelectLogKey, FromSpkiDer, Ok
<1> HIDE DEF outcome, chosen
<1>5. CASE outcome = Ok
  <2>1. log' = chosen /\ Tlog' = tlogs[chosen] /\ Entry' = Entry
    BY <1>1, <1>5 DEF Tlog, Entry
  <2>2. Established("logKey")'
    <3>1. chosen # 0 /\ tlogs[chosen].key.alg \in {"P256", "P384"} /\ chosen \in DOMAIN tlogs
      BY <1>2, <1>3, <1>4, <1>5
    <3>2. \A tlog : TrustedLog(tlogs, Entry, tlog) <=> tlog = tlogs[chosen]
      BY <1>3, <3>1
    <3>3. QED
      BY <1>1, <2>1, <3>1, <3>2 DEF Established
  <2>3. History'
    <3> SUFFICES ASSUME NEW place \in DOMAIN Rank, Rank[place] < Rank["set"]
                 PROVE  Established(place)'
      BY <1>1, <1>5 DEF History
    <3>1. CASE place = "logKey"
      BY <2>2, <3>1
    <3>2. CASE place # "logKey"
      <4>1. /\ place \in {"payloadType", "statement", "predicateType", "subject", "tlogEntries", "body",
                          "binding"}
            /\ Rank[place] < Rank["logKey"]
        BY <3>2 DEF Rank
      <4>2. Established(place)
        BY <1>1, <4>1 DEF CInv, History
      <4>3. QED
        BY <1>1, <4>1, <4>2, StillEstablished
    <3>3. QED
      BY <3>1, <3>2
  <2>4. LoopInv'
    BY <1>1, <1>5 DEF CInv, LoopInv, Rank
  <2>5. QED
    BY <1>1, <1>5, <2>3, <2>4, GoOn
<1>6. CASE outcome # Ok
  <2>1. ~Authentic(verifier, call)
    <3> SUFFICES ASSUME Authentic(verifier, call) PROVE FALSE
      OBVIOUS
    <3>1. PICK i \in DOMAIN tlogs : TrustedLog(tlogs, Entry, tlogs[i]) /\ tlogs[i].key.alg \in {"P256", "P384"}
      BY DEF Authentic, Entry
    <3>2. chosen # 0 /\ tlogs[i] = tlogs[chosen]
      BY <1>3, <3>1
    <3>3. QED
      BY <1>4, <1>6, <3>1, <3>2
  <2>2. result' = outcome /\ pc' = "done"
    BY <1>1, <1>6
  <2>3. outcome # "Pending" /\ outcome \notin Blamed
    BY <1>4 DEF Blamed, PolicyErrors, Ok
  <2>4. OnlyAuthenticatedValuesAreBlamed'
    BY <2>2, <2>3, NotBlamed
  <2>5. QED
    BY <1>1, <1>6, <2>1, <2>2, <2>3, <2>4, Rejected
<1>7. QED
  BY <1>5, <1>6

\* The log's promise, the proof and the note, and the leaf's key.
LEMMA LogStages ==
    ASSUME CInv, IInv',
           \/ CheckSet \/ RequireInclusionProof \/ CheckInclusion \/ CheckCheckpoint
           \/ CheckCheckpointOrigin \/ ReadLeafInfo
    PROVE  CInv' /\ Refined
<1>a. pc \in AfterCount => EntryShape(Entry)
  BY Shapes DEF CInv, IInv, TypeOK, CountInv
<1>b. pc \in AfterCount => \A x, y \in Entry.inclusionProof : x = y
  BY <1>a DEF EntryShape, IsOption
<1>1. CASE CheckSet
  <2> DEFINE outcome == VerifySet(Entry, Tlog.key)
  <2>1. Stage("set", outcome, "inclusionProof")
    BY <1>1 DEF CheckSet
  <2>2. EntryShape(Entry)
    BY <1>a, <2>1 DEF Stage, AfterCount, AfterLogKey
  <2>3. outcome \in {Ok, "SetMissing", "SetInvalid"} /\ (outcome = Ok <=> Established("set"))
    BY <2>2, VerifySetMeans DEF Established
  <2> HIDE DEF outcome
  <2>4. outcome # "Pending" /\ outcome \notin Blamed
    BY <2>3 DEF Blamed, PolicyErrors, Ok
  <2>5. "set" \in DOMAIN Rank /\ "inclusionProof" \in DOMAIN Rank /\ Rank["inclusionProof"] = Rank["set"] + 1
    BY DEF Rank
  <2>6. QED
    BY <2>1, <2>3, <2>4, <2>5, StageCInv, NotBlamed
<1>2. CASE RequireInclusionProof
  <2> DEFINE outcome == IF Entry.inclusionProof = {} THEN "InclusionProofMissing" ELSE Ok
  <2>1. Stage("inclusionProof", outcome, "inclusion")
    BY <1>2 DEF RequireInclusionProof
  <2>2. \A x, y \in Entry.inclusionProof : x = y
    BY <1>b, <2>1 DEF Stage, AfterCount, AfterLogKey, AfterSet
  <2>3. Entry.inclusionProof # {} <=> Entry.inclusionProof = {Proof}
    BY <2>2 DEF Proof
  <2>4. outcome \in {Ok, "InclusionProofMissing"} /\ (outcome = Ok <=> Established("inclusionProof"))
    BY <2>3 DEF Established, Ok
  <2> HIDE DEF outcome
  <2>5. outcome # "Pending" /\ outcome \notin Blamed
    BY <2>4 DEF Blamed, PolicyErrors, Ok
  <2>6. "inclusionProof" \in DOMAIN Rank /\ "inclusion" \in DOMAIN Rank /\ Rank["inclusion"] = Rank["inclusionProof"] + 1
    BY DEF Rank
  <2>7. QED
    BY <2>1, <2>4, <2>5, <2>6, StageCInv, NotBlamed
<1>3. CASE CheckInclusion
  <2> DEFINE outcome == VerifyInclusionProof(Entry.body, Proof)
  <2>1. Stage("inclusion", outcome, "checkpoint")
    BY <1>3 DEF CheckInclusion
  <2>2. /\ "inclusion" \in DOMAIN Rank /\ "checkpoint" \in DOMAIN Rank /\ Rank["checkpoint"] = Rank["inclusion"] + 1
        /\ "inclusionProof" \in DOMAIN Rank /\ Rank["inclusionProof"] < Rank["inclusion"]
    BY DEF Rank
  <2>3. Entry.inclusionProof = {Proof}
    <3>1. Established("inclusionProof")
      BY <2>1, <2>2, Past DEF Stage
    <3>2. QED
      BY <3>1 DEF Established
  <2>4. ProofShape(Proof)
    <3>1. EntryShape(Entry)
      BY <1>a, <2>1 DEF Stage, AfterCount, AfterLogKey, AfterSet
    <3>2. QED
      BY <2>3, <3>1 DEF EntryShape
  <2>5. outcome \in {Ok, "InclusionProofInvalid"} /\ (outcome = Ok <=> Established("inclusion"))
    BY <2>4, InclusionMeans DEF Established
  <2> HIDE DEF outcome
  <2>6. outcome # "Pending" /\ outcome \notin Blamed
    BY <2>5 DEF Blamed, PolicyErrors, Ok
  <2>7. QED
    BY <2>1, <2>2, <2>5, <2>6, StageCInv, NotBlamed
<1>4. CASE CheckCheckpoint
  <2> DEFINE outcome == VerifyCheckpoint(Proof, Tlog)
  <2>1. Stage("checkpoint", outcome, "origin")
    BY <1>4 DEF CheckCheckpoint
  <2>2. outcome \in {Ok} \union CheckpointErrors /\ (outcome = Ok <=> Established("checkpoint"))
    BY CheckpointMeans DEF Established
  <2> HIDE DEF outcome
  <2>3. outcome # "Pending" /\ outcome \notin Blamed
    BY <2>2 DEF Blamed, PolicyErrors, CheckpointErrors, Ok
  <2>4. "checkpoint" \in DOMAIN Rank /\ "origin" \in DOMAIN Rank /\ Rank["origin"] = Rank["checkpoint"] + 1
    BY DEF Rank
  <2>5. QED
    BY <2>1, <2>2, <2>3, <2>4, StageCInv, NotBlamed
<1>5. CASE CheckCheckpointOrigin
  <2> DEFINE outcome == CheckOrigin(verifier.originPolicy, Sha256(Tlog.key), Proof.checkpoint.origin)
  <2>1. Stage("origin", outcome, "leafInfo")
    BY <1>5 DEF CheckCheckpointOrigin
  <2>2. outcome \in {Ok, "CheckpointOriginMismatch"} /\ (outcome = Ok <=> Established("origin"))
    BY DEF Established, CheckOrigin, Allows, OriginAllowed, Ok
  <2>3. /\ "origin" \in DOMAIN Rank /\ "leafInfo" \in DOMAIN Rank /\ Rank["leafInfo"] = Rank["origin"] + 1
        /\ "checkpoint" \in DOMAIN Rank /\ Rank["checkpoint"] < Rank["origin"]
    BY DEF Rank
  <2>4. HeadSigned(Proof, Tlog)
    <3>1. Established("checkpoint")
      BY <2>1, <2>3, Past DEF Stage
    <3>2. QED
      BY <3>1 DEF Established
  <2> HIDE DEF outcome
  <2>5. outcome # Ok /\ result' = outcome => OnlyAuthenticatedValuesAreBlamed'
    BY <2>1, <2>2, <2>4, OriginBlameIsFair DEF Stage, locals
  <2>6. outcome # "Pending"
    BY <2>2 DEF Ok
  <2>7. QED
    BY <2>1, <2>2, <2>3, <2>5, <2>6, StageCInv
<1>6. CASE ReadLeafInfo
  <2> DEFINE outcome == LeafCertificateInfo(Leaf)
  <2>1. Stage("leafInfo", outcome, "timeWindow")
    BY <1>6 DEF ReadLeafInfo
  <2>2. /\ outcome \in {Ok, "InvalidDer", "UnsupportedKeyAlgorithm"}
        /\ outcome = Ok <=> Established("leafInfo")
    BY DEF Established, LeafCertificateInfo, FromSpkiDer, Ok
  <2> HIDE DEF outcome
  <2>3. outcome # "Pending" /\ outcome \notin Blamed
    BY <2>2 DEF Blamed, PolicyErrors, Ok
  <2>4. "leafInfo" \in DOMAIN Rank /\ "timeWindow" \in DOMAIN Rank /\ Rank["timeWindow"] = Rank["leafInfo"] + 1
    BY DEF Rank
  <2>5. QED
    BY <2>1, <2>2, <2>3, <2>4, StageCInv, NotBlamed
<1>7. QED
  BY <1>1, <1>2, <1>3, <1>4, <1>5, <1>6

\* The last check of the entry.
LEMMA AuthenticateTimeStep ==
    ASSUME CInv, IInv', AuthenticateTime
    PROVE  CInv' /\ Refined
<1> DEFINE outcome == CheckTimeWindow(Entry.integratedTime, Tlog.validFor,
                                      Leaf.tbs.notBefore, Leaf.tbs.notAfter)
<1>1. /\ pc = "timeWindow" /\ UNCHANGED <<verifier, call, log, ca, caError, sct, sctError>>
      /\ \/ outcome = Ok /\ pc' = "chain" /\ UNCHANGED result
         \/ outcome # Ok /\ pc' = "done" /\ result' = outcome
  BY DEF AuthenticateTime, Try, Return
<1>2. /\ outcome = Ok <=> Established("timeWindow")
      /\ outcome \in {Ok, "IntegratedTimeOutsideLogKeyValidity", "IntegratedTimeOutsideCertificateValidity"}
  BY TimeWindowMeans DEF Established
<1> HIDE DEF outcome
<1>3. "timeWindow" \in DOMAIN Rank /\ "chain" \in DOMAIN Rank /\ Rank["chain"] = Rank["timeWindow"] + 1
  BY DEF Rank
<1>4. CASE outcome = Ok
  <2>1. History'
    BY <1>1, <1>2, <1>3, <1>4, HistoryGrows DEF CInv
  <2>2. ca = 1 /\ sct = 1
    BY <1>1 DEF CInv, LoopInv, Rank
  <2>3. time' = {Entry.integratedTime}'
    BY <1>4 DEF AuthenticateTime, Try, IInv, TimeInv, outcome
  <2>4. LoopInv'
    BY <1>1, <1>4, <2>2, <2>3 DEF CInv, LoopInv, Rank
  <2>5. QED
    BY <1>1, <1>4, <2>1, <2>4, GoOn
<1>5. CASE outcome # Ok
  <2>1. ~Authentic(verifier, call)
    <3>1. verifier \in Verifiers /\ call \in Calls
      BY DEF CInv, IInv, TypeOK
    <3>2. Established("logKey")
      BY <1>1 DEF CInv, History, Rank
    <3>3. QED
      BY <1>2, <1>5, <3>1, <3>2, AuthenticNeeds
  <2>2. result' = outcome /\ pc' = "done"
    BY <1>1, <1>5
  <2>3. OnlyAuthenticatedValuesAreBlamed'
    <3>1. log # 0 /\ Promise \in Entry.promise
      BY <1>1 DEF CInv, IInv, LogInv, PromiseInv, AfterLogKey, AfterSet
    <3>2. result' \notin PolicyErrors /\ result' # "CheckpointOriginMismatch"
      BY <1>2, <1>5, <2>2 DEF PolicyErrors, Ok
    <3>3. QED
      BY <1>1, <3>1, <3>2, TimeBlameIsFair
  <2>4. outcome # "Pending"
    BY <1>2 DEF Ok
  <2>5. QED
    BY <1>1, <1>5, <2>1, <2>2, <2>3, <2>4, Rejected
<1>6. QED
  BY <1>4, <1>5

\* In the loops, the time is the entry's and the lists are sequences.
LEMMA InLoops ==
    ASSUME CInv, pc \in {"chain", "scts"}
    PROVE  /\ Len(Cas) \in Nat /\ DOMAIN Cas = 1..Len(Cas) /\ ca \in 1..(Len(Cas) + 1) /\ sct \in Nat \ {0}
           /\ \A i \in DOMAIN Cas : IsSequence(Cas[i].certificates)
           /\ log # 0 /\ Promise \in Entry.promise
           /\ pc = "chain" => AuthenticatedTime = Entry.integratedTime
<1>1. TypeOK /\ verifier \in Verifiers /\ call \in Calls
  BY DEF CInv, IInv, TypeOK
<1>2. \A i \in DOMAIN Cas : IsSequence(Cas[i].certificates)
  BY <1>1, Shapes DEF StoreShape, Cas
<1>3. log # 0 /\ Promise \in Entry.promise
  BY DEF CInv, IInv, LogInv, PromiseInv, AfterLogKey, AfterSet, AfterTimeWindow
<1>4. pc = "chain" => AuthenticatedTime = Entry.integratedTime
  BY DEF CInv, LoopInv, AuthenticatedTime
<1>5. QED
  BY <1>1, <1>2, <1>3, <1>4, StoreLengths DEF TypeOK

\* validate_chain: one authority after the other, until one validates the leaf.
LEMMA TryCaStep ==
    ASSUME CInv, IInv', TryCa
    PROVE  CInv' /\ Refined
<1> DEFINE t == Entry.integratedTime
           outcome == TryValidateAgainstCa(Leaf, Cas[ca], t)
<1>1. pc = "chain"
  BY DEF TryCa
<1>2. /\ Len(Cas) \in Nat /\ DOMAIN Cas = 1..Len(Cas) /\ ca \in 1..(Len(Cas) + 1)
      /\ \A i \in DOMAIN Cas : IsSequence(Cas[i].certificates)
      /\ AuthenticatedTime = t
  BY <1>1, InLoops
<1>3. /\ ca <= Len(Cas)
      /\ UNCHANGED <<verifier, call, log, time, sct, sctError, result>>
      /\ \/ outcome = Ok /\ pc' = "leafKey" /\ UNCHANGED <<ca, caError>>
         \/ outcome = "None" /\ ca' = ca + 1 /\ UNCHANGED <<pc, caError>>
         \/ outcome \notin {Ok, "None"} /\ ca' = ca + 1 /\ caError' = KeepFirst(caError, outcome) /\ UNCHANGED pc
  BY <1>2 DEF TryCa
<1>4. ca \in DOMAIN Cas
  BY <1>2, <1>3
<1>5. outcome \in {Ok, "None"} \union ChainErrors
  BY <1>2, <1>4, ChainMeans
<1> HIDE DEF outcome
<1>6. CASE outcome = Ok
  <2>1. pc' = "leafKey" /\ UNCHANGED <<ca, caError>>
    BY <1>3, <1>6 DEF Ok
  <2>2. Established("chain")
    BY <1>4, <1>6 DEF Established, outcome
  <2>3. "chain" \in DOMAIN Rank /\ "leafKey" \in DOMAIN Rank /\ Rank["leafKey"] = Rank["chain"] + 1
    BY DEF Rank
  <2>4. History'
    BY <1>1, <1>3, <2>1, <2>2, <2>3, HistoryGrows DEF CInv
  <2>5. LoopInv'
    BY <1>1, <1>3, <2>1 DEF CInv, LoopInv, Rank
  <2>6. QED
    BY <1>1, <1>3, <2>1, <2>4, <2>5, GoOn
<1>7. CASE outcome # Ok
  <2>1. /\ ca' = ca + 1 /\ UNCHANGED pc
        /\ \/ caError' = caError
           \/ caError' = KeepFirst(caError, outcome) /\ outcome \in ChainErrors
    BY <1>3, <1>5, <1>7
  <2>2. caError' \subseteq ChainErrors
    BY <2>1 DEF CInv, LoopInv, KeepFirst
  <2>3. History'
    <3> SUFFICES ASSUME NEW place \in DOMAIN Rank, Rank[place] < Rank["chain"]
                 PROVE  Established(place)'
      BY <1>1, <2>1 DEF History
    <3>1. place \notin {"chain", "scts"}
      BY DEF Rank
    <3>2. Established(place)
      BY <1>1 DEF CInv, History
    <3>3. QED
      BY <1>3, <3>1, <3>2, StillEstablished
  <2>4. (\A i \in 1..(ca - 1) : TryValidateAgainstCa(Leaf, Cas[i], Entry.integratedTime) # Ok)'
    <3>1. \A i \in 1..(ca - 1) : TryValidateAgainstCa(Leaf, Cas[i], t) # Ok
      BY <1>1 DEF CInv, LoopInv
    <3>2. TryValidateAgainstCa(Leaf, Cas[ca], t) # Ok
      BY <1>7 DEF outcome
    <3>3. \A i \in 1..(ca' - 1) : i = ca \/ i \in 1..(ca - 1)
      BY <1>2, <2>1
    <3>4. \A i \in 1..(ca' - 1) : TryValidateAgainstCa(Leaf, Cas[i], t) # Ok
      BY <3>1, <3>2, <3>3
    <3>5. Leaf' = Leaf /\ Cas' = Cas /\ Entry' = Entry
      BY <1>3 DEF Leaf, Cas, Entry
    <3>6. QED
      BY <3>4, <3>5
  <2>5. sct = 1 /\ sctError \subseteq SctErrors /\ time = {Entry.integratedTime}
    BY <1>1 DEF CInv, LoopInv, Rank
  <2>6. LoopInv'
    <3>1. (pc = "chain" => time = {Entry.integratedTime})'
      BY <1>3, <2>5 DEF Entry
    <3>2. sct' = 1 /\ sctError' \subseteq SctErrors /\ pc' = "chain"
      BY <1>1, <1>3, <2>1, <2>5
    <3>3. QED
      BY <2>2, <2>4, <3>1, <3>2 DEF LoopInv, Rank
  <2>7. QED
    BY <1>1, <1>3, <2>1, <2>3, <2>6, GoOn
<1>8. QED
  BY <1>6, <1>7

LEMMA NoCaLeftStep ==
    ASSUME CInv, IInv', NoCaLeft
    PROVE  CInv' /\ Refined
<1>1. /\ pc = "chain" /\ ca > Len(Cas) /\ pc' = "done"
      /\ result' = IF caError = {} THEN "UntrustedCertificate" ELSE CHOOSE e \in caError : TRUE
      /\ UNCHANGED <<verifier, call, log, time, ca, caError, sct, sctError>>
  BY DEF NoCaLeft, Return, locals
<1>2. /\ Len(Cas) \in Nat /\ DOMAIN Cas = 1..Len(Cas) /\ ca \in 1..(Len(Cas) + 1)
      /\ log # 0 /\ Promise \in Entry.promise
  BY <1>1, InLoops
<1>3. result' \in {"UntrustedCertificate"} \union ChainErrors
  <2>1. caError \subseteq ChainErrors
    BY DEF CInv, LoopInv
  <2>2. CASE caError = {}
    BY <1>1, <2>2
  <2>3. CASE caError # {}
    <3>1. (CHOOSE e \in caError : TRUE) \in caError
      BY <2>3
    <3>2. QED
      BY <1>1, <2>1, <2>3, <3>1
  <2>4. QED
    BY <2>2, <2>3
<1>4. ~Authentic(verifier, call)
  <2>1. \A i \in DOMAIN Cas : TryValidateAgainstCa(Leaf, Cas[i], Entry.integratedTime) # Ok
    BY <1>1, <1>2 DEF CInv, LoopInv
  <2>2. ~Issued(Leaf, verifier.trustStore, Entry.integratedTime)
    BY <2>1 DEF Issued, Cas
  <2>3. QED
    BY <2>2 DEF Authentic, Leaf, Entry
<1>5. /\ result' \notin {Ok, "Pending"}
      /\ result' \notin PolicyErrors /\ result' # "CheckpointOriginMismatch"
  BY <1>3 DEF ChainErrors, LinkErrors, ProfileErrors, ExtensionErrors, PolicyErrors, Ok
<1>6. OnlyAuthenticatedValuesAreBlamed'
  BY <1>1, <1>2, <1>5, TimeBlameIsFair
<1>7. QED
  BY <1>1, <1>4, <1>5, <1>6, Rejected

\* The checks between the chain and the SCTs, and the reading of the claims.
LEMMA LeafStages ==
    ASSUME CInv, IInv', ReadLeafKey \/ CheckEnvelope \/ ParseSctList \/ ReadClaims
    PROVE  CInv' /\ Refined
<1>1. CASE ReadLeafKey
  <2> DEFINE outcome == FromSpkiDer(Leaf.tbs.key)
  <2>1. Stage("leafKey", outcome, "envelope")
    BY <1>1 DEF ReadLeafKey
  <2>2. /\ "leafKey" \in DOMAIN Rank /\ "envelope" \in DOMAIN Rank /\ Rank["envelope"] = Rank["leafKey"] + 1
        /\ "leafInfo" \in DOMAIN Rank /\ Rank["leafInfo"] < Rank["leafKey"]
    BY DEF Rank
  <2>3. Established("leafInfo")
    BY <2>1, <2>2, Past DEF Stage
  <2>4. outcome = Ok /\ Established("leafKey")
    BY <2>3 DEF Established, FromSpkiDer
  <2> HIDE DEF outcome
  <2>5. outcome # "Pending"
    BY <2>4 DEF Ok
  <2>6. QED
    BY <2>1, <2>2, <2>4, <2>5, StageCInv
<1>2. CASE CheckEnvelope
  <2> DEFINE outcome == IF VerifyDer(Leaf.tbs.key, Pae(Envelope), Envelope.sig) THEN Ok
                        ELSE "DsseSignatureInvalid"
  <2>1. Stage("envelope", outcome, "sctList")
    BY <1>2 DEF CheckEnvelope
  <2>2. outcome \in {Ok, "DsseSignatureInvalid"} /\ (outcome = Ok <=> Established("envelope"))
    BY DEF Established, VerifyDer, Ok
  <2> HIDE DEF outcome
  <2>3. outcome # "Pending" /\ (outcome # Ok => outcome \notin Blamed)
    BY <2>2 DEF Blamed, PolicyErrors, Ok
  <2>4. "envelope" \in DOMAIN Rank /\ "sctList" \in DOMAIN Rank /\ Rank["sctList"] = Rank["envelope"] + 1
    BY DEF Rank
  <2>5. QED
    BY <2>1, <2>2, <2>3, <2>4, StageCInv, NotBlamed
<1>3. CASE ParseSctList
  <2> DEFINE outcome == ExtractSctList(Leaf.tbs)
  <2>1. Stage("sctList", outcome, "scts")
    BY <1>3 DEF ParseSctList
  <2>2. CertificateShape(Leaf)
    BY Shapes DEF CInv, IInv, TypeOK
  <2>3. /\ outcome \in {Ok, "SctMissing", "SctInvalid"} \union ExtensionErrors
        /\ outcome = Ok <=> Established("sctList")
    BY <2>2, SctListMeans DEF Established
  <2> HIDE DEF outcome
  <2>4. outcome # "Pending" /\ (outcome # Ok => outcome \notin Blamed)
    BY <2>3 DEF Blamed, PolicyErrors, ExtensionErrors, Ok
  <2>5. "sctList" \in DOMAIN Rank /\ "scts" \in DOMAIN Rank /\ Rank["scts"] = Rank["sctList"] + 1
    BY DEF Rank
  <2>6. QED
    BY <2>1, <2>3, <2>4, <2>5, StageCInv, NotBlamed
<1>4. CASE ReadClaims
  <2> DEFINE outcome == ExtractClaims(Leaf.tbs)
  <2>1. Stage("claims", outcome, "policy")
    BY <1>4 DEF ReadClaims
  <2>2. outcome \in ExtensionErrors \union {Ok} /\ (outcome = Ok <=> Established("claims"))
    BY ClaimsErrors DEF Established
  <2> HIDE DEF outcome
  <2>3. outcome # "Pending" /\ (outcome # Ok => outcome \notin Blamed)
    BY <2>2 DEF Blamed, PolicyErrors, ExtensionErrors, Ok
  <2>4. "claims" \in DOMAIN Rank /\ "policy" \in DOMAIN Rank /\ Rank["policy"] = Rank["claims"] + 1
    BY DEF Rank
  <2>5. QED
    BY <2>1, <2>2, <2>3, <2>4, StageCInv, NotBlamed
<1>5. QED
  BY <1>1, <1>2, <1>3, <1>4

\* In the loop over the SCTs, the authority has validated and there is a list.
LEMMA InSctLoop ==
    ASSUME CInv, pc = "scts"
    PROVE  /\ Established("chain") /\ Established("sctList")
           /\ sct \in Nat \ {0}
           /\ Len(SctList(Leaf.tbs)) \in Nat /\ DOMAIN SctList(Leaf.tbs) = 1..Len(SctList(Leaf.tbs))
<1>1. Established("chain") /\ Established("sctList")
  BY DEF CInv, History, Rank
<1>2. IsSequence(SctList(Leaf.tbs))
  <2>1. CertificateShape(Leaf) /\ ExtractSctList(Leaf.tbs) = Ok
    BY <1>1, Shapes DEF CInv, IInv, TypeOK, Established
  <2>2. QED
    BY <2>1, SctListMeans
<1>3. Len(SctList(Leaf.tbs)) \in Nat /\ DOMAIN SctList(Leaf.tbs) = 1..Len(SctList(Leaf.tbs))
  BY <1>2 DEF IsSequence
<1>4. QED
  BY <1>1, <1>3 DEF CInv, IInv, TypeOK

\* verify_embedded_scts: one SCT after the other, until one verifies.
LEMMA TrySctStep ==
    ASSUME CInv, IInv', TrySct
    PROVE  CInv' /\ Refined
<1> DEFINE scts == SctList(Leaf.tbs)
           issuerKey == Cas[ca].certificates[1].tbs.key
           outcome == VerifyOneSct(scts[sct], Leaf.tbs, issuerKey, verifier.trustStore.ctlogs)
<1>1. /\ pc = "scts" /\ sct <= Len(scts)
      /\ UNCHANGED <<verifier, call, log, time, ca, caError, result>>
      /\ \/ outcome = Ok /\ pc' = "claims" /\ UNCHANGED <<sct, sctError>>
         \/ outcome # Ok /\ sct' = sct + 1 /\ sctError' = KeepFirst(sctError, outcome) /\ UNCHANGED pc
  BY DEF TrySct
<1>2. sct \in Nat \ {0} /\ Len(scts) \in Nat /\ DOMAIN scts = 1..Len(scts)
  BY <1>1, InSctLoop
<1>3. sct \in DOMAIN scts
  BY <1>1, <1>2
<1>4. outcome \in {Ok} \union SctErrors
  BY OneSctErrors
<1> HIDE DEF outcome
<1>5. CASE outcome = Ok
  <2>1. pc' = "claims" /\ UNCHANGED <<sct, sctError>>
    BY <1>1, <1>5
  <2>2. Established("scts")
    BY <1>3, <1>5 DEF Established, outcome
  <2>3. "scts" \in DOMAIN Rank /\ "claims" \in DOMAIN Rank /\ Rank["claims"] = Rank["scts"] + 1
    BY DEF Rank
  <2>4. History'
    BY <1>1, <2>1, <2>2, <2>3, HistoryGrows DEF CInv
  <2>5. LoopInv'
    BY <1>1, <2>1 DEF CInv, LoopInv, Rank
  <2>6. QED
    BY <1>1, <2>1, <2>4, <2>5, GoOn
<1>6. CASE outcome # Ok
  <2>1. sct' = sct + 1 /\ sctError' = KeepFirst(sctError, outcome) /\ UNCHANGED pc
    BY <1>1, <1>6
  <2>2. sctError' \subseteq SctErrors
    BY <1>4, <1>6, <2>1 DEF CInv, LoopInv, KeepFirst
  <2>3. History'
    <3> SUFFICES ASSUME NEW place \in DOMAIN Rank, Rank[place] < Rank["scts"]
                 PROVE  Established(place)'
      BY <1>1, <2>1 DEF History
    <3>1. Established(place)
      BY <1>1 DEF CInv, History
    <3>2. QED
      BY <1>1, <3>1, StillEstablished
  <2>4. (\A j \in 1..(sct - 1) :
            VerifyOneSct(SctList(Leaf.tbs)[j], Leaf.tbs, Cas[ca].certificates[1].tbs.key,
                         verifier.trustStore.ctlogs) # Ok)'
    <3> DEFINE Fails(j) == VerifyOneSct(scts[j], Leaf.tbs, issuerKey, verifier.trustStore.ctlogs) # Ok
    <3>1. \A j \in 1..(sct - 1) : Fails(j)
      BY <1>1 DEF CInv, LoopInv
    <3>2. Fails(sct)
      BY <1>6 DEF outcome
    <3>3. Leaf' = Leaf /\ Cas' = Cas
      BY <1>1 DEF Leaf, Cas
    <3> SUFFICES \A j \in 1..(sct' - 1) : Fails(j)
      BY <1>1, <3>3
    <3> HIDE DEF Fails
    <3>4. \A j \in 1..(sct' - 1) : j = sct \/ j \in 1..(sct - 1)
      BY <1>2, <2>1
    <3>5. QED
      BY <3>1, <3>2, <3>4
  <2>5. caError' \subseteq ChainErrors /\ pc' = "scts"
    BY <1>1, <2>1 DEF CInv, LoopInv
  <2>6. LoopInv'
    BY <2>2, <2>4, <2>5 DEF LoopInv, Rank
  <2>7. QED
    BY <1>1, <2>1, <2>3, <2>6, GoOn
<1>7. QED
  BY <1>5, <1>6

(***************************************************************************)
(* No SCT verifies under the key of the authority that validated the leaf. *)
(* No other authority helps: whoever validates the leaf has signed it with *)
(* the same key.                                                           *)
(***************************************************************************)
LEMMA NoSctLeftStep ==
    ASSUME CInv, IInv', NoSctLeft
    PROVE  CInv' /\ Refined
<1> DEFINE scts == SctList(Leaf.tbs)
           KeyOf(i) == Cas[i].certificates[1].tbs.key
<1>1. /\ pc = "scts" /\ sct > Len(scts) /\ pc' = "done"
      /\ result' = IF sctError = {} THEN "SctInvalid" ELSE CHOOSE e \in sctError : TRUE
      /\ UNCHANGED <<verifier, call, log, time, ca, caError, sct, sctError>>
  BY DEF NoSctLeft, Return, locals
<1>2. /\ Established("chain") /\ sct \in Nat \ {0}
      /\ Len(scts) \in Nat /\ DOMAIN scts = 1..Len(scts)
  BY <1>1, InSctLoop
<1>3. \A i \in DOMAIN Cas : IsSequence(Cas[i].certificates)
  BY <1>1, InLoops
<1>4. result' \in {"SctInvalid"} \union SctErrors
  <2>1. sctError \subseteq SctErrors
    BY DEF CInv, LoopInv
  <2>2. CASE sctError = {}
    BY <1>1, <2>2
  <2>3. CASE sctError # {}
    <3>1. (CHOOSE e \in sctError : TRUE) \in sctError
      BY <2>3
    <3>2. QED
      BY <1>1, <2>1, <2>3, <3>1
  <2>4. QED
    BY <2>2, <2>3
<1>5. \A j \in DOMAIN scts : VerifyOneSct(scts[j], Leaf.tbs, KeyOf(ca), verifier.trustStore.ctlogs) # Ok
  <2>1. \A j \in 1..(sct - 1) :
           VerifyOneSct(scts[j], Leaf.tbs, KeyOf(ca), verifier.trustStore.ctlogs) # Ok
    BY <1>1 DEF CInv, LoopInv
  <2>2. \A j \in DOMAIN scts : j \in 1..(sct - 1)
    BY <1>1, <1>2
  <2>3. QED
    BY <2>1, <2>2
<1>6. ASSUME NEW i \in DOMAIN Cas, TryValidateAgainstCa(Leaf, Cas[i], Entry.integratedTime) = Ok
      PROVE  KeyOf(i) = KeyOf(ca)
  <2>1. Leaf.sig = Signature(KeyOf(i), Leaf.tbs)
    BY <1>3, <1>6, ChainMeans
  <2>2. Leaf.sig = Signature(KeyOf(ca), Leaf.tbs)
    BY <1>2, <1>3, ChainMeans DEF Established
  <2> HIDE DEF KeyOf
  <2>3. QED
    BY <2>1, <2>2 DEF Signature
<1>7. ~Authentic(verifier, call)
  <2>1. ~Issued(Leaf, verifier.trustStore, Entry.integratedTime)
    <3> SUFFICES ASSUME NEW i \in DOMAIN Cas,
                        TryValidateAgainstCa(Leaf, Cas[i], Entry.integratedTime) = Ok,
                        NEW j \in DOMAIN scts,
                        VerifyOneSct(scts[j], Leaf.tbs, KeyOf(i), verifier.trustStore.ctlogs) = Ok
                 PROVE  FALSE
      BY DEF Issued, Cas
    <3>1. KeyOf(i) = KeyOf(ca)
      BY <1>6
    <3> HIDE DEF KeyOf
    <3>2. QED
      BY <1>5, <3>1
  <2>2. QED
    BY <2>1 DEF Authentic, Leaf, Entry
<1>8. result' \notin {Ok, "Pending"} /\ result' \notin Blamed
  BY <1>4 DEF SctErrors, Blamed, PolicyErrors, Ok
<1>9. QED
  BY <1>1, <1>7, <1>8, NotBlamed, Rejected

(***************************************************************************)
(* The policy decides last, on claims a trusted authority signed: a match  *)
(* makes the bundle authentic and the report one of its facts.             *)
(***************************************************************************)
LEMMA CheckPolicyStep ==
    ASSUME CInv, IInv', CheckPolicy
    PROVE  CInv' /\ Refined
<1> DEFINE outcome == MatchPolicy(Leaf.tbs, verifier.githubPolicy)
<1>1. /\ pc = "policy" /\ pc' = "done" /\ result' = outcome
      /\ UNCHANGED <<verifier, call, log, time, ca, caError, sct, sctError>>
  BY DEF CheckPolicy, Return, locals
<1>2. verifier \in Verifiers /\ call \in Calls /\ result = "Pending"
  BY <1>1 DEF CInv, IInv, TypeOK
<1>3. outcome \in PolicyErrors \union {Ok}
  BY <1>2, Shapes, MatchPolicyErrors
<1>4. \A place \in DOMAIN Rank \ {"policy", "done"} : Established(place)
  <2>1. \A place \in DOMAIN Rank \ {"policy", "done"} : Rank[place] < Rank["policy"]
    BY DEF Rank
  <2>2. QED
    BY <1>1, <2>1 DEF CInv, History
<1>5. Established("predicateType") /\ Established("chain") /\ Established("envelope")
  BY <1>4 DEF Rank
<1>6. CASE outcome = Ok
  <2>1. Authentic(verifier, call)
    BY <1>2, <1>4, <1>6, EstablishedSuffices
  <2>2. result' = Ok
    BY <1>1, <1>6
  <2>3. Report' = Facts(verifier, call)
    <3>1. Report' = Report
      BY <1>1 DEF Report, Envelope, Entry, Leaf
    <3>2. Envelope.payload.predicateType = SupportedPredicateType
      BY <1>5 DEF Established
    <3>3. QED
      BY <3>1, <3>2 DEF Report, Facts, Envelope, Entry, Leaf
  <2>4. Contract!Accept
    BY <1>1, <1>2, <2>1, <2>2, <2>3 DEF Contract!Accept, Contract!Ok, Ok
  <2>5. (History /\ LoopInv)'
    BY <1>1 DEF CInv, LoopInv, History
  <2>6. Answered'
    BY <2>2 DEF Answered, Ok
  <2>7. OnlyAuthenticatedValuesAreBlamed'
    BY <2>2, NotBlamed DEF Blamed, PolicyErrors, Ok
  <2>8. QED
    BY <2>4, <2>5, <2>6, <2>7 DEF CInv, Refined, Contract!Next
<1>7. CASE outcome # Ok
  <2>1. ~Authentic(verifier, call)
    BY <1>7 DEF Authentic, Leaf
  <2>2. result' \in PolicyErrors
    BY <1>1, <1>3, <1>7
  <2>3. OnlyAuthenticatedValuesAreBlamed'
    <3>1. ca \in DOMAIN Cas /\ TryValidateAgainstCa(Leaf, Cas[ca], Entry.integratedTime) = Ok
      BY <1>5 DEF Established
    <3>2. IsSequence(Cas[ca].certificates)
      BY <1>2, <3>1, Shapes DEF StoreShape, Cas
    <3>3. /\ 1 \in DOMAIN Cas[ca].certificates
          /\ Leaf.sig = Signature(Cas[ca].certificates[1].tbs.key, Leaf.tbs)
      BY <3>1, <3>2, ChainMeans
    <3>4. Envelope.sig = Signature(Leaf.tbs.key, Pae(Envelope))
      BY <1>5 DEF Established
    <3>5. \E i \in DOMAIN Cas : \E j \in DOMAIN Cas[i].certificates :
             Leaf.sig = Signature(Cas[i].certificates[j].tbs.key, Leaf.tbs)
      BY <3>1, <3>3
    <3>6. Cas' = Cas /\ Leaf' = Leaf /\ Envelope' = Envelope /\ Pae(Envelope)' = Pae(Envelope)
      BY <1>1 DEF Cas, Leaf, Envelope, Pae
    <3>7. IdentityBlamed'
      BY <3>4, <3>5, <3>6 DEF IdentityBlamed
    <3>8. OriginBlamed' /\ TimeBlamed'
      BY <2>2 DEF OriginBlamed, TimeBlamed, PolicyErrors
    <3>9. QED
      BY <3>7, <3>8 DEF OnlyAuthenticatedValuesAreBlamed
  <2>4. result' \notin {Ok, "Pending"}
    BY <2>2 DEF PolicyErrors, Ok
  <2>5. QED
    BY <1>1, <2>1, <2>3, <2>4, Rejected
<1>8. QED
  BY <1>6, <1>7

-----------------------------------------------------------------------------
\* The next call begins with nothing established and no answer.
LEMMA BeginStep ==
    ASSUME CInv, IInv', NEW subject, NEW bundle, VerifyDigest(subject, bundle)
    PROVE  CInv' /\ Refined
<1>1. /\ pc = "done" /\ pc' = "payloadType" /\ result' = "Pending" /\ UNCHANGED verifier
      /\ ca' = 1 /\ caError' = {} /\ sct' = 1 /\ sctError' = {}
  BY DEF VerifyDigest, Begin
<1>2. History'
  BY <1>1 DEF History, Rank
<1>3. LoopInv'
  BY <1>1 DEF LoopInv
<1>4. Answered'
  BY <1>1 DEF Answered
<1>5. OnlyAuthenticatedValuesAreBlamed'
  BY <1>1, NotBlamed DEF Blamed, PolicyErrors
<1>6. Contract!NextCall
  BY <1>1 DEF Contract!NextCall, CInv, Answered, Ok
<1>7. QED
  BY <1>2, <1>3, <1>4, <1>5, <1>6 DEF CInv, Refined, Contract!Next

LEMMA NextCInv ==
    ASSUME CInv, [Next]_vars
    PROVE  CInv' /\ Refined
<1>1. IInv'
  BY NextIInv DEF CInv
<1>2. CASE Step
  BY <1>1, <1>2, EntryStages, SelectLogStep, LogStages, AuthenticateTimeStep, TryCaStep, NoCaLeftStep,
     LeafStages, TrySctStep, NoSctLeftStep, CheckPolicyStep DEF Step
<1>3. CASE \E s \in Subjects, b \in Bundles : VerifyDigest(s, b)
  BY <1>1, <1>3, BeginStep
<1>4. CASE \E a \in Artifacts, b \in Bundles : VerifyBytes(a, b)
  BY <1>1, <1>4, BeginStep DEF VerifyBytes
<1>5. CASE UNCHANGED vars
  <2>1. UNCHANGED <<verifier, call, pc, log, time, ca, caError, sct, sctError, result>>
    BY <1>5 DEF vars, locals
  <2>2. History'
    BY <2>1, StillEstablished DEF CInv, History
  <2>3. LoopInv' /\ Answered'
    BY <2>1 DEF CInv, LoopInv, Answered, Entry, Leaf, Cas
  <2>4. OnlyAuthenticatedValuesAreBlamed'
    BY <2>1 DEF CInv, OnlyAuthenticatedValuesAreBlamed, OriginBlamed, TimeBlamed, IdentityBlamed,
                Entry, Leaf, Cas, Tlog, Proof, Envelope, Pae
  <2>5. Refined
    BY <2>1 DEF Refined, Contract!vars, Report, Entry, Leaf, Envelope
  <2>6. QED
    BY <1>1, <2>2, <2>3, <2>4, <2>5 DEF CInv
<1>6. QED
  BY <1>2, <1>3, <1>4, <1>5 DEF Next

LEMMA InitCInv ==
    ASSUME Init
    PROVE  CInv /\ Contract!Init
<1>1. IInv
  BY InitIInv
<1>2. History /\ LoopInv /\ Answered
  BY DEF Init, AtStart, History, LoopInv, Answered, Rank
<1>3. OnlyAuthenticatedValuesAreBlamed
  BY DEF Init, AtStart, OnlyAuthenticatedValuesAreBlamed, OriginBlamed, TimeBlamed, IdentityBlamed,
         PolicyErrors
<1>4. Contract!Init
  BY DEF Init, AtStart, Contract!Init, Ok
<1>5. QED
  BY <1>1, <1>2, <1>3, <1>4 DEF CInv

LEMMA InvariantCInv == Spec => []CInv
  BY InitCInv, NextCInv, PTL DEF Spec

(***************************************************************************)
(* An error that speaks about a value is only returned once that value is  *)
(* authenticated, for every trust store, policy and bundle: a refused      *)
(* origin is that of a note the selected log's key signed, a refused time  *)
(* one that key promised, and a refused identity one a trusted authority   *)
(* certified for the key that signed this very envelope.                   *)
(***************************************************************************)
THEOREM BlameIsAuthenticated == Spec => []OnlyAuthenticatedValuesAreBlamed
<1>1. CInv => OnlyAuthenticatedValuesAreBlamed
  BY DEF CInv
<1>2. QED
  BY <1>1, InvariantCInv, PTL

(***************************************************************************)
(* verify_digest keeps its promise: every call is answered once, accepted  *)
(* exactly when its bundle is authentic for its subject, with the facts    *)
(* the bundle establishes as its report; whichever the order of the        *)
(* checks, whatever earlier calls left behind.                             *)
(***************************************************************************)
THEOREM Refinement == Spec => ImplementsContract
<1>1. Init => Contract!Init
  BY InitCInv
<1>2. CInv /\ [Next]_vars => [Contract!Next]_(Contract!vars)
  BY NextCInv DEF Refined
<1>3. QED
  BY <1>1, <1>2, InvariantCInv, PTL DEF Spec, ImplementsContract, Contract!Spec

-----------------------------------------------------------------------------
(***************************************************************************)
(* The time outlives the checks that made it one the log promised.         *)
(***************************************************************************)
EntryChecks ==
    {"tlogEntries", "body", "binding", "logKey", "set", "inclusionProof", "inclusion", "checkpoint",
     "origin", "leafInfo", "timeWindow"}

TimeChecked == time # {} => \A place \in EntryChecks : Established(place)

\* A check that only reads goes to the next one, or returns.
LEMMA StageMoves ==
    ASSUME NEW here, NEW outcome, NEW next, Stage(here, outcome, next)
    PROVE  /\ pc = here /\ pc' \in {next, "done"}
           /\ UNCHANGED <<verifier, call, log, time, ca, caError, sct, sctError>>
  BY DEF Stage, Try, Return, locals

(***************************************************************************)
(* Outside the loops a step leaves the cursors and the errors alone and    *)
(* goes to a later check, or returns.                                      *)
(***************************************************************************)
LEMMA OutsideLoops ==
    ASSUME Step, pc \notin {"chain", "scts"}
    PROVE  /\ pc \in DOMAIN Rank /\ pc # "done"
           /\ UNCHANGED <<verifier, call, ca, caError, sct, sctError>>
           /\ pc' = "done" => UNCHANGED <<log, time>>
           /\ pc' # "done" => pc' \in DOMAIN Rank /\ Rank[pc] < Rank[pc']
<1>1. CASE CheckPayloadType
  BY <1>1, StageMoves DEF CheckPayloadType, Rank
<1>2. CASE ParseStatement
  BY <1>2, StageMoves DEF ParseStatement, Rank
<1>3. CASE CheckPredicateType
  BY <1>3, StageMoves DEF CheckPredicateType, Rank
<1>4. CASE BindSubject
  BY <1>4, StageMoves DEF BindSubject, Rank
<1>5. CASE RequireOneTlogEntry
  <2> DEFINE outcome == FirstError(<< Check(Len(call.bundle.tlogEntries) # 0, "NoTlogEntries"),
                                      Check(Len(call.bundle.tlogEntries) = 1, "MultipleTlogEntries") >>)
  <2>1. Stage("tlogEntries", outcome, "body")
    BY <1>5 DEF RequireOneTlogEntry
  <2> HIDE DEF outcome
  <2>2. QED
    BY <2>1, StageMoves DEF Rank
<1>6. CASE ParseBody
  BY <1>6, StageMoves DEF ParseBody, Rank
<1>7. CASE BindEntry
  BY <1>7, StageMoves DEF BindEntry, Rank
<1>8. CASE CheckSet
  BY <1>8, StageMoves DEF CheckSet, Rank
<1>9. CASE RequireInclusionProof
  BY <1>9, StageMoves DEF RequireInclusionProof, Rank
<1>10. CASE CheckInclusion
  BY <1>10, StageMoves DEF CheckInclusion, Rank
<1>11. CASE CheckCheckpoint
  BY <1>11, StageMoves DEF CheckCheckpoint, Rank
<1>12. CASE CheckCheckpointOrigin
  BY <1>12, StageMoves DEF CheckCheckpointOrigin, Rank
<1>13. CASE ReadLeafInfo
  BY <1>13, StageMoves DEF ReadLeafInfo, Rank
<1>14. CASE ReadLeafKey
  BY <1>14, StageMoves DEF ReadLeafKey, Rank
<1>15. CASE CheckEnvelope
  BY <1>15, StageMoves DEF CheckEnvelope, Rank
<1>16. CASE ParseSctList
  BY <1>16, StageMoves DEF ParseSctList, Rank
<1>17. CASE ReadClaims
  BY <1>17, StageMoves DEF ReadClaims, Rank
<1>18. CASE SelectLog
  BY <1>18 DEF SelectLog, Try, Return, Rank
<1>19. CASE AuthenticateTime
  BY <1>19 DEF AuthenticateTime, Try, Return, Rank
<1>20. CASE CheckPolicy
  BY <1>20 DEF CheckPolicy, Return, locals, Rank
<1>21. CASE TryCa \/ NoCaLeft \/ TrySct \/ NoSctLeft
  BY <1>21 DEF TryCa, NoCaLeft, TrySct, NoSctLeft
<1>22. QED
  BY <1>1, <1>2, <1>3, <1>4, <1>5, <1>6, <1>7, <1>8, <1>9, <1>10, <1>11, <1>12, <1>13, <1>14, <1>15,
     <1>16, <1>17, <1>18, <1>19, <1>20, <1>21 DEF Step

\* The step from a place after the time window is the one of that place.
LEMMA ActionHere ==
    ASSUME Step
    PROVE  /\ pc = "chain" => TryCa \/ NoCaLeft
           /\ pc = "leafKey" => ReadLeafKey
           /\ pc = "envelope" => CheckEnvelope
           /\ pc = "sctList" => ParseSctList
           /\ pc = "scts" => TrySct \/ NoSctLeft
<1>1. CASE \/ CheckPayloadType \/ ParseStatement \/ CheckPredicateType \/ BindSubject
           \/ ParseBody \/ BindEntry \/ SelectLog \/ CheckSet
  BY <1>1, StageMoves DEF CheckPayloadType, ParseStatement, CheckPredicateType, BindSubject, ParseBody,
                          BindEntry, SelectLog, CheckSet
<1>2. CASE RequireOneTlogEntry
  <2> DEFINE outcome == FirstError(<< Check(Len(call.bundle.tlogEntries) # 0, "NoTlogEntries"),
                                      Check(Len(call.bundle.tlogEntries) = 1, "MultipleTlogEntries") >>)
  <2>1. Stage("tlogEntries", outcome, "body")
    BY <1>2 DEF RequireOneTlogEntry
  <2> HIDE DEF outcome
  <2>2. QED
    BY <2>1, StageMoves
<1>3. CASE \/ RequireInclusionProof \/ CheckInclusion \/ CheckCheckpoint \/ CheckCheckpointOrigin
           \/ ReadLeafInfo \/ AuthenticateTime
  BY <1>3, StageMoves DEF RequireInclusionProof, CheckInclusion, CheckCheckpoint, CheckCheckpointOrigin,
                          ReadLeafInfo, AuthenticateTime
<1>4. CASE ReadClaims \/ CheckPolicy
  BY <1>4, StageMoves DEF ReadClaims, CheckPolicy
<1>5. CASE ReadLeafKey \/ CheckEnvelope \/ ParseSctList
  BY <1>5, StageMoves DEF ReadLeafKey, CheckEnvelope, ParseSctList
<1>6. CASE TryCa \/ NoCaLeft \/ TrySct \/ NoSctLeft
  BY <1>6 DEF TryCa, NoCaLeft, TrySct, NoSctLeft
<1>7. QED
  BY <1>1, <1>2, <1>3, <1>4, <1>5, <1>6 DEF Step

\* Returning leaves the call, the selected log and the time as they are.
LEMMA ReturnKeeps ==
    ASSUME [Next]_vars, pc' = "done"
    PROVE  UNCHANGED <<verifier, call, log, time>>
<1>1. CASE Step /\ pc \notin {"chain", "scts"}
  BY <1>1, OutsideLoops
<1>2. CASE Step /\ pc \in {"chain", "scts"}
  <2>1. TryCa \/ NoCaLeft \/ TrySct \/ NoSctLeft
    BY <1>2, ActionHere
  <2>2. QED
    BY <2>1 DEF TryCa, NoCaLeft, TrySct, NoSctLeft, locals
<1>3. CASE \E s \in Subjects, b \in Bundles : VerifyDigest(s, b)
  BY <1>3 DEF VerifyDigest, Begin
<1>4. CASE \E a \in Artifacts, b \in Bundles : VerifyBytes(a, b)
  BY <1>4 DEF VerifyBytes, VerifyDigest, Begin
<1>5. CASE UNCHANGED vars
  BY <1>5 DEF vars, locals
<1>6. QED
  BY <1>1, <1>2, <1>3, <1>4, <1>5 DEF Next

LEMMA NextTimeChecked ==
    ASSUME CInv', TimeChecked, [Next]_vars
    PROVE  TimeChecked'
<1> SUFFICES ASSUME time' # {}, NEW place \in EntryChecks
             PROVE  Established(place)'
  BY DEF TimeChecked, EntryChecks
<1>1. CASE pc' = "done"
  <2>1. UNCHANGED <<verifier, call, log, time>>
    BY <1>1, ReturnKeeps
  <2>2. Established(place)
    BY <2>1 DEF TimeChecked
  <2>3. place \notin {"chain", "scts"}
    BY DEF EntryChecks
  <2>4. QED
    BY <2>1, <2>2, <2>3, StillEstablished
<1>2. CASE pc' # "done"
  <2>1. pc' \in AfterTimeWindow
    BY <1>2 DEF CInv, IInv, UnsetTime
  <2>2. place \in DOMAIN Rank /\ Rank[place] < Rank[pc']
    BY <2>1 DEF EntryChecks, AfterTimeWindow, Rank
  <2>3. QED
    BY <1>2, <2>2 DEF CInv, History
<1>3. QED
  BY <1>1, <1>2

(***************************************************************************)
(* The time used for every certificate check is the one of the entry that  *)
(* this envelope and leaf make; the selected trusted log promised it with  *)
(* its own key, within that key's validity, and put the entry in a tree    *)
(* whose head it signed under an origin the policy allows; and the         *)
(* conversion to i64 has not changed it.                                   *)
(***************************************************************************)
THEOREM TimeAuthenticated == Spec => []TimeIsAuthenticated
<1>1. Init => TimeChecked
  BY DEF Init, AtStart, TimeChecked
<1>2. CInv' /\ TimeChecked /\ [Next]_vars => TimeChecked'
  BY NextTimeChecked
<1>3. CInv /\ TimeChecked => TimeIsAuthenticated
  <2> SUFFICES ASSUME CInv, TimeChecked, time # {} PROVE TimeIsAuthenticated
    BY DEF TimeIsAuthenticated
  <2>1. \A place \in EntryChecks : Established(place)
    BY DEF TimeChecked
  <2>2. Entry.body = CanonicalBody(Envelope, Leaf)
    BY <2>1 DEF EntryChecks, Established
  <2>3. Included(Entry, Tlog, verifier.originPolicy)
    <3>1. /\ Proof \in Entry.inclusionProof
          /\ InTree(Proof, Entry.body)
          /\ HeadSigned(Proof, Tlog)
          /\ OriginAllowed(Proof.checkpoint, Tlog, verifier.originPolicy)
      BY <2>1 DEF EntryChecks, Established
    <3>2. QED
      BY <3>1 DEF Included
  <2>4. QED
    BY <2>2, <2>3 DEF CInv, IInv, LogInv, PromiseInv, TimeInv, TimeIsAuthenticated, Promise
<1>4. QED
  BY <1>1, <1>2, <1>3, InvariantCInv, PTL DEF Spec

-----------------------------------------------------------------------------
(***************************************************************************)
(* The error each loop has kept is that of the first failure behind its    *)
(* cursor, and there is none before the loop.                              *)
(***************************************************************************)
ChainAt(i) == TryValidateAgainstCa(Leaf, Cas[i], Entry.integratedTime)

FirstAt(i) == ChainAt(i) # "None" /\ \A h \in 1..(i-1) : ChainAt(h) = "None"

FirstKept ==
    /\ pc # "done" /\ Rank[pc] < Rank["chain"] => caError = {}
    /\ pc = "chain" =>
          \/ caError = {} /\ \A h \in 1..(ca-1) : ChainAt(h) = "None"
          \/ \E i \in 1..(ca-1) : caError = {ChainAt(i)} /\ FirstAt(i)
    /\ pc # "done" /\ Rank[pc] < Rank["scts"] => sctError = {}
    /\ pc = "scts" => sctError = IF sct = 1 THEN {} ELSE {SctOutcome(ca, 1)}

\* While a call goes on, what an authority or an SCT says of the leaf stays the same.
LEMMA SameOutcomes ==
    ASSUME UNCHANGED <<verifier, call>>
    PROVE  /\ Leaf' = Leaf /\ Cas' = Cas /\ Entry' = Entry /\ Envelope' = Envelope
           /\ \A i : (ChainAt(i) = "None")' <=> ChainAt(i) = "None"
           /\ \A i : ChainAt(i)' = ChainAt(i)
           /\ \A i : FirstAt(i)' <=> FirstAt(i)
           /\ \A i, j : SctOutcome(i, j)' = SctOutcome(i, j)
  BY DEF Leaf, Cas, Entry, Envelope, ChainAt, FirstAt, SctOutcome

LEMMA TryCaKeepsFirst ==
    ASSUME CInv, FirstKept, TryCa
    PROVE  FirstKept'
<1>1. /\ pc = "chain" /\ UNCHANGED <<verifier, call, sct, sctError>>
      /\ ca \in Nat \ {0} /\ AuthenticatedTime = Entry.integratedTime
  BY InLoops DEF TryCa
<1>2. \/ pc' = "leafKey"
      \/ /\ pc' = "chain" /\ ca' = ca + 1
         /\ \/ ChainAt(ca) = "None" /\ caError' = caError
            \/ ChainAt(ca) # "None" /\ caError' = KeepFirst(caError, ChainAt(ca))
  BY <1>1 DEF TryCa, ChainAt
<1>3. sctError = {}
  BY <1>1 DEF FirstKept, Rank
<1>4. CASE pc' = "leafKey"
  BY <1>1, <1>3, <1>4 DEF FirstKept, Rank
<1>5. CASE pc' = "chain" /\ ca' = ca + 1
  <2>1. \/ caError' = {} /\ \A h \in 1..(ca'-1) : ChainAt(h) = "None"
        \/ \E i \in 1..(ca'-1) : caError' = {ChainAt(i)} /\ FirstAt(i)
    <3>1. ca' - 1 = ca /\ \A i \in 1..(ca - 1) : i \in 1..ca
      BY <1>1, <1>5
    <3>2. CASE caError = {} /\ \A h \in 1..(ca-1) : ChainAt(h) = "None"
      <4>1. CASE ChainAt(ca) = "None" /\ caError' = caError
        <5>1. \A h \in 1..ca : h \in 1..(ca - 1) \/ h = ca
          BY <1>1
        <5>2. QED
          BY <3>1, <3>2, <4>1, <5>1
      <4>2. CASE ChainAt(ca) # "None" /\ caError' = KeepFirst(caError, ChainAt(ca))
        <5>1. caError' = {ChainAt(ca)} /\ FirstAt(ca) /\ ca \in 1..ca
          BY <1>1, <3>2, <4>2 DEF KeepFirst, FirstAt
        <5>2. QED
          BY <3>1, <5>1
      <4>3. QED
        BY <1>2, <1>5, <4>1, <4>2
    <3>3. CASE \E i \in 1..(ca-1) : caError = {ChainAt(i)} /\ FirstAt(i)
      <4>1. caError' = caError
        BY <1>2, <1>5, <3>3 DEF KeepFirst
      <4>2. QED
        BY <3>1, <3>3, <4>1
    <3>4. QED
      BY <1>1, <3>2, <3>3 DEF FirstKept
  <2>2. (\/ caError = {} /\ \A h \in 1..(ca-1) : ChainAt(h) = "None"
         \/ \E i \in 1..(ca-1) : caError = {ChainAt(i)} /\ FirstAt(i))'
    BY <1>1, <2>1, SameOutcomes
  <2>3. QED
    BY <1>1, <1>3, <1>5, <2>2 DEF FirstKept, Rank
<1>6. QED
  BY <1>2, <1>4, <1>5

LEMMA TrySctKeepsFirst ==
    ASSUME CInv, FirstKept, TrySct
    PROVE  FirstKept'
<1>1. pc = "scts" /\ UNCHANGED <<verifier, call, ca>> /\ sct \in Nat \ {0}
  BY InSctLoop DEF TrySct
<1>2. \/ pc' = "claims"
      \/ pc' = "scts" /\ sct' = sct + 1 /\ sctError' = KeepFirst(sctError, SctOutcome(ca, sct))
  BY <1>1 DEF TrySct, SctOutcome
<1>3. CASE pc' = "claims"
  BY <1>3 DEF FirstKept, Rank
<1>4. CASE pc' = "scts" /\ sct' = sct + 1 /\ sctError' = KeepFirst(sctError, SctOutcome(ca, sct))
  <2>1. sctError = IF sct = 1 THEN {} ELSE {SctOutcome(ca, 1)}
    BY <1>1 DEF FirstKept
  <2>2. sctError' = {SctOutcome(ca, 1)} /\ sct' # 1
    BY <1>1, <1>4, <2>1 DEF KeepFirst
  <2>3. (sctError = IF sct = 1 THEN {} ELSE {SctOutcome(ca, 1)})'
    BY <1>1, <2>2, SameOutcomes
  <2>4. QED
    BY <1>4, <2>3 DEF FirstKept, Rank
<1>5. QED
  BY <1>2, <1>3, <1>4

LEMMA NextFirstKept ==
    ASSUME CInv, FirstKept, [Next]_vars
    PROVE  FirstKept'
<1>1. CASE pc' = "done"
  BY <1>1 DEF FirstKept
<1>2. CASE Step /\ pc' # "done" /\ pc \notin {"chain", "scts"}
  <2>1. /\ pc \in DOMAIN Rank /\ pc' \in DOMAIN Rank /\ pc # "done"
        /\ UNCHANGED <<ca, caError, sct, sctError>>
        /\ Rank[pc] < Rank[pc']
    BY <1>2, OutsideLoops
  <2>2. Rank[pc] \in Nat /\ Rank[pc'] \in Nat /\ Rank["chain"] \in Nat /\ Rank["scts"] \in Nat
    BY <2>1 DEF Rank
  <2>3. Rank[pc'] <= Rank["chain"] => caError' = {} /\ ca' = 1
    BY <2>1, <2>2 DEF CInv, LoopInv, FirstKept
  <2>4. Rank[pc'] <= Rank["scts"] => sctError' = {} /\ sct' = 1
    BY <2>1, <2>2 DEF CInv, LoopInv, FirstKept
  <2>5. pc' = "chain" => caError' = {} /\ \A h \in 1..(ca'-1) : ChainAt(h)' = "None"
    BY <2>2, <2>3
  <2>6. QED
    BY <2>2, <2>3, <2>4, <2>5 DEF FirstKept
<1>3. CASE Step /\ pc' # "done" /\ pc \in {"chain", "scts"}
  <2>1. TryCa \/ TrySct
    BY <1>3, ActionHere DEF NoCaLeft, NoSctLeft, Return
  <2>2. QED
    BY <2>1, TryCaKeepsFirst, TrySctKeepsFirst
<1>4. CASE \E s \in Subjects, b \in Bundles : VerifyDigest(s, b)
  BY <1>4 DEF VerifyDigest, Begin, FirstKept, Rank
<1>5. CASE \E a \in Artifacts, b \in Bundles : VerifyBytes(a, b)
  BY <1>5 DEF VerifyBytes, VerifyDigest, Begin, FirstKept, Rank
<1>6. CASE UNCHANGED vars
  <2>1. UNCHANGED <<verifier, call, pc, ca, caError, sct, sctError>>
    BY <1>6 DEF vars, locals
  <2>2. QED
    BY <2>1, SameOutcomes DEF FirstKept
<1>7. QED
  BY <1>1, <1>2, <1>3, <1>4, <1>5, <1>6 DEF Next

(***************************************************************************)
(* Whichever authorities validate the leaf, its SCTs fare the same under   *)
(* each: they all signed the leaf with one key.                            *)
(***************************************************************************)
LEMMA OneIssuer ==
    ASSUME CInv, Established("chain"), NEW i \in DOMAIN Cas, ChainAt(i) = Ok, NEW j
    PROVE  SctOutcome(i, j) = SctOutcome(ca, j)
<1> DEFINE KeyOf(k) == Cas[k].certificates[1].tbs.key
<1>1. \A k \in DOMAIN Cas : IsSequence(Cas[k].certificates)
  BY Shapes DEF CInv, IInv, TypeOK, StoreShape, Cas
<1>2. Leaf.sig = Signature(KeyOf(i), Leaf.tbs)
  BY <1>1, ChainMeans DEF ChainAt
<1>3. Leaf.sig = Signature(KeyOf(ca), Leaf.tbs)
  BY <1>1, ChainMeans DEF Established
<1>4. KeyOf(i) = KeyOf(ca)
  <2> HIDE DEF KeyOf
  <2>1. QED
    BY <1>2, <1>3 DEF Signature
<1>5. QED
  BY <1>4 DEF SctOutcome

\* What FirstFailureIsReported says of a call that returns now.
LEMMA ReportedWhenReturning ==
    ASSUME CInv, UNCHANGED <<verifier, call, time>>, time # {},
           (\A i \in DOMAIN Cas : ChainAt(i) # Ok) =>
              \/ result' = "UntrustedCertificate" /\ \A i \in DOMAIN Cas : ChainAt(i) = "None"
              \/ \E i \in DOMAIN Cas : result' = ChainAt(i) /\ FirstAt(i),
           \A i \in DOMAIN Cas :
              /\ ChainAt(i) = Ok
              /\ Envelope.sig = Signature(Leaf.tbs.key, Pae(Envelope))
              /\ ExtractSctList(Leaf.tbs) = Ok
              /\ \A j \in DOMAIN SctList(Leaf.tbs) : SctOutcome(i, j) # Ok
              => result' = SctOutcome(i, 1)
    PROVE  FirstFailureIsReported'
<1>1. AuthenticatedTime' = Entry.integratedTime
  BY DEF CInv, IInv, TimeInv, AuthenticatedTime
<1>2. /\ Leaf' = Leaf /\ Cas' = Cas /\ Envelope' = Envelope
      /\ \A i, j : SctOutcome(i, j)' = SctOutcome(i, j)
  BY SameOutcomes
<1>3. \A i : ChainOutcome(i)' = ChainAt(i)
  BY <1>1, <1>2 DEF ChainOutcome, ChainAt
<1>4. Pae(Envelope)' = Pae(Envelope)
  BY <1>2 DEF Pae
<1>5. ((\A i \in DOMAIN Cas : ChainOutcome(i) # Ok) => FirstAuthorityIsReported)'
  BY <1>2, <1>3 DEF FirstAuthorityIsReported, FirstAt
<1>6. QED
  BY <1>2, <1>3, <1>4, <1>5 DEF FirstFailureIsReported

LEMMA NextReported ==
    ASSUME CInv, CInv', FirstKept, FirstFailureIsReported, [Next]_vars
    PROVE  FirstFailureIsReported'
<1> SUFFICES ASSUME pc' = "done", time' # {} PROVE FirstFailureIsReported'
  BY DEF FirstFailureIsReported
<1>1. UNCHANGED <<verifier, call, log, time>>
  BY ReturnKeeps
<1>2. CASE UNCHANGED vars
  <2>1. UNCHANGED <<pc, result>>
    BY <1>2 DEF vars
  <2>2. QED
    BY <1>1, <2>1 DEF FirstFailureIsReported, FirstAuthorityIsReported, ChainOutcome, SctOutcome,
                      AuthenticatedTime, Leaf, Cas, Envelope, Pae
<1>3. CASE Step /\ pc = "chain"
  <2>1. /\ ca > Len(Cas)
        /\ result' = IF caError = {} THEN "UntrustedCertificate" ELSE CHOOSE e \in caError : TRUE
    BY <1>3, ActionHere DEF TryCa, NoCaLeft, Return
  <2>2. Len(Cas) \in Nat /\ DOMAIN Cas = 1..Len(Cas) /\ ca \in 1..(Len(Cas) + 1)
    BY <1>3, InLoops
  <2>3. DOMAIN Cas = 1..(ca - 1)
    BY <2>1, <2>2
  <2>4. \A i \in DOMAIN Cas : ChainAt(i) # Ok
    BY <1>3, <2>3 DEF CInv, LoopInv, ChainAt
  <2>5. \/ result' = "UntrustedCertificate" /\ \A i \in DOMAIN Cas : ChainAt(i) = "None"
        \/ \E i \in DOMAIN Cas : result' = ChainAt(i) /\ FirstAt(i)
    BY <1>3, <2>1, <2>3, SMTT(30) DEF FirstKept
  <2>6. QED
    BY <1>1, <2>4, <2>5, ReportedWhenReturning
<1>4. CASE Step /\ pc # "chain"
  <2>1. pc \in AfterTimeWindow \ {"chain"}
    <3>1. pc # "done"
      BY <1>4, OutsideLoops
    <3>2. QED
      BY <1>1, <1>4, <3>1 DEF CInv, IInv, UnsetTime
  <2>2. Established("chain")
    BY <2>1 DEF CInv, History, AfterTimeWindow, Rank
  <2>3. ca \in DOMAIN Cas /\ ChainAt(ca) = Ok
    BY <2>2 DEF Established, ChainAt
  <2>4. ASSUME NEW i \in DOMAIN Cas, ChainAt(i) = Ok,
               Envelope.sig = Signature(Leaf.tbs.key, Pae(Envelope)),
               ExtractSctList(Leaf.tbs) = Ok,
               \A j \in DOMAIN SctList(Leaf.tbs) : SctOutcome(i, j) # Ok
        PROVE  result' = SctOutcome(i, 1)
    <3>1. \A j : SctOutcome(i, j) = SctOutcome(ca, j)
      BY <2>2, <2>4, OneIssuer
    <3>2. pc \notin {"claims", "policy"}
      <4>1. ~Established("scts")
        BY <2>4, <3>1 DEF Established, SctOutcome
      <4>2. QED
        BY <4>1 DEF CInv, History, Rank
    <3>3. pc # "leafKey"
      <4>1. FromSpkiDer(Leaf.tbs.key) = Ok
        BY <1>1 DEF CInv, IInv, LeafInv, LeafCertificateInfo, Ok
      <4>2. QED
        BY <1>4, <4>1, ActionHere DEF ReadLeafKey, Stage, Try, Return
    <3>4. pc # "envelope"
      <4>1. VerifyDer(Leaf.tbs.key, Pae(Envelope), Envelope.sig)
        BY <2>4 DEF VerifyDer
      <4>2. QED
        BY <1>4, <4>1, ActionHere DEF CheckEnvelope, Stage, Try, Return
    <3>5. pc # "sctList"
      BY <1>4, <2>4, ActionHere DEF ParseSctList, Stage, Try, Return
    <3>6. pc = "scts"
      BY <2>1, <3>2, <3>3, <3>4, <3>5 DEF AfterTimeWindow
    <3>7. /\ sct > Len(SctList(Leaf.tbs))
          /\ result' = IF sctError = {} THEN "SctInvalid" ELSE CHOOSE e \in sctError : TRUE
      BY <1>4, <3>6, ActionHere DEF TrySct, NoSctLeft, Return
    <3>8. sct # 1
      <4>1. CertificateShape(Leaf)
        BY Shapes DEF CInv, IInv, TypeOK
      <4>2. IsSequence(SctList(Leaf.tbs)) /\ SctList(Leaf.tbs) # <<>>
        BY <2>4, <4>1, SctListMeans
      <4>3. Len(SctList(Leaf.tbs)) \in Nat \ {0}
        BY <4>2 DEF IsSequence
      <4>4. QED
        BY <3>7, <4>3
    <3>9. sctError = {SctOutcome(ca, 1)}
      BY <3>6, <3>8 DEF FirstKept
    <3>10. QED
      BY <3>1, <3>7, <3>9
  <2>5. QED
    BY <1>1, <2>3, <2>4, ReportedWhenReturning
<1>5. QED
  BY <1>2, <1>3, <1>4 DEF Next, VerifyDigest, VerifyBytes, Begin

(***************************************************************************)
(* Of several authorities or SCTs that all fail it is the first failure in *)
(* their order that is returned, for every trust store and certificate,    *)
(* whichever of several authorities validated the leaf.                    *)
(***************************************************************************)
THEOREM FirstFailureReported == Spec => []FirstFailureIsReported
<1>1. Init => FirstKept /\ FirstFailureIsReported
  BY DEF Init, AtStart, FirstKept, FirstFailureIsReported, Rank
<1>2. CInv /\ CInv' /\ FirstKept /\ FirstFailureIsReported /\ [Next]_vars
        => FirstKept' /\ FirstFailureIsReported'
  BY NextFirstKept, NextReported
<1>3. QED
  BY <1>1, <1>2, InvariantCInv, PTL DEF Spec
=============================================================================
