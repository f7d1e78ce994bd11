-------------------------- MODULE StrictJsonProofs --------------------------
(***************************************************************************)
(* The budget of parse_strict, and that it accepts exactly the strict      *)
(* documents, for documents of every length and any limits.                *)
(***************************************************************************)
EXTENDS StrictJson, SymbolicProofs, FiniteSetTheorems, SequenceTheorems

Tokens == Keys \union {"[", "]", "{", "}", "scalar"}
Nodes == {"scalar", "[", "{"}
Opening == {"[", "{"}
Closing == {"]", "}"}
Frames == [type : {"array", "object"}, keys : SUBSET Keys]

TypeOK ==
    /\ doc \in Seq(Tokens)
    /\ read \in 0..Len(doc)
    /\ open \in Seq(Frames)
    /\ owed \in BOOLEAN
    /\ nodes \in Nat
    /\ result \in {"Pending", Ok, "Json", "TooManyJsonNodes"}

\* The cell counts the values produced, and one too many ends the visit.
Charged ==
    /\ nodes = Count(Nodes, read)
    /\ nodes <= MaxJsonNodes + 1
    /\ result = "TooManyJsonNodes" <=> nodes > MaxJsonNodes

\* The object of the key at i is still open after n tokens.
OpenAt(i, n) == \A k \in i..n : DepthAt(k) >= DepthAt(i)

\* The stack holds the containers left open by the first n tokens.
OnDepth(stack, n) ==
    /\ Len(stack) = DepthAt(n)
    /\ \A m \in 0..n : DepthAt(m) <= MaxDepth

\* The key set of an open object holds every key that was read in it.
KeysAreKept(stack, n) ==
    \A i \in 1..n :
        doc[i] \in Keys /\ OpenAt(i, n) =>
            DepthAt(i) \in DOMAIN stack /\ doc[i] \in stack[DepthAt(i)].keys

\* It holds no other: a key of a sibling or of an outer object is not in it.
KeysAreItsOwn(stack, n) ==
    \A d \in DOMAIN stack : \A key \in stack[d].keys :
        \E i \in 1..n : doc[i] = key /\ DepthAt(i) = d /\ OpenAt(i, n)

NoneRepeated(n) ==
    \A i, j \in 1..n :
        i < j /\ doc[i] \in Keys /\ doc[j] \in Keys /\ SameObject(i, j) => doc[i] # doc[j]

\* Of a visit that goes on: a failing callback leaves the containers as they were.
InStep(stack, n) ==
    /\ OnDepth(stack, n)
    /\ KeysAreKept(stack, n) /\ KeysAreItsOwn(stack, n)
    /\ NoneRepeated(n)
Visiting == result = "Pending" => InStep(open, read)

(***************************************************************************)
(* What parse_strict accepts is strict: no object of it holds a key twice, *)
(* it has no more values than the budget and is nested no deeper than the  *)
(* recursion guard allows.                                                 *)
(***************************************************************************)
AcceptedIsStrict == result = Ok => Strict

(***************************************************************************)
(* A callback of the visitor fails only on a document that is not strict,  *)
(* whatever follows: a key it refuses is a repeat within one object, and   *)
(* an exhausted budget is exhausted.                                       *)
(***************************************************************************)
RefusesOnlyUnstrict ==
    [][(VisitScalar \/ VisitContainer \/ VisitKey) /\ result' # "Pending" => ~Strict]_vars

IInv == TypeOK /\ Charged /\ Visiting /\ AcceptedIsStrict

-----------------------------------------------------------------------------
(***************************************************************************)
(* The counts are natural numbers, and one more token adds one to those    *)
(* that count it.                                                          *)
(***************************************************************************)
LEMMA CountStep ==
  ASSUME NEW kind, NEW n \in Nat
  PROVE  /\ Count(kind, n) \in Nat
         /\ Count(kind, 0) = 0
         /\ Count(kind, n + 1) = Count(kind, n) + (IF doc[n + 1] \in kind THEN 1 ELSE 0)
<1> DEFINE found(m) == {i \in 1..m : doc[i] \in kind}
<1>1. IsFiniteSet(found(n)) /\ Cardinality(found(n)) \in Nat
  <2>1. IsFiniteSet(1..n)
    BY FS_Interval
  <2>2. found(n) \in SUBSET (1..n)
    OBVIOUS
  <2>3. IsFiniteSet(found(n))
    BY <2>1, <2>2, FS_Subset
  <2> QED BY <2>3, FS_CardinalityType
<1>2. Count(kind, 0) = 0
  <2>1. found(0) = {}
    OBVIOUS
  <2> QED BY <2>1, FS_EmptySet DEF Count
<1>3. CASE doc[n + 1] \in kind
  <2>1. found(n + 1) = found(n) \cup {n + 1} /\ n + 1 \notin found(n)
    BY <1>3
  <2>2. Cardinality(found(n) \cup {n + 1}) = Cardinality(found(n)) + 1
    BY <1>1, <2>1, FS_AddElement
  <2> QED BY <1>1, <1>2, <1>3, <2>1, <2>2 DEF Count
<1>4. CASE doc[n + 1] \notin kind
  <2>1. found(n + 1) = found(n)
    BY <1>4
  <2> QED BY <1>1, <1>2, <1>4, <2>1 DEF Count
<1> QED BY <1>3, <1>4

(***************************************************************************)
(* How a token moves the depth.                                            *)
(***************************************************************************)
LEMMA DepthStep ==
  ASSUME NEW n \in Nat
  PROVE  /\ DepthAt(n) \in Int
         /\ DepthAt(0) = 0
         /\ doc[n + 1] \in Opening => DepthAt(n + 1) = DepthAt(n) + 1
         /\ doc[n + 1] \in Closing => DepthAt(n + 1) = DepthAt(n) - 1
         /\ doc[n + 1] \notin Opening \union Closing => DepthAt(n + 1) = DepthAt(n)
<1>1. /\ Count(Opening, n) \in Nat /\ Count(Opening, 0) = 0
      /\ Count(Opening, n + 1) = Count(Opening, n) + (IF doc[n + 1] \in Opening THEN 1 ELSE 0)
  BY CountStep
<1>2. /\ Count(Closing, n) \in Nat /\ Count(Closing, 0) = 0
      /\ Count(Closing, n + 1) = Count(Closing, n) + (IF doc[n + 1] \in Closing THEN 1 ELSE 0)
  BY CountStep
<1>3. \A m : DepthAt(m) = Count(Opening, m) - Count(Closing, m)
  BY DEF DepthAt, Opening, Closing
<1>4. ~(doc[n + 1] \in Opening /\ doc[n + 1] \in Closing)
  BY DEF Opening, Closing
<1> QED BY <1>1, <1>2, <1>3, <1>4

-----------------------------------------------------------------------------
(***************************************************************************)
(* What each kind of token does to the open containers, once the stack is  *)
(* changed as the visitor changes it.                                      *)
(***************************************************************************)
LEMMA AnyToken ==
  ASSUME NEW stack, NEW n \in Nat, InStep(stack, n), DepthAt(n + 1) <= MaxDepth
  PROVE  /\ \A m \in 0..(n + 1) : DepthAt(m) <= MaxDepth
         /\ \A i \in 1..n : doc[i] \in Keys /\ OpenAt(i, n + 1) =>
               /\ DepthAt(i) \in DOMAIN stack /\ doc[i] \in stack[DepthAt(i)].keys
               /\ DepthAt(i) <= DepthAt(n + 1)
         /\ \A d \in DOMAIN stack : d <= DepthAt(n + 1) => \A key \in stack[d].keys :
               \E i \in 1..(n + 1) : doc[i] = key /\ DepthAt(i) = d /\ OpenAt(i, n + 1)
<1>1. \A m \in 0..(n + 1) : m \in 0..n \/ m = n + 1
  OBVIOUS
<1>2. \A i \in 1..n : OpenAt(i, n + 1) => OpenAt(i, n) /\ DepthAt(i) <= DepthAt(n + 1)
  <2> SUFFICES ASSUME NEW i \in 1..n, OpenAt(i, n + 1)
               PROVE  OpenAt(i, n) /\ DepthAt(i) <= DepthAt(n + 1)
    OBVIOUS
  <2>1. n + 1 \in i..(n + 1) /\ i..n \subseteq i..(n + 1)
    OBVIOUS
  <2>2. DepthAt(i) \in Int /\ DepthAt(n + 1) \in Int
    BY DepthStep
  <2> QED BY <2>1, <2>2 DEF OpenAt
<1>3. /\ \A m \in 0..(n + 1) : DepthAt(m) <= MaxDepth
      /\ \A i \in 1..n : doc[i] \in Keys /\ OpenAt(i, n + 1) =>
            /\ DepthAt(i) \in DOMAIN stack /\ doc[i] \in stack[DepthAt(i)].keys
            /\ DepthAt(i) <= DepthAt(n + 1)
  BY <1>1, <1>2 DEF InStep, OnDepth, KeysAreKept
<1>4. ASSUME NEW d \in DOMAIN stack, d <= DepthAt(n + 1), NEW key \in stack[d].keys
      PROVE  \E i \in 1..(n + 1) : doc[i] = key /\ DepthAt(i) = d /\ OpenAt(i, n + 1)
  <2>1. PICK i \in 1..n : doc[i] = key /\ DepthAt(i) = d /\ OpenAt(i, n)
    BY DEF InStep, KeysAreItsOwn
  <2>2. \A k \in i..(n + 1) : k \in i..n \/ k = n + 1
    OBVIOUS
  <2>3. DepthAt(n + 1) >= DepthAt(i)
    BY <1>4, <2>1, DepthStep
  <2>4. OpenAt(i, n + 1)
    BY <2>1, <2>2, <2>3 DEF OpenAt
  <2> QED BY <2>1, <2>4
<1> QED BY <1>3, <1>4

LEMMA ScalarToken ==
  ASSUME NEW stack \in Seq(Frames), NEW n \in Nat, InStep(stack, n),
         doc[n + 1] = "scalar", "scalar" \notin Keys
  PROVE  InStep(stack, n + 1)
<1>1. DepthAt(n + 1) = DepthAt(n)
  BY DepthStep DEF Opening, Closing
<1>2. DepthAt(n + 1) <= MaxDepth
  BY <1>1 DEF InStep, OnDepth
<1>3. OnDepth(stack, n + 1)
  BY <1>1, <1>2, AnyToken DEF InStep, OnDepth
<1>4. \A i \in 1..(n + 1) : doc[i] \in Keys => i \in 1..n
  OBVIOUS
<1>5. KeysAreKept(stack, n + 1)
  BY <1>2, <1>4, AnyToken DEF KeysAreKept
<1>6. NoneRepeated(n + 1)
  BY <1>4 DEF InStep, NoneRepeated
<1>7. KeysAreItsOwn(stack, n + 1)
  <2>1. \A d \in DOMAIN stack : d <= DepthAt(n + 1)
    BY <1>1 DEF InStep, OnDepth
  <2> QED BY <1>2, <2>1, AnyToken DEF KeysAreItsOwn
<1> QED BY <1>3, <1>5, <1>6, <1>7 DEF InStep

LEMMA OpeningToken ==
  ASSUME NEW stack \in Seq(Frames), NEW frame \in Frames, frame.keys = {}, NEW n \in Nat,
         InStep(stack, n), doc[n + 1] \in Opening, Opening \cap Keys = {}, Len(stack) < MaxDepth, MaxDepth \in Nat
  PROVE  InStep(Append(stack, frame), n + 1)
<1>1. DepthAt(n + 1) = DepthAt(n) + 1
  BY DepthStep
<1>2. Len(stack) = DepthAt(n)
  BY DEF InStep, OnDepth
<1>3. DepthAt(n + 1) <= MaxDepth
  BY <1>1, <1>2
<1>4. Len(Append(stack, frame)) = Len(stack) + 1
  OBVIOUS
<1>5. OnDepth(Append(stack, frame), n + 1)
  BY <1>1, <1>2, <1>3, <1>4, AnyToken DEF OnDepth
<1>6. \A i \in 1..(n + 1) : doc[i] \in Keys => i \in 1..n
  OBVIOUS
<1>7. \A d \in DOMAIN stack : d \in DOMAIN Append(stack, frame) /\ Append(stack, frame)[d] = stack[d]
  OBVIOUS
<1>8. KeysAreKept(Append(stack, frame), n + 1)
  BY <1>3, <1>6, <1>7, AnyToken DEF KeysAreKept
<1>9. NoneRepeated(n + 1)
  BY <1>6 DEF InStep, NoneRepeated
<1>10. KeysAreItsOwn(Append(stack, frame), n + 1)
  <2> SUFFICES ASSUME NEW d \in DOMAIN Append(stack, frame), NEW key \in Append(stack, frame)[d].keys
               PROVE  \E i \in 1..(n + 1) : doc[i] = key /\ DepthAt(i) = d /\ OpenAt(i, n + 1)
    BY DEF KeysAreItsOwn
  <2>1. d # Len(stack) + 1
    OBVIOUS
  <2>2. d \in DOMAIN stack /\ d <= DepthAt(n + 1)
    BY <1>1, <1>2, <1>4, <2>1
  <2> QED BY <1>3, <1>7, <2>2, AnyToken
<1> QED BY <1>5, <1>8, <1>9, <1>10 DEF InStep

LEMMA FrontLength ==
  ASSUME NEW stack \in Seq(Frames), stack # <<>>
  PROVE  /\ Front(stack) \in Seq(Frames)
         /\ Len(Front(stack)) = Len(stack) - 1
         /\ \A d \in 1..(Len(stack) - 1) : d \in DOMAIN Front(stack) /\ Front(stack)[d] = stack[d]
<1> DEFINE n == Len(stack) - 1
<1>1. Len(stack) \in Nat \ {0} /\ Front(stack) = SubSeq(stack, 1, n)
  BY DEF Front
<1>2. n \in Nat /\ \A i \in 1..n : stack[i] \in Frames
  BY <1>1
<1> HIDE DEF n
<1>3. /\ SubSeq(stack, 1, n) \in Seq(Frames)
      /\ Len(SubSeq(stack, 1, n)) = IF 1 <= n THEN n - 1 + 1 ELSE 0
      /\ \A i \in 1..(n - 1 + 1) : SubSeq(stack, 1, n)[i] = stack[1 + i - 1]
  BY <1>2, SubSeqProperties
<1>4. Len(SubSeq(stack, 1, n)) = n
  BY <1>2, <1>3
<1>5. \A d \in 1..n : SubSeq(stack, 1, n)[d] = stack[d]
  BY <1>2, <1>3
<1> QED BY <1>1, <1>3, <1>4, <1>5 DEF n

LEMMA ClosingToken ==
  ASSUME NEW stack \in Seq(Frames), stack # <<>>, NEW n \in Nat, InStep(stack, n),
         doc[n + 1] \in Closing, Closing \cap Keys = {}, MaxDepth \in Nat
  PROVE  InStep(Front(stack), n + 1)
<1>1. DepthAt(n + 1) = DepthAt(n) - 1 /\ DepthAt(n) \in Int
  BY DepthStep
<1>2. Len(stack) = DepthAt(n) /\ DepthAt(n) <= MaxDepth
  BY DEF InStep, OnDepth
<1>3. DepthAt(n + 1) <= MaxDepth
  BY <1>1, <1>2
<1>4. /\ Len(Front(stack)) = Len(stack) - 1
      /\ \A d \in 1..(Len(stack) - 1) : d \in DOMAIN Front(stack) /\ Front(stack)[d] = stack[d]
  BY FrontLength
<1>5. OnDepth(Front(stack), n + 1)
  BY <1>1, <1>2, <1>3, <1>4, AnyToken DEF OnDepth
<1>6. \A i \in 1..(n + 1) : doc[i] \in Keys => i \in 1..n
  OBVIOUS
<1>7. KeysAreKept(Front(stack), n + 1)
  <2> SUFFICES ASSUME NEW i \in 1..(n + 1), doc[i] \in Keys, OpenAt(i, n + 1)
               PROVE  DepthAt(i) \in DOMAIN Front(stack) /\ doc[i] \in Front(stack)[DepthAt(i)].keys
    BY DEF KeysAreKept
  <2>1. i \in 1..n
    BY <1>6
  <2>2. /\ DepthAt(i) \in DOMAIN stack /\ doc[i] \in stack[DepthAt(i)].keys
        /\ DepthAt(i) <= DepthAt(n + 1)
    BY <1>3, <2>1, AnyToken
  <2>3. DepthAt(i) \in 1..(Len(stack) - 1)
    BY <1>1, <1>2, <2>2
  <2> QED BY <1>4, <2>2, <2>3
<1>8. NoneRepeated(n + 1)
  BY <1>6 DEF InStep, NoneRepeated
<1>9. KeysAreItsOwn(Front(stack), n + 1)
  <2> SUFFICES ASSUME NEW d \in DOMAIN Front(stack), NEW key \in Front(stack)[d].keys
               PROVE  \E i \in 1..(n + 1) : doc[i] = key /\ DepthAt(i) = d /\ OpenAt(i, n + 1)
    BY DEF KeysAreItsOwn
  <2>1. d \in 1..(Len(stack) - 1)
    BY FrontLength
  <2>2. d \in DOMAIN stack /\ d <= DepthAt(n + 1)
    BY <1>1, <1>2, <2>1
  <2>3. key \in stack[d].keys
    BY <1>4, <2>1
  <2> QED BY <1>3, <2>2, <2>3, AnyToken, SMTT(30)
<1> QED BY <1>5, <1>7, <1>8, <1>9 DEF InStep

LEMMA WiderFrame ==
  ASSUME NEW stack \in Seq(Frames), stack # <<>>, NEW key \in Keys
  PROVE  LET grown == [stack EXCEPT ![Len(stack)].keys = @ \union {key}] IN
         /\ grown \in Seq(Frames)
         /\ DOMAIN grown = DOMAIN stack /\ Len(grown) = Len(stack)
         /\ grown[Len(stack)].keys = stack[Len(stack)].keys \union {key}
         /\ \A d \in DOMAIN stack : d # Len(stack) => grown[d] = stack[d]
         /\ \A d \in DOMAIN stack : stack[d].keys \subseteq grown[d].keys
<1> DEFINE wider == stack[Len(stack)].keys \union {key}
           grown == [stack EXCEPT ![Len(stack)].keys = @ \union {key}]
<1>1. Len(stack) \in DOMAIN stack
  OBVIOUS
<1>2. grown = [stack EXCEPT ![Len(stack)] = [stack[Len(stack)] EXCEPT !.keys = wider]]
  OBVIOUS
<1>3. stack[Len(stack)] \in Frames
  BY <1>1
<1>4. wider \in SUBSET Keys
  BY <1>3 DEF Frames
<1> HIDE DEF wider
<1>5. /\ [stack[Len(stack)] EXCEPT !.keys = wider].keys = wider
      /\ [stack[Len(stack)] EXCEPT !.keys = wider] \in Frames
  BY <1>3, <1>4 DEF Frames
<1>6. grown \in Seq(Frames) /\ DOMAIN grown = DOMAIN stack /\ Len(grown) = Len(stack)
  <2> DEFINE last == [stack[Len(stack)] EXCEPT !.keys = wider]
  <2> HIDE DEF last, grown
  <2>1. last \in Frames /\ grown = [stack EXCEPT ![Len(stack)] = last]
    BY <1>2, <1>5 DEF last
  <2> QED BY <1>1, <2>1
<1>7. grown[Len(stack)].keys = wider
  BY <1>1, <1>2, <1>5
<1>8. \A d \in DOMAIN stack : d # Len(stack) => grown[d] = stack[d]
  BY <1>2
<1> QED BY <1>6, <1>7, <1>8 DEF wider

(***************************************************************************)
(* A key is compared with those of the innermost object only: by           *)
(* KeysAreKept these include every key it could repeat.                    *)
(***************************************************************************)
LEMMA KeyToken ==
  ASSUME NEW stack \in Seq(Frames), stack # <<>>, NEW n \in Nat, InStep(stack, n),
         doc[n + 1] \in Keys, (Opening \union Closing) \cap Keys = {}, MaxDepth \in Nat,
         doc[n + 1] \notin Last(stack).keys
  PROVE  InStep([stack EXCEPT ![Len(stack)].keys = @ \union {doc[n + 1]}], n + 1)
<1> DEFINE grown == [stack EXCEPT ![Len(stack)].keys = @ \union {doc[n + 1]}]
<1>1. DepthAt(n + 1) = DepthAt(n) /\ DepthAt(n) \in Int
  BY DepthStep
<1>2. Len(stack) = DepthAt(n) /\ DepthAt(n) <= MaxDepth
  BY DEF InStep, OnDepth
<1>3. DepthAt(n + 1) <= MaxDepth
  BY <1>1, <1>2
<1>4. Len(stack) \in DOMAIN stack
  OBVIOUS
<1>5. /\ DOMAIN grown = DOMAIN stack /\ Len(grown) = Len(stack)
      /\ grown[Len(stack)].keys = stack[Len(stack)].keys \union {doc[n + 1]}
      /\ \A d \in DOMAIN stack : d # Len(stack) => grown[d] = stack[d]
      /\ \A d \in DOMAIN stack : stack[d].keys \subseteq grown[d].keys
  BY WiderFrame
<1>6. OnDepth(grown, n + 1)
  BY <1>1, <1>2, <1>3, <1>5, AnyToken DEF OnDepth
<1>7. KeysAreKept(grown, n + 1)
  <2> SUFFICES ASSUME NEW i \in 1..(n + 1), doc[i] \in Keys, OpenAt(i, n + 1)
               PROVE  DepthAt(i) \in DOMAIN grown /\ doc[i] \in grown[DepthAt(i)].keys
    BY DEF KeysAreKept
  <2>1. CASE i \in 1..n
    BY <1>3, <1>5, <2>1, AnyToken
  <2>2. CASE i = n + 1
    BY <1>1, <1>2, <1>4, <1>5, <2>2
  <2> QED BY <2>1, <2>2
<1>8. NoneRepeated(n + 1)
  <2> SUFFICES ASSUME NEW i \in 1..(n + 1), NEW j \in 1..(n + 1), i < j,
                      doc[i] \in Keys, doc[j] \in Keys, SameObject(i, j)
               PROVE  doc[i] # doc[j]
    BY DEF NoneRepeated
  <2>1. CASE j \in 1..n
    BY <2>1 DEF InStep, NoneRepeated
  <2>2. CASE j = n + 1
    <3>1. i \in 1..n /\ OpenAt(i, n + 1) /\ DepthAt(i) = Len(stack)
      BY <1>1, <1>2, <2>2 DEF SameObject, OpenAt
    <3>2. doc[i] \in stack[Len(stack)].keys
      BY <1>3, <3>1, AnyToken
    <3> QED BY <2>2, <3>2 DEF Last
  <2> QED BY <2>1, <2>2
<1>9. KeysAreItsOwn(grown, n + 1)
  <2> SUFFICES ASSUME NEW d \in DOMAIN grown, NEW key \in grown[d].keys
               PROVE  \E i \in 1..(n + 1) : doc[i] = key /\ DepthAt(i) = d /\ OpenAt(i, n + 1)
    BY DEF KeysAreItsOwn
  <2>1. d \in DOMAIN stack /\ d <= DepthAt(n + 1)
    BY <1>1, <1>2, <1>5
  <2>2. CASE key \in stack[d].keys
    BY <1>3, <2>1, <2>2, AnyToken
  <2>3. CASE d = Len(stack) /\ key = doc[n + 1]
    <3>1. DepthAt(n + 1) = d /\ n + 1 \in 1..(n + 1)
      BY <1>1, <1>2, <2>3
    <3>2. OpenAt(n + 1, n + 1)
      BY <1>1 DEF OpenAt
    <3> QED BY <2>3, <3>1, <3>2
  <2>4. key \in stack[d].keys \/ (d = Len(stack) /\ key = doc[n + 1])
    BY <1>5, <2>1
  <2> QED BY <2>2, <2>3, <2>4
<1> QED BY <1>6, <1>7, <1>8, <1>9 DEF InStep

-----------------------------------------------------------------------------
LEMMA InitIInv == ASSUME Init PROVE IInv
<1>0. MaxJsonNodes \in Nat \ {0} /\ MaxDepth \in Nat /\ doc \in Seq(Tokens)
  BY StrictJsonAssumption DEF StrictJsonAssumption, Init, Tokens
<1>1. TypeOK
  <2>1. read \in 0..Len(doc) /\ open \in Seq(Frames) /\ nodes \in Nat
    BY <1>0 DEF Init
  <2> QED BY <1>0, <2>1 DEF Init, TypeOK
<1>2. Count(Nodes, 0) = 0 /\ DepthAt(0) = 0
  BY CountStep, DepthStep
<1>3. Charged
  BY <1>0, <1>2 DEF Init, Charged
<1>4. \A m \in 0..0 : m = 0
  OBVIOUS
<1>5. InStep(open, read)
  <2>1. OnDepth(open, read)
    BY <1>0, <1>2, <1>4 DEF Init, OnDepth
  <2>2. KeysAreKept(open, read) /\ KeysAreItsOwn(open, read) /\ NoneRepeated(read)
    BY DEF Init, KeysAreKept, KeysAreItsOwn, NoneRepeated
  <2> QED BY <2>1, <2>2 DEF InStep
<1>6. AcceptedIsStrict
  BY DEF Init, AcceptedIsStrict, Ok
<1> QED BY <1>1, <1>3, <1>5, <1>6 DEF IInv, Visiting

(***************************************************************************)
(* The document is the same throughout, and so is what is said of it.      *)
(***************************************************************************)
LEMMA SameDocument ==
  ASSUME doc' = doc
  PROVE  /\ \A kind, n : Count(kind, n)' = Count(kind, n)
         /\ \A n : DepthAt(n)' = DepthAt(n)
         /\ \A stack, n : InStep(stack, n)' = InStep(stack, n)
         /\ Strict' = Strict
<1>1. \A kind, n : Count(kind, n)' = Count(kind, n)
  BY DEF Count
<1>2. \A n : DepthAt(n)' = DepthAt(n)
  BY <1>1 DEF DepthAt
<1>3. \A i, j : SameObject(i, j)' = SameObject(i, j)
  BY <1>2 DEF SameObject
<1>4. \A i, n : OpenAt(i, n)' = OpenAt(i, n)
  BY <1>2 DEF OpenAt
<1>5. \A stack, n : InStep(stack, n)' = InStep(stack, n)
  BY <1>2, <1>3, <1>4 DEF InStep, OnDepth, KeysAreKept, KeysAreItsOwn, NoneRepeated
<1>6. Strict' = Strict
  BY <1>1, <1>2, <1>3 DEF Strict
<1> QED BY <1>1, <1>2, <1>5, <1>6

(***************************************************************************)
(* One token more, of one kind after the other.                            *)
(***************************************************************************)
LEMMA StepIInv == ASSUME IInv, [Next]_vars PROVE IInv'
<1> USE DEF IInv
<1>0. /\ MaxJsonNodes \in Nat \ {0} /\ MaxDepth \in Nat
      /\ "scalar" \notin Keys /\ Opening \cap Keys = {} /\ Closing \cap Keys = {}
      /\ (Opening \union Closing) \cap Keys = {}
      /\ Nodes \cap Keys = {} /\ Nodes \cap Closing = {}
  BY StrictJsonAssumption DEF StrictJsonAssumption, Opening, Closing, Nodes
<1>1. /\ doc \in Seq(Tokens) /\ read \in Nat /\ read <= Len(doc) /\ Len(doc) \in Nat
      /\ open \in Seq(Frames) /\ nodes \in Nat /\ owed \in BOOLEAN
  BY DEF TypeOK
<1>2. /\ Count(Nodes, read) \in Nat
      /\ doc[read + 1] \in Nodes => Count(Nodes, read + 1) = Count(Nodes, read) + 1
      /\ doc[read + 1] \notin Nodes => Count(Nodes, read + 1) = Count(Nodes, read)
  <2>1. /\ Count(Nodes, read) \in Nat
        /\ Count(Nodes, read + 1) = Count(Nodes, read) + (IF doc[read + 1] \in Nodes THEN 1 ELSE 0)
    BY <1>1, CountStep
  <2> QED BY <2>1
<1>3. HasToken => read + 1 \in 0..Len(doc)
  BY <1>1 DEF HasToken
<1>4. result = "Pending" => InStep(open, read) /\ nodes = Count(Nodes, read) /\ nodes <= MaxJsonNodes
  BY <1>0, <1>1 DEF Visiting, Charged
<1>5. CASE VisitScalar
  <2>1. /\ result = "Pending" /\ HasToken /\ doc[read + 1] = "scalar"
        /\ nodes' = nodes + 1 /\ read' = read + 1 /\ doc' = doc /\ open' = open /\ owed' = FALSE
        /\ result' = IF nodes + 1 > MaxJsonNodes THEN "TooManyJsonNodes" ELSE "Pending"
    BY <1>5 DEF VisitScalar, Charge, Fail, Token
  <2>2. TypeOK'
    <3>1. nodes' \in Nat /\ read' \in 0..Len(doc')
      BY <1>1, <1>3, <2>1
    <3> QED BY <1>1, <2>1, <3>1 DEF TypeOK
  <2>3. InStep(open, read + 1)
    BY <1>0, <1>1, <1>4, <2>1, ScalarToken
  <2>4. Charged'
    <3>1. Count(Nodes, read)' = Count(Nodes, read + 1)
      BY <2>1 DEF Count
    <3>2. doc[read + 1] \in Nodes
      BY <2>1 DEF Nodes
    <3> QED BY <1>0, <1>1, <1>2, <1>4, <2>1, <3>1, <3>2 DEF Charged
  <2>5. Visiting'
    BY <2>1, <2>3, SameDocument DEF Visiting
  <2>6. AcceptedIsStrict'
    BY <2>1 DEF AcceptedIsStrict, Ok
  <2> QED BY <2>2, <2>4, <2>5, <2>6
<1>6. CASE VisitContainer
  <2> DEFINE frame == [type |-> IF Token = "[" THEN "array" ELSE "object", keys |-> {}]
  <2>1. /\ result = "Pending" /\ HasToken /\ doc[read + 1] \in Opening /\ Len(open) < MaxDepth
        /\ nodes' = nodes + 1 /\ read' = read + 1 /\ doc' = doc /\ owed' = FALSE
        /\ open' = Append(open, frame)
        /\ result' = IF nodes + 1 > MaxJsonNodes THEN "TooManyJsonNodes" ELSE "Pending"
    BY <1>6 DEF VisitContainer, Charge, Fail, Token, Opening
  <2>2. frame \in Frames /\ frame.keys = {}
    BY DEF Frames
  <2> HIDE DEF frame
  <2>3. TypeOK'
    <3>1. nodes' \in Nat /\ read' \in 0..Len(doc') /\ open' \in Seq(Frames)
      BY <1>1, <1>3, <2>1, <2>2
    <3> QED BY <1>1, <2>1, <3>1 DEF TypeOK
  <2>4. InStep(Append(open, frame), read + 1)
    BY <1>0, <1>1, <1>4, <2>1, <2>2, OpeningToken
  <2>5. Charged'
    <3>1. Count(Nodes, read)' = Count(Nodes, read + 1)
      BY <2>1 DEF Count
    <3>2. doc[read + 1] \in Nodes
      BY <2>1 DEF Nodes, Opening
    <3> QED BY <1>0, <1>1, <1>2, <1>4, <2>1, <3>1, <3>2 DEF Charged
  <2>6. Visiting'
    BY <2>1, <2>4, SameDocument DEF Visiting
  <2>7. AcceptedIsStrict'
    BY <2>1 DEF AcceptedIsStrict, Ok
  <2> QED BY <2>3, <2>5, <2>6, <2>7
<1>7. CASE VisitKey
  <2>1. /\ result = "Pending" /\ HasToken /\ doc[read + 1] \in Keys /\ open # <<>>
        /\ read' = read + 1 /\ doc' = doc /\ nodes' = nodes
    BY <1>7 DEF VisitKey, Token, Inside
  <2>2. Charged' /\ ~(nodes > MaxJsonNodes)
    <3>1. Count(Nodes, read)' = Count(Nodes, read + 1)
      BY <2>1 DEF Count
    <3>2. doc[read + 1] \notin Nodes
      BY <1>0, <2>1
    <3>3. ~(nodes > MaxJsonNodes)
      BY <1>0, <1>1, <1>4, <2>1
    <3>4. result' # "TooManyJsonNodes"
      BY <1>7, <2>1, <3>3 DEF VisitKey, Fail
    <3> QED BY <1>0, <1>1, <1>2, <1>4, <2>1, <3>1, <3>2, <3>3, <3>4 DEF Charged
  <2>3. CASE Token \in Last(open).keys
    <3>1. result' = "Json" /\ open' = open /\ owed' = owed
      BY <1>7, <2>1, <2>2, <2>3 DEF VisitKey, Fail
    <3> QED BY <1>1, <1>3, <2>1, <2>2, <3>1 DEF TypeOK, Visiting, AcceptedIsStrict, Ok
  <2>4. CASE Token \notin Last(open).keys
    <3> DEFINE grown == [open EXCEPT ![Len(open)].keys = @ \union {doc[read + 1]}]
    <3>1. result' = "Pending" /\ open' = grown /\ owed' = TRUE
      BY <1>7, <2>1, <2>4 DEF VisitKey, Token
    <3>2. InStep(grown, read + 1)
      BY <1>0, <1>1, <1>4, <2>1, <2>4, KeyToken DEF Token
    <3>3. grown \in Seq(Frames)
      BY <1>1, <2>1, WiderFrame
    <3> HIDE DEF grown
    <3>4. TypeOK'
      BY <1>1, <1>3, <2>1, <3>1, <3>3 DEF TypeOK
    <3>5. Visiting'
      BY <2>1, <3>1, <3>2, SameDocument DEF Visiting
    <3> QED BY <2>2, <3>1, <3>4, <3>5 DEF AcceptedIsStrict, Ok
  <2> QED BY <2>3, <2>4
<1>8. CASE EndContainer
  <2>1. /\ result = "Pending" /\ result' = "Pending" /\ HasToken
        /\ doc[read + 1] \in Closing /\ open # <<>>
        /\ read' = read + 1 /\ doc' = doc /\ nodes' = nodes /\ owed' = owed /\ open' = Front(open)
    BY <1>8 DEF EndContainer, Closes, Token, Inside, Closing
  <2>2. Front(open) \in Seq(Frames)
    BY <1>1, <2>1, FrontLength
  <2>3. TypeOK'
    BY <1>1, <1>3, <2>1, <2>2 DEF TypeOK
  <2>4. InStep(Front(open), read + 1)
    BY <1>0, <1>1, <1>4, <2>1, ClosingToken
  <2>5. Charged'
    <3>1. Count(Nodes, read)' = Count(Nodes, read + 1)
      BY <2>1 DEF Count
    <3>2. doc[read + 1] \notin Nodes
      BY <1>0, <2>1
    <3> QED BY <1>0, <1>1, <1>2, <1>4, <2>1, <3>1, <3>2 DEF Charged
  <2>6. Visiting'
    BY <2>1, <2>4, SameDocument DEF Visiting
  <2>7. AcceptedIsStrict'
    BY <2>1 DEF AcceptedIsStrict, Ok
  <2> QED BY <2>3, <2>5, <2>6, <2>7
<1>9. CASE Malformed
  <2>1. /\ result = "Pending" /\ ~(nodes > MaxJsonNodes)
        /\ UNCHANGED <<doc, read, open, owed, nodes>>
    <3>1. result = "Pending" /\ UNCHANGED <<doc, read, open, owed, nodes>>
      BY <1>9 DEF Malformed
    <3> QED BY <1>0, <1>1, <1>4, <3>1
  <2>2. result' = "Json"
    BY <1>9, <2>1 DEF Malformed, Fail
  <2>3. Charged'
    BY <2>1, <2>2 DEF Charged, Count
  <2> QED BY <1>1, <2>1, <2>2, <2>3 DEF TypeOK, Visiting, AcceptedIsStrict, Ok
<1>10. CASE End
  <2>1. /\ result = "Pending" /\ result' \in {"Json", Ok} /\ ~(nodes > MaxJsonNodes)
        /\ UNCHANGED <<doc, read, open, owed, nodes>>
    BY <1>0, <1>1, <1>4, <1>10 DEF End
  <2>2. Charged'
    BY <2>1 DEF Charged, Count, Ok
  <2>3. result' = Ok => Strict
    <3> SUFFICES ASSUME result' = Ok PROVE Strict
      OBVIOUS
    <3>1. read = Len(doc)
      BY <1>1, <1>10 DEF End, HasToken, Ok
    <3>2. Count(Nodes, Len(doc)) <= MaxJsonNodes
      BY <1>4, <2>1, <3>1
    <3>3. \A n \in 1..Len(doc) : n \in 0..Len(doc)
      OBVIOUS
    <3> QED BY <1>4, <2>1, <3>1, <3>2, <3>3 DEF Strict, InStep, OnDepth, NoneRepeated, Nodes
  <2>4. AcceptedIsStrict'
    BY <2>1, <2>3, SameDocument DEF AcceptedIsStrict
  <2> QED BY <1>1, <2>1, <2>2, <2>4 DEF TypeOK, Visiting, Ok
<1>11. CASE UNCHANGED vars
  BY <1>11, SameDocument DEF vars, TypeOK, Charged, Visiting, AcceptedIsStrict
<1> QED BY <1>5, <1>6, <1>7, <1>8, <1>9, <1>10, <1>11 DEF Next

-----------------------------------------------------------------------------
LEMMA Invariance == Spec => []IInv
<1>1. Init => IInv
  BY InitIInv
<1>2. IInv /\ [Next]_vars => IInv'
  BY StepIInv
<1> QED BY <1>1, <1>2, PTL DEF Spec

(***************************************************************************)
(* The budget cell of parse_strict counts the values of any document       *)
(* produced so far, never exceeds the budget by more than one, and each of *)
(* the two errors is returned for its own reason.                          *)
(***************************************************************************)
THEOREM BudgetHonest == Spec => []BudgetIsHonest
<1>1. IInv => BudgetIsHonest
  BY DEF IInv, Charged, BudgetIsHonest, Nodes
<1> QED BY <1>1, Invariance, PTL

(***************************************************************************)
(* parse_strict accepts no document that repeats a key within an object,   *)
(* outgrows the budget or is nested too deep, whatever its length.         *)
(***************************************************************************)
THEOREM AcceptsOnlyStrict == Spec => []AcceptedIsStrict
<1>1. IInv => AcceptedIsStrict
  BY DEF IInv
<1> QED BY <1>1, Invariance, PTL

(***************************************************************************)
(* A longer prefix counts at least as much.                                *)
(***************************************************************************)
LEMMA CountGrows ==
  ASSUME NEW kind, NEW m \in Nat, NEW n \in Nat, m <= n
  PROVE  Count(kind, m) <= Count(kind, n)
<1> DEFINE found(k) == {i \in 1..k : doc[i] \in kind}
<1>1. IsFiniteSet(1..n)
  BY FS_Interval
<1>2. found(n) \in SUBSET (1..n) /\ found(m) \in SUBSET found(n)
  OBVIOUS
<1>3. IsFiniteSet(found(n))
  BY <1>1, <1>2, FS_Subset
<1>4. Cardinality(found(m)) <= Cardinality(found(n))
  BY <1>2, <1>3, FS_Subset
<1> QED BY <1>4 DEF Count

\* A callback that fails has found a repeated key or one value too many.
LEMMA CallbackRefuses ==
  ASSUME IInv, VisitScalar \/ VisitContainer \/ VisitKey, result' # "Pending"
  PROVE  ~Strict
<1>1. /\ result = "Pending" /\ HasToken /\ doc' = doc /\ read' = read + 1
  BY DEF VisitScalar, VisitContainer, VisitKey
<1>2. /\ read \in Nat /\ Len(doc) \in Nat /\ read + 1 <= Len(doc) /\ read + 1 \in 1..Len(doc)
      /\ open \in Seq(Frames)
  BY <1>1 DEF IInv, TypeOK, HasToken
<1>3. InStep(open, read) /\ nodes <= MaxJsonNodes /\ nodes \in Nat /\ MaxJsonNodes \in Nat
  <2>1. InStep(open, read) /\ ~(nodes > MaxJsonNodes) /\ nodes \in Nat
    BY <1>1 DEF IInv, TypeOK, Visiting, Charged
  <2>2. MaxJsonNodes \in Nat
    BY StrictJsonAssumption DEF StrictJsonAssumption
  <2> QED BY <2>1, <2>2
<1>4. CASE VisitScalar \/ VisitContainer
  <2>1. nodes' = nodes + 1 /\ nodes' > MaxJsonNodes
    BY <1>1, <1>4 DEF VisitScalar, VisitContainer, Charge
  <2>2. nodes' = Count(Nodes, read)'
    BY StepIInv DEF IInv, Charged, Next
  <2>3. Count(Nodes, read)' = Count(Nodes, read + 1)
    BY <1>1 DEF Count
  <2>4. Count(Nodes, read + 1) <= Count(Nodes, Len(doc))
    BY <1>2, CountGrows
  <2>5. Count(Nodes, read + 1) \in Nat /\ Count(Nodes, Len(doc)) \in Nat
    BY <1>2, CountStep
  <2>6. ~(Count(Nodes, Len(doc)) <= MaxJsonNodes)
    BY <1>3, <2>1, <2>2, <2>3, <2>4, <2>5
  <2> QED BY <2>6 DEF Strict, Nodes
<1>5. CASE VisitKey
  <2>1. doc[read + 1] \in Keys /\ open # <<>> /\ doc[read + 1] \in Last(open).keys
    BY <1>1, <1>5 DEF VisitKey, Inside, Token
  <2>2. Len(open) \in DOMAIN open /\ Last(open) = open[Len(open)]
    BY <1>2, <2>1 DEF Last
  <2>3. PICK i \in 1..read : doc[i] = doc[read + 1] /\ DepthAt(i) = Len(open) /\ OpenAt(i, read)
    BY <1>3, <2>1, <2>2 DEF InStep, KeysAreItsOwn
  <2>4. doc[read + 1] \notin Opening \union Closing
    BY <2>1, StrictJsonAssumption DEF StrictJsonAssumption, Opening, Closing
  <2>5. DepthAt(read + 1) = DepthAt(i)
    BY <1>2, <1>3, <2>3, <2>4, DepthStep DEF InStep, OnDepth
  <2>6. \A k \in i..(read + 1) : k \in i..read \/ k = read + 1
    BY <1>2
  <2>7. DepthAt(i) \in Int
    BY <1>2, DepthStep
  <2>8. \A k \in i..(read + 1) : DepthAt(k) >= DepthAt(i)
    BY <2>3, <2>5, <2>6, <2>7 DEF OpenAt
  <2>9. i \in 1..Len(doc) /\ i < read + 1 /\ SameObject(i, read + 1)
    BY <1>2, <2>5, <2>8 DEF SameObject
  <2> QED BY <1>2, <2>1, <2>3, <2>9 DEF Strict
<1> QED BY <1>4, <1>5

(***************************************************************************)
(* The callbacks of parse_strict refuse no document for a repeated key or  *)
(* a spent budget that has neither, whatever its length and nesting.       *)
(***************************************************************************)
THEOREM RefusalsAreRight == Spec => RefusesOnlyUnstrict
<1>1. IInv /\ [Next]_vars =>
        [(VisitScalar \/ VisitContainer \/ VisitKey) /\ result' # "Pending" => ~Strict]_vars
  BY CallbackRefuses
<1> QED BY <1>1, Invariance, PTL DEF Spec, RefusesOnlyUnstrict

-----------------------------------------------------------------------------
(***************************************************************************)
(* The grammar.  The spans derived by a rule are smaller than the span it  *)
(* derives, in the order of Weight, so the recursive definition has a      *)
(* solution and its rules hold.                                            *)
(***************************************************************************)
Rule(text, is, s) ==
    LET i == s[2]
        j == s[3]
    IN  CASE s[1] = "value" ->
                \/ i = j /\ text[i] = "scalar"
                \/ i < j /\ text[i] = "[" /\ text[j] = "]" /\ is[<<"elements", i + 1, j - 1>>]
                \/ i < j /\ text[i] = "{" /\ text[j] = "}" /\ is[<<"members", i + 1, j - 1>>]
          [] s[1] = "elements" ->
                i > j \/ \E k \in i..j : is[<<"value", i, k>>] /\ is[<<"elements", k + 1, j>>]
          [] s[1] = "members" ->
                \/ i > j
                \/ /\ text[i] \in Keys
                   /\ \E k \in (i + 1)..j : is[<<"value", i + 1, k>>] /\ is[<<"members", k + 1, j>>]

Weight(s) == 2 * (s[3] - s[2] + 1) + (IF s[1] = "value" THEN 0 ELSE 1)

LEMMA SpanIs ==
    ASSUME NEW text, Len(text) \in Nat
    PROVE  /\ \A kind \in {"value", "elements", "members"}, i \in 1..(Len(text) + 1), j \in 0..Len(text) :
                  i <= j + 1 => <<kind, i, j>> \in Spans(text)
           /\ \A s \in Spans(text) :
                  /\ s = <<s[1], s[2], s[3]>> /\ s[1] \in {"value", "elements", "members"}
                  /\ s[2] \in 1..(Len(text) + 1) /\ s[3] \in 0..Len(text) /\ s[2] <= s[3] + 1
                  /\ Weight(s) \in 0..(2 * Len(text) + 1)
<1>1. ASSUME NEW kind \in {"value", "elements", "members"}, NEW i \in 1..(Len(text) + 1), NEW j \in 0..Len(text),
             i <= j + 1
      PROVE  <<kind, i, j>> \in Spans(text)
  BY <1>1 DEF Spans
<1>2. ASSUME NEW s \in Spans(text)
      PROVE  /\ s = <<s[1], s[2], s[3]>> /\ s[1] \in {"value", "elements", "members"}
             /\ s[2] \in 1..(Len(text) + 1) /\ s[3] \in 0..Len(text) /\ s[2] <= s[3] + 1
  BY DEF Spans
<1>3. ASSUME NEW s \in Spans(text)
      PROVE  Weight(s) \in 0..(2 * Len(text) + 1)
  <2>1. s[2] \in 1..(Len(text) + 1) /\ s[3] \in 0..Len(text) /\ s[2] <= s[3] + 1
    BY <1>2
  <2> DEFINE i == s[2]
             j == s[3]
  <2>2. j - i + 1 \in 0..Len(text)
    BY <2>1
  <2>3. Weight(s) = 2 * (j - i + 1) + (IF s[1] = "value" THEN 0 ELSE 1)
    BY DEF Weight
  <2> HIDE DEF i, j
  <2>4. QED
    BY <2>2, <2>3
<1>4. QED
  BY <1>1, <1>2, <1>3

LEMMA IsSpan ==
    ASSUME NEW text, Len(text) \in Nat, NEW kind \in {"value", "elements", "members"},
           NEW i \in Int, NEW j \in Int, 1 <= i, i <= j + 1, j <= Len(text)
    PROVE  <<kind, i, j>> \in Spans(text)
<1>1. i \in 1..(Len(text) + 1) /\ j \in 0..Len(text)
  OBVIOUS
<1>2. QED
  BY <1>1, SpanIs

LEMMA WeightIs ==
    \A kind, i, j : Weight(<<kind, i, j>>) = 2 * (j - i + 1) + (IF kind = "value" THEN 0 ELSE 1)
  BY DEF Weight

\* A rule reads lighter spans only.
LEMMA RuleReads ==
    ASSUME NEW text, Len(text) \in Nat, NEW s \in Spans(text), NEW f, NEW g,
           \A t \in Spans(text) : Weight(t) < Weight(s) => f[t] = g[t]
    PROVE  Rule(text, f, s) = Rule(text, g, s)
<1> DEFINE i == s[2]
           j == s[3]
<1>1. s[1] \in {"value", "elements", "members"} /\ i \in 1..(Len(text) + 1) /\ j \in 0..Len(text) /\ i <= j + 1
  BY SpanIs
<1>w. Weight(s) = 2 * (j - i + 1) + (IF s[1] = "value" THEN 0 ELSE 1)
  BY DEF Weight
<1> HIDE DEF i, j
<1>2. CASE s[1] = "value"
  <2>1. i < j => f[<<"elements", i + 1, j - 1>>] = g[<<"elements", i + 1, j - 1>>]
    <3> SUFFICES ASSUME i < j PROVE f[<<"elements", i + 1, j - 1>>] = g[<<"elements", i + 1, j - 1>>]
      OBVIOUS
    <3>1. <<"elements", i + 1, j - 1>> \in Spans(text)
      <4>1. i + 1 \in Int /\ j - 1 \in Int /\ 1 <= i + 1 /\ i + 1 <= (j - 1) + 1 /\ j - 1 <= Len(text)
        BY <1>1
      <4>2. QED
        BY <4>1, IsSpan
    <3>2. Weight(<<"elements", i + 1, j - 1>>) < Weight(s)
      BY <1>1, <1>2, <1>w, WeightIs
    <3>3. QED
      BY <3>1, <3>2
  <2>2. i < j => f[<<"members", i + 1, j - 1>>] = g[<<"members", i + 1, j - 1>>]
    <3> SUFFICES ASSUME i < j PROVE f[<<"members", i + 1, j - 1>>] = g[<<"members", i + 1, j - 1>>]
      OBVIOUS
    <3>1. <<"members", i + 1, j - 1>> \in Spans(text)
      <4>1. i + 1 \in Int /\ j - 1 \in Int /\ 1 <= i + 1 /\ i + 1 <= (j - 1) + 1 /\ j - 1 <= Len(text)
        BY <1>1
      <4>2. QED
        BY <4>1, IsSpan
    <3>2. Weight(<<"members", i + 1, j - 1>>) < Weight(s)
      BY <1>1, <1>2, <1>w, WeightIs
    <3>3. QED
      BY <3>1, <3>2
  <2>3. QED
    BY <1>2, <2>1, <2>2 DEF Rule, i, j
<1>3. CASE s[1] = "elements"
  <2>1. ASSUME NEW k \in i..j
        PROVE  /\ f[<<"value", i, k>>] = g[<<"value", i, k>>]
               /\ f[<<"elements", k + 1, j>>] = g[<<"elements", k + 1, j>>]
    <3>1. <<"value", i, k>> \in Spans(text) /\ <<"elements", k + 1, j>> \in Spans(text)
      <4>1. /\ i \in Int /\ k \in Int /\ 1 <= i /\ i <= k + 1 /\ k <= Len(text)
            /\ k + 1 \in Int /\ j \in Int /\ 1 <= k + 1 /\ k + 1 <= j + 1 /\ j <= Len(text)
        BY <1>1
      <4>2. QED
        BY <4>1, IsSpan
    <3>2. Weight(<<"value", i, k>>) < Weight(s) /\ Weight(<<"elements", k + 1, j>>) < Weight(s)
      <4>1. Weight(<<"value", i, k>>) = 2 * (k - i + 1) + 0 /\ Weight(<<"elements", k + 1, j>>) = 2 * (j - (k + 1) + 1) + 1
        BY WeightIs
      <4>2. Weight(s) = 2 * (j - i + 1) + 1
        BY <1>3, <1>w
      <4>3. QED
        BY <1>1, <4>1, <4>2
    <3>3. QED
      BY <3>1, <3>2
  <2>2. QED
    BY <1>3, <2>1 DEF Rule, i, j
<1>4. CASE s[1] = "members"
  <2>1. ASSUME NEW k \in (i + 1)..j
        PROVE  /\ f[<<"value", i + 1, k>>] = g[<<"value", i + 1, k>>]
               /\ f[<<"members", k + 1, j>>] = g[<<"members", k + 1, j>>]
    <3>1. <<"value", i + 1, k>> \in Spans(text) /\ <<"members", k + 1, j>> \in Spans(text)
      <4>1. /\ i + 1 \in Int /\ k \in Int /\ 1 <= i + 1 /\ i + 1 <= k + 1 /\ k <= Len(text)
            /\ k + 1 \in Int /\ j \in Int /\ 1 <= k + 1 /\ k + 1 <= j + 1 /\ j <= Len(text)
        BY <1>1
      <4>2. QED
        BY <4>1, IsSpan
    <3>2. Weight(<<"value", i + 1, k>>) < Weight(s) /\ Weight(<<"members", k + 1, j>>) < Weight(s)
      <4>1. Weight(<<"value", i + 1, k>>) = 2 * (k - (i + 1) + 1) + 0 /\ Weight(<<"members", k + 1, j>>) = 2 * (j - (k + 1) + 1) + 1
        BY WeightIs
      <4>2. Weight(s) = 2 * (j - i + 1) + 1
        BY <1>4, <1>w
      <4>3. QED
        BY <1>1, <4>1, <4>2
    <3>3. QED
      BY <3>1, <3>2
  <2>2. QED
    BY <1>4, <2>1 DEF Rule, i, j
<1>5. QED
  BY <1>1, <1>2, <1>3, <1>4

LighterThan(text, n) == {s \in Spans(text) : Weight(s) < n}

DerivesUpTo(f, text, n) == f = [s \in LighterThan(text, n) |-> Rule(text, f, s)]

LEMMA DerivedUpToExists ==
    ASSUME NEW text, Len(text) \in Nat, NEW n \in Nat
    PROVE  \E f : DerivesUpTo(f, text, n)
<1> DEFINE without == {k \in Nat : ~\E f : DerivesUpTo(f, text, k)}
<1>1. SUFFICES ASSUME without # {}
               PROVE  FALSE
  OBVIOUS
<1>2. PICK k \in without : \A j \in without : k <= j
  BY <1>1, LeastElement
<1>3. CASE k = 0
  <2>1. LighterThan(text, 0) = {}
    BY SpanIs DEF LighterThan
  <2> DEFINE f == [s \in {} |-> TRUE]
  <2>2. f = [s \in LighterThan(text, 0) |-> Rule(text, f, s)]
    BY <2>1
  <2>3. QED
    BY <1>2, <1>3, <2>2 DEF DerivesUpTo
<1>4. CASE k # 0
  <2>1. k \in Nat /\ k - 1 \in Nat /\ k - 1 \notin without
    BY <1>2, <1>4
  <2>2. PICK f : DerivesUpTo(f, text, k - 1)
    BY <2>1
  <2> DEFINE g == [s \in LighterThan(text, k) |-> Rule(text, f, s)]
  <2>3. \A s \in LighterThan(text, k - 1) : s \in LighterThan(text, k) /\ g[s] = f[s]
    <3>1. \A s \in LighterThan(text, k - 1) : s \in LighterThan(text, k)
      BY <2>1, SpanIs DEF LighterThan
    <3>2. \A s \in LighterThan(text, k - 1) : f[s] = Rule(text, f, s)
      BY <2>2 DEF DerivesUpTo
    <3>3. QED
      BY <3>1, <3>2
  <2> HIDE DEF g
  <2>4. ASSUME NEW s \in LighterThan(text, k)
        PROVE  Rule(text, f, s) = Rule(text, g, s)
    <3>1. s \in Spans(text) /\ Weight(s) \in Nat /\ Weight(s) < k
      BY SpanIs DEF LighterThan
    <3>2. \A t \in Spans(text) : Weight(t) < Weight(s) => t \in LighterThan(text, k - 1)
      BY <2>1, <3>1, SpanIs DEF LighterThan
    <3>3. \A t \in Spans(text) : Weight(t) < Weight(s) => f[t] = g[t]
      BY <2>3, <3>2
    <3>4. QED
      BY <3>1, <3>3, RuleReads
  <2>5. g = [s \in LighterThan(text, k) |-> Rule(text, g, s)]
    BY <2>4 DEF g
  <2>6. QED
    BY <1>2, <2>5 DEF DerivesUpTo
<1>5. QED
  BY <1>3, <1>4

LEMMA DerivedByRule ==
    ASSUME NEW text, Len(text) \in Nat, NEW s \in Spans(text)
    PROVE  Derived(text)[s] = Rule(text, Derived(text), s)
<1> DEFINE all == Spans(text)
           IsSolution(f) == f = [u \in all |-> Rule(text, f, u)]
<1>1. PICK f : DerivesUpTo(f, text, 2 * Len(text) + 2)
  BY DerivedUpToExists
<1>2. LighterThan(text, 2 * Len(text) + 2) = all
  BY SpanIs DEF LighterThan
<1>3. IsSolution(f)
  BY <1>1, <1>2 DEF DerivesUpTo
<1>4. IsSolution(Derived(text))
  <2>1. Derived(text) = CHOOSE h : IsSolution(h)
    BY DEF Derived, Rule
  <2> HIDE DEF IsSolution
  <2>2. QED
    BY <1>3, <2>1
<1>5. QED
  BY <1>4

Value(text, i, j) == Derived(text)[<<"value", i, j>>]
Content(text, type, i, j) == Derived(text)[<<IF type = "array" THEN "elements" ELSE "members", i, j>>]
Opener(type) == IF type = "array" THEN "[" ELSE "{"
Closer(type) == IF type = "array" THEN "]" ELSE "}"

LEMMA ValueIs ==
    ASSUME NEW text, Len(text) \in Nat, NEW i \in 1..(Len(text) + 1), NEW j \in 0..Len(text), i <= j + 1
    PROVE  Value(text, i, j) <=>
              \/ i = j /\ text[i] = "scalar"
              \/ i < j /\ \E type \in {"array", "object"} :
                             text[i] = Opener(type) /\ text[j] = Closer(type) /\ Content(text, type, i + 1, j - 1)
<1> DEFINE s == <<"value", i, j>>
           is == Derived(text)
<1>1. s \in Spans(text) /\ s[1] = "value" /\ s[2] = i /\ s[3] = j
  BY SpanIs
<1>2. is[s] = Rule(text, is, s)
  BY <1>1, DerivedByRule
<1> HIDE DEF s, is
<1>3. Rule(text, is, s) <=>
          \/ i = j /\ text[i] = "scalar"
          \/ i < j /\ text[i] = "[" /\ text[j] = "]" /\ is[<<"elements", i + 1, j - 1>>]
          \/ i < j /\ text[i] = "{" /\ text[j] = "}" /\ is[<<"members", i + 1, j - 1>>]
  BY <1>1 DEF Rule
<1>4. QED
  BY <1>2, <1>3 DEF Value, Content, Opener, Closer, s, is

LEMMA ElementsAre ==
    ASSUME NEW text, Len(text) \in Nat, NEW i \in 1..(Len(text) + 1), NEW j \in 0..Len(text), i <= j + 1
    PROVE  Content(text, "array", i, j) <=>
              i > j \/ \E k \in i..j : Value(text, i, k) /\ Content(text, "array", k + 1, j)
<1> DEFINE s == <<"elements", i, j>>
           is == Derived(text)
<1>1. s \in Spans(text) /\ s[1] = "elements" /\ s[2] = i /\ s[3] = j
  BY SpanIs
<1>2. is[s] = Rule(text, is, s)
  BY <1>1, DerivedByRule
<1> HIDE DEF s, is
<1>3. Rule(text, is, s) <=> i > j \/ \E k \in i..j : is[<<"value", i, k>>] /\ is[<<"elements", k + 1, j>>]
  BY <1>1 DEF Rule
<1>4. QED
  BY <1>2, <1>3 DEF Value, Content, s, is

LEMMA MembersAre ==
    ASSUME NEW text, Len(text) \in Nat, NEW i \in 1..(Len(text) + 1), NEW j \in 0..Len(text), i <= j + 1
    PROVE  Content(text, "object", i, j) <=>
              \/ i > j
              \/ text[i] \in Keys /\ \E k \in (i + 1)..j : Value(text, i + 1, k) /\ Content(text, "object", k + 1, j)
<1> DEFINE s == <<"members", i, j>>
           is == Derived(text)
<1>1. s \in Spans(text) /\ s[1] = "members" /\ s[2] = i /\ s[3] = j
  BY SpanIs
<1>2. is[s] = Rule(text, is, s)
  BY <1>1, DerivedByRule
<1> HIDE DEF s, is
<1>3. Rule(text, is, s) <=>
          \/ i > j
          \/ text[i] \in Keys /\ \E k \in (i + 1)..j : is[<<"value", i + 1, k>>] /\ is[<<"members", k + 1, j>>]
  BY <1>1 DEF Rule
<1>4. QED
  BY <1>2, <1>3 DEF Value, Content, s, is

-----------------------------------------------------------------------------
(***************************************************************************)
(* The visitor and the grammar.  Fits says that a container whose tokens   *)
(* are read up to `from` ends with its bracket at `to`.  A document can be *)
(* completed when an end is there for every open container.                *)
(***************************************************************************)
Fits(text, type, from, to) ==
    from < to /\ text[to] = Closer(type) /\ Content(text, type, from + 1, to - 1)

Ends(text, stack) == [1..(Len(stack) + 1) -> 0..Len(text)]

Closed(text, stack, c) ==
    c[1] = Len(text) /\ \A d \in 1..Len(stack) : Fits(text, stack[d].type, c[d + 1], c[d])

Completes(text, stack, due, n) ==
    \E c \in Ends(text, stack) :
        /\ Closed(text, stack, c)
        /\ IF due THEN n < c[Len(stack) + 1] /\ Value(text, n + 1, c[Len(stack) + 1])
           ELSE c[Len(stack) + 1] = n

KeysApart == Keys \cap {"[", "]", "{", "}", "scalar"} = {}

Starters == {"scalar", "[", "{"}

LEMMA ValueStarts ==
    ASSUME NEW text, Len(text) \in Nat, NEW i \in 1..Len(text), NEW j \in 0..Len(text), i <= j, Value(text, i, j)
    PROVE  text[i] \in Starters /\ (text[i] = "scalar" <=> i = j)
<1>1. i \in 1..(Len(text) + 1) /\ i <= j + 1
  OBVIOUS
<1>2. \/ i = j /\ text[i] = "scalar"
      \/ i < j /\ \E type \in {"array", "object"} :
                     text[i] = Opener(type) /\ text[j] = Closer(type) /\ Content(text, type, i + 1, j - 1)
  BY <1>1, ValueIs
<1>3. \A type \in {"array", "object"} : Opener(type) \in {"[", "{"}
  BY DEF Opener
<1>4. CASE i = j
  <2>1. text[i] = "scalar"
    BY <1>2, <1>4
  <2>2. QED
    BY <1>4, <2>1 DEF Starters
<1>5. CASE i # j
  <2>1. text[i] \in {"[", "{"}
    BY <1>2, <1>3, <1>5
  <2>2. QED
    BY <1>5, <2>1 DEF Starters
<1>6. QED
  BY <1>4, <1>5

LEMMA ScalarValue ==
    ASSUME NEW text, Len(text) \in Nat, NEW i \in 1..Len(text), text[i] = "scalar"
    PROVE  Value(text, i, i)
<1>1. i \in 1..(Len(text) + 1) /\ i \in 0..Len(text) /\ i <= i + 1
  OBVIOUS
<1>2. QED
  BY <1>1, ValueIs

LEMMA ContainerValue ==
    ASSUME NEW text, Len(text) \in Nat, NEW i \in 1..Len(text), NEW j \in 0..Len(text), i <= j,
           NEW type \in {"array", "object"}, text[i] = Opener(type)
    PROVE  Value(text, i, j) <=> Fits(text, type, i, j)
<1>1. i \in 1..(Len(text) + 1) /\ i <= j + 1
  OBVIOUS
<1>2. text[i] # "scalar" /\ \A t \in {"array", "object"} : text[i] = Opener(t) => t = type
  BY DEF Opener
<1>3. Value(text, i, j) <=>
          i < j /\ \E t \in {"array", "object"} :
                     text[i] = Opener(t) /\ text[j] = Closer(t) /\ Content(text, t, i + 1, j - 1)
  BY <1>1, <1>2, ValueIs
<1>4. QED
  BY <1>2, <1>3 DEF Fits

LEMMA FitsClosed ==
    ASSUME NEW text, Len(text) \in Nat, KeysApart,
           NEW type \in {"array", "object"}, NEW from \in 0..Len(text), NEW to \in 0..Len(text),
           Fits(text, type, from, to)
    PROVE  /\ text[from + 1] = Closer(type) => to = from + 1
           /\ text[from + 1] # Closer(type) =>
                 /\ type = "array" => text[from + 1] \in Starters
                 /\ type = "object" => text[from + 1] \in Keys
<1>1. from < to /\ text[to] = Closer(type) /\ Content(text, type, from + 1, to - 1)
  BY DEF Fits
<1>0. from < to
  BY <1>1
<1>2. from + 1 \in 1..(Len(text) + 1) /\ to - 1 \in 0..Len(text) /\ from + 1 <= (to - 1) + 1 /\ from + 1 \in 1..Len(text)
  BY <1>0
<1>3. CASE to = from + 1
  BY <1>1, <1>3
<1>4. CASE to # from + 1
  <2>1. ~(from + 1 > to - 1)
    BY <1>0, <1>4
  <2>2. CASE type = "array"
    <3>1. PICK k \in (from + 1)..(to - 1) : Value(text, from + 1, k)
      BY <1>1, <1>2, <2>1, <2>2, ElementsAre
    <3>2. k \in 0..Len(text) /\ from + 1 <= k
      OBVIOUS
    <3>3. text[from + 1] \in Starters
      BY <1>2, <3>1, <3>2, ValueStarts
    <3>4. QED
      BY <2>2, <3>3 DEF Starters, Closer
  <2>3. CASE type = "object"
    <3>1. text[from + 1] \in Keys
      BY <1>1, <1>2, <2>1, <2>3, MembersAre
    <3>2. text[from + 1] # Closer(type)
      BY <2>3, <3>1 DEF Closer, KeysApart
    <3>3. QED
      BY <2>3, <3>1, <3>2
  <2>4. QED
    BY <2>2, <2>3
<1>5. QED
  BY <1>3, <1>4

LEMMA FitsEmpty ==
    ASSUME NEW text, Len(text) \in Nat, NEW type \in {"array", "object"}, NEW from \in 0..Len(text),
           from < Len(text), text[from + 1] = Closer(type)
    PROVE  Fits(text, type, from, from + 1)
<1>1. from + 1 \in 1..(Len(text) + 1) /\ from \in 0..Len(text) /\ from + 1 <= from + 1 /\ from + 1 > from
  OBVIOUS
<1>2. Content(text, type, from + 1, from)
  BY <1>1, ElementsAre, MembersAre
<1>3. (from + 1) - 1 = from
  OBVIOUS
<1>4. QED
  BY <1>1, <1>2, <1>3 DEF Fits

LEMMA FitsElement ==
    ASSUME NEW text, Len(text) \in Nat, NEW from \in 0..Len(text), NEW to \in 0..Len(text),
           from < Len(text), text[from + 1] # "]"
    PROVE  Fits(text, "array", from, to) <=>
              \E k \in 0..Len(text) : from < k /\ Value(text, from + 1, k) /\ Fits(text, "array", k, to)
<1>1. CASE ~(from < to)
  <2>1. \A k \in 0..Len(text) : from < k => ~(k < to)
    BY <1>1
  <2>2. \A k \in 0..Len(text) : from + 1 < k => ~(k < to)
    BY <1>1
  <2>3. QED
    BY <1>1, <2>1, <2>2 DEF Fits
<1>2. CASE from < to /\ text[to] # Closer("array")
  BY <1>2 DEF Fits
<1>3. CASE from < to /\ text[to] = Closer("array")
  <2>1. to # from + 1
    BY <1>3 DEF Closer
  <2>2. from + 1 \in 1..(Len(text) + 1) /\ to - 1 \in 0..Len(text) /\ from + 1 <= (to - 1) + 1 /\ ~(from + 1 > to - 1)
    <3>1. from < to
      BY <1>3
    <3>2. QED
      BY <2>1, <3>1
  <2>3. Content(text, "array", from + 1, to - 1) <=>
            \E k \in (from + 1)..(to - 1) : Value(text, from + 1, k) /\ Content(text, "array", k + 1, to - 1)
    BY <2>2, ElementsAre
  <2>4. \A k \in Int : k \in (from + 1)..(to - 1) <=> k \in 0..Len(text) /\ from < k /\ k < to
    BY <2>2
  <2>5. QED
    BY <1>3, <2>3, <2>4 DEF Fits
<1>4. QED
  BY <1>1, <1>2, <1>3

LEMMA FitsMember ==
    ASSUME NEW text, Len(text) \in Nat, KeysApart,
           NEW from \in 0..Len(text), NEW to \in 0..Len(text), from < Len(text), text[from + 1] \in Keys
    PROVE  Fits(text, "object", from, to) <=>
              \E k \in 0..Len(text) : from + 1 < k /\ Value(text, (from + 1) + 1, k) /\ Fits(text, "object", k, to)
<1>1. CASE ~(from < to)
  <2>1. \A k \in 0..Len(text) : from < k => ~(k < to)
    BY <1>1
  <2>2. \A k \in 0..Len(text) : from + 1 < k => ~(k < to)
    BY <1>1
  <2>3. QED
    BY <1>1, <2>1, <2>2 DEF Fits
<1>2. CASE from < to /\ text[to] # Closer("object")
  BY <1>2 DEF Fits
<1>3. CASE from < to /\ text[to] = Closer("object")
  <2>1. to # from + 1
    BY <1>3 DEF Closer, KeysApart
  <2>2. from + 1 \in 1..(Len(text) + 1) /\ to - 1 \in 0..Len(text) /\ from + 1 <= (to - 1) + 1 /\ ~(from + 1 > to - 1)
    <3>1. from < to
      BY <1>3
    <3>2. QED
      BY <2>1, <3>1
  <2>3. Content(text, "object", from + 1, to - 1) <=>
            \E k \in ((from + 1) + 1)..(to - 1) : Value(text, (from + 1) + 1, k) /\ Content(text, "object", k + 1, to - 1)
    BY <2>2, MembersAre
  <2>4. \A k \in Int : k \in ((from + 1) + 1)..(to - 1) <=> k \in 0..Len(text) /\ from + 1 < k /\ k < to
    BY <2>2
  <2>5. QED
    BY <1>3, <2>3, <2>4 DEF Fits
<1>4. QED
  BY <1>1, <1>2, <1>3

Stacks == Seq(Frames)

LEMMA StackIs ==
    ASSUME NEW stack \in Stacks
    PROVE  /\ Len(stack) \in Nat
           /\ \A d \in 1..Len(stack) : stack[d].type \in {"array", "object"}
           /\ stack # <<>> => Len(stack) \in 1..Len(stack) /\ Last(stack) = stack[Len(stack)]
<1>1. Len(stack) \in Nat /\ \A d \in 1..Len(stack) : stack[d] \in Frames
  BY LenProperties, ElementOfSeq DEF Stacks
<1>2. \A d \in 1..Len(stack) : stack[d].type \in {"array", "object"}
  BY <1>1 DEF Frames
<1>3. stack # <<>> => Len(stack) \in 1..Len(stack)
  <2>1. stack # <<>> => Len(stack) # 0
    BY EmptySeq DEF Stacks
  <2>2. QED
    BY <1>1, <2>1
<1>4. QED
  BY <1>1, <1>2, <1>3 DEF Last

\* Only the end behind the innermost container's content is moved.
LEMMA EndMoved ==
    ASSUME NEW text, Len(text) \in Nat, NEW stack \in Stacks, stack # <<>>,
           NEW c \in Ends(text, stack), Closed(text, stack, c), NEW k \in 0..Len(text),
           Fits(text, Last(stack).type, k, c[Len(stack)])
    PROVE  \E b \in Ends(text, stack) :
              Closed(text, stack, b) /\ b[Len(stack) + 1] = k /\ b[Len(stack)] = c[Len(stack)]
<1> DEFINE D == Len(stack)
           b == [c EXCEPT ![D + 1] = k]
<1>1. D \in Nat /\ D \in 1..D /\ Last(stack) = stack[D]
  BY StackIs
<1>2. DOMAIN c = 1..(D + 1) /\ \A d \in 1..(D + 1) : c[d] \in 0..Len(text)
  BY DEF Ends
<1> HIDE DEF D
<1>3. D + 1 \in 1..(D + 1) /\ D \in 1..(D + 1) /\ 1 \in 1..D /\ D # D + 1 /\ 1 # D + 1
  BY <1>1
<1>4. b[D + 1] = k /\ \A d \in 1..D : b[d] = c[d]
  <2>1. b[D + 1] = k
    BY <1>2, <1>3
  <2>2. \A d \in 1..D : d \in 1..(D + 1) /\ d # D + 1
    BY <1>1
  <2>3. QED
    BY <1>2, <2>1, <2>2
<1>5. b \in [1..(D + 1) -> 0..Len(text)]
  BY <1>2
<1> HIDE DEF b
<1>6. c[1] = Len(text) /\ \A d \in 1..D : Fits(text, stack[d].type, c[d + 1], c[d])
  BY DEF Closed, D
<1>7. ASSUME NEW d \in 1..D
      PROVE  Fits(text, stack[d].type, b[d + 1], b[d])
  <2>1. CASE d = D
    BY <1>1, <1>3, <1>4, <2>1 DEF D
  <2>2. CASE d # D
    <3>1. d + 1 \in 1..D
      BY <1>1, <2>2
    <3>2. QED
      BY <1>4, <1>6, <3>1
  <2>3. QED
    BY <2>1, <2>2
<1>8. b \in Ends(text, stack)
  BY <1>5 DEF Ends, D
<1>9. Closed(text, stack, b)
  <2>1. b[1] = Len(text)
    BY <1>3, <1>4, <1>6
  <2>2. QED
    BY <1>7, <2>1 DEF Closed, D
<1>10. b[Len(stack) + 1] = k /\ b[Len(stack)] = c[Len(stack)]
  <2>1. D \in 1..D
    BY <1>1 DEF D
  <2>2. QED
    BY <1>4, <2>1 DEF D
<1>11. QED
  BY <1>8, <1>9, <1>10

LEMMA InnermostFits ==
    ASSUME NEW text, Len(text) \in Nat, NEW stack \in Stacks, NEW c \in Ends(text, stack), Closed(text, stack, c)
    PROVE  /\ c[Len(stack) + 1] \in 0..Len(text)
           /\ stack # <<>> =>
                 /\ c[Len(stack)] \in 0..Len(text)
                 /\ Fits(text, Last(stack).type, c[Len(stack) + 1], c[Len(stack)])
                 /\ c[Len(stack) + 1] < Len(text)
<1>1. Len(stack) \in Nat /\ Len(stack) + 1 \in 1..(Len(stack) + 1)
  BY StackIs
<1>2. ASSUME stack # <<>>
      PROVE  /\ c[Len(stack)] \in 0..Len(text)
             /\ Fits(text, Last(stack).type, c[Len(stack) + 1], c[Len(stack)])
  <2>1. Len(stack) \in 1..Len(stack) /\ Last(stack) = stack[Len(stack)] /\ Len(stack) \in 1..(Len(stack) + 1)
    BY <1>1, <1>2, StackIs
  <2>2. QED
    BY <2>1 DEF Closed, Ends
<1>3. c[Len(stack) + 1] \in 0..Len(text)
  BY <1>1 DEF Ends
<1>4. stack # <<>> => c[Len(stack) + 1] < Len(text)
  <2>1. stack # <<>> => c[Len(stack) + 1] < c[Len(stack)]
    BY <1>2 DEF Fits
  <2>2. QED
    BY <1>2, <1>3, <2>1
<1>5. QED
  BY <1>2, <1>3, <1>4

\* What can be next.
LEMMA DueStarts ==
    ASSUME NEW text, Len(text) \in Nat, NEW stack \in Stacks, NEW n \in Nat, Completes(text, stack, TRUE, n)
    PROVE  n < Len(text) /\ text[n + 1] \in Starters
<1>1. PICK c \in Ends(text, stack) :
          Closed(text, stack, c) /\ n < c[Len(stack) + 1] /\ Value(text, n + 1, c[Len(stack) + 1])
  BY DEF Completes
<1>2. c[Len(stack) + 1] \in 0..Len(text)
  BY <1>1, InnermostFits
<1>3. n < Len(text) /\ n + 1 \in 1..Len(text) /\ n + 1 <= c[Len(stack) + 1]
  BY <1>1, <1>2
<1>4. QED
  BY <1>1, <1>2, <1>3, ValueStarts

LEMMA ContentStarts ==
    ASSUME NEW text, Len(text) \in Nat, KeysApart, NEW stack \in Stacks, stack # <<>>, NEW n \in Nat,
           Completes(text, stack, FALSE, n)
    PROVE  /\ n < Len(text)
           /\ text[n + 1] # Closer(Last(stack).type) =>
                 /\ Last(stack).type = "array" => text[n + 1] \in Starters
                 /\ Last(stack).type = "object" => text[n + 1] \in Keys
<1>1. PICK c \in Ends(text, stack) : Closed(text, stack, c) /\ c[Len(stack) + 1] = n
  BY DEF Completes
<1>2. n \in 0..Len(text) /\ c[Len(stack)] \in 0..Len(text) /\ Fits(text, Last(stack).type, n, c[Len(stack)]) /\ n < Len(text)
  BY <1>1, InnermostFits
<1>3. Last(stack).type \in {"array", "object"}
  BY StackIs
<1>4. QED
  BY <1>2, <1>3, FitsClosed

LEMMA AtEnd ==
    ASSUME NEW text, Len(text) \in Nat, NEW n \in Nat
    PROVE  /\ Completes(text, <<>>, FALSE, n) <=> n = Len(text)
           /\ Completes(text, <<>>, TRUE, 0) <=> Value(text, 1, Len(text))
<1>1. Len(<<>>) = 0 /\ Len(<<>>) + 1 = 1
  OBVIOUS
<1>2. \A c \in Ends(text, <<>>) : Closed(text, <<>>, c) <=> c[1] = Len(text)
  BY <1>1 DEF Closed
<1> DEFINE b == [d \in 1..1 |-> Len(text)]
<1>3. b \in Ends(text, <<>>) /\ b[1] = Len(text)
  <2>1. Len(text) \in 0..Len(text)
    OBVIOUS
  <2>2. QED
    BY <1>1, <2>1 DEF Ends
<1> HIDE DEF b
<1>4. Completes(text, <<>>, FALSE, n) <=> n = Len(text)
  BY <1>1, <1>2, <1>3 DEF Completes
<1>5. ~Value(text, 1, Len(text)) \/ 0 < Len(text)
  <2>1. CASE Len(text) = 0
    <3>1. 1 \in 1..(Len(text) + 1) /\ 0 \in 0..Len(text) /\ 1 <= 0 + 1
      BY <2>1
    <3>2. ~(1 = 0) /\ ~(1 < 0)
      OBVIOUS
    <3>3. ~Value(text, 1, 0)
      BY <3>1, <3>2, ValueIs
    <3>4. QED
      BY <2>1, <3>3
  <2>2. QED
    BY <2>1
<1>6. Completes(text, <<>>, TRUE, 0) <=> Value(text, 1, Len(text))
  <2>1. 0 + 1 = 1
    OBVIOUS
  <2>2. QED
    BY <1>1, <1>2, <1>3, <1>5, <2>1 DEF Completes
<1>7. QED
  BY <1>4, <1>6

\* One token more.
LEMMA ElementDue ==
    ASSUME NEW text, Len(text) \in Nat, NEW stack \in Stacks, stack # <<>>, Last(stack).type = "array",
           NEW n \in Nat, n < Len(text), text[n + 1] # "]"
    PROVE  Completes(text, stack, FALSE, n) <=> Completes(text, stack, TRUE, n)
<1> DEFINE D == Len(stack)
<1>0. n \in 0..Len(text)
  OBVIOUS
<1>1. ASSUME NEW c \in Ends(text, stack), Closed(text, stack, c), c[D + 1] = n
      PROVE  Completes(text, stack, TRUE, n)
  <2>1. c[D] \in 0..Len(text) /\ Fits(text, "array", n, c[D])
    BY <1>1, InnermostFits
  <2>2. PICK k \in 0..Len(text) : n < k /\ Value(text, n + 1, k) /\ Fits(text, "array", k, c[D])
    BY <1>0, <2>1, FitsElement
  <2>3. PICK b \in Ends(text, stack) : Closed(text, stack, b) /\ b[D + 1] = k
    BY <1>1, <2>2, EndMoved
  <2>4. QED
    BY <2>2, <2>3 DEF Completes
<1>2. ASSUME NEW c \in Ends(text, stack), Closed(text, stack, c), n < c[D + 1], Value(text, n + 1, c[D + 1])
      PROVE  Completes(text, stack, FALSE, n)
  <2>1. c[D] \in 0..Len(text) /\ c[D + 1] \in 0..Len(text) /\ Fits(text, "array", c[D + 1], c[D])
    BY <1>2, InnermostFits
  <2>2. Fits(text, "array", n, c[D])
    BY <1>0, <1>2, <2>1, FitsElement
  <2>3. PICK b \in Ends(text, stack) : Closed(text, stack, b) /\ b[D + 1] = n
    BY <1>0, <1>2, <2>2, EndMoved
  <2>4. QED
    BY <2>3 DEF Completes
<1>3. QED
  BY <1>1, <1>2 DEF Completes

LEMMA MemberDue ==
    ASSUME NEW text, Len(text) \in Nat, KeysApart, NEW stack \in Stacks, stack # <<>>, Last(stack).type = "object",
           NEW n \in Nat, n < Len(text), text[n + 1] \in Keys
    PROVE  Completes(text, stack, FALSE, n) <=> Completes(text, stack, TRUE, n + 1)
<1> DEFINE D == Len(stack)
<1>0. n \in 0..Len(text)
  OBVIOUS
<1>1. ASSUME NEW c \in Ends(text, stack), Closed(text, stack, c), c[D + 1] = n
      PROVE  Completes(text, stack, TRUE, n + 1)
  <2>1. c[D] \in 0..Len(text) /\ Fits(text, "object", n, c[D])
    BY <1>1, InnermostFits
  <2>2. PICK k \in 0..Len(text) : n + 1 < k /\ Value(text, (n + 1) + 1, k) /\ Fits(text, "object", k, c[D])
    BY <1>0, <2>1, FitsMember
  <2>3. PICK b \in Ends(text, stack) : Closed(text, stack, b) /\ b[D + 1] = k
    BY <1>1, <2>2, EndMoved
  <2>4. QED
    BY <2>2, <2>3 DEF Completes
<1>2. ASSUME NEW c \in Ends(text, stack), Closed(text, stack, c), n + 1 < c[D + 1], Value(text, (n + 1) + 1, c[D + 1])
      PROVE  Completes(text, stack, FALSE, n)
  <2>1. c[D] \in 0..Len(text) /\ c[D + 1] \in 0..Len(text) /\ Fits(text, "object", c[D + 1], c[D])
    BY <1>2, InnermostFits
  <2>2. Fits(text, "object", n, c[D])
    BY <1>0, <1>2, <2>1, FitsMember
  <2>3. PICK b \in Ends(text, stack) : Closed(text, stack, b) /\ b[D + 1] = n
    BY <1>0, <1>2, <2>2, EndMoved
  <2>4. QED
    BY <2>3 DEF Completes
<1>3. QED
  BY <1>1, <1>2 DEF Completes

LEMMA ScalarTaken ==
    ASSUME NEW text, Len(text) \in Nat, NEW stack \in Stacks, NEW n \in Nat, n < Len(text), text[n + 1] = "scalar"
    PROVE  Completes(text, stack, TRUE, n) <=> Completes(text, stack, FALSE, n + 1)
<1>1. ASSUME NEW c \in Ends(text, stack), Closed(text, stack, c)
      PROVE  n < c[Len(stack) + 1] /\ Value(text, n + 1, c[Len(stack) + 1]) <=> c[Len(stack) + 1] = n + 1
  <2>1. c[Len(stack) + 1] \in 0..Len(text) /\ n + 1 \in 1..Len(text)
    BY <1>1, InnermostFits
  <2>2. Value(text, n + 1, n + 1)
    BY <2>1, ScalarValue
  <2>3. n < c[Len(stack) + 1] /\ Value(text, n + 1, c[Len(stack) + 1]) => c[Len(stack) + 1] = n + 1
    BY <2>1, ValueStarts
  <2>4. QED
    BY <2>2, <2>3
<1>2. QED
  BY <1>1 DEF Completes

LEMMA ContainerEntered ==
    ASSUME NEW text, Len(text) \in Nat, NEW stack \in Stacks, NEW frame \in Frames, NEW n \in Nat, n < Len(text),
           text[n + 1] = Opener(frame.type)
    PROVE  Completes(text, stack, TRUE, n) <=> Completes(text, Append(stack, frame), FALSE, n + 1)
<1> DEFINE D == Len(stack)
           deeper == Append(stack, frame)
<1>1. /\ D \in Nat /\ deeper \in Stacks /\ Len(deeper) = D + 1 /\ deeper # <<>> /\ Last(deeper) = frame
      /\ \A d \in 1..D : deeper[d] = stack[d]
      /\ deeper[D + 1] = frame
  <2>1. D \in Nat /\ deeper \in Stacks /\ Len(deeper) = D + 1 /\ deeper[D + 1] = frame /\ \A d \in 1..D : deeper[d] = stack[d]
    BY StackIs, AppendProperties DEF Stacks
  <2> HIDE DEF deeper
  <2>2. Len(deeper) # 0
    BY <2>1
  <2>3. deeper # <<>> /\ Last(deeper) = frame
    BY <2>1, <2>2, EmptySeq DEF Last
  <2>4. QED
    BY <2>1, <2>3
<1>2. frame.type \in {"array", "object"}
  BY DEF Frames
<1> HIDE DEF D, deeper
<1>3. n + 1 \in 1..Len(text) /\ n + 1 \in 0..Len(text)
  OBVIOUS
<1>4. ASSUME NEW k \in 0..Len(text), n + 1 <= k
      PROVE  Value(text, n + 1, k) <=> Fits(text, frame.type, n + 1, k)
  BY <1>2, <1>3, <1>4, ContainerValue
<1>5. ASSUME NEW c \in [1..(D + 1) -> 0..Len(text)], Closed(text, stack, c), n < c[D + 1], Value(text, n + 1, c[D + 1])
      PROVE  Completes(text, deeper, FALSE, n + 1)
  <2> DEFINE b == [d \in 1..((D + 1) + 1) |-> IF d = D + 2 THEN n + 1 ELSE c[d]]
  <2>1. \A d \in 1..((D + 1) + 1) : d # D + 2 => d \in 1..(D + 1) /\ c[d] \in 0..Len(text)
    <3>1. D \in Nat
      BY <1>1
    <3>2. \A d \in 1..((D + 1) + 1) : d # D + 2 => d \in 1..(D + 1)
      BY ONLY <3>1
    <3>3. \A d \in 1..(D + 1) : c[d] \in 0..Len(text)
      OBVIOUS
    <3>4. QED
      BY <3>2, <3>3
  <2>2. b \in [1..((D + 1) + 1) -> 0..Len(text)]
    BY <1>3, <2>1
  <2>3. b[(D + 1) + 1] = n + 1 /\ \A d \in 1..(D + 1) : b[d] = c[d]
    <3>1. (D + 1) + 1 \in 1..((D + 1) + 1) /\ (D + 1) + 1 = D + 2
      BY <1>1
    <3>2. \A d \in 1..(D + 1) : d \in 1..((D + 1) + 1) /\ d # D + 2
      BY <1>1
    <3>3. QED
      BY <3>1, <3>2
  <2> HIDE DEF b
  <2>4. D + 1 \in 1..(D + 1) /\ 1 \in 1..(D + 1) /\ c[D + 1] \in 0..Len(text)
    BY <1>1
  <2>5. Fits(text, frame.type, n + 1, c[D + 1])
    <3>1. n + 1 <= c[D + 1]
      BY <1>5, <2>4
    <3>2. QED
      BY <1>4, <1>5, <2>4, <3>1
  <2>6. \A d \in 1..(D + 1) : Fits(text, deeper[d].type, b[d + 1], b[d])
    <3>1. ASSUME NEW d \in 1..D
          PROVE  Fits(text, deeper[d].type, b[d + 1], b[d])
      <4>1. d \in 1..(D + 1) /\ d + 1 \in 1..(D + 1)
        BY <1>1
      <4>2. Fits(text, stack[d].type, c[d + 1], c[d])
        BY <1>5 DEF Closed, D
      <4>3. QED
        BY <1>1, <2>3, <4>1, <4>2
    <3>2. Fits(text, deeper[D + 1].type, b[(D + 1) + 1], b[D + 1])
      BY <1>1, <2>3, <2>4, <2>5
    <3>3. \A d \in 1..(D + 1) : d \in 1..D \/ d = D + 1
      BY <1>1
    <3>4. QED
      BY <3>1, <3>2, <3>3
  <2>7. b[1] = Len(text)
    BY <1>5, <2>3, <2>4 DEF Closed
  <2>8. b \in Ends(text, deeper) /\ Closed(text, deeper, b)
    BY <1>1, <2>2, <2>6, <2>7 DEF Ends, Closed
  <2>9. QED
    BY <1>1, <2>3, <2>8 DEF Completes
<1>6. ASSUME NEW c \in [1..((D + 1) + 1) -> 0..Len(text)], Closed(text, deeper, c), c[(D + 1) + 1] = n + 1
      PROVE  Completes(text, stack, TRUE, n)
  <2> DEFINE b == [d \in 1..(D + 1) |-> c[d]]
  <2>1. \A d \in 1..(D + 1) : b[d] = c[d] /\ d \in 1..((D + 1) + 1) /\ c[d] \in 0..Len(text)
    BY <1>1
  <2>2. b \in [1..(D + 1) -> 0..Len(text)]
    BY <2>1
  <2> HIDE DEF b
  <2>3. c[1] = Len(text) /\ \A d \in 1..(D + 1) : Fits(text, deeper[d].type, c[d + 1], c[d])
    BY <1>1, <1>6 DEF Closed
  <2>4. D + 1 \in 1..(D + 1) /\ 1 \in 1..(D + 1)
    BY <1>1
  <2>5. Fits(text, frame.type, n + 1, c[D + 1])
    BY <1>1, <1>6, <2>3, <2>4
  <2>6. n < b[D + 1] /\ Value(text, n + 1, b[D + 1])
    <3>1. n + 1 < c[D + 1] /\ c[D + 1] \in 0..Len(text)
      BY <2>1, <2>4, <2>5 DEF Fits
    <3>2. n + 1 <= c[D + 1] /\ n < c[D + 1]
      BY <3>1
    <3>3. QED
      BY <1>4, <2>1, <2>4, <2>5, <3>1, <3>2
  <2>7. \A d \in 1..D : Fits(text, stack[d].type, b[d + 1], b[d])
    <3> SUFFICES ASSUME NEW d \in 1..D
                 PROVE  Fits(text, stack[d].type, b[d + 1], b[d])
      OBVIOUS
    <3>1. d \in 1..(D + 1) /\ d + 1 \in 1..(D + 1)
      BY <1>1
    <3>2. QED
      BY <1>1, <2>1, <2>3, <3>1
  <2>8. b \in Ends(text, stack) /\ Closed(text, stack, b)
    <3>1. b[1] = Len(text)
      BY <2>1, <2>3, <2>4
    <3>2. QED
      BY <2>2, <2>7, <3>1 DEF Ends, Closed, D
  <2>9. QED
    BY <2>6, <2>8 DEF Completes, D
<1>7. Completes(text, stack, TRUE, n) => Completes(text, deeper, FALSE, n + 1)
  BY <1>5 DEF Completes, Ends, D
<1>8. Completes(text, deeper, FALSE, n + 1) => Completes(text, stack, TRUE, n)
  BY <1>1, <1>6 DEF Completes, Ends
<1>9. QED
  BY <1>7, <1>8 DEF deeper

LEMMA ContainerLeft ==
    ASSUME NEW text, Len(text) \in Nat, KeysApart, NEW stack \in Stacks, stack # <<>>, NEW n \in Nat, n < Len(text),
           text[n + 1] = Closer(Last(stack).type)
    PROVE  Completes(text, stack, FALSE, n) <=> Completes(text, Front(stack), FALSE, n + 1)
<1> DEFINE D == Len(stack) - 1
           outer == Front(stack)
           top == Last(stack).type
<1>1. /\ D \in Nat /\ Len(stack) = D + 1 /\ outer \in Stacks /\ Len(outer) = D
      /\ \A d \in 1..D : outer[d] = stack[d]
      /\ stack[D + 1].type = top /\ top \in {"array", "object"}
  BY StackIs, FrontLength DEF Stacks
<1> HIDE DEF D, outer, top
<1>2. n \in 0..Len(text) /\ n + 1 \in 0..Len(text) /\ text[n + 1] = Closer(top)
  BY DEF top
<1>3. Fits(text, top, n, n + 1) /\ \A k \in 0..Len(text) : Fits(text, top, n, k) => k = n + 1
  BY <1>1, <1>2, FitsEmpty, FitsClosed
<1>4. ASSUME NEW c \in [1..((D + 1) + 1) -> 0..Len(text)], Closed(text, stack, c), c[(D + 1) + 1] = n
      PROVE  Completes(text, outer, FALSE, n + 1)
  <2> DEFINE b == [d \in 1..(D + 1) |-> c[d]]
  <2>1. \A d \in 1..(D + 1) : b[d] = c[d] /\ d \in 1..((D + 1) + 1) /\ c[d] \in 0..Len(text)
    BY <1>1
  <2>2. b \in [1..(D + 1) -> 0..Len(text)]
    BY <2>1
  <2> HIDE DEF b
  <2>3. c[1] = Len(text) /\ \A d \in 1..(D + 1) : Fits(text, stack[d].type, c[d + 1], c[d])
    BY <1>1, <1>4 DEF Closed
  <2>4. D + 1 \in 1..(D + 1) /\ 1 \in 1..(D + 1)
    BY <1>1
  <2>5. c[D + 1] = n + 1
    BY <1>1, <1>3, <1>4, <2>1, <2>3, <2>4
  <2>6. \A d \in 1..D : Fits(text, outer[d].type, b[d + 1], b[d])
    <3> SUFFICES ASSUME NEW d \in 1..D
                 PROVE  Fits(text, outer[d].type, b[d + 1], b[d])
      OBVIOUS
    <3>1. d \in 1..(D + 1) /\ d + 1 \in 1..(D + 1)
      BY <1>1
    <3>2. QED
      BY <1>1, <2>1, <2>3, <3>1
  <2>7. b[1] = Len(text) /\ b[D + 1] = n + 1
    BY <2>1, <2>3, <2>4, <2>5
  <2>8. b \in Ends(text, outer) /\ Closed(text, outer, b)
    BY <1>1, <2>2, <2>6, <2>7 DEF Ends, Closed
  <2>9. QED
    BY <1>1, <2>7, <2>8 DEF Completes
<1>5. ASSUME NEW c \in [1..(D + 1) -> 0..Len(text)], Closed(text, outer, c), c[D + 1] = n + 1
      PROVE  Completes(text, stack, FALSE, n)
  <2> DEFINE b == [d \in 1..((D + 1) + 1) |-> IF d = D + 2 THEN n ELSE c[d]]
  <2>1. \A d \in 1..((D + 1) + 1) : d # D + 2 => d \in 1..(D + 1) /\ c[d] \in 0..Len(text)
    <3>1. D \in Nat
      BY <1>1
    <3>2. \A d \in 1..((D + 1) + 1) : d # D + 2 => d \in 1..(D + 1)
      BY ONLY <3>1
    <3>3. \A d \in 1..(D + 1) : c[d] \in 0..Len(text)
      OBVIOUS
    <3>4. QED
      BY <3>2, <3>3
  <2>2. b \in [1..((D + 1) + 1) -> 0..Len(text)]
    BY <1>2, <2>1
  <2>3. b[(D + 1) + 1] = n /\ \A d \in 1..(D + 1) : b[d] = c[d]
    <3>1. (D + 1) + 1 \in 1..((D + 1) + 1) /\ (D + 1) + 1 = D + 2
      BY <1>1
    <3>2. \A d \in 1..(D + 1) : d \in 1..((D + 1) + 1) /\ d # D + 2
      BY <1>1
    <3>3. QED
      BY <3>1, <3>2
  <2> HIDE DEF b
  <2>4. D + 1 \in 1..(D + 1) /\ 1 \in 1..(D + 1)
    BY <1>1
  <2>5. \A d \in 1..(D + 1) : Fits(text, stack[d].type, b[d + 1], b[d])
    <3>1. ASSUME NEW d \in 1..D
          PROVE  Fits(text, stack[d].type, b[d + 1], b[d])
      <4>1. d \in 1..(D + 1) /\ d + 1 \in 1..(D + 1)
        BY <1>1
      <4>2. Fits(text, outer[d].type, c[d + 1], c[d])
        BY <1>1, <1>5 DEF Closed
      <4>3. QED
        BY <1>1, <2>3, <4>1, <4>2
    <3>2. Fits(text, stack[D + 1].type, b[(D + 1) + 1], b[D + 1])
      BY <1>1, <1>3, <1>5, <2>3, <2>4
    <3>3. \A d \in 1..(D + 1) : d \in 1..D \/ d = D + 1
      BY <1>1
    <3>4. QED
      BY <3>1, <3>2, <3>3
  <2>6. b[1] = Len(text)
    BY <1>5, <2>3, <2>4 DEF Closed
  <2>7. b \in Ends(text, stack) /\ Closed(text, stack, b)
    BY <1>1, <2>2, <2>5, <2>6 DEF Ends, Closed
  <2>8. QED
    BY <1>1, <2>3, <2>7 DEF Completes
<1>6. Completes(text, stack, FALSE, n) => Completes(text, outer, FALSE, n + 1)
  BY <1>1, <1>4 DEF Completes, Ends
<1>7. Completes(text, outer, FALSE, n + 1) => Completes(text, stack, FALSE, n)
  BY <1>1, <1>5 DEF Completes, Ends
<1>8. QED
  BY <1>6, <1>7 DEF outer

\* The keys read so far do not matter to what can follow.
LEMMA TypesDecide ==
    ASSUME NEW text, NEW stack \in Stacks, NEW other \in Stacks, Len(other) = Len(stack),
           \A d \in 1..Len(stack) : other[d].type = stack[d].type, NEW due \in BOOLEAN, NEW n
    PROVE  Completes(text, stack, due, n) <=> Completes(text, other, due, n)
<1>1. Ends(text, other) = Ends(text, stack)
  BY DEF Ends
<1>2. \A c : Closed(text, stack, c) <=> Closed(text, other, c)
  BY DEF Closed
<1>3. QED
  BY <1>1, <1>2 DEF Completes

-----------------------------------------------------------------------------
(***************************************************************************)
(* While the visit goes on, the document is JSON if and only if what is    *)
(* left of it completes the containers being visited.                      *)
(***************************************************************************)
OnGrammar ==
    /\ owed => open = <<>> \/ Last(open).type = "object"
    /\ Parses <=> Completes(doc, open, owed, read)

GrammarInv ==
    /\ IInv
    /\ result = "Pending" => OnGrammar
    /\ AcceptsExactlyStrict

\* What a step of the visit is to establish.
Established ==
    /\ result' = "Pending" =>
          /\ owed' => open' = <<>> \/ Last(open').type = "object"
          /\ Parses <=> Completes(doc, open', owed', read')
    /\ result' = Ok => Parses
    /\ result' \in {"Json", "TooManyJsonNodes"} => ~(Parses /\ Strict)

LEMMA Facts ==
    ASSUME IInv
    PROVE  /\ Len(doc) \in Nat /\ open \in Stacks /\ read \in Nat /\ read <= Len(doc) /\ owed \in BOOLEAN
           /\ KeysApart
           /\ open # <<>> => Last(open).type \in {"array", "object"}
<1>1. Len(doc) \in Nat /\ open \in Stacks /\ read \in Nat /\ read <= Len(doc) /\ owed \in BOOLEAN
  BY LenProperties DEF IInv, TypeOK, Stacks
<1>2. KeysApart
  BY StrictJsonAssumption DEF StrictJsonAssumption, KeysApart
<1>3. QED
  BY <1>1, <1>2, StackIs

LEMMA OnceDue ==
    ASSUME IInv, OnGrammar, HasToken, Token \in Starters, ValueAllowed
    PROVE  Parses <=> Completes(doc, open, TRUE, read)
<1>1. read < Len(doc) /\ doc[read + 1] # "]"
  BY DEF HasToken, Token, Starters
<1>2. CASE owed
  BY <1>2, Facts DEF OnGrammar
<1>3. CASE ~owed
  <2>1. open # <<>> /\ Last(open).type = "array"
    BY <1>3 DEF ValueAllowed, Inside
  <2>2. Completes(doc, open, FALSE, read) <=> Completes(doc, open, TRUE, read)
    BY <1>1, <2>1, Facts, ElementDue
  <2>3. owed = FALSE
    BY <1>3, Facts
  <2>4. QED
    BY <2>2, <2>3 DEF OnGrammar
<1>4. QED
  BY <1>2, <1>3

LEMMA ScalarStep ==
    ASSUME IInv, OnGrammar, VisitScalar
    PROVE  Established
<1>1. /\ HasToken /\ Token = "scalar" /\ ValueAllowed
      /\ read' = read + 1 /\ owed' = FALSE /\ open' = open /\ result = "Pending"
      /\ result' \in {"Pending", "TooManyJsonNodes", "Json"}
  BY DEF VisitScalar, Fail
<1>2. Parses <=> Completes(doc, open, TRUE, read)
  BY <1>1, OnceDue DEF Starters
<1>3. Completes(doc, open, TRUE, read) <=> Completes(doc, open, FALSE, read + 1)
  BY <1>1, Facts, ScalarTaken DEF HasToken, Token
<1>4. result' # "Pending" => ~Strict
  BY CallbackRefuses
<1>5. QED
  BY <1>1, <1>2, <1>3, <1>4 DEF Established, Ok

LEMMA ContainerStep ==
    ASSUME IInv, OnGrammar, VisitContainer
    PROVE  Established
<1> DEFINE frame == [type |-> IF Token = "[" THEN "array" ELSE "object", keys |-> {}]
<1>1. /\ HasToken /\ Token \in {"[", "{"} /\ ValueAllowed
      /\ read' = read + 1 /\ owed' = FALSE /\ open' = Append(open, frame) /\ result = "Pending"
      /\ result' \in {"Pending", "TooManyJsonNodes", "Json"}
  BY DEF VisitContainer, Fail
<1>2. Parses <=> Completes(doc, open, TRUE, read)
  BY <1>1, OnceDue DEF Starters
<1>3. frame \in Frames /\ Token = Opener(frame.type)
  BY <1>1 DEF Frames, Opener
<1> HIDE DEF frame
<1>4. Completes(doc, open, TRUE, read) <=> Completes(doc, Append(open, frame), FALSE, read + 1)
  BY <1>1, <1>3, Facts, ContainerEntered DEF HasToken, Token
<1>5. result' # "Pending" => ~Strict
  BY CallbackRefuses
<1>6. QED
  BY <1>1, <1>2, <1>4, <1>5 DEF Established, Ok

LEMMA KeyStep ==
    ASSUME IInv, OnGrammar, VisitKey
    PROVE  Established
<1>1. /\ HasToken /\ Token \in Keys /\ open # <<>> /\ Last(open).type = "object" /\ ~owed
      /\ read' = read + 1 /\ result = "Pending"
  BY DEF VisitKey, Inside
<1>2. result' # "Pending" => ~Strict
  BY CallbackRefuses
<1>3. CASE Token \in Last(open).keys
  <2>1. result' \in {"TooManyJsonNodes", "Json"}
    BY <1>3 DEF VisitKey, Fail
  <2>2. QED
    BY <1>2, <2>1 DEF Established, Ok
<1>4. CASE Token \notin Last(open).keys
  <2> DEFINE wider == [open EXCEPT ![Len(open)].keys = @ \union {Token}]
  <2>1. open' = wider /\ owed' = TRUE /\ result' = "Pending"
    BY <1>1, <1>4 DEF VisitKey
  <2>2. /\ open \in Seq(Frames) /\ wider \in Seq(Frames) /\ Len(wider) = Len(open)
        /\ \A d \in DOMAIN open : d # Len(open) => wider[d] = open[d]
    BY <1>1, Facts, WiderFrame DEF Stacks
  <2>3. \A d \in 1..Len(open) : wider[d].type = open[d].type
    <3>1. \A d \in 1..Len(open) : d \in DOMAIN open
      BY <2>2
    <3>2. wider[Len(open)].type = open[Len(open)].type
      <4>1. Len(open) \in DOMAIN open /\ open[Len(open)] \in Frames
        BY <1>1, Facts, StackIs, ElementOfSeq DEF Stacks
      <4>2. wider[Len(open)] = [open[Len(open)] EXCEPT !.keys = @ \union {Token}]
        BY <4>1
      <4>3. QED
        BY <4>1, <4>2 DEF Frames
    <3> HIDE DEF wider
    <3>3. QED
      BY <2>2, <3>1, <3>2
  <2> HIDE DEF wider
  <2>4. wider # <<>> /\ Last(wider).type = "object"
    <3>1. Len(open) \in 1..Len(open) /\ Last(open) = open[Len(open)]
      BY <1>1, Facts, StackIs
    <3>2. wider[Len(open)].type = "object" /\ Len(wider) # 0
      BY <1>1, <2>2, <2>3, <3>1
    <3>3. QED
      BY <2>2, <3>2, EmptySeq DEF Last
  <2>5. Completes(doc, open, FALSE, read) <=> Completes(doc, open, TRUE, read + 1)
    BY <1>1, Facts, MemberDue DEF HasToken, Token
  <2>6. Completes(doc, open, TRUE, read + 1) <=> Completes(doc, wider, TRUE, read + 1)
    BY <2>2, <2>3, TypesDecide DEF Stacks
  <2>7. Parses <=> Completes(doc, open, FALSE, read)
    <3>1. owed = FALSE
      BY <1>1, Facts
    <3>2. QED
      BY <3>1 DEF OnGrammar
  <2>8. QED
    BY <1>1, <2>1, <2>4, <2>5, <2>6, <2>7 DEF Established, Ok
<1>5. QED
  BY <1>3, <1>4

LEMMA EndContainerStep ==
    ASSUME IInv, OnGrammar, EndContainer
    PROVE  Established
<1>1. /\ HasToken /\ Closes /\ result = "Pending" /\ result' = "Pending"
      /\ open' = Front(open) /\ read' = read + 1 /\ owed' = owed
  BY DEF EndContainer
<1>2. open # <<>> /\ ~owed /\ Token = Closer(Last(open).type)
  BY <1>1 DEF Closes, Inside, Closer, OnGrammar
<1>3. owed = FALSE
  BY <1>2, Facts
<1>4. Completes(doc, open, FALSE, read) <=> Completes(doc, Front(open), FALSE, read + 1)
  BY <1>1, <1>2, Facts, ContainerLeft DEF HasToken, Token
<1>5. QED
  BY <1>1, <1>3, <1>4 DEF OnGrammar, Established, Ok

LEMMA MalformedStep ==
    ASSUME IInv, OnGrammar, Malformed
    PROVE  Established
<1>1. result' \in {"Json", "TooManyJsonNodes"} /\ ~Complete /\ result = "Pending"
  BY DEF Malformed, Fail
<1>2. SUFFICES ASSUME Parses, Strict
               PROVE  FALSE
  BY <1>1 DEF Established, Ok
<1>3. Completes(doc, open, owed, read)
  BY <1>2 DEF OnGrammar
<1>4. ASSUME HasToken, Token \in Starters, ValueAllowed
      PROVE  FALSE
  <2>1. Token \in {"[", "{"} /\ ~(Len(open) < MaxDepth)
    BY <1>4 DEF Malformed, Starters
  <2>2. InStep(open, read)
    BY <1>1 DEF IInv, Visiting
  <2>3. Len(open) = DepthAt(read) /\ DepthAt(read + 1) = DepthAt(read) + 1
    BY <2>1, <2>2, Facts, DepthStep DEF InStep, OnDepth, Token, Opening
  <2>4. read + 1 \in 1..Len(doc)
    BY <1>4, Facts DEF HasToken
  <2>5. DepthAt(read + 1) <= MaxDepth
    BY <1>2, <2>4 DEF Strict
  <2>6. MaxDepth \in Nat /\ Len(open) \in Nat
    BY StrictJsonAssumption, Facts, StackIs DEF StrictJsonAssumption
  <2>7. ~(Len(open) < MaxDepth)
    BY <2>1
  <2>8. Len(open) + 1 <= MaxDepth
    BY <2>3, <2>5
  <2>9. QED
    BY <2>6, <2>7, <2>8
<1>5. CASE owed
  <2>1. owed = TRUE
    BY <1>5, Facts
  <2>2. HasToken /\ Token \in Starters
    BY <1>3, <2>1, Facts, DueStarts DEF HasToken, Token
  <2>3. QED
    BY <1>4, <1>5, <2>2 DEF ValueAllowed
<1>6. CASE ~owed
  <2>1. owed = FALSE /\ open # <<>>
    BY <1>1, <1>6, Facts DEF Complete
  <2>2. /\ HasToken
        /\ Token # Closer(Last(open).type) =>
              /\ Last(open).type = "array" => Token \in Starters
              /\ Last(open).type = "object" => Token \in Keys
    BY <1>3, <2>1, Facts, ContentStarts DEF HasToken, Token
  <2>3. ~Closes /\ ~(Token \in Keys /\ Inside("object") /\ ~owed)
    BY <2>2 DEF Malformed
  <2>4. CASE Last(open).type = "array"
    <3>1. Token # Closer(Last(open).type) /\ Inside("array")
      BY <2>1, <2>3, <2>4 DEF Closes, Inside, Closer
    <3>2. QED
      BY <1>4, <2>2, <2>4, <3>1 DEF ValueAllowed
  <2>5. CASE Last(open).type = "object"
    <3>1. Token # Closer(Last(open).type) /\ Inside("object")
      BY <1>6, <2>1, <2>3, <2>5 DEF Closes, Inside, Closer
    <3>2. QED
      BY <1>6, <2>2, <2>3, <2>5, <3>1
  <2>6. QED
    BY <2>1, <2>4, <2>5, Facts
<1>7. QED
  BY <1>5, <1>6

LEMMA EndStep ==
    ASSUME IInv, OnGrammar, End
    PROVE  Established
<1>1. Complete /\ result' = (IF HasToken THEN "Json" ELSE Ok) /\ open = <<>>
  BY DEF End, Complete
<1>2. owed = FALSE
  BY <1>1, Facts DEF Complete
<1>3. Parses <=> read = Len(doc)
  BY <1>1, <1>2, Facts, AtEnd DEF OnGrammar
<1>4. HasToken <=> read # Len(doc)
  BY Facts DEF HasToken
<1>5. QED
  BY <1>1, <1>3, <1>4 DEF Established, Ok

LEMMA GrammarStep == ASSUME GrammarInv, [Next]_vars PROVE GrammarInv'
<1>1. IInv /\ IInv'
  BY StepIInv DEF GrammarInv
<1>2. doc' = doc
  BY DEF Next, vars, VisitScalar, VisitContainer, VisitKey, EndContainer, Malformed, End
<1>3. (Parses' <=> Parses) /\ Strict' = Strict
  BY <1>2, SameDocument DEF Parses
<1>4. CASE UNCHANGED vars
  <2>1. OnGrammar => OnGrammar'
    BY <1>3, <1>4 DEF OnGrammar, vars
  <2>2. AcceptsExactlyStrict'
    BY <1>3, <1>4 DEF GrammarInv, AcceptsExactlyStrict, vars
  <2>3. QED
    BY <1>1, <1>4, <2>1, <2>2 DEF GrammarInv, vars
<1>5. CASE Next
  <2>1. result = "Pending" /\ OnGrammar
    BY <1>5 DEF GrammarInv, Next, VisitScalar, VisitContainer, VisitKey, EndContainer, Malformed, End
  <2>2. Established
    BY <1>1, <1>5, <2>1, ScalarStep, ContainerStep, KeyStep, EndContainerStep, MalformedStep, EndStep DEF Next
  <2>3. result' = "Pending" => OnGrammar'
    BY <1>2, <1>3, <2>2 DEF Established, OnGrammar
  <2>4. result' = Ok => Strict'
    BY <1>1 DEF IInv, AcceptedIsStrict
  <2>5. AcceptsExactlyStrict'
    BY <1>3, <2>2, <2>4 DEF Established, AcceptsExactlyStrict
  <2>6. QED
    BY <1>1, <2>3, <2>5 DEF GrammarInv
<1>6. QED
  BY <1>4, <1>5

LEMMA GrammarInit == ASSUME Init PROVE GrammarInv
<1>1. IInv
  BY InitIInv
<1>2. Len(doc) \in Nat
  BY <1>1, Facts
<1>3. Completes(doc, <<>>, TRUE, 0) <=> Parses
  BY <1>2, AtEnd DEF Value, Parses
<1>4. QED
  BY <1>1, <1>3 DEF Init, GrammarInv, OnGrammar, AcceptsExactlyStrict, Ok

(***************************************************************************)
(* parse_strict accepts exactly the JSON documents that repeat no key      *)
(* within an object and stay within budget and depth, of every length and  *)
(* with any limits.                                                        *)
(***************************************************************************)
THEOREM AcceptsExactly == Spec => []AcceptsExactlyStrict
<1>1. Init => GrammarInv
  BY GrammarInit
<1>2. GrammarInv /\ [Next]_vars => GrammarInv'
  BY GrammarStep
<1>3. GrammarInv => AcceptsExactlyStrict
  BY DEF GrammarInv
<1>4. QED
  BY <1>1, <1>2, <1>3, PTL DEF Spec
=============================================================================
