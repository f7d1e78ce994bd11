----------------------------- MODULE LoopProofs ------------------------------
(***************************************************************************)
(* Two loops: glob_match is correct for every pattern and every text, and  *)
(* the walk of recompute_root accepts the audit path of RFC 6962 and       *)
(* nothing else, for logs and proofs of every size.                        *)
(*                                                                         *)
(* The argument for glob_match has two halves.  Sound: what was consumed   *)
(* of the pattern matches what was consumed of the text, and so does what  *)
(* came before the last star, up to some place the star can still start    *)
(* from.  Complete: no match of the whole was given up: every one of them  *)
(* has the last star reach at least as far as it was tried, and places the *)
(* bytes after the star as a block.                                        *)
(*                                                                         *)
(* The argument for the walk goes level by level.  A node of level e spans *)
(* 2^e leaves, or what the tree has of them, and RFC 6962 splits the span  *)
(* of its parent exactly between it and its sibling; so the recursive tree *)
(* hash and audit path, unfolded once, say what one iteration must do.     *)
(***************************************************************************)
EXTENDS GlobMatch, InclusionProof, SymbolicProofs

Whole(cut) == MatchesUpTo(p, t, Len(p), Len(t), cut)

ConsumedMatches == \E cut \in Cuts(p, t) : MatchesUpTo(p, t, pi, ti, cut)

StarCanStart ==
    star # NoStar =>
        /\ p[star.pi + 1] = Star
        /\ \E cut \in Cuts(p, t), m \in 0..star.ti : MatchesUpTo(p, t, star.pi, m, cut)

Sound ==
    /\ ConsumedMatches
    /\ StarCanStart
    /\ pc \in {"stars", "true"} => ti = Len(t)
    /\ pc = "true" => pi = Len(p)

BlockAfterStar(cut) ==
    IF star = NoStar THEN cut[pi] = ti
    ELSE cut[star.pi + 1] >= star.ti /\ cut[pi] = cut[star.pi + 1] + (ti - star.ti)

Complete ==
    \A cut \in Cuts(p, t) :
        Whole(cut) =>
            /\ pc = "text" => BlockAfterStar(cut)
            /\ pc = "stars" => cut[pi] = Len(t)
            /\ pc # "false"

IInv == TypeOK /\ Sound /\ Complete

-----------------------------------------------------------------------------
\* The arguments are sequences.
LEMMA Arguments ==
    ASSUME TypeOK
    PROVE  Len(p) \in Nat /\ Len(t) \in Nat
  BY GlobAssumption DEF TypeOK

\* What a match of a prefix of the pattern grows by: one more byte of it.
LEMMA Extend ==
    ASSUME TypeOK,
           NEW n \in 0..(Len(p) - 1), NEW m \in 0..Len(t), NEW k \in 0..Len(t),
           NEW cut \in Cuts(p, t), MatchesUpTo(p, t, n, m, cut),
           IF p[n + 1] = Star THEN m <= k ELSE k = m + 1 /\ t[k] = p[n + 1]
    PROVE  \E longer \in Cuts(p, t) : MatchesUpTo(p, t, n + 1, k, longer)
<1> DEFINE longer == [cut EXCEPT ![n + 1] = k]
<1>1. Len(p) \in Nat /\ Len(t) \in Nat
  BY Arguments
<1>2. /\ longer \in Cuts(p, t)
      /\ longer[n + 1] = k
      /\ \A i \in 0..n : longer[i] = cut[i]
  BY <1>1 DEF Cuts
<1>3. cut[0] = 0 /\ cut[n] = m /\ \A i \in 1..n : Covers(p, t, cut, i)
  BY DEF MatchesUpTo
<1> HIDE DEF longer
<1>4. \A i \in 1..n : Covers(p, t, longer, i)
  BY <1>1, <1>2, <1>3 DEF Covers
<1>5. Covers(p, t, longer, n + 1)
  BY <1>1, <1>2, <1>3 DEF Covers
<1>6. \A i \in 1..(n + 1) : Covers(p, t, longer, i)
  BY <1>1, <1>4, <1>5
<1>7. MatchesUpTo(p, t, n + 1, k, longer)
  BY <1>1, <1>2, <1>3, <1>6 DEF MatchesUpTo
<1>8. QED
  BY <1>2, <1>7

\* How a match of the whole treats the byte after the first pi.
LEMMA NextByte ==
    ASSUME TypeOK, pi < Len(p), NEW cut \in Cuts(p, t), Whole(cut)
    PROVE  /\ cut[pi] \in 0..Len(t) /\ cut[pi + 1] \in 0..Len(t)
           /\ p[pi + 1] = Star => cut[pi] <= cut[pi + 1]
           /\ p[pi + 1] # Star => cut[pi + 1] = cut[pi] + 1 /\ t[cut[pi + 1]] = p[pi + 1]
<1>1. Len(p) \in Nat /\ Len(t) \in Nat /\ pi \in 0..Len(p)
  BY Arguments DEF TypeOK
<1>2. pi + 1 \in 1..Len(p)
  BY <1>1
<1>3. Covers(p, t, cut, pi + 1)
  BY <1>2 DEF Whole, MatchesUpTo
<1>4. QED
  BY <1>1, <1>2, <1>3 DEF Covers, Cuts

-----------------------------------------------------------------------------
LEMMA InitIInv == Init => IInv
<1> SUFFICES ASSUME Init PROVE IInv
  OBVIOUS
<1>1. Len(p) \in Nat /\ Len(t) \in Nat
  BY GlobAssumption DEF Init
<1>2. TypeOK
  BY <1>1 DEF Init, TypeOK
<1>3. Sound
  <2> DEFINE cut == [i \in 0..Len(p) |-> 0]
  <2>1. cut \in Cuts(p, t) /\ MatchesUpTo(p, t, 0, 0, cut)
    BY <1>1 DEF Cuts, MatchesUpTo
  <2>2. QED
    BY <2>1 DEF Init, Sound, ConsumedMatches, StarCanStart
<1>4. Complete
  BY DEF Init, Complete, Whole, BlockAfterStar, MatchesUpTo
<1>5. QED
  BY <1>2, <1>3, <1>4 DEF IInv

\* With neither branch of the loop open, no match has the block where it is now.
LEMMA BlockFails ==
    ASSUME TypeOK, pc = "text", ti < Len(t), ~AtStar, ~AtSameByte,
           NEW cut \in Cuts(p, t), Whole(cut)
    PROVE  cut[pi] # ti
<1>1. Len(p) \in Nat /\ Len(t) \in Nat /\ pi \in 0..Len(p) /\ ti \in 0..Len(t)
  BY Arguments DEF TypeOK
<1>2. CASE pi = Len(p)
  BY <1>1, <1>2 DEF Whole, MatchesUpTo
<1>3. CASE pi < Len(p)
  <2>1. p[pi + 1] # Star /\ p[pi + 1] # t[ti + 1]
    BY <1>3 DEF AtStar, AtSameByte
  <2>2. cut[pi + 1] = cut[pi] + 1 /\ t[cut[pi + 1]] = p[pi + 1]
    BY <1>3, <2>1, NextByte
  <2>3. QED
    BY <1>1, <2>1, <2>2
<1>4. QED
  BY <1>1, <1>2, <1>3

LEMMA NextTypeOK == TypeOK /\ [Next]_vars => TypeOK'
<1> SUFFICES ASSUME TypeOK, [Next]_vars PROVE TypeOK'
  OBVIOUS
<1>1. Len(p) \in Nat /\ Len(t) \in Nat
  BY Arguments
<1>2. CASE MeetStar
  BY <1>1, <1>2 DEF MeetStar, AtStar, TypeOK, NoStar
<1>3. CASE ConsumeByte
  BY <1>1, <1>3 DEF ConsumeByte, AtSameByte, TypeOK, NoStar
<1>4. CASE Backtrack
  BY <1>1, <1>4 DEF Backtrack, TypeOK, NoStar
<1>5. CASE Mismatch \/ TextConsumed \/ ReturnAtEnd \/ UNCHANGED vars
  BY <1>5 DEF Mismatch, TextConsumed, ReturnAtEnd, TypeOK, vars
<1>6. CASE SkipStar
  BY <1>1, <1>6 DEF SkipStar, AtStar, TypeOK, NoStar
<1>7. QED
  BY <1>2, <1>3, <1>4, <1>5, <1>6 DEF Next

LEMMA NextSound == IInv /\ [Next]_vars => Sound'
<1> SUFFICES ASSUME IInv, [Next]_vars PROVE Sound'
  OBVIOUS
<1>0. TypeOK /\ Sound
  BY DEF IInv
<1>1. /\ Len(p) \in Nat /\ Len(t) \in Nat
      /\ pi \in 0..Len(p) /\ ti \in 0..Len(t)
  BY <1>0, Arguments DEF TypeOK
<1>a. PICK cut \in Cuts(p, t) : MatchesUpTo(p, t, pi, ti, cut)
  BY <1>0 DEF Sound, ConsumedMatches
<1>2. CASE MeetStar
  <2>1. pi \in 0..(Len(p) - 1) /\ p[pi + 1] = Star
    BY <1>1, <1>2 DEF MeetStar, AtStar
  <2>2. \E longer \in Cuts(p, t) : MatchesUpTo(p, t, pi + 1, ti, longer)
    BY <1>0, <1>1, <1>a, <2>1, Extend
  <2>3. /\ p' = p /\ t' = t /\ pi' = pi + 1 /\ ti' = ti /\ pc' = "text"
        /\ star'.pi = pi /\ star'.ti = ti
    BY <1>2 DEF MeetStar
  <2>4. ConsumedMatches'
    BY <2>2, <2>3 DEF ConsumedMatches
  <2>5. StarCanStart'
    BY <1>1, <1>a, <2>1, <2>3 DEF StarCanStart
  <2>6. QED
    BY <2>3, <2>4, <2>5 DEF Sound
<1>3. CASE ConsumeByte
  <2>1. /\ pi \in 0..(Len(p) - 1) /\ ti + 1 \in 0..Len(t)
        /\ p[pi + 1] # Star /\ t[ti + 1] = p[pi + 1]
    BY <1>1, <1>3 DEF ConsumeByte, AtSameByte
  <2>2. \E longer \in Cuts(p, t) : MatchesUpTo(p, t, pi + 1, ti + 1, longer)
    BY <1>0, <1>1, <1>a, <2>1, Extend
  <2>3. p' = p /\ t' = t /\ pi' = pi + 1 /\ ti' = ti + 1 /\ star' = star /\ pc' = "text"
    BY <1>3 DEF ConsumeByte
  <2>4. QED
    BY <1>0, <2>2, <2>3 DEF Sound, ConsumedMatches, StarCanStart
<1>4. CASE Backtrack
  <2>1. star # NoStar /\ star.pi \in 0..(Len(p) - 1) /\ star.ti \in 0..Len(t) /\ star.ti <= ti /\ ti < Len(t)
    BY <1>0, <1>4 DEF Backtrack, TypeOK
  <2>2. PICK early \in Cuts(p, t), m \in 0..star.ti : MatchesUpTo(p, t, star.pi, m, early)
    BY <1>0, <2>1 DEF Sound, StarCanStart
  <2>3. p[star.pi + 1] = Star
    BY <1>0, <2>1 DEF Sound, StarCanStart
  <2>4. m \in 0..Len(t) /\ star.ti + 1 \in 0..Len(t) /\ m <= star.ti + 1
    BY <1>1, <2>1
  <2>5. \E longer \in Cuts(p, t) : MatchesUpTo(p, t, star.pi + 1, star.ti + 1, longer)
    BY <1>0, <2>1, <2>2, <2>3, <2>4, Extend
  <2>6. /\ p' = p /\ t' = t /\ pi' = star.pi + 1 /\ ti' = star.ti + 1 /\ pc' = "text"
        /\ star'.pi = star.pi /\ star'.ti = star.ti + 1
    BY <1>0, <1>4 DEF Backtrack, TypeOK
  <2>7. ConsumedMatches'
    BY <2>5, <2>6 DEF ConsumedMatches
  <2>8. m \in 0..(star.ti + 1)
    BY <1>1, <2>1
  <2>9. StarCanStart'
    BY <2>2, <2>3, <2>6, <2>8 DEF StarCanStart
  <2>10. QED
    BY <2>6, <2>7, <2>9 DEF Sound
<1>5. CASE Mismatch \/ TextConsumed \/ ReturnAtEnd \/ UNCHANGED vars
  <2>1. UNCHANGED <<p, t, pi, ti, star>>
    BY <1>5 DEF Mismatch, TextConsumed, ReturnAtEnd, vars
  <2>2. /\ pc' \in {"stars", "true"} => ti = Len(t)
        /\ pc' = "true" => pi = Len(p)
    BY <1>0, <1>1, <1>5 DEF Sound, Mismatch, TextConsumed, ReturnAtEnd, vars
  <2>3. QED
    BY <1>0, <2>1, <2>2 DEF Sound, ConsumedMatches, StarCanStart
<1>6. CASE SkipStar
  <2>1. pi \in 0..(Len(p) - 1) /\ p[pi + 1] = Star
    BY <1>1, <1>6 DEF SkipStar, AtStar
  <2>2. \E longer \in Cuts(p, t) : MatchesUpTo(p, t, pi + 1, ti, longer)
    BY <1>0, <1>1, <1>a, <2>1, Extend
  <2>3. p' = p /\ t' = t /\ pi' = pi + 1 /\ ti' = ti /\ star' = star /\ pc' = "stars" /\ pc = "stars"
    BY <1>6 DEF SkipStar
  <2>4. QED
    BY <1>0, <2>2, <2>3 DEF Sound, ConsumedMatches, StarCanStart
<1>7. QED
  BY <1>2, <1>3, <1>4, <1>5, <1>6 DEF Next

LEMMA NextComplete == IInv /\ [Next]_vars => Complete'
<1> SUFFICES ASSUME IInv, [Next]_vars PROVE Complete'
  OBVIOUS
<1> SUFFICES ASSUME NEW cut \in Cuts(p, t), Whole(cut)
             PROVE  /\ pc' = "text" => BlockAfterStar(cut)'
                    /\ pc' = "stars" => cut[pi'] = Len(t)
                    /\ pc' # "false"
  <2>1. p' = p /\ t' = t
    BY DEF Next, MeetStar, ConsumeByte, Backtrack, Mismatch, TextConsumed, SkipStar, ReturnAtEnd, vars
  <2>2. QED
    BY <2>1 DEF Complete, Whole, BlockAfterStar
<1>0. TypeOK /\ Sound
  BY DEF IInv
<1>1. /\ Len(p) \in Nat /\ Len(t) \in Nat
      /\ pi \in 0..Len(p) /\ ti \in 0..Len(t) /\ cut[pi] \in 0..Len(t)
  BY <1>0, Arguments DEF TypeOK, Cuts
<1>a. /\ pc = "text" => BlockAfterStar(cut)
      /\ pc = "stars" => cut[pi] = Len(t)
      /\ pc # "false"
  BY DEF IInv, Complete
<1>b. star # NoStar => /\ star.pi \in 0..(Len(p) - 1) /\ star.ti \in 0..Len(t) /\ star.ti <= ti
                       /\ star.pi < pi /\ cut[star.pi + 1] \in 0..Len(t)
  BY <1>0, <1>1 DEF TypeOK, Cuts
<1>c. pc = "text" => cut[pi] >= ti
  BY <1>1, <1>a, <1>b DEF BlockAfterStar
<1>2. CASE MeetStar
  <2>1. pc = "text" /\ pi < Len(p) /\ p[pi + 1] = Star
    BY <1>2 DEF MeetStar, AtStar
  <2>2. cut[pi] <= cut[pi + 1] /\ cut[pi + 1] \in 0..Len(t)
    BY <1>0, <2>1, NextByte
  <2>3. /\ pi' = pi + 1 /\ ti' = ti /\ pc' = "text"
        /\ star' # NoStar /\ star'.pi = pi /\ star'.ti = ti
    BY <1>1, <1>2 DEF MeetStar, NoStar
  <2>4. QED
    BY <1>1, <1>c, <2>1, <2>2, <2>3 DEF BlockAfterStar
<1>3. CASE ConsumeByte
  <2>1. pc = "text" /\ pi < Len(p) /\ p[pi + 1] # Star
    BY <1>3 DEF ConsumeByte, AtSameByte
  <2>2. cut[pi + 1] = cut[pi] + 1
    BY <1>0, <2>1, NextByte
  <2>3. pi' = pi + 1 /\ ti' = ti + 1 /\ star' = star /\ pc' = "text"
    BY <1>3 DEF ConsumeByte
  <2>4. CASE star = NoStar
    BY <1>1, <1>a, <2>1, <2>2, <2>3, <2>4 DEF BlockAfterStar
  <2>5. CASE star # NoStar
    <3>1. cut[star.pi + 1] >= star.ti /\ cut[pi] = cut[star.pi + 1] + (ti - star.ti)
      BY <1>a, <2>1, <2>5 DEF BlockAfterStar
    <3> DEFINE reach == cut[star.pi + 1]
    <3>2. reach \in Int /\ star.ti \in Int /\ ti \in Int
      BY <1>1, <1>b, <2>5
    <3>3. cut[pi + 1] = (reach + (ti - star.ti)) + 1
      BY <2>2, <3>1
    <3> HIDE DEF reach
    <3>4. cut[pi + 1] = reach + ((ti + 1) - star.ti)
      BY <3>2, <3>3
    <3>5. QED
      BY <2>3, <2>5, <3>1, <3>4 DEF BlockAfterStar, reach
  <2>6. QED
    BY <2>4, <2>5
<1>4. CASE Backtrack
  <2>1. pc = "text" /\ star # NoStar /\ cut[pi] # ti
    BY <1>0, <1>4, BlockFails DEF Backtrack
  <2>2. cut[star.pi + 1] >= star.ti + 1
    <3> DEFINE reach == cut[star.pi + 1]
    <3>1. reach >= star.ti /\ cut[pi] = reach + (ti - star.ti)
      BY <1>a, <2>1 DEF BlockAfterStar
    <3>2. reach \in Int /\ star.ti \in Int /\ ti \in Int
      BY <1>1, <1>b, <2>1
    <3> HIDE DEF reach
    <3>3. reach # star.ti
      BY <2>1, <3>1, <3>2
    <3>4. reach >= star.ti + 1
      BY <3>1, <3>2, <3>3
    <3>5. QED
      BY <3>4 DEF reach
  <2>3. /\ pi' = star.pi + 1 /\ ti' = star.ti + 1 /\ pc' = "text"
        /\ star' # NoStar /\ star'.pi = star.pi /\ star'.ti = star.ti + 1
    BY <1>0, <1>b, <1>4 DEF Backtrack, TypeOK, NoStar
  <2>4. QED
    BY <1>1, <1>b, <2>1, <2>2, <2>3 DEF BlockAfterStar
<1>5. CASE Mismatch
  <2>1. pc = "text" /\ star = NoStar /\ cut[pi] # ti
    BY <1>0, <1>5, BlockFails DEF Mismatch
  <2>2. QED
    BY <1>a, <2>1 DEF BlockAfterStar
<1>6. CASE TextConsumed
  BY <1>1, <1>c, <1>6 DEF TextConsumed
<1>7. CASE SkipStar
  <2>1. pc = "stars" /\ pi < Len(p) /\ p[pi + 1] = Star
    BY <1>7 DEF SkipStar, AtStar
  <2>2. cut[pi] <= cut[pi + 1] /\ cut[pi + 1] \in 0..Len(t)
    BY <1>0, <2>1, NextByte
  <2>3. QED
    BY <1>1, <1>7, <1>a, <2>1, <2>2 DEF SkipStar
<1>8. CASE ReturnAtEnd
  <2>1. pi < Len(p) => p[pi + 1] # Star
    BY <1>8 DEF ReturnAtEnd, AtStar
  <2>2. ~(pi < Len(p))
    BY <1>0, <1>1, <1>a, <1>8, <2>1, NextByte DEF ReturnAtEnd
  <2>3. QED
    BY <1>1, <1>8, <2>2 DEF ReturnAtEnd
<1>9. CASE UNCHANGED vars
  BY <1>9, <1>a DEF vars, BlockAfterStar
<1>10. QED
  BY <1>2, <1>3, <1>4, <1>5, <1>6, <1>7, <1>8, <1>9 DEF Next

LEMMA InvariantIInv == Spec => []IInv
<1>1. IInv /\ [Next]_vars => IInv'
  BY NextTypeOK, NextSound, NextComplete DEF IInv
<1>2. QED
  BY InitIInv, <1>1, PTL DEF Spec

-----------------------------------------------------------------------------
(***************************************************************************)
(* The pointers of glob_match stay within pattern and text.                *)
(***************************************************************************)
THEOREM GlobTypeCorrect == Spec => []TypeOK
<1>1. IInv => TypeOK
  BY DEF IInv
<1>2. QED
  BY <1>1, InvariantIInv, PTL

(***************************************************************************)
(* glob_match returns true exactly when the pattern matches the text, for  *)
(* every pattern and every text.                                           *)
(***************************************************************************)
THEOREM GlobCorrect == Spec => []Correct
<1>1. IInv => Correct
  <2> SUFFICES ASSUME IInv PROVE Correct
    OBVIOUS
  <2>1. pc = "true" => GlobMatches(p, t)
    BY DEF IInv, Sound, ConsumedMatches, GlobMatches
  <2>2. pc = "false" => ~GlobMatches(p, t)
    BY DEF IInv, Complete, Whole, GlobMatches
  <2>3. QED
    BY <2>1, <2>2 DEF Correct
<1>2. QED
  BY <1>1, InvariantIInv, PTL

(***************************************************************************)
(* Every iteration of glob_match makes progress, so that their number is   *)
(* bounded by the product of the two lengths.                              *)
(***************************************************************************)
THEOREM GlobProgress == Spec => Progress
<1> DEFINE Advance ==
        \/ star'.ti > star.ti
        \/ star'.ti = star.ti /\ pi' > pi
        \/ star'.ti = star.ti /\ pi' = pi /\ pc' # pc
<1>1. IInv /\ [Next]_vars => [Advance]_vars
  <2> SUFFICES ASSUME TypeOK, Next PROVE Advance
    BY DEF IInv
  <2>1. Len(p) \in Nat /\ Len(t) \in Nat /\ pi \in 0..Len(p) /\ ti \in 0..Len(t)
    BY Arguments DEF TypeOK
  <2>2. star.ti \in 0..Len(t) /\ star.ti <= ti
    BY <2>1 DEF TypeOK, NoStar
  <2>3. QED
    BY <2>1, <2>2 DEF TypeOK, NoStar, Next, MeetStar, ConsumeByte, Backtrack, Mismatch, TextConsumed,
                      SkipStar, ReturnAtEnd
<1>2. QED
  BY <1>1, InvariantIInv, PTL DEF Spec, Progress

-----------------------------------------------------------------------------
(***************************************************************************)
(* Powers of two: the recursive definition has a solution, built from its  *)
(* solutions up to each n, and it doubles.                                 *)
(***************************************************************************)
IsPowerUpTo(f, n) == f = [e \in 0..n |-> IF e = 0 THEN 1 ELSE 2 * f[e - 1]]

LEMMA PowerUpToExists ==
    ASSUME NEW n \in Nat
    PROVE  \E f : IsPowerUpTo(f, n)
<1> DEFINE without == {k \in Nat : ~\E f : IsPowerUpTo(f, k)}
<1>1. SUFFICES ASSUME without # {}
               PROVE  FALSE
  OBVIOUS
<1>2. PICK k \in without : \A j \in without : k <= j
  BY <1>1, LeastElement
<1>3. CASE k = 0
  <2> DEFINE f == [e \in 0..0 |-> 1]
  <2>1. IsPowerUpTo(f, 0)
    BY DEF IsPowerUpTo
  <2>2. QED
    BY <1>2, <1>3, <2>1
<1>4. CASE k # 0
  <2>1. k - 1 \in Nat /\ k - 1 \notin without
    BY <1>2, <1>4
  <2>2. PICK f : IsPowerUpTo(f, k - 1)
    BY <2>1
  <2> DEFINE g == [e \in 0..k |-> IF e = k THEN 2 * f[k - 1] ELSE f[e]]
  <2>3. \A e \in 0..(k - 1) : f[e] = IF e = 0 THEN 1 ELSE 2 * f[e - 1]
    BY <2>2 DEF IsPowerUpTo
  <2>4. \A e \in 0..k : g[e] = IF e = 0 THEN 1 ELSE 2 * g[e - 1]
    BY <1>4, <2>1, <2>3
  <2>5. g = [e \in 0..k |-> IF e = 0 THEN 1 ELSE 2 * g[e - 1]]
    BY <2>4
  <2> HIDE DEF g
  <2>6. IsPowerUpTo(g, k)
    BY <2>5 DEF IsPowerUpTo
  <2>7. QED
    BY <1>2, <2>6
<1>5. QED
  BY <1>3, <1>4

LEMMA PowersAgree ==
    ASSUME NEW m \in Nat, NEW n \in Nat, NEW f, NEW g, IsPowerUpTo(f, m), IsPowerUpTo(g, n),
           NEW e \in Nat, e <= m, e <= n
    PROVE  f[e] = g[e]
<1> DEFINE apart == {k \in 0..e : f[k] # g[k]}
<1>1. SUFFICES ASSUME apart # {}
               PROVE  FALSE
  OBVIOUS
<1>2. PICK k \in apart : \A j \in apart : k <= j
  <2>1. apart \in SUBSET Nat
    OBVIOUS
  <2>2. QED
    BY <1>1, <2>1, LeastElement
<1>3. f[k] = (IF k = 0 THEN 1 ELSE 2 * f[k - 1]) /\ g[k] = (IF k = 0 THEN 1 ELSE 2 * g[k - 1])
  <2>1. k \in 0..m /\ k \in 0..n
    BY <1>2
  <2>2. QED
    BY <2>1 DEF IsPowerUpTo
<1>4. k # 0 => f[k - 1] = g[k - 1]
  BY <1>2
<1>5. QED
  BY <1>2, <1>3, <1>4

LEMMA PowerDoubles == Power[0] = 1 /\ \A e \in Nat : Power[e + 1] = 2 * Power[e]
<1> DEFINE upTo(n) == CHOOSE f : IsPowerUpTo(f, n)
           x == [e \in Nat |-> upTo(e)[e]]
<1>1. \A n \in Nat : IsPowerUpTo(upTo(n), n)
  BY PowerUpToExists
<1> HIDE DEF upTo
<1>2. \A e \in Nat : upTo(e)[e] = IF e = 0 THEN 1 ELSE 2 * upTo(e - 1)[e - 1]
  <2> SUFFICES ASSUME NEW e \in Nat
               PROVE  upTo(e)[e] = IF e = 0 THEN 1 ELSE 2 * upTo(e - 1)[e - 1]
    OBVIOUS
  <2>1. upTo(e)[e] = IF e = 0 THEN 1 ELSE 2 * upTo(e)[e - 1]
    <3>1. e \in 0..e
      OBVIOUS
    <3>2. QED
      BY <1>1, <3>1 DEF IsPowerUpTo
  <2>2. e # 0 => upTo(e)[e - 1] = upTo(e - 1)[e - 1]
    BY <1>1, PowersAgree
  <2>3. QED
    BY <2>1, <2>2
<1>3. \A e \in Nat : x[e] = IF e = 0 THEN 1 ELSE 2 * x[e - 1]
  BY <1>2
<1>4. x = [e \in Nat |-> IF e = 0 THEN 1 ELSE 2 * x[e - 1]]
  BY <1>3
<1> HIDE DEF x
<1>5. Power = [e \in Nat |-> IF e = 0 THEN 1 ELSE 2 * Power[e - 1]]
  BY <1>4 DEF Power
<1>6. \A e \in Nat : Power[e] = IF e = 0 THEN 1 ELSE 2 * Power[e - 1]
  BY <1>5
<1>7. QED
  BY <1>6

LEMMA PowerGrows == \A e \in Nat : Power[e] \in Nat /\ Power[e] > e
<1> DEFINE wrong == {e \in Nat : ~(Power[e] \in Nat /\ Power[e] > e)}
<1>1. SUFFICES ASSUME wrong # {}
               PROVE  FALSE
  OBVIOUS
<1>2. PICK e \in wrong : \A j \in wrong : e <= j
  BY <1>1, LeastElement
<1>3. e # 0 /\ e - 1 \in Nat
  BY <1>2, PowerDoubles
<1>4. e - 1 \notin wrong
  BY <1>2, <1>3
<1>5. Power[e] = 2 * Power[e - 1]
  BY <1>3, PowerDoubles
<1>6. QED
  BY <1>2, <1>3, <1>4, <1>5

LEMMA PowersApart ==
    ASSUME NEW e \in Nat, NEW f \in Nat, e < f
    PROVE  2 * Power[e] <= Power[f]
<1> DEFINE wrong == {k \in Nat : e < k /\ ~(2 * Power[e] <= Power[k])}
<1>1. SUFFICES ASSUME wrong # {}
               PROVE  FALSE
  OBVIOUS
<1>2. PICK k \in wrong : \A j \in wrong : k <= j
  BY <1>1, LeastElement
<1>3. k - 1 \in Nat /\ Power[k] = 2 * Power[k - 1]
  BY <1>2, PowerDoubles
<1>4. k - 1 \notin wrong
  BY <1>2, <1>3
<1>5. Power[e] \in Nat /\ Power[k - 1] \in Nat
  BY <1>3, PowerGrows
<1>6. QED
  BY <1>2, <1>3, <1>4, <1>5

(***************************************************************************)
(* The split of a span of n leaves, given by the power of two it is.       *)
(***************************************************************************)
LEMMA SplitIs ==
    ASSUME NEW e \in Nat, NEW n \in Nat, Power[e] < n, n <= 2 * Power[e]
    PROVE  Split(n) = Power[e]
<1> DEFINE fits(k) == k < n /\ n <= 2 * k
<1>1. Power[e] \in Nat /\ e \in 0..n
  BY PowerGrows
<1>2. \A f \in 0..n : fits(Power[f]) => f = e
  <2> SUFFICES ASSUME NEW f \in 0..n, fits(Power[f]), f # e
               PROVE  FALSE
    OBVIOUS
  <2>1. f \in Nat /\ Power[f] \in Nat
    BY PowerGrows
  <2>2. (f < e => 2 * Power[f] <= Power[e]) /\ (e < f => 2 * Power[e] <= Power[f])
    BY <2>1, PowersApart
  <2>3. QED
    BY <1>1, <2>1, <2>2
<1>3. \A k \in {Power[f] : f \in 0..n} : fits(k) => k = Power[e]
  BY <1>2
<1>4. Power[e] \in {Power[f] : f \in 0..n} /\ fits(Power[e])
  BY <1>1
<1>5. QED
  BY <1>3, <1>4 DEF Split

LEMMA SplitWithin ==
    ASSUME NEW n \in Nat, n > 1
    PROVE  Split(n) \in 1..(n - 1)
<1> DEFINE enough == {e \in Nat : n <= 2 * Power[e]}
<1>1. n \in enough
  BY PowerGrows
<1>2. PICK e \in enough : \A f \in enough : e <= f
  BY <1>1, LeastElement
<1>3. Power[e] < n
  <2>1. CASE e = 0
    BY <2>1, PowerDoubles
  <2>2. CASE e # 0
    <3>1. e - 1 \in Nat /\ Power[e] = 2 * Power[e - 1] /\ e - 1 \notin enough
      BY <1>2, <2>2, PowerDoubles
    <3>2. QED
      BY <3>1, PowerGrows
  <2>3. QED
    BY <2>1, <2>2
<1>4. Split(n) = Power[e] /\ Power[e] \in Nat /\ Power[e] > e
  BY <1>2, <1>3, SplitIs, PowerGrows
<1>5. QED
  BY <1>2, <1>3, <1>4

-----------------------------------------------------------------------------
(***************************************************************************)
(* The tree and its paths: the recursive definitions over spans have       *)
(* solutions, built from short spans to long ones.                         *)
(***************************************************************************)
LEMMA SpanSplits ==
    ASSUME NEW size \in Nat, NEW s \in Spans(size), s[2] - s[1] # 1
    PROVE  /\ Middle(s) \in Nat /\ s[1] < Middle(s) /\ Middle(s) < s[2]
           /\ <<s[1], Middle(s)>> \in Spans(size) /\ <<Middle(s), s[2]>> \in Spans(size)
<1>1. s[1] \in 0..size /\ s[2] \in 0..size /\ s[1] < s[2]
  BY DEF Spans
<1>2. s[2] - s[1] \in Nat /\ s[2] - s[1] > 1
  BY <1>1
<1>3. Split(s[2] - s[1]) \in 1..(s[2] - s[1] - 1)
  BY <1>2, SplitWithin
<1>4. Middle(s) \in 0..size /\ s[1] < Middle(s) /\ Middle(s) < s[2]
  BY <1>1, <1>3 DEF Middle
<1>5. QED
  BY <1>1, <1>4 DEF Spans

HashAt(f, leaves, s) ==
    IF s[2] - s[1] = 1 THEN LeafHash(leaves[s[2]])
    ELSE NodeHash(f[<<s[1], Middle(s)>>], f[<<Middle(s), s[2]>>])

HashesUpTo(f, leaves, n) == \A s \in Spans(Len(leaves)) : s[2] - s[1] <= n => f[s] = HashAt(f, leaves, s)

LEMMA HashesExist ==
    ASSUME NEW leaves, Len(leaves) \in Nat, NEW n \in Nat
    PROVE  \E f : HashesUpTo(f, leaves, n)
<1> DEFINE spans == Spans(Len(leaves))
           without == {k \in Nat : ~\E f : HashesUpTo(f, leaves, k)}
<1>1. SUFFICES ASSUME without # {}
               PROVE  FALSE
  OBVIOUS
<1>2. PICK k \in without : \A j \in without : k <= j
  BY <1>1, LeastElement
<1>3. \A s \in spans : s[1] \in Nat /\ s[2] \in Nat /\ s[1] < s[2]
  BY DEF Spans
<1>4. k # 0
  <2>1. HashesUpTo({}, leaves, 0)
    BY <1>3 DEF HashesUpTo
  <2>2. QED
    BY <1>2, <2>1
<1>5. k - 1 \in Nat /\ k - 1 \notin without
  BY <1>2, <1>4
<1>6. PICK f : HashesUpTo(f, leaves, k - 1)
  BY <1>5
<1> DEFINE g == [s \in spans |-> IF s[2] - s[1] < k THEN f[s] ELSE HashAt(f, leaves, s)]
<1>7. \A s \in spans : s[2] - s[1] <= k => HashAt(g, leaves, s) = HashAt(f, leaves, s)
  <2> SUFFICES ASSUME NEW s \in spans, s[2] - s[1] <= k, s[2] - s[1] # 1
               PROVE  HashAt(g, leaves, s) = HashAt(f, leaves, s)
    BY DEF HashAt
  <2> DEFINE l == <<s[1], Middle(s)>>
             r == <<Middle(s), s[2]>>
  <2>1. /\ Middle(s) \in Nat /\ s[1] < Middle(s) /\ Middle(s) < s[2]
        /\ l \in spans /\ r \in spans
    BY SpanSplits
  <2>2. l[2] - l[1] < k /\ r[2] - r[1] < k
    BY <1>2, <1>3, <2>1
  <2> HIDE DEF spans
  <2>3. g[l] = f[l] /\ g[r] = f[r]
    BY <2>1, <2>2
  <2>4. QED
    BY <2>3 DEF HashAt
<1>8. \A s \in spans : s[2] - s[1] <= k => g[s] = HashAt(f, leaves, s)
  <2> SUFFICES ASSUME NEW s \in spans, s[2] - s[1] <= k
               PROVE  g[s] = HashAt(f, leaves, s)
    OBVIOUS
  <2>1. s[2] - s[1] \in Int
    BY <1>3
  <2>2. s[2] - s[1] < k => s[2] - s[1] <= k - 1
    BY <1>2, <2>1
  <2> HIDE DEF spans
  <2>3. CASE s[2] - s[1] < k
    BY <1>6, <2>2, <2>3 DEF HashesUpTo, spans
  <2>4. CASE ~(s[2] - s[1] < k)
    BY <2>4
  <2>5. QED
    BY <2>3, <2>4
<1> HIDE DEF g
<1>9. HashesUpTo(g, leaves, k)
  BY <1>7, <1>8 DEF HashesUpTo
<1>10. QED
  BY <1>2, <1>9

LEMMA HashIs ==
    ASSUME NEW leaves, Len(leaves) \in Nat, NEW s \in Spans(Len(leaves))
    PROVE  SubtreeHash(leaves)[s] = HashAt(SubtreeHash(leaves), leaves, s)
<1> DEFINE spans == Spans(Len(leaves))
           IsSolution(f) == f = [u \in spans |-> HashAt(f, leaves, u)]
<1>1. PICK f : HashesUpTo(f, leaves, Len(leaves))
  BY HashesExist
<1> DEFINE g == [u \in spans |-> f[u]]
<1>2. \A u \in spans : f[u] = HashAt(f, leaves, u)
  <2>1. \A u \in spans : u[2] - u[1] <= Len(leaves)
    BY DEF Spans
  <2>2. QED
    BY <1>1, <2>1 DEF HashesUpTo
<1>3. \A u \in spans : HashAt(g, leaves, u) = HashAt(f, leaves, u)
  <2> SUFFICES ASSUME NEW u \in spans, u[2] - u[1] # 1
               PROVE  HashAt(g, leaves, u) = HashAt(f, leaves, u)
    BY DEF HashAt
  <2>1. <<u[1], Middle(u)>> \in spans /\ <<Middle(u), u[2]>> \in spans
    BY SpanSplits
  <2> HIDE DEF spans
  <2>2. QED
    BY <2>1 DEF HashAt
<1>4. g = [u \in spans |-> HashAt(g, leaves, u)]
  BY <1>2, <1>3
<1> HIDE DEF g
<1>5. IsSolution(SubtreeHash(leaves))
  <2>1. SubtreeHash(leaves) = CHOOSE h : IsSolution(h)
    BY DEF SubtreeHash, HashAt
  <2>2. IsSolution(g)
    BY <1>4
  <2> HIDE DEF IsSolution
  <2>3. QED
    BY <2>1, <2>2
<1>6. QED
  BY <1>5

PathAt(f, index, leaves, s) ==
    IF s[2] - s[1] = 1 THEN <<>>
    ELSE IF index < Middle(s)
    THEN f[<<s[1], Middle(s)>>] \o <<SubtreeHash(leaves)[<<Middle(s), s[2]>>]>>
    ELSE f[<<Middle(s), s[2]>>] \o <<SubtreeHash(leaves)[<<s[1], Middle(s)>>]>>

PathsUpTo(f, index, leaves, n) ==
    \A s \in Spans(Len(leaves)) : s[2] - s[1] <= n => f[s] = PathAt(f, index, leaves, s)

LEMMA PathsExist ==
    ASSUME NEW leaves, Len(leaves) \in Nat, NEW index, NEW n \in Nat
    PROVE  \E f : PathsUpTo(f, index, leaves, n)
<1> DEFINE spans == Spans(Len(leaves))
           without == {k \in Nat : ~\E f : PathsUpTo(f, index, leaves, k)}
<1>1. SUFFICES ASSUME without # {}
               PROVE  FALSE
  OBVIOUS
<1>2. PICK k \in without : \A j \in without : k <= j
  BY <1>1, LeastElement
<1>3. \A s \in spans : s[1] \in Nat /\ s[2] \in Nat /\ s[1] < s[2]
  BY DEF Spans
<1>4. k # 0
  <2>1. PathsUpTo({}, index, leaves, 0)
    BY <1>3 DEF PathsUpTo
  <2>2. QED
    BY <1>2, <2>1
<1>5. k - 1 \in Nat /\ k - 1 \notin without
  BY <1>2, <1>4
<1>6. PICK f : PathsUpTo(f, index, leaves, k - 1)
  BY <1>5
<1> DEFINE g == [s \in spans |-> IF s[2] - s[1] < k THEN f[s] ELSE PathAt(f, index, leaves, s)]
<1>7. \A s \in spans : s[2] - s[1] <= k => PathAt(g, index, leaves, s) = PathAt(f, index, leaves, s)
  <2> SUFFICES ASSUME NEW s \in spans, s[2] - s[1] <= k, s[2] - s[1] # 1
               PROVE  PathAt(g, index, leaves, s) = PathAt(f, index, leaves, s)
    BY DEF PathAt
  <2> DEFINE l == <<s[1], Middle(s)>>
             r == <<Middle(s), s[2]>>
  <2>1. /\ Middle(s) \in Nat /\ s[1] < Middle(s) /\ Middle(s) < s[2]
        /\ l \in spans /\ r \in spans
    BY SpanSplits
  <2>2. l[2] - l[1] < k /\ r[2] - r[1] < k
    BY <1>2, <1>3, <2>1
  <2> HIDE DEF spans
  <2>3. g[l] = f[l] /\ g[r] = f[r]
    BY <2>1, <2>2
  <2>4. QED
    BY <2>3 DEF PathAt
<1>8. \A s \in spans : s[2] - s[1] <= k => g[s] = PathAt(f, index, leaves, s)
  <2> SUFFICES ASSUME NEW s \in spans, s[2] - s[1] <= k
               PROVE  g[s] = PathAt(f, index, leaves, s)
    OBVIOUS
  <2>1. s[2] - s[1] \in Int
    BY <1>3
  <2>2. s[2] - s[1] < k => s[2] - s[1] <= k - 1
    BY <1>2, <2>1
  <2> HIDE DEF spans
  <2>3. CASE s[2] - s[1] < k
    BY <1>6, <2>2, <2>3 DEF PathsUpTo, spans
  <2>4. CASE ~(s[2] - s[1] < k)
    BY <2>4
  <2>5. QED
    BY <2>3, <2>4
<1> HIDE DEF g
<1>9. PathsUpTo(g, index, leaves, k)
  BY <1>7, <1>8 DEF PathsUpTo
<1>10. QED
  BY <1>2, <1>9

LEMMA PathIs ==
    ASSUME NEW leaves, Len(leaves) \in Nat, NEW index, NEW s \in Spans(Len(leaves))
    PROVE  SubtreePath(index, leaves)[s] = PathAt(SubtreePath(index, leaves), index, leaves, s)
<1> DEFINE spans == Spans(Len(leaves))
           IsSolution(f) == f = [u \in spans |-> PathAt(f, index, leaves, u)]
<1>1. PICK f : PathsUpTo(f, index, leaves, Len(leaves))
  BY PathsExist
<1> DEFINE g == [u \in spans |-> f[u]]
<1>2. \A u \in spans : f[u] = PathAt(f, index, leaves, u)
  <2>1. \A u \in spans : u[2] - u[1] <= Len(leaves)
    BY DEF Spans
  <2>2. QED
    BY <1>1, <2>1 DEF PathsUpTo
<1>3. \A u \in spans : PathAt(g, index, leaves, u) = PathAt(f, index, leaves, u)
  <2> SUFFICES ASSUME NEW u \in spans, u[2] - u[1] # 1
               PROVE  PathAt(g, index, leaves, u) = PathAt(f, index, leaves, u)
    BY DEF PathAt
  <2>1. <<u[1], Middle(u)>> \in spans /\ <<Middle(u), u[2]>> \in spans
    BY SpanSplits
  <2> HIDE DEF spans
  <2>2. QED
    BY <2>1 DEF PathAt
<1>4. g = [u \in spans |-> PathAt(g, index, leaves, u)]
  BY <1>2, <1>3
<1> HIDE DEF g
<1>5. IsSolution(SubtreePath(index, leaves))
  <2>1. SubtreePath(index, leaves) = CHOOSE h : IsSolution(h)
    BY DEF SubtreePath, PathAt
  <2>2. IsSolution(g)
    BY <1>4
  <2> HIDE DEF IsSolution
  <2>3. QED
    BY <2>1, <2>2
<1>6. QED
  BY <1>5

(***************************************************************************)
(* A path is a sequence of hashes of subtrees, none of the wrong length.   *)
(***************************************************************************)
HashesOf(leaves) == {SubtreeHash(leaves)[s] : s \in Spans(Len(leaves))}

LEMMA PathTyped ==
    ASSUME NEW leaves, Len(leaves) \in Nat, NEW index, NEW s \in Spans(Len(leaves))
    PROVE  SubtreePath(index, leaves)[s] \in Seq(HashesOf(leaves))
<1> DEFINE spans == Spans(Len(leaves))
           path == SubtreePath(index, leaves)
           wrong == {k \in Nat : \E u \in spans : u[2] - u[1] = k /\ path[u] \notin Seq(HashesOf(leaves))}
<1>1. SUFFICES ASSUME wrong # {}
               PROVE  FALSE
  <2>1. s[2] - s[1] \in Nat
    BY DEF Spans
  <2>2. QED
    BY <2>1
<1>2. PICK k \in wrong : \A j \in wrong : k <= j
  BY <1>1, LeastElement
<1>3. PICK u \in spans : u[2] - u[1] = k /\ path[u] \notin Seq(HashesOf(leaves))
  BY <1>2
<1>4. path[u] = PathAt(path, index, leaves, u)
  BY PathIs
<1>5. CASE k = 1
  <2>1. path[u] = <<>>
    BY <1>3, <1>4, <1>5 DEF PathAt
  <2>2. QED
    BY <1>3, <2>1
<1>6. CASE k # 1
  <2> DEFINE l == <<u[1], Middle(u)>>
             r == <<Middle(u), u[2]>>
  <2>1. /\ Middle(u) \in Nat /\ u[1] < Middle(u) /\ Middle(u) < u[2]
        /\ l \in spans /\ r \in spans
    BY <1>3, <1>6, SpanSplits
  <2>2. u[1] \in Nat /\ u[2] \in Nat
    BY DEF Spans
  <2>3. l[2] - l[1] \in Nat /\ l[2] - l[1] < k /\ r[2] - r[1] \in Nat /\ r[2] - r[1] < k
    BY <1>3, <2>1, <2>2
  <2> HIDE DEF spans, path
  <2>4. path[l] \in Seq(HashesOf(leaves)) /\ path[r] \in Seq(HashesOf(leaves))
    <3>1. l[2] - l[1] \notin wrong /\ r[2] - r[1] \notin wrong
      BY <1>2, <2>3
    <3>2. QED
      BY <2>1, <2>3, <3>1
  <2>5. SubtreeHash(leaves)[l] \in HashesOf(leaves) /\ SubtreeHash(leaves)[r] \in HashesOf(leaves)
    BY <2>1 DEF HashesOf, spans
  <2>6. path[u] \in {path[l] \o <<SubtreeHash(leaves)[r]>>, path[r] \o <<SubtreeHash(leaves)[l]>>}
    BY <1>3, <1>4, <1>6 DEF PathAt
  <2>7. \A S, x, h : x \in Seq(S) /\ h \in S => x \o <<h>> \in Seq(S)
    OBVIOUS
  <2>8. QED
    BY <1>3, <2>4, <2>5, <2>6, <2>7
<1>7. QED
  BY <1>5, <1>6

LEMMA HashesAreHashes ==
    ASSUME NEW leaves, Len(leaves) \in Nat
    PROVE  WrongLength \notin HashesOf(leaves)
<1> SUFFICES ASSUME NEW s \in Spans(Len(leaves)), SubtreeHash(leaves)[s] = WrongLength
             PROVE  FALSE
  BY DEF HashesOf
<1>1. WrongLength = HashAt(SubtreeHash(leaves), leaves, s)
  BY HashIs
<1>2. DOMAIN WrongLength = {"wrongLength"}
  BY DEF WrongLength
<1>3. DOMAIN HashAt(SubtreeHash(leaves), leaves, s) \in {{"leaf"}, {"left", "right"}}
  BY DEF HashAt, LeafHash, NodeHash
<1>4. QED
  BY <1>1, <1>2, <1>3

-----------------------------------------------------------------------------
(***************************************************************************)
(* The levels of the tree: the node at lo on level e spans Power[e] leaves *)
(* or what the tree has of them.                                           *)
(***************************************************************************)
NodeSpan(lo, e, size) == <<lo, IF lo + Power[e] < size THEN lo + Power[e] ELSE size>>

LEMMA NodeIsSpan ==
    ASSUME NEW size \in Nat, NEW lo \in Nat, lo < size, NEW e \in Nat
    PROVE  NodeSpan(lo, e, size) \in Spans(size)
<1>1. Power[e] \in Nat /\ Power[e] > 0
  BY PowerGrows
<1>2. QED
  BY <1>1 DEF NodeSpan, Spans

LEMMA LeafLevel ==
    ASSUME NEW leaves, Len(leaves) \in Nat, NEW index, NEW lo \in Nat, lo < Len(leaves)
    PROVE  /\ SubtreeHash(leaves)[NodeSpan(lo, 0, Len(leaves))] = LeafHash(leaves[lo + 1])
           /\ SubtreePath(index, leaves)[NodeSpan(lo, 0, Len(leaves))] = <<>>
<1> DEFINE s == NodeSpan(lo, 0, Len(leaves))
<1>1. s \in Spans(Len(leaves))
  BY NodeIsSpan
<1>2. s[1] = lo /\ s[2] = lo + 1
  BY PowerDoubles DEF NodeSpan
<1>3. s[2] - s[1] = 1
  BY <1>2
<1> HIDE DEF s
<1>4. HashAt(SubtreeHash(leaves), leaves, s) = LeafHash(leaves[lo + 1])
  BY <1>2, <1>3 DEF HashAt
<1>5. PathAt(SubtreePath(index, leaves), index, leaves, s) = <<>>
  BY <1>3 DEF PathAt
<1>6. QED
  BY <1>1, <1>4, <1>5, HashIs, PathIs DEF s

LEMMA LevelUp ==
    ASSUME NEW leaves, Len(leaves) \in Nat, NEW index, NEW e \in Nat, NEW lo \in Nat, lo < Len(leaves)
    PROVE  LET hash == SubtreeHash(leaves)
               path == SubtreePath(index, leaves)
               s == NodeSpan(lo, e + 1, Len(leaves))
               l == NodeSpan(lo, e, Len(leaves))
               r == NodeSpan(lo + Power[e], e, Len(leaves))
           IN  IF lo + Power[e] < Len(leaves)
               THEN /\ hash[s] = NodeHash(hash[l], hash[r])
                    /\ path[s] = IF index < lo + Power[e] THEN path[l] \o <<hash[r]>> ELSE path[r] \o <<hash[l]>>
               ELSE s = l
<1> DEFINE size == Len(leaves)
           w == Power[e]
           s == NodeSpan(lo, e + 1, size)
           l == NodeSpan(lo, e, size)
           r == NodeSpan(lo + w, e, size)
<1>1. w \in Nat /\ w > 0 /\ Power[e + 1] = 2 * w
  <2>1. Power[e] \in Nat /\ Power[e] > e /\ Power[e + 1] = 2 * Power[e]
    BY PowerGrows, PowerDoubles
  <2>2. QED
    BY <2>1
<1>2. CASE ~(lo + w < size)
  <2>1. s = l
    BY <1>1, <1>2 DEF NodeSpan
  <2>2. QED
    BY <1>2, <2>1
<1>3. CASE lo + w < size
  <2>1. s \in Spans(size)
    BY NodeIsSpan
  <2>2. s[1] = lo /\ s[2] \in Nat /\ s[2] = (IF lo + 2 * w < size THEN lo + 2 * w ELSE size)
    BY <1>1 DEF NodeSpan
  <2> DEFINE n == s[2] - s[1]
  <2>3. n \in Nat /\ w < n /\ n <= 2 * w /\ n # 1
    <3> HIDE DEF w, s
    <3>1. size \in Nat /\ lo \in Nat
      OBVIOUS
    <3>2. QED
      BY <1>1, <1>3, <2>2, <3>1
  <2>4. Split(n) = w
    <3> HIDE DEF n, s
    <3>1. QED
      BY <2>3, SplitIs
  <2>5. Middle(s) = lo + w
    BY <2>2, <2>4 DEF Middle
  <2>6. <<s[1], Middle(s)>> = l
    BY <1>3, <2>2, <2>5 DEF NodeSpan
  <2>7. <<Middle(s), s[2]>> = r
    <3>1. (lo + w) + w = lo + 2 * w
      BY <1>1
    <3>2. QED
      BY <2>2, <2>5, <3>1 DEF NodeSpan
  <2> HIDE DEF s, l, r
  <2>8. SubtreeHash(leaves)[s] = NodeHash(SubtreeHash(leaves)[l], SubtreeHash(leaves)[r])
    <3>1. SubtreeHash(leaves)[s] = HashAt(SubtreeHash(leaves), leaves, s)
      BY <2>1, HashIs
    <3>2. QED
      BY <2>3, <2>6, <2>7, <3>1 DEF HashAt
  <2>9. SubtreePath(index, leaves)[s] =
            IF index < lo + w THEN SubtreePath(index, leaves)[l] \o <<SubtreeHash(leaves)[r]>>
            ELSE SubtreePath(index, leaves)[r] \o <<SubtreeHash(leaves)[l]>>
    <3>1. SubtreePath(index, leaves)[s] = PathAt(SubtreePath(index, leaves), index, leaves, s)
      BY <2>1, PathIs
    <3>2. QED
      BY <2>3, <2>5, <2>6, <2>7, <3>1 DEF PathAt
  <2>10. QED
    BY <1>3, <2>8, <2>9 DEF s, l, r
<1>4. QED
  BY <1>2, <1>3

LEMMA Times ==
    ASSUME NEW a \in Nat, NEW b \in Nat, NEW w \in Nat
    PROVE  /\ a * w \in Nat
           /\ a < b => a * w + w <= b * w
           /\ (2 * a) * w = a * (2 * w)
           /\ (2 * a + 1) * w = a * (2 * w) + w
<1>1. a * w \in Nat /\ (2 * a) * w = a * (2 * w) /\ (2 * a + 1) * w = a * (2 * w) + w
  OBVIOUS
<1>2. ASSUME a < b
      PROVE  a * w + w <= b * w
  <2>1. PICK d \in Nat : b = a + 1 + d
    <3>1. b - a - 1 \in Nat /\ b = a + 1 + (b - a - 1)
      BY <1>2
    <3>2. QED
      BY <3>1
  <2>2. b * w = a * w + w + d * w /\ d * w \in Nat
    BY <2>1
  <2>3. QED
    BY <1>1, <2>2
<1>3. QED
  BY <1>1, <1>2

\* The node on level e under which a leaf is, by the leaf's index.
IsAbove(j, e, index) == j \in Nat /\ j * Power[e] <= index /\ index < j * Power[e] + Power[e]

LEMMA ParentIsAbove ==
    ASSUME NEW index \in Nat, NEW e \in Nat, NEW j, IsAbove(j, e, index)
    PROVE  /\ j \div 2 \in Nat
           /\ j = 2 * (j \div 2) => j * Power[e] = (j \div 2) * Power[e + 1]
           /\ j # 2 * (j \div 2) =>
                 j = 2 * (j \div 2) + 1 /\ j * Power[e] = (j \div 2) * Power[e + 1] + Power[e]
           /\ IsAbove(j \div 2, e + 1, index)
<1> DEFINE w == Power[e]
           a == j \div 2
<1>1. w \in Nat /\ w > 0 /\ Power[e + 1] = 2 * w /\ j \in Nat
  BY PowerGrows, PowerDoubles DEF IsAbove
<1>2. a \in Nat /\ (j = 2 * a \/ j = 2 * a + 1)
  BY <1>1
<1>3. a * (2 * w) \in Nat /\ (2 * a) * w = a * (2 * w) /\ (2 * a + 1) * w = a * (2 * w) + w
  BY <1>1, <1>2, Times
<1>4. j * w <= index /\ index < j * w + w
  BY DEF IsAbove
<1> HIDE DEF w, a
<1>5. a * (2 * w) <= index /\ index < a * (2 * w) + 2 * w
  BY <1>1, <1>2, <1>3, <1>4
<1>6. QED
  BY <1>1, <1>2, <1>3, <1>5 DEF IsAbove, w, a

PathOf(j, e, index, leaves) == SubtreePath(index, leaves)[NodeSpan(j * Power[e], e, Len(leaves))]

(***************************************************************************)
(* From the top level on, the only node above a leaf is the root.          *)
(***************************************************************************)
LEMMA TopLevel ==
    ASSUME NEW size \in Nat, NEW index \in Nat, index < size, NEW e \in Nat, size <= Power[e],
           NEW j, IsAbove(j, e, index)
    PROVE  j = 0 /\ NodeSpan(j * Power[e], e, size) = <<0, size>>
<1>1. Power[e] \in Nat /\ j \in Nat /\ j * Power[e] <= index
  BY PowerGrows DEF IsAbove
<1>2. j = 0
  <2>1. 0 < j => 0 * Power[e] + Power[e] <= j * Power[e]
    BY <1>1, Times
  <2>2. j * Power[e] \in Nat
    BY <1>1, Times
  <2>3. QED
    BY <1>1, <2>1, <2>2
<1>3. QED
  BY <1>1, <1>2 DEF NodeSpan

\* The hashes of a path below a node are the first of the whole path's.
LEMMA PathUp ==
    ASSUME NEW leaves, Len(leaves) \in Nat, NEW index \in Nat, index < Len(leaves),
           NEW e \in Nat, NEW j, IsAbove(j, e, index)
    PROVE  Len(PathOf(j, e, index, leaves)) <= Len(PathOf(j \div 2, e + 1, index, leaves))
<1> DEFINE size == Len(leaves)
           path == SubtreePath(index, leaves)
           hash == SubtreeHash(leaves)
           w == Power[e]
           lo == (j \div 2) * Power[e + 1]
           s == NodeSpan(lo, e + 1, size)
           l == NodeSpan(lo, e, size)
           r == NodeSpan(lo + w, e, size)
<1>1. /\ j \div 2 \in Nat /\ w \in Nat /\ w > 0
      /\ IsAbove(j \div 2, e + 1, index)
  <2>1. j \div 2 \in Nat /\ IsAbove(j \div 2, e + 1, index) /\ Power[e] \in Nat /\ Power[e] > e
    BY ParentIsAbove, PowerGrows
  <2>2. QED
    BY <2>1
<1>2. lo \in Nat /\ lo <= index /\ lo < size
  <2>1. Power[e + 1] \in Nat
    BY PowerGrows
  <2>2. lo \in Nat
    BY <1>1, <2>1, Times
  <2>3. lo <= index
    BY <1>1 DEF IsAbove
  <2>4. QED
    BY <2>2, <2>3
<1>3. IF lo + w < size
      THEN path[s] = IF index < lo + w THEN path[l] \o <<hash[r]>> ELSE path[r] \o <<hash[l]>>
      ELSE s = l
  BY <1>2, LevelUp
<1>4. \/ j * w = lo /\ index < lo + w
      \/ j * w = lo + w /\ ~(index < lo + w)
  <2>1. j * w = lo \/ j * w = lo + w
    BY ParentIsAbove
  <2>2. j * w <= index /\ index < j * w + w
    BY DEF IsAbove
  <2> HIDE DEF lo, w
  <2>3. QED
    BY <1>1, <1>2, <2>1, <2>2
<1>5. lo + w < size => path[l] \in Seq(HashesOf(leaves)) /\ path[r] \in Seq(HashesOf(leaves))
  <2> SUFFICES ASSUME lo + w < size
               PROVE  path[l] \in Seq(HashesOf(leaves)) /\ path[r] \in Seq(HashesOf(leaves))
    OBVIOUS
  <2>1. lo + w \in Nat
    <3> HIDE DEF lo, w
    <3>1. QED
      BY <1>1, <1>2
  <2>2. l \in Spans(size) /\ r \in Spans(size)
    BY <1>2, <2>1, NodeIsSpan
  <2>3. QED
    BY <2>2, PathTyped
<1>6. Len(path[s]) >= Len(PathOf(j, e, index, leaves))
  <2>1. PathOf(j, e, index, leaves) = path[IF j * w = lo THEN l ELSE r]
    BY <1>4 DEF PathOf
  <2>2. s \in Spans(size)
    BY <1>2, NodeIsSpan
  <2>3. path[s] \in Seq(HashesOf(leaves))
    BY <2>2, PathTyped
  <2>4. \A S, x, h : x \in Seq(S) => Len(x \o <<h>>) >= Len(x)
    OBVIOUS
  <2>5. CASE lo + w < size
    <3>1. j * w = lo => path[s] = path[l] \o <<hash[r]>>
      <4> HIDE DEF s, l, r, path, hash, lo
      <4>1. w > 0
        BY <1>1
      <4>2. j * w = lo => index < lo + w
        BY <1>1, <1>2, <1>4
      <4>3. QED
        BY <1>3, <2>5, <4>2
    <3>2. j * w # lo => path[s] = path[r] \o <<hash[l]>>
      <4> HIDE DEF s, l, r, path, hash, lo
      <4>1. QED
        BY <1>3, <1>4, <2>5
    <3> HIDE DEF s, l, r, path, hash
    <3>3. QED
      BY <1>5, <2>1, <2>4, <2>5, <3>1, <3>2
  <2>6. CASE ~(lo + w < size)
    <3>1. index < lo + w
      <4> HIDE DEF lo, w
      <4>1. QED
        BY <1>1, <1>2, <2>6
    <3>2. j * w = lo /\ s = l
      BY <1>3, <1>4, <2>6, <3>1
    <3> HIDE DEF s, l, r, path
    <3>3. path[s] = PathOf(j, e, index, leaves)
      BY <2>1, <3>2
    <3>4. Len(path[s]) \in Nat
      BY <2>3
    <3>5. QED
      BY <3>3, <3>4
  <2>7. QED
    BY <2>5, <2>6
<1>7. QED
  BY <1>6 DEF PathOf

LEMMA PathsFit ==
    ASSUME NEW leaves, Len(leaves) \in Nat, NEW index \in Nat, index < Len(leaves),
           NEW e \in Nat, NEW j, IsAbove(j, e, index)
    PROVE  Len(PathOf(j, e, index, leaves)) <= Len(AuditPath(index, leaves))
<1> DEFINE size == Len(leaves)
           audit == Len(AuditPath(index, leaves))
           fits(k, f) == Len(PathOf(k, f, index, leaves)) <= audit
           wrong == {d \in 0..size : \E k : IsAbove(k, size - d, index) /\ ~fits(k, size - d)}
<1>1. \A f \in Nat : \A k : IsAbove(k, f, index) => Len(PathOf(k, f, index, leaves)) \in Nat
  <2> SUFFICES ASSUME NEW f \in Nat, NEW k, IsAbove(k, f, index)
               PROVE  Len(PathOf(k, f, index, leaves)) \in Nat
    OBVIOUS
  <2>1. k * Power[f] \in Nat /\ k * Power[f] <= index
    <3>1. k \in Nat /\ Power[f] \in Nat
      BY PowerGrows DEF IsAbove
    <3>2. QED
      BY <3>1, Times DEF IsAbove
  <2>2. NodeSpan(k * Power[f], f, size) \in Spans(size)
    BY <2>1, NodeIsSpan
  <2>3. PathOf(k, f, index, leaves) \in Seq(HashesOf(leaves))
    BY <2>2, PathTyped DEF PathOf
  <2>4. QED
    BY <2>3
<1>2. \A f \in Nat : \A k : f >= size /\ IsAbove(k, f, index) => fits(k, f)
  <2> SUFFICES ASSUME NEW f \in Nat, NEW k, f >= size, IsAbove(k, f, index)
               PROVE  fits(k, f)
    OBVIOUS
  <2>1. size <= Power[f]
    BY PowerGrows
  <2>2. PathOf(k, f, index, leaves) = AuditPath(index, leaves)
    BY <2>1, TopLevel DEF PathOf, AuditPath
  <2>3. QED
    BY <1>1, <2>2
<1>3. wrong = {}
  <2>1. SUFFICES ASSUME wrong # {}
                 PROVE  FALSE
    OBVIOUS
  <2>2. PICK d \in wrong : \A c \in wrong : d <= c
    <3>1. wrong \in SUBSET Nat
      OBVIOUS
    <3>2. QED
      BY <2>1, <3>1, LeastElement
  <2>3. PICK k : IsAbove(k, size - d, index) /\ ~fits(k, size - d)
    BY <2>2
  <2>4. d # 0 /\ d \in 1..size
    BY <1>2, <2>2, <2>3
  <2>5. size - d \in Nat /\ (size - d) + 1 = size - (d - 1) /\ d - 1 \in 0..size
    BY <2>4
  <2>6. IsAbove(k \div 2, size - (d - 1), index)
    BY <2>3, <2>5, ParentIsAbove
  <2>7. d - 1 \notin wrong
    BY <2>2, <2>4
  <2>8. fits(k \div 2, size - (d - 1))
    BY <2>5, <2>6, <2>7
  <2>9. Len(PathOf(k, size - d, index, leaves)) <= Len(PathOf(k \div 2, size - (d - 1), index, leaves))
    BY <2>3, <2>5, PathUp
  <2>10. Len(PathOf(k, size - d, index, leaves)) \in Nat /\ audit \in Nat
    <3>1. IsAbove(0, size, index)
      <4>1. Power[size] \in Nat /\ Power[size] > size
        BY PowerGrows
      <4>2. QED
        BY <4>1 DEF IsAbove
    <3>2. PathOf(0, size, index, leaves) = AuditPath(index, leaves)
      <4>1. size <= Power[size]
        BY PowerGrows
      <4>2. QED
        BY <3>1, <4>1, TopLevel DEF PathOf, AuditPath
    <3>3. QED
      BY <1>1, <2>3, <2>5, <3>1, <3>2
  <2>11. Len(PathOf(k \div 2, size - (d - 1), index, leaves)) \in Nat
    <3>1. size - (d - 1) \in Nat
      BY <2>5
    <3>2. QED
      BY <1>1, <2>6, <3>1
  <2>12. QED
    BY <2>3, <2>8, <2>9, <2>10, <2>11
<1>4. QED
  <2>1. CASE e >= size
    BY <1>2, <2>1
  <2>2. CASE ~(e >= size)
    <3>1. size - e \in 0..size /\ size - (size - e) = e
      BY <2>2
    <3>2. size - e \notin wrong
      BY <1>3
    <3> HIDE DEF fits
    <3>3. fits(j, e)
      BY <3>1, <3>2
    <3>4. QED
      BY <3>3 DEF fits
  <2>3. QED
    BY <2>1, <2>2

HashOf(j, e, leaves) == SubtreeHash(leaves)[NodeSpan(j * Power[e], e, Len(leaves))]

(***************************************************************************)
(* What one level up is, by where the node stands on its level: the one    *)
(* hash more of the path is that of the sibling on the side IsRight and    *)
(* IsLeft say, and a node without a sibling is its own parent.             *)
(***************************************************************************)
IsLast(last, e, size) == last \in Nat /\ last * Power[e] < size /\ size <= last * Power[e] + Power[e]

LEMMA LastGoesUp ==
    ASSUME NEW size \in Nat, NEW e \in Nat, NEW last, IsLast(last, e, size)
    PROVE  IsLast(last \div 2, e + 1, size)
<1> DEFINE w == Power[e]
           b == last \div 2
<1>1. w \in Nat /\ w > 0 /\ Power[e + 1] = 2 * w /\ last \in Nat
  <2>1. Power[e] \in Nat /\ Power[e] > e /\ Power[e + 1] = 2 * Power[e]
    BY PowerGrows, PowerDoubles
  <2>2. QED
    BY <2>1 DEF IsLast
<1>2. b \in Nat /\ (last = 2 * b \/ last = 2 * b + 1)
  BY <1>1
<1>3. b * (2 * w) \in Nat /\ (2 * b) * w = b * (2 * w) /\ (2 * b + 1) * w = b * (2 * w) + w
  BY <1>1, <1>2, Times
<1>4. last * w < size /\ size <= last * w + w
  BY DEF IsLast
<1> HIDE DEF w, b
<1>5. b * (2 * w) < size /\ size <= b * (2 * w) + 2 * w
  BY <1>1, <1>2, <1>3, <1>4
<1>6. QED
  BY <1>1, <1>2, <1>5 DEF IsLast, w, b

GoesUp(j, last, here, up, hash, parent) ==
    /\ j % 2 = 1 => \E sibling : up = here \o <<sibling>> /\ parent = NodeHash(sibling, hash)
    /\ j % 2 = 0 /\ j < last => \E sibling : up = here \o <<sibling>> /\ parent = NodeHash(hash, sibling)
    /\ j % 2 = 0 /\ ~(j < last) => up = here /\ parent = hash

LEMMA Climb ==
    ASSUME NEW leaves, Len(leaves) \in Nat, NEW index \in Nat, index < Len(leaves),
           NEW e \in Nat, NEW j, IsAbove(j, e, index), NEW last, IsLast(last, e, Len(leaves)), j <= last
    PROVE  GoesUp(j, last, PathOf(j, e, index, leaves), PathOf(j \div 2, e + 1, index, leaves),
                  HashOf(j, e, leaves), HashOf(j \div 2, e + 1, leaves))
<1> DEFINE size == Len(leaves)
           a == j \div 2
           w == Power[e]
           lo == a * Power[e + 1]
           P(k) == SubtreePath(index, leaves)[k]
           H(k) == SubtreeHash(leaves)[k]
           s == NodeSpan(lo, e + 1, size)
           l == NodeSpan(lo, e, size)
           r == NodeSpan(lo + w, e, size)
<1>1. w \in Nat /\ w > 0 /\ a \in Nat /\ j \in Nat /\ last \in Nat
  <2>1. Power[e] \in Nat /\ Power[e] > e
    BY PowerGrows
  <2>2. QED
    BY <2>1, ParentIsAbove DEF IsAbove, IsLast
<1>2. lo \in Nat /\ lo <= index /\ lo < size
  <2>1. Power[e + 1] \in Nat
    BY PowerGrows
  <2>2. lo \in Nat
    BY <1>1, <2>1, Times
  <2>3. lo <= index
    BY ParentIsAbove DEF IsAbove
  <2>4. QED
    BY <2>2, <2>3
<1>3. IF lo + w < size
      THEN /\ H(s) = NodeHash(H(l), H(r))
           /\ P(s) = IF index < lo + w THEN P(l) \o <<H(r)>> ELSE P(r) \o <<H(l)>>
      ELSE s = l
  BY <1>2, LevelUp
<1>4. PathOf(a, e + 1, index, leaves) = P(s) /\ HashOf(a, e + 1, leaves) = H(s)
  BY DEF PathOf, HashOf
<1>5. j * w <= index /\ index < j * w + w /\ last * w < size /\ size <= last * w + w
  BY DEF IsAbove, IsLast
<1>6. CASE j % 2 = 1
  <2>1. j # 2 * a
    BY <1>1, <1>6
  <2>2. j * w = lo + w
    BY <2>1, ParentIsAbove, SMTT(30)
  <2>3. ~(index < lo + w) /\ lo + w < size
    <3> HIDE DEF lo, w
    <3>1. QED
      BY <1>1, <1>2, <1>5, <2>2
  <2>4. PathOf(j, e, index, leaves) = P(r) /\ HashOf(j, e, leaves) = H(r)
    BY <2>2 DEF PathOf, HashOf
  <2> HIDE DEF P, H, s, l, r, lo, w
  <2>5. P(s) = P(r) \o <<H(l)>> /\ H(s) = NodeHash(H(l), H(r))
    BY <1>3, <2>3
  <2>6. \E sibling : /\ PathOf(a, e + 1, index, leaves) = PathOf(j, e, index, leaves) \o <<sibling>>
                    /\ HashOf(a, e + 1, leaves) = NodeHash(sibling, HashOf(j, e, leaves))
    <3> WITNESS H(l)
    <3>1. QED
      BY <1>4, <2>4, <2>5
  <2>7. ~(j % 2 = 0)
    BY <1>6
  <2>8. QED
    BY <2>6, <2>7 DEF GoesUp
<1>7. CASE j % 2 = 0
  <2>1. j = 2 * a
    BY <1>1, <1>7
  <2>2. j * w = lo
    BY <2>1, ParentIsAbove, SMTT(30)
  <2>3. PathOf(j, e, index, leaves) = P(l) /\ HashOf(j, e, leaves) = H(l)
    BY <2>2 DEF PathOf, HashOf
  <2>4. index < lo + w
    BY <1>5, <2>2
  <2>5. CASE j < last
    <3>1. j * w + w <= last * w /\ last * w \in Nat
      BY <1>1, <2>5, Times
    <3>2. lo + w < size
      <4> HIDE DEF lo, w
      <4>1. QED
        BY <1>1, <1>2, <1>5, <2>2, <3>1
    <3> HIDE DEF P, H, s, l, r, lo, w
    <3>3. P(s) = P(l) \o <<H(r)>> /\ H(s) = NodeHash(H(l), H(r))
      BY <1>3, <2>4, <3>2
    <3>4. QED
      BY <1>4, <1>7, <2>3, <2>5, <3>3 DEF GoesUp
  <2>6. CASE ~(j < last)
    <3>1. j = last
      BY <1>1, <2>6
    <3>2. ~(lo + w < size)
      <4> HIDE DEF lo, w
      <4>1. QED
        BY <1>1, <1>2, <1>5, <2>2, <3>1
    <3> HIDE DEF P, H, s, l, r, lo, w
    <3>3. s = l
      BY <1>3, <3>2
    <3>4. QED
      BY <1>4, <1>7, <2>3, <2>6, <3>3 DEF GoesUp
  <2>7. QED
    BY <2>5, <2>6
<1>8. QED
  BY <1>1, <1>6, <1>7

-----------------------------------------------------------------------------
\* The walk of recompute_root.
WalkTyped ==
    /\ TreeSize \in Nat \ {0}
    /\ proof.index \in Nat
    /\ Len(proof.hashes) \in Nat
    /\ at \in {"start", "walk", "ok", "invalid"}
    /\ at = "start" => used = 0
    /\ at = "walk" => lastNode \in Nat

WalkInv == WalkTyped /\ OnLevel

\* Halving keeps the order: a node and the last of its level have parents in order.
LEMMA Halves ==
    ASSUME NEW last \in Nat, NEW i \in 0..last
    PROVE  /\ last \div 2 \in Nat /\ last \div 2 <= last
           /\ i \div 2 \in 0..(last \div 2)
  OBVIOUS

LEMMA WalkInitInv == WalkInit => WalkInv
<1> SUFFICES ASSUME WalkInit PROVE WalkInv
  OBVIOUS
<1>0. entries \in Logs /\ proof \in Proofs(entries)
  BY DEF WalkInit
<1>1. Len(entries) \in Nat \ {0}
  <2>1. entries \in Seq({entries[i] : i \in DOMAIN entries}) /\ entries # <<>>
    BY <1>0, LogsAssumption
  <2> DEFINE S == {entries[i] : i \in DOMAIN entries}
  <2> HIDE DEF S
  <2>2. entries \in Seq(S) /\ entries # <<>>
    BY <2>1 DEF S
  <2>3. QED
    BY <2>2
<1>2. proof.index \in Nat /\ Len(proof.hashes) \in Nat
  <2>1. /\ proof.index \in Nat
        /\ proof.hashes \in Seq({proof.hashes[i] : i \in DOMAIN proof.hashes})
    BY <1>0, LogsAssumption
  <2>2. QED
    BY <2>1
<1>3. QED
  BY <1>1, <1>2 DEF WalkInit, WalkInv, WalkTyped, OnLevel, TreeSize

LEMMA WalkStepInv == WalkInv /\ [WalkStep]_walkVars => WalkInv'
<1> SUFFICES ASSUME WalkInv, [WalkStep]_walkVars PROVE WalkInv'
  OBVIOUS
<1> USE DEF WalkInv, WalkTyped, OnLevel, TreeSize
<1>1. CASE StartWalk
  BY <1>1 DEF StartWalk
<1>2. CASE OutOfHashes \/ ReachRoot \/ UNCHANGED walkVars
  BY <1>2 DEF OutOfHashes, ReachRoot, walkVars
<1>3. CASE HashWithLeft \/ HashWithRight \/ Promote
  <2>1. /\ at = "walk" /\ at' = "walk" /\ UNCHANGED <<entries, proof>>
        /\ nodeIndex' = nodeIndex \div 2 /\ lastNode' = lastNode \div 2
        /\ used' \in {used, used + 1} /\ (used' = used + 1 => used < Len(proof.hashes))
    BY <1>3 DEF HashWithLeft, HashWithRight, Promote, GoUp, HasHash
  <2>2. lastNode \in Nat /\ nodeIndex \in 0..lastNode
    BY <2>1
  <2>3. nodeIndex' \in 0..lastNode' /\ lastNode' <= lastNode /\ lastNode' \in Nat
    BY <2>1, <2>2, Halves
  <2>4. QED
    BY <2>1, <2>2, <2>3
<1>4. QED
  BY <1>1, <1>2, <1>3 DEF WalkStep

(***************************************************************************)
(* At every level of the tree the node is one of the level's nodes and no  *)
(* hash is read past the end of the proof, so the loop's last branch is    *)
(* only taken by the unpaired rightmost node.                              *)
(***************************************************************************)
THEOREM WalkOnLevel == WalkSpec => []OnLevel
<1>1. WalkSpec => []WalkInv
  BY WalkInitInv, WalkStepInv, PTL DEF WalkSpec
<1>2. WalkInv => OnLevel
  BY DEF WalkInv
<1>3. QED
  BY <1>1, <1>2, PTL

(***************************************************************************)
(* The inductive invariant of the walk: on some level e, the node is the   *)
(* one above the leaf; the hashes consumed are as many as the path up to   *)
(* that node has; and the hash computed is that of the node exactly if the *)
(* leaf is the entry's and the hashes consumed are the path's.             *)
(***************************************************************************)
EntryIsProved == entries[proof.index + 1] = proof.body

InReach(e) ==
    LET path == PathOf(nodeIndex, e, proof.index, entries) IN
    /\ IsAbove(nodeIndex, e, proof.index)
    /\ IsLast(lastNode, e, TreeSize)
    /\ used = Len(path)
    /\ nodeHash = HashOf(nodeIndex, e, entries)
          <=> EntryIsProved /\ \A i \in 1..used : proof.hashes[i] = path[i]

PathInv ==
    /\ entries \in Logs /\ proof \in Proofs(entries)
    /\ WalkInv
    /\ at = "start" => nodeHash = LeafHash(proof.body)
    /\ at = "walk" => proof.index < TreeSize /\ \E e \in Nat : InReach(e)
    /\ AcceptsOnlyAuditPaths

\* An accepted or refused proof is judged by the entry, the index and the path alone.
Genuine ==
    /\ proof.index < TreeSize
    /\ EntryIsProved
    /\ proof.hashes = AuditPath(proof.index, entries)

LEMMA GivenProof ==
    ASSUME entries \in Logs, proof \in Proofs(entries)
    PROVE  /\ Len(entries) \in Nat /\ Len(entries) > 0 /\ proof.index \in Nat
           /\ \E S : proof.hashes \in Seq(S)
<1>1. entries \in Seq({entries[i] : i \in DOMAIN entries}) /\ entries # <<>>
  BY LogsAssumption
<1>2. proof.index \in Nat /\ proof.hashes \in Seq({proof.hashes[i] : i \in DOMAIN proof.hashes})
  BY LogsAssumption
<1>3. \A S, q : q \in Seq(S) /\ q # <<>> => Len(q) \in Nat /\ Len(q) > 0
  OBVIOUS
<1>4. QED
  BY <1>1, <1>2, <1>3

\* Paths at a node and at the root are sequences of hashes.
LEMMA PathsTyped ==
    ASSUME NEW leaves, Len(leaves) \in Nat, NEW index \in Nat, index < Len(leaves)
    PROVE  /\ AuditPath(index, leaves) \in Seq(HashesOf(leaves))
           /\ \A e \in Nat : \A j : IsAbove(j, e, index) => PathOf(j, e, index, leaves) \in Seq(HashesOf(leaves))
<1>1. <<0, Len(leaves)>> \in Spans(Len(leaves))
  BY DEF Spans
<1>2. ASSUME NEW e \in Nat, NEW j, IsAbove(j, e, index)
      PROVE  NodeSpan(j * Power[e], e, Len(leaves)) \in Spans(Len(leaves))
  <2>1. j \in Nat /\ Power[e] \in Nat /\ j * Power[e] <= index
    BY <1>2, PowerGrows DEF IsAbove
  <2>2. j * Power[e] \in Nat
    BY <2>1, Times
  <2>3. QED
    BY <2>1, <2>2, NodeIsSpan
<1>3. QED
  BY <1>1, <1>2, PathTyped DEF AuditPath, PathOf

LEMMA JudgedByPath ==
    AcceptsOnlyAuditPaths <=> (at = "ok" => Genuine) /\ (at = "invalid" => ~Genuine)
  BY DEF AcceptsOnlyAuditPaths, Genuine, EntryIsProved

LEMMA JudgedNext ==
    ASSUME UNCHANGED <<entries, proof>>
    PROVE  /\ Genuine' <=> Genuine
           /\ AcceptsOnlyAuditPaths' <=> (at' = "ok" => Genuine) /\ (at' = "invalid" => ~Genuine)
  BY DEF AcceptsOnlyAuditPaths, Genuine, EntryIsProved, TreeSize

(***************************************************************************)
(* StartWalk starts on level 0, and refuses only what cannot be a path.    *)
(***************************************************************************)
LEMMA StartWalkStep ==
    ASSUME PathInv, StartWalk
    PROVE  PathInv'
<1>1. /\ entries \in Logs /\ proof \in Proofs(entries) /\ WalkInv /\ at = "start"
      /\ used = 0 /\ nodeHash = LeafHash(proof.body)
      /\ UNCHANGED <<entries, proof, nodeHash, used>>
  BY DEF PathInv, StartWalk, WalkInv, WalkTyped
<1>2. WalkInv'
  BY <1>1, WalkStepInv DEF WalkStep
<1>3. Len(entries) \in Nat /\ Len(entries) > 0 /\ proof.index \in Nat /\ \E S : proof.hashes \in Seq(S)
  BY <1>1, GivenProof
<1>4. CASE proof.index >= TreeSize \/ \E i \in DOMAIN proof.hashes : proof.hashes[i] = WrongLength
  <2>1. at' = "invalid"
    BY <1>4 DEF StartWalk
  <2>2. ~Genuine
    <3>1. SUFFICES ASSUME Genuine PROVE FALSE
      OBVIOUS
    <3>2. proof.index < Len(entries)
      BY <3>1 DEF Genuine, TreeSize
    <3>3. proof.hashes \in Seq(HashesOf(entries))
      BY <1>3, <3>1, <3>2, PathsTyped DEF Genuine
    <3>4. PICK i \in DOMAIN proof.hashes : proof.hashes[i] = WrongLength
      BY <1>3, <1>4, <3>2 DEF TreeSize
    <3>5. WrongLength \in HashesOf(entries)
      BY <3>3, <3>4
    <3>6. QED
      BY <1>3, <3>5, HashesAreHashes
  <2>3. QED
    BY <1>1, <1>2, <2>1, <2>2, JudgedNext DEF PathInv
<1>5. CASE ~(proof.index >= TreeSize \/ \E i \in DOMAIN proof.hashes : proof.hashes[i] = WrongLength)
  <2>1. at' = "walk" /\ nodeIndex' = proof.index /\ lastNode' = TreeSize - 1
    BY <1>5 DEF StartWalk
  <2>2. proof.index < Len(entries)
    BY <1>3, <1>5 DEF TreeSize
  <2>3. IsAbove(proof.index, 0, proof.index) /\ IsLast(TreeSize - 1, 0, TreeSize)
    <3>1. \A n \in Nat : n * Power[0] = n /\ Power[0] = 1
      BY PowerDoubles
    <3>2. TreeSize - 1 \in Nat /\ TreeSize \in Nat
      BY <1>3 DEF TreeSize
    <3>3. (TreeSize - 1) * Power[0] = TreeSize - 1
      BY <3>1, <3>2
    <3>4. QED
      BY <1>3, <3>1, <3>2, <3>3 DEF IsAbove, IsLast
  <2>4. /\ PathOf(proof.index, 0, proof.index, entries) = <<>>
        /\ HashOf(proof.index, 0, entries) = LeafHash(entries[proof.index + 1])
    <3>1. proof.index * Power[0] = proof.index
      <4>1. \A n \in Nat : n * Power[0] = n
        BY PowerDoubles
      <4>2. QED
        BY <1>3, <4>1
    <3>2. QED
      BY <1>3, <2>2, <3>1, LeafLevel DEF PathOf, HashOf
  <2>5. nodeHash = HashOf(proof.index, 0, entries) <=> EntryIsProved
    BY <1>1, <2>4 DEF LeafHash, EntryIsProved
  <2>6. InReach(0)'
    <3>1. Len(<<>>) = 0 /\ \A i \in 1..0 : FALSE
      OBVIOUS
    <3>2. QED
      BY <1>1, <2>1, <2>3, <2>4, <2>5, <3>1 DEF InReach, EntryIsProved, TreeSize
  <2>7. QED
    BY <1>1, <1>2, <2>1, <2>2, <2>6, JudgedNext DEF PathInv, TreeSize
<1>6. QED
  BY <1>4, <1>5

(***************************************************************************)
(* What is consumed on a level keeps the equivalence: a node's hash is     *)
(* made of its children's alone.                                           *)
(***************************************************************************)
LEMMA OneMore ==
    ASSUME NEW S, NEW path \in Seq(S), NEW sibling, NEW hashes, NEW n, n = Len(path)
    PROVE  /\ Len(path \o <<sibling>>) = n + 1
           /\ (\A i \in 1..(n + 1) : hashes[i] = (path \o <<sibling>>)[i])
                 <=> (\A i \in 1..n : hashes[i] = path[i]) /\ hashes[n + 1] = sibling
<1>1. n \in Nat /\ Len(path \o <<sibling>>) = n + 1
  OBVIOUS
<1>2. (path \o <<sibling>>)[n + 1] = sibling /\ \A i \in 1..n : (path \o <<sibling>>)[i] = path[i]
  OBVIOUS
<1>3. \A i \in 1..(n + 1) : i \in 1..n \/ i = n + 1
  BY <1>1
<1>4. 1..n \subseteq 1..(n + 1) /\ n + 1 \in 1..(n + 1)
  BY <1>1
<1>5. QED
  BY <1>1, <1>2, <1>3, <1>4

LEMMA HashesAgree ==
    ASSUME NEW S, NEW x \in Seq(S), NEW T, NEW q \in Seq(T)
    PROVE  x = q <=> Len(x) = Len(q) /\ \A i \in 1..Len(x) : x[i] = q[i]
<1>1. /\ x = [i \in 1..Len(x) |-> x[i]] /\ q = [i \in 1..Len(q) |-> q[i]]
  OBVIOUS
<1>2. QED
  BY <1>1

LEMMA LevelStep ==
    ASSUME PathInv, HashWithLeft \/ HashWithRight \/ Promote
    PROVE  PathInv'
<1>1. /\ entries \in Logs /\ proof \in Proofs(entries) /\ WalkInv /\ at = "walk" /\ at' = "walk"
      /\ proof.index < TreeSize
      /\ UNCHANGED <<entries, proof>>
      /\ nodeIndex' = nodeIndex \div 2 /\ lastNode' = lastNode \div 2
  BY DEF PathInv, HashWithLeft, HashWithRight, Promote, GoUp
<1>2. WalkInv'
  BY <1>1, WalkStepInv DEF WalkStep
<1>3. Len(entries) \in Nat /\ proof.index \in Nat /\ proof.index < Len(entries)
  BY <1>1, GivenProof DEF TreeSize
<1>4. PICK e \in Nat : InReach(e)
  BY <1>1 DEF PathInv
<1> DEFINE here == PathOf(nodeIndex, e, proof.index, entries)
           up == PathOf(nodeIndex \div 2, e + 1, proof.index, entries)
           hash == HashOf(nodeIndex, e, entries)
           parent == HashOf(nodeIndex \div 2, e + 1, entries)
           Proved(path, n) == EntryIsProved /\ \A i \in 1..n : proof.hashes[i] = path[i]
<1>5. /\ IsAbove(nodeIndex, e, proof.index) /\ IsLast(lastNode, e, Len(entries))
      /\ used = Len(here) /\ (nodeHash = hash <=> Proved(here, used))
  BY <1>4 DEF InReach, TreeSize
<1>6. nodeIndex <= lastNode
  BY <1>1 DEF WalkInv, OnLevel
<1>7. here \in Seq(HashesOf(entries))
  BY <1>3, <1>5, PathsTyped
<1>8. GoesUp(nodeIndex, lastNode, here, up, hash, parent)
  BY <1>3, <1>5, <1>6, Climb
<1> HIDE DEF here, up, hash, parent
<1>9. used' = Len(up) /\ (nodeHash' = parent <=> Proved(up, used'))
  <2>1. CASE HashWithLeft
    <3>1. nodeHash' = NodeHash(proof.hashes[used + 1], nodeHash) /\ used' = used + 1 /\ nodeIndex % 2 = 1
      BY <2>1 DEF HashWithLeft, NextHash, IsRight
    <3>2. PICK sibling : up = here \o <<sibling>> /\ parent = NodeHash(sibling, hash)
      BY <1>8, <3>1 DEF GoesUp
    <3>3. /\ Len(up) = used + 1
          /\ (\A i \in 1..(used + 1) : proof.hashes[i] = up[i])
                <=> (\A i \in 1..used : proof.hashes[i] = here[i]) /\ proof.hashes[used + 1] = sibling
      BY <1>5, <1>7, <3>2, OneMore
    <3>4. nodeHash' = parent <=> proof.hashes[used + 1] = sibling /\ nodeHash = hash
      BY <3>1, <3>2 DEF NodeHash
    <3>5. QED
      BY <1>5, <3>1, <3>3, <3>4
  <2>2. CASE HashWithRight
    <3>1. /\ nodeHash' = NodeHash(nodeHash, proof.hashes[used + 1]) /\ used' = used + 1
          /\ nodeIndex % 2 = 0 /\ nodeIndex < lastNode
      BY <2>2 DEF HashWithRight, NextHash, IsLeft
    <3>2. PICK sibling : up = here \o <<sibling>> /\ parent = NodeHash(hash, sibling)
      BY <1>8, <3>1 DEF GoesUp
    <3>3. /\ Len(up) = used + 1
          /\ (\A i \in 1..(used + 1) : proof.hashes[i] = up[i])
                <=> (\A i \in 1..used : proof.hashes[i] = here[i]) /\ proof.hashes[used + 1] = sibling
      BY <1>5, <1>7, <3>2, OneMore
    <3>4. nodeHash' = parent <=> proof.hashes[used + 1] = sibling /\ nodeHash = hash
      BY <3>1, <3>2 DEF NodeHash
    <3>5. QED
      BY <1>5, <3>1, <3>3, <3>4
  <2>3. CASE Promote
    <3>1. nodeIndex % 2 = 0 /\ ~(nodeIndex < lastNode)
      <4>1. nodeIndex \in Nat
        BY <1>5 DEF IsAbove
      <4>2. nodeIndex % 2 # 1
        BY <2>3 DEF Promote, IsRight
      <4>3. nodeIndex % 2 = 0
        BY <4>1, <4>2
      <4>4. QED
        BY <2>3, <4>3 DEF Promote, IsLeft
    <3>2. up = here /\ parent = hash
      BY <1>8, <3>1 DEF GoesUp
    <3>3. UNCHANGED <<nodeHash, used>>
      BY <2>3 DEF Promote
    <3>4. QED
      BY <1>5, <3>2, <3>3
  <2>4. QED
    BY <2>1, <2>2, <2>3
<1>10. InReach(e + 1)'
  <2>1. IsAbove(nodeIndex \div 2, e + 1, proof.index) /\ IsLast(lastNode \div 2, e + 1, Len(entries))
    BY <1>3, <1>5, ParentIsAbove, LastGoesUp
  <2>2. QED
    BY <1>1, <1>9, <2>1 DEF InReach, EntryIsProved, TreeSize, up, parent
<1>11. e + 1 \in Nat
  OBVIOUS
<1>12. QED
  BY <1>1, <1>2, <1>10, <1>11, JudgedNext DEF PathInv, TreeSize

(***************************************************************************)
(* A proof that ends before the path does is not the path.                 *)
(***************************************************************************)
LEMMA OutOfHashesStep ==
    ASSUME PathInv, OutOfHashes
    PROVE  PathInv'
<1>1. /\ entries \in Logs /\ proof \in Proofs(entries) /\ WalkInv /\ at = "walk" /\ at' = "invalid"
      /\ proof.index < TreeSize /\ (IsRight \/ IsLeft) /\ ~HasHash
      /\ UNCHANGED <<entries, proof>>
  BY DEF PathInv, OutOfHashes
<1>2. WalkInv'
  BY <1>1, WalkStepInv DEF WalkStep
<1>3. Len(entries) \in Nat /\ proof.index \in Nat /\ proof.index < Len(entries)
  BY <1>1, GivenProof DEF TreeSize, PathInv
<1>4. PICK e \in Nat : InReach(e)
  BY <1>1 DEF PathInv
<1>5. IsAbove(nodeIndex, e, proof.index) /\ IsLast(lastNode, e, Len(entries)) /\ nodeIndex <= lastNode
  BY <1>1, <1>4 DEF InReach, TreeSize, WalkInv, OnLevel
<1> DEFINE here == PathOf(nodeIndex, e, proof.index, entries)
           up == PathOf(nodeIndex \div 2, e + 1, proof.index, entries)
           hash == HashOf(nodeIndex, e, entries)
           parent == HashOf(nodeIndex \div 2, e + 1, entries)
<1>6. \E sibling : up = here \o <<sibling>>
  <2>1. GoesUp(nodeIndex, lastNode, here, up, hash, parent)
    BY <1>3, <1>5, Climb
  <2> HIDE DEF here, up, hash, parent
  <2>2. QED
    BY <1>1, <2>1 DEF GoesUp, IsRight, IsLeft
<1>7. IsAbove(nodeIndex \div 2, e + 1, proof.index)
  BY <1>3, <1>5, ParentIsAbove
<1>8. here \in Seq(HashesOf(entries)) /\ up \in Seq(HashesOf(entries))
  <2>1. e + 1 \in Nat
    OBVIOUS
  <2>2. QED
    BY <1>3, <1>5, <1>7, <2>1, PathsTyped
<1>9. Len(up) <= Len(AuditPath(proof.index, entries))
  <2>1. e + 1 \in Nat
    OBVIOUS
  <2>2. QED
    BY <1>3, <1>7, <2>1, PathsFit
<1>10. used = Len(here)
  BY <1>4 DEF InReach
<1>11. Len(proof.hashes) <= used
  <2>1. used \in 0..Len(proof.hashes) /\ Len(proof.hashes) \in Nat /\ ~(used < Len(proof.hashes))
    BY <1>1 DEF WalkInv, WalkTyped, OnLevel, OutOfHashes, HasHash
  <2>2. QED
    BY <2>1
<1>12. Len(up) = used + 1 /\ used \in Nat
  <2> HIDE DEF here, up
  <2>1. PICK sibling : up = here \o <<sibling>>
    BY <1>6
  <2>2. QED
    BY <1>8, <1>10, <2>1, OneMore
<1>13. ~Genuine
  <2>1. AuditPath(proof.index, entries) \in Seq(HashesOf(entries))
    BY <1>3, PathsTyped
  <2>2. Len(AuditPath(proof.index, entries)) \in Nat
    BY <2>1
  <2> HIDE DEF up
  <2>3. Len(proof.hashes) # Len(AuditPath(proof.index, entries))
    BY <1>9, <1>11, <1>12, <2>2
  <2>4. QED
    BY <2>3 DEF Genuine
<1>14. QED
  BY <1>1, <1>2, <1>13, JudgedNext DEF PathInv

(***************************************************************************)
(* At the root the path is the whole path, and the hash the tree's.        *)
(***************************************************************************)
LEMMA ReachRootStep ==
    ASSUME PathInv, ReachRoot
    PROVE  PathInv'
<1>1. /\ entries \in Logs /\ proof \in Proofs(entries) /\ WalkInv /\ at = "walk"
      /\ at' = (IF ~HasHash /\ nodeHash = TreeHash(entries) THEN "ok" ELSE "invalid")
      /\ lastNode = 0 /\ proof.index < TreeSize
      /\ UNCHANGED <<entries, proof>>
  BY DEF PathInv, ReachRoot
<1>2. WalkInv'
  BY <1>1, WalkStepInv DEF WalkStep
<1>3. /\ Len(entries) \in Nat /\ proof.index \in Nat /\ proof.index < Len(entries)
      /\ \E S : proof.hashes \in Seq(S)
  BY <1>1, GivenProof DEF TreeSize
<1>4. PICK e \in Nat : InReach(e)
  BY <1>1 DEF PathInv
<1>5. IsAbove(nodeIndex, e, proof.index) /\ Len(entries) <= Power[e]
  <2>1. Power[e] \in Nat
    BY PowerGrows
  <2>2. IsAbove(nodeIndex, e, proof.index) /\ Len(entries) <= 0 * Power[e] + Power[e]
    BY <1>1, <1>4 DEF InReach, IsLast, TreeSize
  <2>3. QED
    BY <2>1, <2>2
<1>6. nodeIndex = 0 /\ NodeSpan(nodeIndex * Power[e], e, Len(entries)) = <<0, Len(entries)>>
  BY <1>3, <1>5, TopLevel
<1> DEFINE audit == AuditPath(proof.index, entries)
<1>7. PathOf(nodeIndex, e, proof.index, entries) = audit /\ HashOf(nodeIndex, e, entries) = TreeHash(entries)
  BY <1>6 DEF PathOf, HashOf, AuditPath, TreeHash
<1>8. /\ used = Len(audit)
      /\ nodeHash = TreeHash(entries) <=> EntryIsProved /\ \A i \in 1..used : proof.hashes[i] = audit[i]
  BY <1>4, <1>7 DEF InReach
<1>9. audit \in Seq(HashesOf(entries))
  BY <1>3, PathsTyped
<1>10. Len(proof.hashes) \in Nat /\ used <= Len(proof.hashes) /\ used \in Nat
  BY <1>1 DEF WalkInv, WalkTyped, OnLevel
<1>11. ~HasHash <=> Len(proof.hashes) = Len(audit)
  BY <1>8, <1>10 DEF HasHash
<1> HIDE DEF audit
<1>12. proof.hashes = audit <=> Len(proof.hashes) = Len(audit) /\ \A i \in 1..Len(audit) : proof.hashes[i] = audit[i]
  BY <1>3, <1>9, HashesAgree
<1>13. Genuine <=> ~HasHash /\ nodeHash = TreeHash(entries)
  BY <1>1, <1>8, <1>11, <1>12 DEF Genuine, audit
<1>14. at' # "walk" /\ at' # "start" /\ (at' = "ok" <=> Genuine) /\ (at' = "invalid" => ~Genuine)
  BY <1>1, <1>13
<1>15. QED
  BY <1>1, <1>2, <1>14, JudgedNext DEF PathInv

LEMMA PathInvStep == PathInv /\ [WalkStep]_walkVars => PathInv'
<1> SUFFICES ASSUME PathInv, [WalkStep]_walkVars PROVE PathInv'
  OBVIOUS
<1>1. CASE StartWalk
  BY <1>1, StartWalkStep
<1>2. CASE OutOfHashes
  BY <1>2, OutOfHashesStep
<1>3. CASE HashWithLeft \/ HashWithRight \/ Promote
  BY <1>3, LevelStep
<1>4. CASE ReachRoot
  BY <1>4, ReachRootStep
<1>5. CASE UNCHANGED walkVars
  <2>1. WalkInv'
    BY <1>5, WalkStepInv DEF PathInv
  <2>2. UNCHANGED <<entries, proof, nodeIndex, lastNode, nodeHash, used, at>>
    BY <1>5 DEF walkVars
  <2>3. \A e : InReach(e)' <=> InReach(e)
    BY <2>2 DEF InReach, EntryIsProved, TreeSize
  <2>4. QED
    BY <2>1, <2>2, <2>3, JudgedNext, JudgedByPath DEF PathInv, TreeSize
<1>6. QED
  BY <1>1, <1>2, <1>3, <1>4, <1>5 DEF WalkStep

(***************************************************************************)
(* recompute_root and the comparison with the root hash accept the audit   *)
(* path of RFC 6962 for the entry at the index and nothing else, for trees *)
(* and proofs of every size: no other index, no other body, no hash        *)
(* exchanged, missing or left over; and refuse nothing else.               *)
(***************************************************************************)
THEOREM OnlyAuditPathsAccepted == WalkSpec => []AcceptsOnlyAuditPaths
<1>1. WalkInit => PathInv
  BY WalkInitInv DEF WalkInit, PathInv, AcceptsOnlyAuditPaths
<1>2. WalkSpec => []PathInv
  BY <1>1, PathInvStep, PTL DEF WalkSpec
<1>3. PathInv => AcceptsOnlyAuditPaths
  BY DEF PathInv
<1>4. QED
  BY <1>2, <1>3, PTL
=============================================================================
