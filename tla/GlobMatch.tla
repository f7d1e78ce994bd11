----------------------------- MODULE GlobMatch ------------------------------
(***************************************************************************)
(* policy_match.rs glob_match: the two-pointer loop that decides whether a *)
(* source ref matches a RefPolicy::Glob pattern.  pi and ti count the      *)
(* bytes of pattern and text consumed, as the 0-based indices of the code  *)
(* do; the byte looked at next is the one at pi + 1 here.                  *)
(***************************************************************************)
EXTENDS Glob

CONSTANTS Patterns, Texts

ASSUME GlobAssumption ==
    /\ \A p \in Patterns : p \in Seq({p[i] : i \in DOMAIN p})
    /\ \A t \in Texts : t \in Seq({t[i] : i \in DOMAIN t})

NoStar == [pi |-> -1, ti |-> 0]

VARIABLES
    p, t,       \* the arguments
    pi, ti,     \* how much of each is consumed
    star,       \* the last `*` met and how far it reached when last tried; or NoStar
    pc          \* "text", "stars" (the two loops), "true" or "false" (returned)

vars == <<p, t, pi, ti, star, pc>>

Init ==
    /\ p \in Patterns /\ t \in Texts
    /\ pi = 0 /\ ti = 0
    /\ star = NoStar
    /\ pc = "text"

AtStar == pi < Len(p) /\ p[pi + 1] = Star

AtSameByte == pi < Len(p) /\ p[pi + 1] # Star /\ p[pi + 1] = t[ti + 1]

\* Mutated form of MeetStar: pi is advanced before the star is recorded.
MeetStarAfterwards ==
    /\ pc = "text" /\ ti < Len(t)
    /\ AtStar
    /\ star' = [pi |-> pi + 1, ti |-> ti]
    /\ pi' = pi + 1
    /\ UNCHANGED <<p, t, ti, pc>>

\* The four branches of `while ti < t.len()`.
MeetStar ==
    /\ pc = "text" /\ ti < Len(t)
    /\ AtStar
    /\ star' = [pi |-> pi, ti |-> ti]
    /\ pi' = pi + 1
    /\ UNCHANGED <<p, t, ti, pc>>

ConsumeByte ==
    /\ pc = "text" /\ ti < Len(t)
    /\ AtSameByte
    /\ pi' = pi + 1
    /\ ti' = ti + 1
    /\ UNCHANGED <<p, t, star, pc>>

\* Mutated form of Backtrack: the star is tried again without reaching further.
BacktrackInPlace ==
    /\ pc = "text" /\ ti < Len(t)
    /\ ~AtStar /\ ~AtSameByte
    /\ star # NoStar
    /\ pi' = star.pi + 1
    /\ ti' = star.ti + 1
    /\ UNCHANGED <<p, t, star, pc>>

\* Mutated form of Backtrack: the star reaches to where the mismatch was.
BacktrackTooFar ==
    /\ pc = "text" /\ ti < Len(t)
    /\ ~AtStar /\ ~AtSameByte
    /\ star # NoStar
    /\ pi' = star.pi + 1
    /\ ti' = ti + 1
    /\ star' = [star EXCEPT !.ti = ti + 1]
    /\ UNCHANGED <<p, t, pc>>

Backtrack ==
    /\ pc = "text" /\ ti < Len(t)
    /\ ~AtStar /\ ~AtSameByte
    /\ star # NoStar
    /\ pi' = star.pi + 1
    /\ ti' = star.ti + 1
    /\ star' = [star EXCEPT !.ti = star.ti + 1]
    /\ UNCHANGED <<p, t, pc>>

Mismatch ==
    /\ pc = "text" /\ ti < Len(t)
    /\ ~AtStar /\ ~AtSameByte
    /\ star = NoStar
    /\ pc' = "false"
    /\ UNCHANGED <<p, t, pi, ti, star>>

TextConsumed ==
    /\ pc = "text" /\ ti >= Len(t)
    /\ pc' = "stars"
    /\ UNCHANGED <<p, t, pi, ti, star>>

\* `while p.get(pi) == Some(&b'*')`, and the return.
SkipStar ==
    /\ pc = "stars"
    /\ AtStar
    /\ pi' = pi + 1
    /\ UNCHANGED <<p, t, ti, star, pc>>

ReturnAtEnd ==
    /\ pc = "stars"
    /\ ~AtStar
    /\ pc' = IF pi = Len(p) THEN "true" ELSE "false"
    /\ UNCHANGED <<p, t, pi, ti, star>>

Next ==
    \/ MeetStar \/ ConsumeByte \/ Backtrack \/ Mismatch
    \/ TextConsumed \/ SkipStar \/ ReturnAtEnd

Spec == Init /\ [][Next]_vars

\* Sequential code without a wait.
FairSpec == Spec /\ WF_vars(Next)

-----------------------------------------------------------------------------
(***************************************************************************)
(* Neither pointer leaves its string (no index of the code panics), and    *)
(* the last star is behind both.                                           *)
(***************************************************************************)
TypeOK ==
    /\ p \in Patterns /\ t \in Texts
    /\ pi \in 0..Len(p) /\ ti \in 0..Len(t)
    /\ pc \in {"text", "stars", "true", "false"}
    /\ \/ star = NoStar
       \/ /\ star \in [pi : 0..(Len(p) - 1), ti : 0..Len(t)]
          /\ star.pi < pi /\ star.ti <= ti

(***************************************************************************)
(* glob_match answers true exactly for the texts the pattern matches: the  *)
(* greedy choice of the last star alone never loses a match.               *)
(***************************************************************************)
Correct ==
    /\ pc = "true" => GlobMatches(p, t)
    /\ pc = "false" => ~GlobMatches(p, t)

(***************************************************************************)
(* "polynomial (not exponential) time": every iteration advances the pair  *)
(* (how far the last star reached, pi) in lexicographic order, so there    *)
(* are at most (len t + 1) * (len p + 1) of them.                          *)
(***************************************************************************)
Progress ==
    [][\/ star'.ti > star.ti
       \/ star'.ti = star.ti /\ pi' > pi
       \/ star'.ti = star.ti /\ pi' = pi /\ pc' # pc]_vars

(***************************************************************************)
(* glob_match returns, on every pattern and text.                          *)
(***************************************************************************)
Returns == <>(pc \in {"true", "false"})
=============================================================================
