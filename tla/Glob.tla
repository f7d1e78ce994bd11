-------------------------------- MODULE Glob --------------------------------
(***************************************************************************)
(* What a RefPolicy::Glob pattern means: `*` stands for any run of bytes,  *)
(* every other byte for itself, and the whole text must be consumed.       *)
(* Patterns and texts are sequences of bytes.                              *)
(***************************************************************************)
EXTENDS Integers, Sequences

Star == "*"

\* cut[i] is where in the text the first i bytes of the pattern end.
Cuts(p, t) == [0..Len(p) -> 0..Len(t)]

\* The i-th byte of the pattern covers the text from one cut to the next.
Covers(p, t, cut, i) ==
    IF p[i] = Star THEN cut[i-1] <= cut[i]
    ELSE cut[i] = cut[i-1] + 1 /\ t[cut[i]] = p[i]

\* The first n bytes of the pattern match the first m bytes of the text.
MatchesUpTo(p, t, n, m, cut) ==
    /\ cut[0] = 0
    /\ \A i \in 1..n : Covers(p, t, cut, i)
    /\ cut[n] = m

GlobMatches(p, t) == \E cut \in Cuts(p, t) : MatchesUpTo(p, t, Len(p), Len(t), cut)
=============================================================================
