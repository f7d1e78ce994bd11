------------------------------ MODULE MCLoops -------------------------------
(***************************************************************************)
(* The two loops on a caller's data: a glob match, then the walk of an     *)
(* inclusion proof, which share nothing.  Every pattern and every text of  *)
(* up to MaxLen bytes is matched before the shortest walk, and every proof *)
(* is walked after the shortest match.                                     *)
(*                                                                         *)
(* The logs have up to MaxSize entries, the last ones an entry logged      *)
(* twice; the proofs are made of every subtree hash of the log and a       *)
(* foreign one, up to one hash longer than the tree is deep.               *)
(***************************************************************************)
EXTENDS GlobMatch, InclusionProof, SequencesExt

CONSTANTS MaxLen, MaxSize

AllPatterns == BoundedSeq({"a", "b", Star}, MaxLen)
AllTexts == BoundedSeq({"a", "b", Star}, MaxLen)

Distinct(n) == [i \in 1..n |-> i]
AllLogs == {Distinct(n) : n \in 1..MaxSize} \union {<<1, 2, 1>>, <<1, 1, 2, 1>>}

Foreign == 0
Hashes(log) == Range(SubtreeHash(log)) \union {LeafHash(Foreign), WrongLength}

\* 2^Depth is the least power of two that is not below the size.
Depth(n) == CHOOSE d \in 0..n : 2^d >= n /\ \A e \in 0..(d-1) : 2^e < n

\* Every hash for the small logs; for the larger ones, at most one is not a path's.
Paths(log, index) ==
    IF Len(log) <= 4 THEN BoundedSeq(Hashes(log), Depth(Len(log)) + 1)
    ELSE LET path == AuditPath(IF index < Len(log) THEN index ELSE Len(log) - 1, log) IN
         {path} \union {[path EXCEPT ![i] = h] : i \in DOMAIN path, h \in Hashes(log)}
                \union {RemoveAt(path, i) : i \in DOMAIN path}
                \union {InsertAt(path, i, h) : i \in 1..(Len(path) + 1), h \in Hashes(log)}

AllProofs(log) ==
    UNION {[body : Range(log) \union {Foreign}, index : {i}, hashes : Paths(log, i)] :
               i \in 0..(2 * Len(log))}

-----------------------------------------------------------------------------
ShortestMatch == p = <<>> /\ t = <<>>
ShortestWalk == entries = <<1>> /\ proof = [body |-> 1, index |-> 0, hashes |-> <<>>]

LoopsInit ==
    \/ ShortestWalk /\ WalkInit /\ Init
    \/ ShortestMatch /\ Init /\ WalkInit

\* One thread makes both calls; they share nothing, so their order says nothing.
LoopsNext ==
    \/ Next /\ UNCHANGED walkVars
    \/ pc \in {"true", "false"} /\ WalkStep /\ UNCHANGED vars

\* Sequential code without a wait.
LoopsSpec ==
    /\ LoopsInit /\ [][LoopsNext]_<<vars, walkVars>>
    /\ WF_<<vars, walkVars>>(LoopsNext)

MCPatterns == AllPatterns
MCTexts == AllTexts
MCLogs == AllLogs
MCProofs(log) == AllProofs(log)
=============================================================================
