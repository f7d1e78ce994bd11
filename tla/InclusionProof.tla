--------------------------- MODULE InclusionProof ---------------------------
(***************************************************************************)
(* rekor.rs verify_inclusion_proof and the loop of recompute_root: one     *)
(* action per level of the tree.  `entries` is what the log holds under    *)
(* the tree head the checkpoint signs; the code sees of it only treeSize   *)
(* and rootHash.                                                           *)
(***************************************************************************)
EXTENDS Integers, Sequences

(***************************************************************************)
(* RFC 6962 trees, the reference: the tree hash of a sequence of entries   *)
(* and the audit path of one of them, defined by splitting off the largest *)
(* complete subtree on the left.  Hashes are free constructors; the leaf   *)
(* and node prefixes keep the two kinds apart.                             *)
(***************************************************************************)
LeafHash(body) == [leaf |-> body]
NodeHash(left, right) == [left |-> left, right |-> right]

Power[e \in Nat] == IF e = 0 THEN 1 ELSE 2 * Power[e - 1]

\* The largest power of two below n, for n > 1.
Split(n) == CHOOSE k \in {Power[e] : e \in 0..n} : k < n /\ n <= 2 * k

\* The span <<lo, hi>> is the subtree over leaves lo+1 .. hi.
Spans(size) == {s \in (0..size) \X (0..size) : s[1] < s[2]}
Middle(s) == s[1] + Split(s[2] - s[1])

SubtreeHash(leaves) ==
    LET hash[s \in Spans(Len(leaves))] ==
            IF s[2] - s[1] = 1 THEN LeafHash(leaves[s[2]])
            ELSE NodeHash(hash[<<s[1], Middle(s)>>], hash[<<Middle(s), s[2]>>])
    IN  hash

TreeHash(leaves) == SubtreeHash(leaves)[<<0, Len(leaves)>>]

(***************************************************************************)
(* The audit path of the entry at a 0-based index: the hashes of the       *)
(* sibling subtrees from the leaf up to the root of a span.                *)
(***************************************************************************)
SubtreePath(index, leaves) ==
    LET path[s \in Spans(Len(leaves))] ==
            IF s[2] - s[1] = 1 THEN <<>>
            ELSE IF index < Middle(s)
            THEN path[<<s[1], Middle(s)>>] \o <<SubtreeHash(leaves)[<<Middle(s), s[2]>>]>>
            ELSE path[<<Middle(s), s[2]>>] \o <<SubtreeHash(leaves)[<<s[1], Middle(s)>>]>>
    IN  path

AuditPath(index, leaves) == SubtreePath(index, leaves)[<<0, Len(leaves)>>]

-----------------------------------------------------------------------------
CONSTANTS
    Logs,          \* the sequences of entries a log may hold
    Proofs(_)      \* the proofs tried for a log: [body, index, hashes]

ASSUME LogsAssumption ==
    \A log \in Logs :
        /\ log \in Seq({log[i] : i \in DOMAIN log}) /\ log # <<>>
        /\ \A given \in Proofs(log) :
              given.index \in Nat /\ given.hashes \in Seq({given.hashes[i] : i \in DOMAIN given.hashes})

VARIABLES
    entries,      \* what the log holds
    proof,        \* the body to prove, its leaf index and the hashes given
    nodeIndex, lastNode, nodeHash,
    used,         \* how many of the hashes were consumed
    at            \* "start", "walk", "ok" or "invalid"

walkVars == <<entries, proof, nodeIndex, lastNode, nodeHash, used, at>>

TreeSize == Len(entries)

\* A hash of the proof that is not of 32 bytes.
WrongLength == [wrongLength |-> TRUE]

WalkInit ==
    /\ entries \in Logs
    /\ proof \in Proofs(entries)
    /\ nodeIndex = 0 /\ lastNode = 0 /\ nodeHash = LeafHash(proof.body) /\ used = 0
    /\ at = "start"

\* Mutated form of StartWalk: the leaf index is not compared with the tree size.
StartAnywhere ==
    /\ at = "start"
    /\ nodeIndex' = proof.index /\ lastNode' = TreeSize - 1 /\ at' = "walk"
    /\ UNCHANGED <<entries, proof, nodeHash, used>>

StartWalk ==
    /\ at = "start"
    /\ IF proof.index >= TreeSize \/ \E i \in DOMAIN proof.hashes : proof.hashes[i] = WrongLength
       THEN at' = "invalid" /\ UNCHANGED <<nodeIndex, lastNode>>
       ELSE nodeIndex' = proof.index /\ lastNode' = TreeSize - 1 /\ at' = "walk"
    /\ UNCHANGED <<entries, proof, nodeHash, used>>

\* Which side of its parent the node is on; neither when it has no sibling.
IsRight == nodeIndex % 2 = 1
IsLeft == nodeIndex % 2 = 0 /\ nodeIndex < lastNode

HasHash == used < Len(proof.hashes)
NextHash == proof.hashes[used + 1]

GoUp == nodeIndex' = nodeIndex \div 2 /\ lastNode' = lastNode \div 2

\* `remaining.next()?` of a proof that is too short.
OutOfHashes ==
    /\ at = "walk" /\ lastNode > 0
    /\ IsRight \/ IsLeft
    /\ ~HasHash
    /\ at' = "invalid"
    /\ UNCHANGED <<entries, proof, nodeIndex, lastNode, nodeHash, used>>

HashWithLeft ==
    /\ at = "walk" /\ lastNode > 0
    /\ IsRight /\ HasHash
    /\ nodeHash' = NodeHash(NextHash, nodeHash)
    /\ used' = used + 1
    /\ GoUp
    /\ UNCHANGED <<entries, proof, at>>

HashWithRight ==
    /\ at = "walk" /\ lastNode > 0
    /\ IsLeft /\ HasHash
    /\ nodeHash' = NodeHash(nodeHash, NextHash)
    /\ used' = used + 1
    /\ GoUp
    /\ UNCHANGED <<entries, proof, at>>

\* Mutated form of Promote: only the branches that hash go up a level.
PromoteInPlace ==
    /\ at = "walk" /\ lastNode > 0
    /\ ~IsRight /\ ~IsLeft
    /\ UNCHANGED walkVars

\* The unpaired rightmost node of its level goes up unchanged.
Promote ==
    /\ at = "walk" /\ lastNode > 0
    /\ ~IsRight /\ ~IsLeft
    /\ GoUp
    /\ UNCHANGED <<entries, proof, nodeHash, used, at>>

\* Mutated form of ReachRoot: hashes left over are not noticed.
ReachRootEarly ==
    /\ at = "walk" /\ lastNode = 0
    /\ at' = IF nodeHash = TreeHash(entries) THEN "ok" ELSE "invalid"
    /\ UNCHANGED <<entries, proof, nodeIndex, lastNode, nodeHash, used>>

\* A proof that is too long, or the comparison with rootHash.
ReachRoot ==
    /\ at = "walk" /\ lastNode = 0
    /\ at' = IF ~HasHash /\ nodeHash = TreeHash(entries) THEN "ok" ELSE "invalid"
    /\ UNCHANGED <<entries, proof, nodeIndex, lastNode, nodeHash, used>>

WalkStep == StartWalk \/ OutOfHashes \/ HashWithLeft \/ HashWithRight \/ Promote \/ ReachRoot

WalkSpec == WalkInit /\ [][WalkStep]_walkVars

\* Sequential code without a wait.
FairWalkSpec == WalkSpec /\ WF_walkVars(WalkStep)

-----------------------------------------------------------------------------
(***************************************************************************)
(* The node stays within its level, so that "else: node_index == last_node *)
(* and even" (rekor.rs:385) is what the third branch of the loop means;    *)
(* and no hash is read past the end of the proof.                          *)
(***************************************************************************)
OnLevel ==
    at = "walk" =>
        /\ nodeIndex \in 0..lastNode
        /\ used \in 0..Len(proof.hashes)
        /\ lastNode < TreeSize

(***************************************************************************)
(* A proof is accepted exactly when the log holds this body at this index  *)
(* and the hashes are the entry's audit path: no other index, no other     *)
(* body, and no hash missing or left over.                                 *)
(***************************************************************************)
AcceptsOnlyAuditPaths ==
    LET genuine ==
            /\ proof.index < TreeSize
            /\ entries[proof.index + 1] = proof.body
            /\ proof.hashes = AuditPath(proof.index, entries)
    IN  /\ at = "ok" => genuine
        /\ at = "invalid" => ~genuine

(***************************************************************************)
(* The walk ends for every index and every proof.                          *)
(***************************************************************************)
WalkEnds == <>(at \in {"ok", "invalid"})
=============================================================================
