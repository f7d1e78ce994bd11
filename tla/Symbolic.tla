------------------------------ MODULE Symbolic ------------------------------
(***************************************************************************)
(* The vocabulary the component modules share.  Hashes and signatures are  *)
(* free constructors, so that two of them are equal exactly when they were *)
(* made from the same parts.  A Rust Option is the set of its values: {}   *)
(* for None, a singleton for Some.                                         *)
(*                                                                         *)
(* A fallible Rust function is an operator that returns its outcome: "Ok"  *)
(* or the name of the error.  Its early returns, in source order, are a    *)
(* sequence of outcomes; its own outcome is the first that is not Ok.      *)
(***************************************************************************)
EXTENDS Integers, Sequences, FiniteSets

Ok == "Ok"

Check(holds, error) == IF holds THEN Ok ELSE error

FirstError(outcomes) ==
    LET failed == {i \in DOMAIN outcomes : outcomes[i] # Ok}
    IN  IF failed = {} THEN Ok
        ELSE outcomes[CHOOSE i \in failed : \A j \in failed : i <= j]

(***************************************************************************)
(* The first element of a sequence that satisfies a predicate, as the      *)
(* index Iterator::find would stop at; 0 when there is none.               *)
(***************************************************************************)
FirstIndex(seq, P(_)) ==
    LET hits == {i \in DOMAIN seq : P(seq[i])}
    IN  IF hits = {} THEN 0 ELSE CHOOSE i \in hits : \A j \in hits : i <= j

(***************************************************************************)
(* The members of a set of positions in ascending order, and the elements  *)
(* of a sequence that Iterator::filter keeps.                              *)
(***************************************************************************)
Ascending(positions) ==
    [k \in 1..Cardinality(positions) |->
        CHOOSE i \in positions : Cardinality({j \in positions : j <= i}) = k]

Filter(seq, P(_)) ==
    LET kept == Ascending({i \in DOMAIN seq : P(seq[i])})
    IN  [k \in DOMAIN kept |-> seq[kept[k]]]

\* The value that an Option with one holds.
The(option) == CHOOSE value \in option : TRUE

Sha256(data) == [sha256 |-> data]

Signature(key, message) == [by |-> key, over |-> message]

(***************************************************************************)
(* dsse.rs EcdsaVerifyingKey: a key of another algorithm than P-256 or     *)
(* P-384 is refused before any signature is looked at.                     *)
(***************************************************************************)
FromSpkiDer(key) ==
    IF key.alg \in {"P256", "P384"} THEN Ok ELSE "UnsupportedKeyAlgorithm"

VerifyDer(key, message, signature) == signature = Signature(key, message)

(***************************************************************************)
(* trust.rs ValidityPeriod is half open, and open ended when `end` is None.*)
(***************************************************************************)
WithinValidFor(t, window) ==
    /\ window.start <= t
    /\ \A end \in window.end : t < end
=============================================================================
