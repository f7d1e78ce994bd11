----------------------------- MODULE Statement ------------------------------
(***************************************************************************)
(* statement.rs: the in-toto statement in a DSSE payload.  A payload is    *)
(* the record of what its bytes decode to: `parses` ("yes", or the error   *)
(* of the size check, the strict JSON parser or a subject's digest), the   *)
(* statement type, the subjects [name, sha256], and the predicate type.    *)
(***************************************************************************)
EXTENDS Symbolic

CONSTANT MaxStatementSubjects      \* limits.rs MAX_STATEMENT_SUBJECTS

ASSUME StatementAssumption == MaxStatementSubjects \in Nat

StatementType == "https://in-toto.io/Statement/v1"
SupportedPredicateType == "https://slsa.dev/provenance/v1"

\* What may be wrong with the bytes of a payload.
PayloadErrors == {"InputTooLarge", "TooManyJsonNodes", "Json", "MalformedSubject"}

\* A bad subject digest is found last, when the subjects are converted.
FromPayload(payload) ==
    FirstError(<<
        Check(payload.parses \in {"yes", "MalformedSubject"}, payload.parses),
        Check(payload.type = StatementType, "StatementType"),
        Check(Len(payload.subjects) <= MaxStatementSubjects, "TooManySubjects"),
        Check(payload.parses = "yes", payload.parses) >>)

\* The position of the first subject with this digest; 0 if there is none.
FindSubject(payload, subject) ==
    FirstIndex(payload.subjects, LAMBDA s : s.sha256 = {subject})
=============================================================================
