-------------------------- MODULE VerifierContract --------------------------
(***************************************************************************)
(* What a Verifier promises, without the order of its checks: a call is    *)
(* answered once; it is accepted exactly when the bundle is Authentic for  *)
(* the subject under this verifier's trust store and policies, so the      *)
(* answer depends on nothing else; and an acceptance comes with a report   *)
(* of the Facts it establishes.  Module Authenticity says what both are.   *)
(***************************************************************************)
CONSTANTS Verifiers, Authentic(_, _), Facts(_, _)

VARIABLES verifier, call, result, report

vars == <<verifier, call, result, report>>

Ok == "Ok"

Init ==
    /\ verifier \in Verifiers
    /\ result = "Pending"
    /\ report = {}

Accept ==
    /\ result = "Pending"
    /\ Authentic(verifier, call)
    /\ result' = Ok
    /\ report' = {Facts(verifier, call)}
    /\ UNCHANGED <<verifier, call>>

Reject ==
    /\ result = "Pending"
    /\ ~Authentic(verifier, call)
    /\ result' \notin {Ok, "Pending"}
    /\ UNCHANGED <<verifier, call, report>>

\* The arguments of the next call are the caller's to choose.
NextCall ==
    /\ result # "Pending"
    /\ result' = "Pending"
    /\ report' = {}
    /\ UNCHANGED verifier

Next == Accept \/ Reject \/ NextCall

Spec == Init /\ [][Next]_vars
=============================================================================
