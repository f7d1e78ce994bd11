-------------------------------- MODULE X509 --------------------------------
(***************************************************************************)
(* x509.rs: validation of the leaf certificate against one certificate     *)
(* authority of the trust store.  Module Verifier runs the loop over them. *)
(*                                                                         *)
(* A certificate is [decodes, tbs, sigAlg, sig].  tbs.ext maps the OID of  *)
(* each extension present to the sequence of its occurrences, each one     *)
(* [critical, decodes, value].                                             *)
(***************************************************************************)
EXTENDS Symbolic

KnownLeafExtensions ==
    {"keyUsage", "extKeyUsage", "basicConstraints", "subjectAltName", "sctList"}

KnownCaCriticalExtensions == {"keyUsage", "basicConstraints"}

Occurrences(tbs, oid) == IF oid \in DOMAIN tbs.ext THEN tbs.ext[oid] ELSE <<>>

FindExtension(tbs, oid) ==
    IF Len(Occurrences(tbs, oid)) > 1 THEN "DuplicateExtension" ELSE Ok

FindExtensionDecoded(tbs, oid) ==
    FirstError(<<
        FindExtension(tbs, oid),
        Check(\A i \in DOMAIN Occurrences(tbs, oid) : Occurrences(tbs, oid)[i].decodes,
              "InvalidDer") >>)

\* The decoded value, as an Option: None when absent.
ExtensionValue(tbs, oid) ==
    LET found == Occurrences(tbs, oid)
    IN  IF found # <<>> /\ FindExtensionDecoded(tbs, oid) = Ok THEN {found[1].value} ELSE {}

CriticalExtensions(tbs) ==
    {oid \in DOMAIN tbs.ext : \E i \in DOMAIN tbs.ext[oid] : tbs.ext[oid][i].critical}

VerifyLeafProfile(tbs) ==
    FirstError(<<
        Check(CriticalExtensions(tbs) \subseteq KnownLeafExtensions, "UnknownCriticalExtension"),
        FindExtensionDecoded(tbs, "basicConstraints"),
        Check(\A bc \in ExtensionValue(tbs, "basicConstraints") : ~bc.ca, "InvalidBasicConstraints"),
        FindExtensionDecoded(tbs, "keyUsage"),
        Check(\E ku \in ExtensionValue(tbs, "keyUsage") : "digitalSignature" \in ku, "MissingKeyUsage"),
        FindExtensionDecoded(tbs, "extKeyUsage"),
        Check(\E eku \in ExtensionValue(tbs, "extKeyUsage") : "codeSigning" \in eku,
              "MissingCodeSigningEku") >>)

VerifyCaProfile(tbs, subordinateCaCount) ==
    FirstError(<<
        Check(CriticalExtensions(tbs) \subseteq KnownCaCriticalExtensions, "UnknownCriticalExtension"),
        FindExtensionDecoded(tbs, "basicConstraints"),
        Check(\E bc \in ExtensionValue(tbs, "basicConstraints") : bc.ca, "InvalidBasicConstraints"),
        Check(\A bc \in ExtensionValue(tbs, "basicConstraints") :
                 \A max \in bc.pathLen : subordinateCaCount <= max, "PathLengthExceeded"),
        FindExtensionDecoded(tbs, "keyUsage"),
        Check(\E ku \in ExtensionValue(tbs, "keyUsage") : "keyCertSign" \in ku, "MissingKeyUsage") >>)

\* Mutated form of VerifyTimeWindow: half open, as validFor is.
VerifyTimeWindowHalfOpen(tbs, t) ==
    IF t < tbs.notBefore \/ t >= tbs.notAfter THEN "OutsideCertificateValidity" ELSE Ok

\* Certificate validity is inclusive at both ends, unlike validFor.
VerifyTimeWindow(tbs, t) ==
    IF t < tbs.notBefore \/ t > tbs.notAfter THEN "OutsideCertificateValidity" ELSE Ok

VerifySignature(child, issuer) ==
    LET key == issuer.tbs.key
        expected == IF key.alg = "P256" THEN "ecdsaWithSha256" ELSE "ecdsaWithSha384"
    IN  FirstError(<<
            FromSpkiDer(key),
            Check(child.sigAlg = expected, "UnsupportedSignatureAlgorithm"),
            Check(VerifyDer(key, child.tbs, child.sig), "SignatureInvalid") >>)

\* One link of the walk: chain[i] (counted from 1) issued the one below it.
VerifyLink(signee, issuer, i, t) ==
    FirstError(<<
        Check(issuer.tbs.subject = signee.tbs.issuer, "IssuerNameMismatch"),
        VerifyTimeWindow(issuer.tbs, t),
        VerifyCaProfile(issuer.tbs, i - 1),
        VerifySignature(signee, issuer) >>)

VerifyPath(leaf, chain, t) ==
    LET signee(i) == IF i = 1 THEN leaf ELSE chain[i - 1]
    IN  FirstError([i \in DOMAIN chain |-> VerifyLink(signee(i), chain[i], i, t)])

(***************************************************************************)
(* Ok, an error, or "None": this authority does not claim to have issued   *)
(* the leaf.  The whole chain is decoded before the name is compared.      *)
(***************************************************************************)
TryValidateAgainstCa(leaf, ca, t) ==
    LET chain == ca.certificates IN
    IF \E i \in DOMAIN chain : ~chain[i].decodes THEN "InvalidDer"
    ELSE IF chain = <<>> THEN "None"
    ELSE IF chain[1].tbs.subject # leaf.tbs.issuer THEN "None"
    ELSE FirstError(<<
            Check(WithinValidFor(t, ca.validFor), "OutsideCaValidity"),
            VerifyTimeWindow(leaf.tbs, t),
            VerifyLeafProfile(leaf.tbs),
            VerifyPath(leaf, chain, t) >>)

\* dsse.rs LeafCertificateInfo::from_certificate.
LeafCertificateInfo(certificate) ==
    IF ~certificate.decodes THEN "InvalidDer" ELSE FromSpkiDer(certificate.tbs.key)
=============================================================================
