-------------------------------- MODULE Sct ---------------------------------
(***************************************************************************)
(* sct.rs: the signed certificate timestamps embedded in a leaf.           *)
(* An SCT is [supported, logId, timestampMs, extensions, signature], where *)
(* `supported` says its version and algorithm bytes are v1/SHA-256/ECDSA.  *)
(***************************************************************************)
EXTENDS X509

\* The value of the extension is [parses, scts]; read once ExtractSctList is Ok.
SctList(tbs) == Occurrences(tbs, "sctList")[1].value.scts

ExtractSctList(tbs) ==
    FirstError(<<
        FindExtension(tbs, "sctList"),
        Check(Occurrences(tbs, "sctList") # <<>>, "SctMissing"),
        FindExtensionDecoded(tbs, "sctList"),
        Check(\A list \in ExtensionValue(tbs, "sctList") : list.parses, "SctInvalid"),
        Check(\A list \in ExtensionValue(tbs, "sctList") : list.scts # <<>>, "SctMissing") >>)

\* The TBS certificate the CT log signed: the leaf's without the SCT list.
PrecertTbs(tbs) ==
    [tbs EXCEPT !.ext = [oid \in DOMAIN tbs.ext \ {"sctList"} |-> tbs.ext[oid]]]

DigitallySignedBytes(timestampMs, issuerKeyHash, precertTbs, extensions) ==
    [type |-> "sct", timestampMs |-> timestampMs, issuerKeyHash |-> issuerKeyHash,
     precertTbs |-> precertTbs, extensions |-> extensions]

SelectedCtLog(ctlogs, logId) ==
    FirstIndex(ctlogs, LAMBDA log : Sha256(log.key) = logId)

\* Mutated form of SctWithinValidFor: part of a second counts as a whole one.
SctWithinValidForRoundingUp(timestampMs, window) == WithinValidFor((timestampMs + 999) \div 1000, window)

\* The milliseconds of an SCT are cut off before it is compared with the window.
SctWithinValidFor(timestampMs, window) == WithinValidFor(timestampMs \div 1000, window)

VerifyOneSct(sct, tbs, issuerKey, ctlogs) ==
    LET i == SelectedCtLog(ctlogs, sct.logId)
        message == DigitallySignedBytes(sct.timestampMs, Sha256(issuerKey), PrecertTbs(tbs),
                                        sct.extensions)
    IN  IF i = 0 THEN "UnknownCtLog"
        ELSE FirstError(<<
            Check(SctWithinValidFor(sct.timestampMs, ctlogs[i].validFor),
                  "SctOutsideKeyValidity"),
            Check(sct.supported, "SctInvalid"),
            FromSpkiDer(ctlogs[i].key),
            Check(VerifyDer(ctlogs[i].key, message, sct.signature), "SctInvalid") >>)
=============================================================================
