----------------------------- MODULE TrustPolicy -----------------------------
(***************************************************************************)
(* The attestation policy of the service provider, as pure operators: what *)
(* get_attestation_report makes of the isvEnclaveQuoteStatus of a verified *)
(* IAS report, what verify_enclave_identity makes of the enclave identity  *)
(* inside the quote, and how process_msg3 combines the two into the status *)
(* it puts in msg4.                                                        *)
(***************************************************************************)
EXTENDS Naturals

\* attestation_status_t, in the order of the enumeration.
Statuses ==
  {"NotTrusted", "NotTrusted_ItsComplicated", "Trusted_ItsComplicated", "Trusted"}

Rank == [NotTrusted |-> 0, NotTrusted_ItsComplicated |-> 1,
         Trusted_ItsComplicated |-> 2, Trusted |-> 3]

\* The statuses for which process_msg3 derives MK and SK and do_attestation
\* fetches the key hashes.
TrustedStatuses == {"Trusted", "Trusted_ItsComplicated"}

\* isvEnclaveQuoteStatus: the values the code names, and one that stands for
\* every other answer of IAS (GROUP_REVOKED, SIGNATURE_INVALID, ...).
QuoteStatuses ==
  {"OK", "SW_HARDENING_NEEDED", "CONFIGURATION_AND_SW_HARDENING_NEEDED",
   "CONFIGURATION_NEEDED", "GROUP_OUT_OF_DATE", "OTHER"}

\* MUTANT of ReportStatus: the two modes of -X are swapped.
ReportStatusSwapped(quoteStatus, strict) ==
  CASE quoteStatus = "OK" -> "Trusted"
    [] quoteStatus \in {"SW_HARDENING_NEEDED", "CONFIGURATION_AND_SW_HARDENING_NEEDED"} ->
         IF strict THEN "Trusted_ItsComplicated" ELSE "NotTrusted_ItsComplicated"
    [] quoteStatus = "GROUP_OUT_OF_DATE" -> "NotTrusted_ItsComplicated"
    [] OTHER -> "NotTrusted"

\* The status get_attestation_report writes into msg4.
ReportStatus(quoteStatus, strict) ==
  CASE quoteStatus = "OK" -> "Trusted"
    [] quoteStatus \in {"SW_HARDENING_NEEDED", "CONFIGURATION_AND_SW_HARDENING_NEEDED"} ->
         IF strict THEN "NotTrusted_ItsComplicated" ELSE "Trusted_ItsComplicated"
    [] quoteStatus = "GROUP_OUT_OF_DATE" -> "NotTrusted_ItsComplicated"
    [] OTHER -> "NotTrusted"

\* MUTANT of IdentityAccepted: the ISV SVN has to be equal.
IdentityAcceptedSvnEqual(body, policy) ==
  /\ body.debug => policy.allowDebug
  /\ body.prodId = policy.prodId
  /\ body.isvSvn = policy.minSvn
  /\ body.mrSigner = policy.mrSigner

\* verify_enclave_identity: body is the report body of the quote, policy the
\* identity requirements of the server's options (generated policy file).
IdentityAccepted(body, policy) ==
  /\ body.debug => policy.allowDebug
  /\ body.prodId = policy.prodId
  /\ body.isvSvn >= policy.minSvn
  /\ body.mrSigner = policy.mrSigner

\* MUTANT of Verdict: the identity only matters where IAS says OK.
VerdictComplicatedFirst(quoteStatus, body, policy) ==
  IF quoteStatus # "OK" \/ IdentityAccepted(body, policy)
  THEN ReportStatus(quoteStatus, policy.strict)
  ELSE "NotTrusted"

\* MUTANT of Verdict: msg4.status is not set when the identity is refused.
VerdictUnset(quoteStatus, body, policy) ==
  IF IdentityAccepted(body, policy)
  THEN ReportStatus(quoteStatus, policy.strict)
  ELSE "none"

\* The status of msg4 once process_msg3 has checked the report data.
Verdict(quoteStatus, body, policy) ==
  IF IdentityAccepted(body, policy)
  THEN ReportStatus(quoteStatus, policy.strict)
  ELSE "NotTrusted"

Bodies(prods, svns, signers) ==
  [debug : BOOLEAN, prodId : prods, isvSvn : svns, mrSigner : signers]

Policies(prods, svns, signers) ==
  [strict : BOOLEAN, allowDebug : BOOLEAN,
   prodId : prods, minSvn : svns, mrSigner : signers]
==============================================================================
