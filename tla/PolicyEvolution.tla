--------------------------- MODULE PolicyEvolution ---------------------------
(***************************************************************************)
(* A service provider and one client over a long time.  The operator edits *)
(* the generated policy file or the -X option and restarts the server; the *)
(* vendor ships new builds of the enclave; IAS's opinion of the platform   *)
(* changes with its advisories.  The verdict is always the one TrustPolicy *)
(* computes for what is deployed now.                                      *)
(***************************************************************************)
EXTENDS TrustPolicy

CONSTANTS
  Products,   \* ISV product ids
  Svns,       \* ISV SVNs, as far as the vendor has got
  Signers     \* MRSIGNER values

ASSUME PolicyAssumption ==
  /\ Products \subseteq Nat /\ Products # {}
  /\ Svns \subseteq Nat /\ Svns # {}
  /\ Signers \subseteq Nat /\ Signers # {}

VARIABLES policy, body, quoteStatus
policyVars == <<policy, body, quoteStatus>>

CurrentVerdict == Verdict(quoteStatus, body, policy)

\* Edit a requirement, or switch strict trust mode, and restart the server.
EditPolicy ==
  /\ \/ \E b \in BOOLEAN : policy' = [policy EXCEPT !.strict = b]
     \/ \E b \in BOOLEAN : policy' = [policy EXCEPT !.allowDebug = b]
     \/ \E n \in Svns : policy' = [policy EXCEPT !.minSvn = n]
     \/ \E p \in Products : policy' = [policy EXCEPT !.prodId = p]
     \/ \E k \in Signers : policy' = [policy EXCEPT !.mrSigner = k]
  /\ UNCHANGED <<body, quoteStatus>>

\* The client starts to use another build of the enclave.
ShipEnclave ==
  /\ body' \in Bodies(Products, Svns, Signers)
  /\ UNCHANGED <<policy, quoteStatus>>

\* IAS changes its opinion of the platform.
PlatformChanges ==
  /\ quoteStatus' \in QuoteStatuses
  /\ UNCHANGED <<policy, body>>

Init ==
  /\ policy \in Policies(Products, Svns, Signers)
  /\ body \in Bodies(Products, Svns, Signers)
  /\ quoteStatus \in QuoteStatuses

Next == EditPolicy \/ ShipEnclave \/ PlatformChanges

Spec == Init /\ [][Next]_policyVars

-----------------------------------------------------------------------------
\* The policy, the enclave and the platform stay within what can be configured,
\* signed and reported.
TypeOK ==
  /\ policy \in Policies(Products, Svns, Signers)
  /\ body \in Bodies(Products, Svns, Signers)
  /\ quoteStatus \in QuoteStatuses

\* p is at least as demanding as q, about the same product and signer.
AtLeastAsStrict(p, q) ==
  /\ p.prodId = q.prodId /\ p.mrSigner = q.mrSigner
  /\ q.strict => p.strict
  /\ p.allowDebug => q.allowDebug
  /\ p.minSvn >= q.minSvn

\* The enclave build a replaces build b of the same product: a later version,
\* and not a debug build in place of a release build.
Updates(a, b) ==
  /\ a.prodId = b.prodId /\ a.mrSigner = b.mrSigner
  /\ a.isvSvn >= b.isvSvn
  /\ a.debug => b.debug

\* Tightening the policy never gives a client a better verdict: the checks of
\* verify_enclave_identity and strict trust mode only ever take trust away.
TighteningNeverUpgrades ==
  [][ /\ AtLeastAsStrict(policy', policy)
      /\ UNCHANGED <<body, quoteStatus>>
      => Rank[CurrentVerdict'] <= Rank[CurrentVerdict] ]_policyVars

\* A client that updates its enclave keeps at least the verdict it had.
UpdatesNeverDowngrade ==
  [][ /\ Updates(body', body)
      /\ UNCHANGED <<policy, quoteStatus>>
      => Rank[CurrentVerdict'] >= Rank[CurrentVerdict] ]_policyVars

\* "NotTrusted_ItsComplicated" tells the user that action on the platform can
\* restore trust: it is never given to an enclave whose identity is refused.
ComplicatedMeansPlatform ==
  CurrentVerdict \in {"NotTrusted_ItsComplicated", "Trusted_ItsComplicated"} =>
    /\ IdentityAccepted(body, policy)
    /\ quoteStatus # "OK"

\* README-old.md:435 has the server trust enclaves that result in a
\* CONFIGURATION_NEEDED response by default, and distrust them with -X.
ConfigurationNeededTrusted ==
  quoteStatus = "CONFIGURATION_NEEDED" /\ IdentityAccepted(body, policy) /\ ~policy.strict
    => CurrentVerdict \in TrustedStatuses
==============================================================================
