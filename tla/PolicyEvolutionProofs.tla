------------------------ MODULE PolicyEvolutionProofs ------------------------
(***************************************************************************)
(* Proofs about PolicyEvolution, for all products, versions and signers.   *)
(***************************************************************************)
EXTENDS PolicyEvolution, TLAPS

-----------------------------------------------------------------------------
(* The verdict is monotone in each of its arguments *)

\* A more demanding policy accepts no more enclaves.
LEMMA StricterAcceptsLess ==
  ASSUME NEW b \in Bodies(Products, Svns, Signers),
         NEW p \in Policies(Products, Svns, Signers), NEW q \in Policies(Products, Svns, Signers),
         AtLeastAsStrict(p, q), IdentityAccepted(b, p)
  PROVE  IdentityAccepted(b, q)
<1>1. b.isvSvn \in Nat /\ p.minSvn \in Nat /\ q.minSvn \in Nat
  BY PolicyAssumption DEF Bodies, Policies
<1>2. QED
  BY <1>1 DEF AtLeastAsStrict, IdentityAccepted

\* An update of an accepted enclave is accepted.
LEMMA UpdateStaysAccepted ==
  ASSUME NEW a \in Bodies(Products, Svns, Signers), NEW b \in Bodies(Products, Svns, Signers),
         NEW p \in Policies(Products, Svns, Signers),
         Updates(a, b), IdentityAccepted(b, p)
  PROVE  IdentityAccepted(a, p)
<1>1. a.isvSvn \in Nat /\ b.isvSvn \in Nat /\ p.minSvn \in Nat
  BY PolicyAssumption DEF Bodies, Policies
<1>2. QED
  BY <1>1 DEF Updates, IdentityAccepted

\* Strict trust mode never raises the status of a report.
LEMMA StrictNeverRaises ==
  ASSUME NEW s \in QuoteStatuses, NEW x \in BOOLEAN, NEW y \in BOOLEAN, y => x
  PROVE  /\ ReportStatus(s, x) \in Statuses
         /\ Rank[ReportStatus(s, x)] \in 0 .. 3
         /\ Rank[ReportStatus(s, x)] <= Rank[ReportStatus(s, y)]
BY DEF QuoteStatuses, ReportStatus, Statuses, Rank

-----------------------------------------------------------------------------
(* The theorems *)

\* The type invariant of PolicyEvolution: policies, enclaves and platforms stay what
\* the configuration file, the signing tool and IAS can produce.
LEMMA TypeInvariant == Spec => []TypeOK
<1>1. Init => TypeOK
  BY DEF Init, TypeOK
<1>2. TypeOK /\ [Next]_policyVars => TypeOK'
  <2> SUFFICES ASSUME TypeOK, [Next]_policyVars
               PROVE  TypeOK'
    OBVIOUS
  <2>1. CASE EditPolicy
    BY <2>1 DEF EditPolicy, TypeOK, Policies
  <2>2. CASE ShipEnclave \/ PlatformChanges
    BY <2>2 DEF ShipEnclave, PlatformChanges, TypeOK
  <2>3. CASE UNCHANGED policyVars
    BY <2>3 DEF policyVars, TypeOK
  <2>4. QED
    BY <2>1, <2>2, <2>3 DEF Next
<1>3. QED
  BY <1>1, <1>2, PTL DEF Spec

\* A stricter policy file, or -X, never gives the same enclave on the same
\* platform a better verdict.
THEOREM StricterIsNeverBetter == Spec => TighteningNeverUpgrades
<1> DEFINE A == /\ AtLeastAsStrict(policy', policy)
                /\ UNCHANGED <<body, quoteStatus>>
                => Rank[CurrentVerdict'] <= Rank[CurrentVerdict]
<1>1. ASSUME TypeOK, TypeOK'
      PROVE  A
  <2> SUFFICES ASSUME AtLeastAsStrict(policy', policy), UNCHANGED <<body, quoteStatus>>
               PROVE  Rank[CurrentVerdict'] <= Rank[CurrentVerdict]
    OBVIOUS
  <2>1. /\ policy.strict \in BOOLEAN /\ policy'.strict \in BOOLEAN
        /\ policy.strict => policy'.strict
    BY <1>1 DEF TypeOK, Policies, AtLeastAsStrict
  <2>2. /\ Rank[ReportStatus(quoteStatus, policy'.strict)] \in 0 .. 3
        /\ Rank[ReportStatus(quoteStatus, policy.strict)] \in 0 .. 3
        /\ Rank[ReportStatus(quoteStatus, policy'.strict)]
             <= Rank[ReportStatus(quoteStatus, policy.strict)]
    BY <1>1, <2>1, StrictNeverRaises DEF TypeOK
  <2>3. IdentityAccepted(body, policy') => IdentityAccepted(body, policy)
    BY <1>1, StricterAcceptsLess DEF TypeOK
  <2>4. Rank["NotTrusted"] = 0
    BY DEF Rank
  <2>5. CASE IdentityAccepted(body, policy')
    BY <2>2, <2>3, <2>5 DEF CurrentVerdict, Verdict
  <2>6. CASE ~IdentityAccepted(body, policy')
    BY <2>2, <2>4, <2>6 DEF CurrentVerdict, Verdict
  <2>7. QED
    BY <2>5, <2>6
<1>2. QED
  BY <1>1, TypeInvariant, PTL DEF TighteningNeverUpgrades

\* A later release build of the same enclave never has a worse verdict.
THEOREM UpdatesAreSafe == Spec => UpdatesNeverDowngrade
<1>1. ASSUME TypeOK, TypeOK', Updates(body', body), UNCHANGED <<policy, quoteStatus>>
      PROVE  Rank[CurrentVerdict'] >= Rank[CurrentVerdict]
  <2>1. policy.strict \in BOOLEAN
    BY <1>1 DEF TypeOK, Policies
  <2>2. Rank[ReportStatus(quoteStatus, policy.strict)] \in 0 .. 3
    BY <1>1, <2>1, StrictNeverRaises DEF TypeOK
  <2>3. IdentityAccepted(body, policy) => IdentityAccepted(body', policy)
    BY <1>1, UpdateStaysAccepted DEF TypeOK
  <2>4. Rank["NotTrusted"] = 0
    BY DEF Rank
  <2>5. CASE IdentityAccepted(body, policy)
    BY <1>1, <2>2, <2>3, <2>5 DEF CurrentVerdict, Verdict
  <2>6. CASE ~IdentityAccepted(body, policy)
    BY <1>1, <2>2, <2>4, <2>6 DEF CurrentVerdict, Verdict
  <2>7. QED
    BY <2>5, <2>6
<1>2. QED
  BY <1>1, TypeInvariant, PTL DEF UpdatesNeverDowngrade

\* "ItsComplicated" is a matter of the platform: process_msg3 never says it of an enclave
\* whose identity verify_enclave_identity has refused, nor where IAS says OK.
THEOREM ComplicatedIsThePlatform == Spec => []ComplicatedMeansPlatform
<1>1. TypeOK => ComplicatedMeansPlatform
  BY DEF TypeOK, ComplicatedMeansPlatform, CurrentVerdict, Verdict, ReportStatus, QuoteStatuses
<1>2. QED
  BY <1>1, TypeInvariant, PTL
==============================================================================
