---------------------------- MODULE IasConnection ----------------------------
(***************************************************************************)
(* The service provider's connection to the Intel Attestation Service      *)
(* (iasrequest.cpp, get_sigrl and get_attestation_report of sp.cpp): two   *)
(* subscription keys and the failover between them, one agent per request, *)
(* and the checks that a report must pass before anything in it is read.   *)
(* AgentWget models what happens inside a request; IAS and the             *)
(* administrator who renews keys are external.                             *)
(***************************************************************************)
EXTENDS Integers, Sequences, SequencesExt

CONSTANTS
  ApiVersion,     \* config.apiver
  MaxChain,       \* certificates in the longest X-IASReport-Signing-Certificate
  Rotations,      \* bound: times IAS changes which subscription keys it accepts
  LeakBound,      \* bound: no session begins with more certificates left behind
  Texts           \* what a report can say, its version apart

ASSUME ConnectionAssumption ==
  /\ ApiVersion \in {3, 4} /\ MaxChain \in Nat /\ Rotations \in Nat /\ LeakBound \in Nat

Keys == {"Primary", "Secondary"}

\* A certificate whose chain the store verifies, one it does not, and a text
\* that cert_load does not load.
Certificates == {"issued", "stranger", "junk"}

\* version 0: the report has no version.
Reports == [version : {0, 3, 4}, text : Texts]

\* Nobody signs with the key of a certificate that does not load.
Signatures == [by : {"issued", "stranger"}, over : Reports]

Absent == [by |-> "absent"]
Undecodable == [by |-> "undecodable"]
NoReply == [status |-> 0]

\* chain <<>>: no certificate header; decodes: url_decode does not throw.
Replies ==
  [status : {200}, chain : SeqOf(Certificates, MaxChain), decodes : BOOLEAN,
   sig : Signatures \union {Absent, Undecodable}, report : Reports]

VARIABLES
  pc,         \* where the server is in its session
  key,        \* currentKeyID
  wire,       \* the key that the request under way carries
  reply,      \* response
  agents,     \* agents allocated and not deleted
  certs,      \* certificates loaded and not freed
  good,       \* external: the keys IAS accepts
  rotations,  \* external: changes of good so far
  accepted,   \* history: the reply whose report the session used
  refused,    \* history: sessions that a 401 ended, counted to Rotations + 1
  revoked,    \* history: times the primary key went from good to bad
  everBad,    \* history: keys that IAS has not accepted at some time
  leaks       \* history: how certificates were left behind

conn == <<pc, key, wire, reply>>
memory == <<agents, certs>>
ias == <<good, rotations, everBad, revoked>>
history == <<accepted, refused, leaks>>
vars == <<conn, memory, ias, history>>

Return == pc' = "idle" /\ wire' = "none" /\ reply' = NoReply

-----------------------------------------------------------------------------
(* A session, as sp.cpp's msg01 and msg3 *)

\* A new session; or one whose client sent no msg3 worth a report.
Session ==
  \/ /\ pc = "idle" /\ certs <= LeakBound
     /\ pc' = "sigrl" /\ accepted' = NoReply
     /\ UNCHANGED <<key, wire, reply, memory, ias, refused, leaks>>
  \/ pc = "msg3" /\ Return /\ UNCHANGED <<key, memory, ias, history>>
  \/ pc = "msg3" /\ pc' = "report" /\ UNCHANGED <<key, wire, reply, memory, ias, history>>

\* new_agent and the sending of the request.  Without memory for the agent the
\* request is IAS_QUERY_FAILED.
Query ==
  /\ pc \in {"sigrl", "report"}
  /\ \/ /\ agents' = agents + 1
        /\ wire' = key
        /\ pc' = IF pc = "sigrl" THEN "sigrlSent" ELSE "reportSent"
        /\ UNCHANGED reply
     \/ Return /\ UNCHANGED agents
  /\ UNCHANGED <<key, certs, ias, history>>

\* External: what comes back; status 0 if the query failed.
Answer ==
  /\ \/ /\ pc \in {"sigrlSent", "reportSent"}
        /\ \E status \in IF wire \in good THEN {0, 404, 500} ELSE {0, 401} :
             reply' = [status |-> status]
     \/ pc = "sigrlSent" /\ wire \in good /\ reply' = [status |-> 200]
     \/ pc = "reportSent" /\ wire \in good /\ reply' \in Replies
  /\ pc' = IF pc = "sigrlSent" THEN "sigrlBack" ELSE "reportBack"
  /\ UNCHANGED <<key, wire, memory, ias, history>>

\* External: a key is revoked or renewed, at any time.
Rotate ==
  /\ rotations < Rotations
  /\ good' \in SUBSET Keys \ {good}
  /\ rotations' = rotations + 1
  /\ everBad' = everBad \union (Keys \ good')
  /\ revoked' = IF "Primary" \in good \ good' THEN revoked + 1 ELSE revoked
  /\ UNCHANGED <<conn, memory, history>>

Refuse == refused' = IF refused <= Rotations THEN refused + 1 ELSE refused

-----------------------------------------------------------------------------
(* get_sigrl *)

\* MUTANT of SigrlReturn: a 401 ends the session whatever the key.
SigrlNoFailover ==
  /\ pc = "sigrlBack"
  /\ agents' = agents - 1
  /\ \/ reply.status = 200 /\ pc' = "msg3" /\ UNCHANGED <<wire, reply, refused>>
     \/ Return /\ IF reply.status = 401 THEN Refuse ELSE UNCHANGED refused
  /\ UNCHANGED <<key, certs, ias, accepted, leaks>>

\* MUTANT of SigrlReturn: the retry does not change the key.
SigrlRetrySameKey ==
  /\ pc = "sigrlBack"
  /\ agents' = agents - 1
  /\ \/ /\ reply.status = 401 /\ key = "Primary"
        /\ pc' = "sigrl" /\ UNCHANGED <<key, wire, reply, refused>>
     \/ /\ reply.status = 401 /\ key # "Primary"
        /\ Return /\ Refuse /\ UNCHANGED key
     \/ reply.status \notin {200, 401} /\ Return /\ UNCHANGED <<key, refused>>
     \/ reply.status = 200 /\ pc' = "msg3" /\ UNCHANGED <<key, wire, reply, refused>>
  /\ UNCHANGED <<certs, ias, accepted, leaks>>

\* IAS_Request::sigrl returns, and one turn of get_sigrl's loop ends.  The
\* primary key is given up, for all sessions to come, at its first 401.
SigrlReturn ==
  /\ pc = "sigrlBack"
  /\ agents' = agents - 1
  /\ \/ /\ reply.status = 401 /\ key = "Primary"
        /\ key' = "Secondary"
        /\ pc' = "sigrl"
        /\ UNCHANGED <<wire, reply, refused>>
     \/ /\ reply.status = 401 /\ key = "Secondary"
        /\ Return /\ Refuse
        /\ UNCHANGED key
     \/ /\ \/ reply.status \notin {200, 401}
           \/ reply.status = 200        \* the list is not base64
        /\ Return
        /\ UNCHANGED <<key, refused>>
     \/ /\ reply.status = 200
        /\ pc' = "msg3"
        /\ UNCHANGED <<key, wire, reply, refused>>
  /\ UNCHANGED <<certs, ias, accepted, leaks>>

-----------------------------------------------------------------------------
(* IAS_Request::report and get_attestation_report *)

DeleteAgent == agents' = agents - 1

\* report's cleanup label.
Cleanup == DeleteAgent /\ certs' = certs - Len(reply.chain)

\* The reply is not 200: nothing is read from it.
ReportRefused ==
  /\ pc = "reportBack"
  /\ reply.status # 200
  /\ DeleteAgent
  /\ Return
  /\ IF reply.status = 401 THEN Refuse ELSE UNCHANGED refused
  /\ UNCHANGED <<key, certs, ias, accepted, leaks>>

Loaded(chain) == SelectInSeq(chain, LAMBDA c : c = "junk") - 1

\* The certificates of the header are loaded, up to the first that does not
\* load: that return frees none of those before it, nor does the one for
\* a failed malloc.
LoadChain ==
  /\ pc = "reportBack"
  /\ reply.status = 200
  /\ \/ /\ reply.chain = <<>> \/ ~reply.decodes
        /\ DeleteAgent /\ Return
        /\ UNCHANGED <<certs, leaks>>
     \/ /\ reply.decodes /\ Contains(reply.chain, "junk")
        /\ certs' = certs + Loaded(reply.chain)
        /\ leaks' = leaks \union {"chain"}
        /\ DeleteAgent /\ Return
     \/ /\ reply.chain # <<>> /\ reply.decodes /\ ~Contains(reply.chain, "junk")
        /\ certs' = certs + Len(reply.chain)
        /\ \/ pc' = "chain" /\ UNCHANGED <<wire, reply, agents, leaks>>
           \/ DeleteAgent /\ Return /\ leaks' = leaks \union {"malloc"}
  /\ UNCHANGED <<key, ias, accepted, refused>>

\* MUTANT of VerifyChain: the last certificate is the one that is verified.
VerifyLastOfChain ==
  /\ pc = "chain"
  /\ \/ /\ Last(reply.chain) = "issued" /\ pc' = "signature"
        /\ UNCHANGED <<wire, reply, memory>>
     \/ Last(reply.chain) # "issued" /\ Cleanup /\ Return
  /\ UNCHANGED <<key, ias, history>>

\* cert_stack_build and cert_verify: the first certificate, against the store.
VerifyChain ==
  /\ pc = "chain"
  /\ \/ Head(reply.chain) = "issued" /\ pc' = "signature" /\ UNCHANGED <<wire, reply, memory>>
     \/ Cleanup /\ Return          \* not verified, or OpenSSL fails
  /\ UNCHANGED <<key, ias, history>>

SignatureHolds == reply.sig = [by |-> Head(reply.chain), over |-> reply.report]

\* MUTANT of VerifySignature: the error path does not reach cleanup.
VerifySignatureKeepsCerts ==
  /\ pc = "signature"
  /\ \/ SignatureHolds /\ Cleanup /\ pc' = "version" /\ UNCHANGED <<wire, reply>>
     \/ ~SignatureHolds /\ DeleteAgent /\ Return /\ UNCHANGED certs
  /\ UNCHANGED <<key, ias, history>>

\* MUTANT of VerifySignature: the error path frees the certificates once more.
VerifySignatureFreesTwice ==
  /\ pc = "signature"
  /\ \/ SignatureHolds /\ Cleanup /\ pc' = "version" /\ UNCHANGED <<wire, reply>>
     \/ ~SignatureHolds /\ DeleteAgent /\ Return /\ certs' = certs - 2 * Len(reply.chain)
  /\ UNCHANGED <<key, ias, history>>

\* The signature header, sha256_verify with the first certificate's key, and
\* cleanup.
VerifySignature ==
  /\ pc = "signature"
  /\ Cleanup
  /\ \/ SignatureHolds /\ pc' = "version" /\ UNCHANGED <<wire, reply>>
     \/ Return                     \* it does not hold, or OpenSSL fails
  /\ UNCHANGED <<key, ias, history>>

\* get_attestation_report: a report of API version 3 on says its version, the
\* one asked for.  Then its status and the rest are read.
CheckVersion ==
  /\ pc = "version"
  /\ accepted' = IF reply.report.version = ApiVersion THEN reply ELSE NoReply
  /\ Return
  /\ UNCHANGED <<key, memory, ias, refused, leaks>>

-----------------------------------------------------------------------------
Init ==
  /\ pc = "idle" /\ key = "Primary" /\ wire = "none" /\ reply = NoReply
  /\ agents = 0 /\ certs = 0
  /\ good \in SUBSET Keys /\ rotations = 0 /\ everBad = Keys \ good
  /\ accepted = NoReply /\ refused = 0 /\ revoked = 0 /\ leaks = {}

\* The server's steps inside a session.
Serve ==
  \/ Query \/ SigrlReturn \/ ReportRefused \/ LoadChain \/ VerifyChain
  \/ VerifySignature \/ CheckVersion

Next == Session \/ Serve \/ Answer \/ Rotate

Spec == Init /\ [][Next]_vars

Fairness == WF_vars(Serve) /\ WF_vars(Answer)
FairSpec == Spec /\ Fairness

-----------------------------------------------------------------------------
(* Properties *)

\* No agent is deleted and no certificate is freed twice: the counts of both
\* never fall below zero.
TypeOK ==
  /\ pc \in {"idle", "sigrl", "sigrlSent", "sigrlBack", "msg3", "report", "reportSent",
             "reportBack", "chain", "signature", "version"}
  /\ key \in Keys /\ wire \in Keys \union {"none"}
  /\ reply \in Replies \union [status : {0, 200, 401, 404, 500}]
  /\ agents \in Nat /\ certs \in Nat
  /\ good \subseteq Keys /\ rotations \in 0 .. Rotations /\ everBad \subseteq Keys
  /\ accepted \in Replies \union {NoReply} /\ refused \in 0 .. Rotations + 1 /\ revoked \in 0 .. Rotations
  /\ leaks \subseteq {"chain", "malloc"}

\* What is read from a report was signed, as it stands, by the holder of a
\* certificate of the store's authority, for the API version in use: the checks
\* are spread over two functions, on what a session finds in its reply.
UsedReportsAreSigned ==
  accepted # NoReply =>
    /\ Head(accepted.chain) = "issued"
    /\ accepted.sig = [by |-> "issued", over |-> accepted.report]
    /\ accepted.report.version = ApiVersion

\* While IAS keeps accepting the secondary key, whatever happens to the primary
\* and when, a 401 ends a session only if the primary is revoked between the
\* session's two queries, so no more sessions than there are revocations: report
\* does not fail over, but a revocation list query that is refused does.
NoMoreRefusedThanRevoked == "Secondary" \notin everBad => refused <= revoked

\* Every return of a request deletes the agent that it allocated, once, and frees
\* each certificate at most once; certificates outlive a request only by the two
\* returns of report that go past its cleanup.
RequestsFreeWhatTheyMake ==
  /\ agents >= 0 /\ certs >= 0
  /\ pc \in {"idle", "sigrl", "msg3", "report", "version"} => agents = 0
  /\ certs > 0 /\ pc \notin {"chain", "signature"} => leaks # {}

\* Each session ends: the failover cannot send get_sigrl round for ever.
SessionsEnd == pc \notin {"idle", "msg3"} ~> pc \in {"idle", "msg3"}
==============================================================================
